---------------------------- MODULE KernelsProofs ----------------------------
(***************************************************************************)
(* Proofs about the kernels: the switch between kernels, the tee, the input*)
(* and the output, the reordering, and the chains, which are shown to      *)
(* implement the Pipe.  Each part has an inductive invariant of its own, a *)
(* step of one leaves the others, and with those of CodecProofs they are   *)
(* the invariant of all.                                                   *)
(***************************************************************************)
EXTENDS CodecProofs

----------------------------------------------------------------------------
(* KernelSwitch.                                                           *)

Loads == {"current", "loaded"}
Commits == {"loaded", "verify", "store", "swap"}

SwitchTypes ==
  /\ kernelIndex \in SwitchKernels /\ requested \in SwitchKernels /\ requests \in 0..MaxRequests
  /\ nextKernelIndex \in SwitchKernels \cup {None}
  /\ packet \in Loads \cup Commits \cup {"none", "via"}
  /\ loaded = <<Current, Wanted>> /\ Current \in SwitchKernels /\ Wanted \in SwitchKernels \cup {None}
  /\ accepted \in {"no", "maybe", "yes"}
  /\ conditional \in BOOLEAN /\ verified \in BOOLEAN /\ nextFailed \in BOOLEAN /\ usedBy \subseteq SwitchKernels

\* The last request is pending until a commit that carries it out has stored
\* it: only the packet that commits takes it from there.
RequestPending ==
  /\ nextKernelIndex # None => conditional /\ requested = nextKernelIndex
  /\ nextKernelIndex = None => requested = kernelIndex
  /\ packet \in Commits => nextKernelIndex # None /\ Wanted # None
  /\ packet = "swap" => kernelIndex = Wanted

\* Unless the next kernel fails a packet was output by the next one if that was
\* verified, and by none before it goes via the one in use.
OutputsSoFar ==
  /\ packet \in Loads => ~verified /\ ~nextFailed
  /\ packet = "via" => ~verified \/ nextFailed
  /\ packet # "none" => nextFailed \/ usedBy = (IF verified THEN {Wanted} ELSE {})
  /\ packet = "none" => nextFailed \/ \E k \in SwitchKernels : usedBy \subseteq {k}

SwitchInv == SwitchTypes /\ RequestPending /\ OutputsSoFar

\* A kernel switch starts with its invariant.
LEMMA SwitchInitially == SwitchInit => SwitchInv
<1> SUFFICES ASSUME SwitchInit  PROVE SwitchInv
  OBVIOUS
<1>1. SwitchTypes
  <2>1. loaded = <<0, None>> /\ loaded[1] = 0 /\ loaded[2] = None /\ 0 \in 0..MaxRequests
    BY SwitchAssumption DEF SwitchInit
  <2>q. QED  BY <2>1, SwitchAssumption DEF SwitchInit, SwitchTypes, Current, Wanted
<1>2. RequestPending
  BY DEF SwitchInit, RequestPending, Commits
<1>3. OutputsSoFar
  BY SwitchAssumption DEF SwitchInit, OutputsSoFar, Loads
<1>q. QED  BY <1>1, <1>2, <1>3 DEF SwitchInv

\* Every step of a switch keeps it.
LEMMA SwitchKeeps == SwitchInv /\ SwitchNext => SwitchInv'
<1> SUFFICES ASSUME SwitchInv, SwitchNext  PROVE SwitchInv'
  OBVIOUS
<1> USE DEF SwitchInv
<1>1. ASSUME NEW k \in SwitchKernels, SetKernelIndex(k)  PROVE SwitchInv'
  <2>1. k # None
    BY SwitchAssumption DEF None
  <2>2. requests' \in 0..MaxRequests
    BY <1>1, SwitchAssumption DEF SetKernelIndex, SwitchTypes
  <2>3. SwitchTypes'
    BY <1>1, <2>2 DEF SetKernelIndex, SwitchTypes, Current, Wanted
  <2>4. RequestPending'
    BY <1>1, <2>1 DEF SetKernelIndex, RequestPending, Commits, Wanted, SwitchTypes
  <2>5. OutputsSoFar'
    BY <1>1 DEF SetKernelIndex, OutputsSoFar, Wanted
  <2>q. QED  BY <2>3, <2>4, <2>5
<1>2. CASE LoadKernelIndex
  <2>1. SwitchTypes'
    BY <1>2 DEF LoadKernelIndex, SwitchTypes, Current, Wanted, Loads
  <2>2. RequestPending'
    BY <1>2 DEF LoadKernelIndex, RequestPending, Commits
  <2>3. OutputsSoFar'
    BY <1>2 DEF LoadKernelIndex, OutputsSoFar, Loads
  <2>q. QED  BY <2>1, <2>2, <2>3
<1>3. CASE LoadNextKernelIndex
  <2>1. loaded' = <<Current, nextKernelIndex>>
    BY <1>3 DEF LoadNextKernelIndex, SwitchTypes
  <2>2. SwitchTypes'
    BY <1>3, <2>1 DEF LoadNextKernelIndex, SwitchTypes, Current, Wanted, Commits
  <2>3. RequestPending'
    BY <1>3, <2>1 DEF LoadNextKernelIndex, RequestPending, Commits, Wanted
  <2>4. OutputsSoFar'
    BY <1>3 DEF LoadNextKernelIndex, OutputsSoFar, Loads
  <2>q. QED  BY <2>2, <2>3, <2>4
<1>4. CASE Decide
  <2>1. packet = "loaded" /\ packet' \in {"store", "via", "verify"}
    BY <1>4 DEF Decide
  <2>2. SwitchTypes'
    BY <1>4, <2>1 DEF Decide, SwitchTypes, Current, Wanted, Commits
  <2>3. RequestPending'
    BY <1>4, <2>1 DEF Decide, RequestPending, Commits, Wanted
  <2>4. OutputsSoFar'
    BY <1>4, <2>1 DEF Decide, OutputsSoFar, Loads, Wanted
  <2>q. QED  BY <2>2, <2>3, <2>4
<1>5. CASE VerifyOutput
  <2>1. packet = "verify" /\ Wanted \in SwitchKernels
    BY <1>5 DEF VerifyOutput, SwitchTypes, RequestPending, Commits
  <2>2. SwitchTypes'
    BY <1>5, <2>1 DEF VerifyOutput, SwitchTypes, Current, Wanted
  <2>3. RequestPending'
    BY <1>5 DEF VerifyOutput, RequestPending, Wanted
  <2>4. OutputsSoFar'
    BY <1>5, <2>1 DEF VerifyOutput, OutputsSoFar, Loads, Wanted
  <2>q. QED  BY <2>2, <2>3, <2>4
<1>6. CASE VerifyFails
  <2>1. SwitchTypes'
    BY <1>6 DEF VerifyFails, SwitchTypes, Current, Wanted
  <2>2. RequestPending'
    BY <1>6 DEF VerifyFails, RequestPending, Wanted
  <2>3. OutputsSoFar'
    BY <1>6 DEF VerifyFails, OutputsSoFar, Loads
  <2>q. QED  BY <2>1, <2>2, <2>3
<1>7. CASE AfterVerify
  <2>1. packet = "verify" /\ packet' \in {"store", "via", "none"} /\ accepted' \in {"no", "maybe", "yes"}
    BY <1>7 DEF AfterVerify, NextPacket, SwitchTypes
  <2>2. SwitchTypes'
    BY <1>7, <2>1 DEF AfterVerify, SwitchTypes, Current, Wanted, Commits
  <2>3. RequestPending'
    BY <1>7, <2>1 DEF AfterVerify, RequestPending, Commits, Wanted
  <2>4. OutputsSoFar'
    BY <1>7, <2>1 DEF AfterVerify, NextPacket, OutputsSoFar, Loads, Wanted
  <2>q. QED  BY <2>2, <2>3, <2>4
<1>8. CASE StoreKernelIndex
  <2>1. packet = "store" /\ Wanted \in SwitchKernels /\ nextKernelIndex # None
    BY <1>8 DEF StoreKernelIndex, SwitchTypes, RequestPending, Commits
  <2>2. SwitchTypes'
    BY <1>8, <2>1 DEF StoreKernelIndex, SwitchTypes, Current, Wanted, Commits
  <2>3. RequestPending'
    BY <1>8, <2>1 DEF StoreKernelIndex, RequestPending, Commits, Wanted
  <2>4. OutputsSoFar'
    BY <1>8, <2>1 DEF StoreKernelIndex, OutputsSoFar, Loads, Wanted
  <2>q. QED  BY <2>2, <2>3, <2>4
<1>9. CASE ClearNext
  <2>1. packet = "swap" /\ Wanted \in SwitchKernels /\ kernelIndex = Wanted
        /\ packet' \in {"via", "none"} /\ accepted' \in {"no", "maybe", "yes"}
    BY <1>9 DEF ClearNext, AfterCommit, NextPacket, SwitchTypes, RequestPending, Commits
  <2>2. SwitchTypes'
    BY <1>9, <2>1 DEF ClearNext, Swapped, SwitchTypes, Current, Wanted
  <2>3. RequestPending'
    BY <1>9, <2>1 DEF ClearNext, Swapped, RequestPending, Commits, Wanted
  <2>4. OutputsSoFar'
    BY <1>9, <2>1 DEF ClearNext, AfterCommit, NextPacket, OutputsSoFar, Loads, Wanted
  <2>q. QED  BY <2>2, <2>3, <2>4
<1>10. CASE SendViaKernel
  <2>1. packet = "via" /\ packet' = "none" /\ accepted' \in {"no", "maybe", "yes"} /\ Current \in SwitchKernels
    BY <1>10 DEF SendViaKernel, NextPacket, SwitchTypes
  <2>2. SwitchTypes'
    BY <1>10, <2>1 DEF SendViaKernel, SwitchTypes, Current, Wanted
  <2>3. RequestPending'
    BY <1>10, <2>1 DEF SendViaKernel, RequestPending, Commits
  <2>4. OutputsSoFar'
    BY <1>10, <2>1 DEF SendViaKernel, OutputsSoFar, Loads
  <2>q. QED  BY <2>2, <2>3, <2>4
<1>q. QED  BY <1>1, <1>2, <1>3, <1>4, <1>5, <1>6, <1>7, <1>8, <1>9, <1>10 DEF SwitchNext, HandlePacket

\* A switch with its invariant has its types, keeps the last request and outputs a
\* packet via one kernel.
LEMMA SwitchImplies == SwitchInv => SwitchTypeOK /\ SwitchSafe
<1> SUFFICES ASSUME SwitchInv  PROVE SwitchTypeOK /\ SwitchSafe
  OBVIOUS
<1>1. SwitchTypeOK
  BY DEF SwitchInv, SwitchTypes, SwitchTypeOK, Loads, Commits
<1>2. LastRequestKept
  BY DEF SwitchInv, RequestPending, LastRequestKept
<1>3. CASE nextFailed
  BY <1>1, <1>2, <1>3 DEF SwitchSafe, OneKernelPerPacket
<1>4. CASE ~nextFailed
  <2>1. PICK k : usedBy \subseteq {k}
    BY <1>4, SwitchAssumption DEF SwitchInv, OutputsSoFar
  <2>2. Cardinality({k}) = 1 /\ IsFiniteSet({k})
    BY FS_Singleton
  <2>3. Cardinality(usedBy) <= 1
    BY <2>1, <2>2, FS_Subset
  <2>4. OneKernelPerPacket
    <3>1. (~nextFailed => Cardinality(usedBy) <= 1)
      BY <2>3
    <3>2. (Cardinality(usedBy) <= 1) => OneKernelPerPacket
      BY DEF OneKernelPerPacket
    <3>3. (~nextFailed => Cardinality(usedBy) <= 1) => OneKernelPerPacket
      BY Zenon DEF OneKernelPerPacket
    <3>q. QED  BY <3>1, <3>3
  <2>q. QED  BY <1>1, <1>2, <2>4 DEF SwitchSafe
<1>q. QED  BY <1>3, <1>4

----------------------------------------------------------------------------
(* Fanout.                                                                 *)

FanoutTypes ==
  /\ fanCall \in FanoutCalls /\ branch \in [Branches -> {"run", "failed", "done"}]
  /\ errCh \subseteq failedOnes /\ failedOnes \subseteq Branches
  /\ fanCtxDone \in BOOLEAN /\ callerGone \in BOOLEAN /\ fanReturned \in BOOLEAN

\* A kernel is done once it has reported, unless the context was done; and
\* while the caller is there only a failure that is reported ends the context.
Reports ==
  /\ \A k \in Branches : branch[k] = "failed" => k \in failedOnes
  /\ \A k \in failedOnes : branch[k] = "done" => k \in errCh \/ fanCtxDone
  /\ \A k \in failedOnes : branch[k] # "run"
  /\ ~callerGone /\ fanCtxDone => fanCall \in Cancelled /\ errCh # {}
  /\ fanReturned => \A k \in Branches : branch[k] = "done"

FanoutInv == FanoutTypes /\ Reports

\* A fan-out starts with its invariant.
LEMMA FanoutInitially == FanoutInit => FanoutInv
BY DEF FanoutInit, FanoutInv, FanoutTypes, Reports

\* Every step of a fan-out keeps it.
LEMMA FanoutKeeps == FanoutInv /\ FanoutNext => FanoutInv'
<1> SUFFICES ASSUME FanoutInv, FanoutNext  PROVE FanoutInv'
  OBVIOUS
<1>1. ASSUME NEW k \in Branches, BranchReturns(k)  PROVE FanoutInv'
  BY <1>1 DEF BranchReturns, FanoutInv, FanoutTypes, Reports
<1>2. ASSUME NEW k \in Branches, BranchFails(k)  PROVE FanoutInv'
  BY <1>2 DEF BranchFails, FanoutInv, FanoutTypes, Reports
<1>3. ASSUME NEW k \in Branches, Report(k)  PROVE FanoutInv'
  <2>1. k \in failedOnes /\ fanCtxDone' \in BOOLEAN
        /\ (fanCtxDone => fanCtxDone') /\ (fanCtxDone' => fanCtxDone \/ fanCall \in Cancelled)
    BY <1>3 DEF Report, FanoutInv, FanoutTypes, Reports
  <2>2. FanoutTypes'
    BY <1>3, <2>1 DEF Report, FanoutInv, FanoutTypes
  <2>3. CASE errCh' = errCh \cup {k}
    BY <1>3, <2>1, <2>2, <2>3 DEF Report, FanoutInv, FanoutTypes, Reports
  <2>4. CASE fanCtxDone /\ errCh' = errCh
    BY <1>3, <2>1, <2>2, <2>4 DEF Report, FanoutInv, FanoutTypes, Reports
  <2>q. QED  BY <1>3, <2>3, <2>4 DEF Report
<1>4. CASE CallerGoes
  BY <1>4 DEF CallerGoes, FanoutInv, FanoutTypes, Reports
<1>5. CASE FanoutReturns
  BY <1>5 DEF FanoutReturns, FanoutInv, FanoutTypes, Reports
<1>q. QED  BY <1>1, <1>2, <1>3, <1>4, <1>5 DEF FanoutNext, BranchStep

\* A fan-out with its invariant has its types and reports its failures.
LEMMA FanoutImplies == FanoutInv => FanoutTypeOK /\ FailuresReported
<1> SUFFICES ASSUME FanoutInv  PROVE FanoutTypeOK /\ FailuresReported
  OBVIOUS
<1>1. FanoutTypeOK
  BY DEF FanoutInv, FanoutTypes, FanoutTypeOK
<1>2. ASSUME fanReturned, ~callerGone
      PROVE  (failedOnes # {} => errCh # {}) /\ (fanCall \notin Cancelled => errCh = failedOnes)
  BY <1>2 DEF FanoutInv, FanoutTypes, Reports
<1>q. QED  BY <1>1, <1>2 DEF FailuresReported

----------------------------------------------------------------------------
(* KernelChain.                                                            *)

MadeBy(i, o) == \E n \in DOMAIN Makes[i] : Makes[i][n] = o

ChainTypes ==
  /\ mode \in {"send", "generate"} /\ call \in {"idle", "run", "done", "failed"}
  /\ chainCtxDone \in BOOLEAN /\ sentOnClosed \in BOOLEAN
  /\ closedLinks \subseteq Kernels \ {0}
  /\ task \in [Tasks -> {"off", "run", "done"}] /\ hand \in [Tasks -> Nat]
  /\ generated \in [Kernels -> Nat] /\ due \subseteq Nat \ {0} /\ errors \in Nat /\ leaked \in Nat
  /\ delivered \in Seq(Nat)

\* A goroutine that has an object runs; a kernel that generates has one of its
\* own, the goroutine that feeds one has one of its kind.
Carries(t, o) ==
  /\ \E i \in Kernels : MadeBy(i, o)
  /\ IF t[2] = "gen" THEN MadeBy(t[1], o) ELSE KindOf[o] = t[2]

\* In SendInput at most one of them has one.
Hands ==
  /\ \A t \in Tasks : hand[t] # Nothing => call = "run" /\ task[t] = "run" /\ Carries(t, hand[t])
  /\ mode = "send" => \A t, u \in Tasks : hand[t] # Nothing /\ hand[u] # Nothing => t = u

\* A channel is closed when all that write to it have ended.
Closures ==
  /\ call = "idle" => closedLinks = {} /\ due = {}
  /\ call = "run" /\ 1 \in closedLinks => task[First] # "run"
  /\ call = "run" => \A i \in Kernels \ {0} : i + 1 \in closedLinks =>
       /\ \A t \in Feeders(i) : task[t] = "done"
       /\ task[<<i, "gen">>] # "run" \/ i \in ClosedEarly

\* What a call has not delivered is still carried, unless it reports an error.
AllAccounted ==
  call \in {"run", "done"} /\ errors = 0 /\ (mode = "send" => ~chainCtxDone) =>
    \A o \in due : (\E i \in DOMAIN delivered : delivered[i] = o) \/ (\E t \in Tasks : hand[t] = o)

ChainInv == ChainTypes /\ Hands /\ Closures /\ AllAccounted

\* The goroutines of a chain: the calls of the kernels and those that feed them.
LEMMA TasksAre ==
  /\ \A t \in Tasks : /\ t = <<t[1], t[2]>> /\ t[1] \in Kernels /\ t[1] \in Nat /\ t[1] < Length
                      /\ t[2] # "gen" => t[2] \in Kinds /\ t[1] # 0 /\ t \in Feeders(t[1])
                      /\ t[1] = 0 => t = First
  /\ \A i \in Kernels : <<i, "gen">> \in Tasks /\ i \in Nat
  /\ \A i \in Kernels \ {0}, k \in Kinds : <<i, k>> \in Tasks /\ <<i, k>>[2] # "gen"
  /\ First \in Tasks /\ 0 \in Kernels /\ 1 \in Kernels \ {0}
BY LengthAssumption, KindsAssumption DEF Tasks, Kernels, Feeders, First

\* They are finitely many.
LEMMA FeedersFinite == Cardinality(Tasks \ (Kernels \X {"gen"})) \in Nat
<1>1. IsFiniteSet(Kernels) /\ IsFiniteSet({"gen"}) /\ IsFiniteSet(1..(Length - 1))
  <2>1. Length - 1 \in Int /\ 0 \in Int /\ 1 \in Int
    BY LengthAssumption
  <2>q. QED  BY <2>1, FS_Interval, FS_Singleton DEF Kernels
<1>2. IsFiniteSet(Tasks)
  BY <1>1, FS_Product, FS_Union, KindsAssumption DEF Tasks
<1>q. QED  BY <1>2, FS_Difference, FS_CardinalityType

\* What a kernel makes is an object, and nobody else makes it.
LEMMA MadeOnce ==
  /\ \A i \in Kernels : \A n \in DOMAIN Makes[i] :
       Makes[i][n] \in Nat \ {0} /\ MadeBy(i, Makes[i][n]) /\ KindOf[Makes[i][n]] \in Kinds
  /\ \A i \in Kernels : Len(Makes[i]) \in Nat /\ DOMAIN Makes[i] = 1..Len(Makes[i])
  /\ \A i, j \in Kernels : \A o : MadeBy(i, o) /\ MadeBy(j, o) => i = j
<1>1. \A i \in Kernels : Makes[i] \in Seq(Nat \ {0})
  BY MakesAssumption
<1>2. \A i \in Kernels : Len(Makes[i]) \in Nat /\ DOMAIN Makes[i] = 1..Len(Makes[i])
  BY <1>1, LenProperties
<1>3. \A i \in Kernels : \A n \in DOMAIN Makes[i] : Makes[i][n] \in Nat \ {0}
  BY <1>1, <1>2, ElementOfSeq
<1>4. \A i, j \in Kernels : \A o : MadeBy(i, o) /\ MadeBy(j, o) => i = j
  BY MakesAssumption DEF MadeBy
<1>q. QED  BY <1>2, <1>3, <1>4, MakesAssumption DEF MadeBy

\* A chain starts with its invariant.
LEMMA ChainInitially == ChainInit => ChainInv
<1> SUFFICES ASSUME ChainInit  PROVE ChainInv
  OBVIOUS
<1>1. ChainTypes
  <2>1. delivered \in Seq(Nat)
    BY EmptySeq DEF ChainInit
  <2>q. QED  BY <2>1 DEF ChainInit, ChainTypes, Nothing
<1>2. Hands /\ Closures /\ AllAccounted
  BY DEF ChainInit, Hands, Closures, AllAccounted
<1>q. QED  BY <1>1, <1>2 DEF ChainInv

\* The start of a call.
LEMMA StartsKeep == ChainInv /\ (StartGenerate \/ StartSend) => ChainInv'
<1> SUFFICES ASSUME ChainInv, StartGenerate \/ StartSend  PROVE ChainInv'
  OBVIOUS
<1> USE DEF ChainInv
<1>1. CASE StartGenerate
  <2>1. \A t \in Tasks : hand[t] = Nothing
    BY <1>1 DEF StartGenerate, Hands
  <2>2. ChainTypes'
    BY <1>1 DEF StartGenerate, ChainTypes
  <2>3. Hands'
    BY <1>1, <2>1 DEF StartGenerate, Hands
  <2>4. Closures'
    <3>1. closedLinks' = {} /\ call' = "run"
      BY <1>1 DEF StartGenerate, Closures
    <3>q. QED  BY <3>1 DEF Closures
  <2>5. AllAccounted'
    <3>1. due' = {}
      BY <1>1 DEF StartGenerate, Closures
    <3>q. QED  BY <3>1 DEF AllAccounted
  <2>q. QED  BY <2>2, <2>3, <2>4, <2>5
<1>2. CASE StartSend
  <2>1. PICK n : n = generated'[0]
    OBVIOUS
  <2>2. generated[0] \in Nat /\ generated[0] < Len(Makes[0]) /\ n = generated[0] + 1
        /\ generated' \in [Kernels -> Nat]
    BY <1>2, <2>1, TasksAre DEF StartSend, ChainTypes
  <2>3. n \in DOMAIN Makes[0]
    BY <2>2, MadeOnce, TasksAre
  <2>4. PICK o : o = Makes[0][n]
    OBVIOUS
  <2>5. o \in Nat \ {0} /\ MadeBy(0, o) /\ KindOf[o] \in Kinds
    BY <2>3, <2>4, MadeOnce, TasksAre
  <2>6. due' = {o} /\ hand' = [hand EXCEPT ![First] = o] /\ call' = "run" /\ mode' = "send" /\ call # "run"
    BY <1>2, <2>1, <2>4 DEF StartSend
  <2>7. hand'[First] = o /\ (\A t \in Tasks : t # First => hand'[t] = Nothing) /\ hand' \in [Tasks -> Nat]
    BY <2>5, <2>6, TasksAre DEF Hands, ChainTypes
  <2>8. ChainTypes'
    <3>1. task' \in [Tasks -> {"off", "run", "done"}]
      BY <1>2 DEF StartSend
    <3>q. QED  BY <1>2, <2>2, <2>5, <2>6, <2>7, <3>1 DEF StartSend, ChainTypes
  <2>9. Hands'
    <3>1. task'[First] = "run"
      BY <1>2, TasksAre DEF StartSend
    <3>2. Carries(First, o)
      BY <2>5, TasksAre DEF Carries, First
    <3>q. QED  BY <2>6, <2>7, <3>1, <3>2 DEF Hands
  <2>10. Closures'
    <3>1. closedLinks' = {}
      BY <1>2 DEF StartSend
    <3>q. QED  BY <2>6, <3>1 DEF Closures
  <2>11. AllAccounted'
    BY <2>6, <2>7, TasksAre DEF AllAccounted
  <2>q. QED  BY <2>8, <2>9, <2>10, <2>11
<1>q. QED  BY <1>1, <1>2

\* A kernel generates an object, or is at the end.
LEMMA GeneratesKeeps ==
  ASSUME ChainInv, NEW i \in Kernels, Produce(i) \/ GenEnds(i)
  PROVE  ChainInv'
<1> USE DEF ChainInv
<1> DEFINE g == <<i, "gen">>
<1>0. g \in Tasks /\ g[1] = i /\ g[2] = "gen"
  BY TasksAre
<1>1. CASE Produce(i)
  <2>1. PICK n : n = generated'[i]
    OBVIOUS
  <2>2. generated[i] \in Nat /\ generated[i] < Len(Makes[i]) /\ n = generated[i] + 1
        /\ generated' \in [Kernels -> Nat]
    BY <1>1, <2>1 DEF Produce, ChainTypes
  <2>3. n \in DOMAIN Makes[i]
    BY <2>2, MadeOnce
  <2>4. PICK o : o = Makes[i][n]
    OBVIOUS
  <2>5. o \in Nat \ {0} /\ MadeBy(i, o)
    BY <2>3, <2>4, MadeOnce
  <2>6. /\ due' = due \cup {o} /\ hand' = [hand EXCEPT ![g] = o] /\ hand[g] = Nothing /\ task[g] = "run"
        /\ call = "run" /\ mode = "generate"
        /\ UNCHANGED <<mode, chainCtxDone, call, closedLinks, task, errors, leaked, delivered, sentOnClosed>>
    BY <1>1, <2>1, <2>4 DEF Produce, Idle, Runs
  <2> HIDE DEF g
  <2>7. hand'[g] = o /\ (\A t \in Tasks : t # g => hand'[t] = hand[t]) /\ hand' \in [Tasks -> Nat]
    BY <1>0, <2>5, <2>6 DEF ChainTypes
  <2>8. ChainTypes'
    BY <2>2, <2>5, <2>6, <2>7 DEF ChainTypes
  <2>9. Hands'
    <3>1. Carries(g, o)
      BY <1>0, <2>5 DEF Carries
    <3>q. QED  BY <2>6, <2>7, <3>1 DEF Hands
  <2>10. Closures'
    BY <2>6 DEF Closures
  <2>11. AllAccounted'
    <3>1. \A p : (\E t \in Tasks : hand[t] = p) => p = Nothing \/ (\E t \in Tasks : hand'[t] = p)
      BY <2>6, <2>7
    <3>2. 0 \notin due
      BY DEF ChainTypes
    <3>q. QED  BY <1>0, <2>6, <2>7, <3>1, <3>2 DEF AllAccounted, Nothing
  <2>q. QED  BY <2>8, <2>9, <2>10, <2>11
<1>2. CASE GenEnds(i)
  <2>1. /\ task' = [task EXCEPT ![g] = "done"] /\ hand[g] = Nothing /\ task[g] = "run" /\ call = "run"
        /\ closedLinks' = (IF g = First THEN closedLinks \cup {1} ELSE closedLinks)
        /\ UNCHANGED <<mode, call, hand, generated, due, leaked, delivered, sentOnClosed>>
    BY <1>2 DEF GenEnds, Idle, Runs, End, CloseAfter
  <2>2. \/ UNCHANGED <<chainCtxDone, errors>>
        \/ mode = "generate" /\ chainCtxDone' = TRUE /\ errors' = errors + 1
    BY <1>2 DEF GenEnds
  <2> HIDE DEF g
  <2>3. task'[g] = "done" /\ (\A t \in Tasks : t # g => task'[t] = task[t])
        /\ task' \in [Tasks -> {"off", "run", "done"}]
    BY <1>0, <2>1 DEF ChainTypes
  <2>4. ChainTypes'
    <3>1. closedLinks' \subseteq Kernels \ {0}
      BY <2>1, TasksAre DEF ChainTypes
    <3>2. errors' \in Nat
      BY <2>2 DEF ChainTypes
    <3>3. chainCtxDone' \in BOOLEAN
      BY <2>2 DEF ChainTypes
    <3>q. QED  BY <2>1, <2>3, <3>1, <3>2, <3>3 DEF ChainTypes
  <2>5. Hands'
    BY <2>1, <2>3 DEF Hands
  <2>6. Closures'
    <3>1. \A j \in Kernels \ {0} : j + 1 \in closedLinks' => j + 1 \in closedLinks
      <4>1. \A j \in Kernels \ {0} : j + 1 # 1
        BY LengthAssumption DEF Kernels
      <4>q. QED  BY <2>1, <4>1
    <3>2. \A t \in Tasks : task'[t] = "run" => task[t] = "run"
      BY <2>3
    <3>3. \A t \in Tasks : task[t] = "done" => task'[t] = "done"
      BY <2>3
    <3>4. \A j \in Kernels \ {0} : Feeders(j) \subseteq Tasks
      BY TasksAre DEF Feeders
    <3>5. 1 \in closedLinks' => task'[First] # "run"
      BY <2>1, <2>3, <3>2, TasksAre DEF Closures
    <3>q. QED  BY <2>1, <3>1, <3>2, <3>3, <3>4, <3>5, TasksAre DEF Closures
  <2>7. AllAccounted'
    <3>1. errors' = 0 => errors = 0
      BY <2>2 DEF ChainTypes
    <3>2. (mode = "send" => ~chainCtxDone') => (mode = "send" => ~chainCtxDone)
      BY <2>2
    <3>q. QED  BY <2>1, <3>1, <3>2 DEF AllAccounted
  <2>q. QED  BY <2>4, <2>5, <2>6, <2>7
<1>q. QED  BY <1>1, <1>2

\* An object goes on, out of the chain or to the goroutine that feeds the next
\* kernel.
LEMMA PassOnKeeps ==
  ASSUME ChainInv, NEW t \in Tasks, PassOn(t)
  PROVE  ChainInv'
<1> USE DEF ChainInv
<1>1. /\ call = "run" /\ task[t] = "run" /\ hand[t] # Nothing
      /\ UNCHANGED <<mode, chainCtxDone, call, closedLinks, task, generated, due, errors, leaked, sentOnClosed>>
  BY DEF PassOn, Holds, Runs
<1>2. PICK o \in Nat : o = hand[t]
  BY DEF ChainTypes
<1>3. Carries(t, o) /\ o # Nothing
  BY <1>1, <1>2 DEF Hands
<1>4. Closures'
  BY <1>1 DEF Closures
<1>5. CASE delivered' = Append(delivered, o) /\ hand' = [hand EXCEPT ![t] = Nothing]
  <2>1. delivered' \in Seq(Nat) /\ Len(delivered') = Len(delivered) + 1 /\ delivered'[Len(delivered) + 1] = o
        /\ (\A i \in 1..Len(delivered) : delivered'[i] = delivered[i]) /\ Len(delivered) \in Nat
        /\ DOMAIN delivered = 1..Len(delivered)
    BY <1>5, AppendProperties, LenProperties DEF ChainTypes
  <2>2. DOMAIN delivered' = 1..Len(delivered) + 1
    BY <2>1, LenProperties
  <2>3. (\A u \in Tasks : u # t => hand'[u] = hand[u]) /\ hand'[t] = Nothing /\ hand' \in [Tasks -> Nat]
    BY <1>5 DEF ChainTypes, Nothing
  <2>4. ChainTypes'
    BY <1>1, <2>1, <2>3 DEF ChainTypes
  <2>5. Hands'
    BY <1>1, <2>3 DEF Hands
  <2>6. \A p : (\E i \in DOMAIN delivered : delivered[i] = p) \/ (\E u \in Tasks : hand[u] = p) =>
                 (\E i \in DOMAIN delivered' : delivered'[i] = p) \/ (\E u \in Tasks : hand'[u] = p)
    <3>1. \A i \in 1..Len(delivered) : i \in DOMAIN delivered'
      BY <2>1, <2>2
    <3>2. Len(delivered) + 1 \in DOMAIN delivered'
      BY <2>1, <2>2
    <3>q. QED  BY <1>2, <2>1, <2>3, <3>1, <3>2
  <2>7. AllAccounted'
    BY <1>1, <2>6 DEF AllAccounted
  <2>q. QED  BY <1>4, <2>4, <2>5, <2>7
<1>6. ASSUME NEW r \in Feeders(t[1] + 1), t[1] + 1 < Length, r = <<t[1] + 1, KindOf[o]>>, Idle(r),
             hand' = [hand EXCEPT ![t] = Nothing, ![r] = o], delivered' = delivered
      PROVE  ChainInv'
  <2>1. r \in Tasks /\ r[2] = KindOf[o] /\ r[2] # "gen"
    <3>1. t[1] + 1 \in Kernels \ {0}
      BY <1>6, TasksAre, LengthAssumption DEF Kernels
    <3>2. KindOf[o] \in Kinds
      BY <1>3, MadeOnce DEF Carries, MadeBy
    <3>q. QED  BY <1>6, <3>1, <3>2, TasksAre
  <2>2. task[r] = "run" /\ hand[r] = Nothing /\ r # t
    BY <1>1, <1>6 DEF Idle, Runs
  <2>3. /\ hand' \in [Tasks -> Nat] /\ hand'[r] = o /\ hand'[t] = Nothing
        /\ \A u \in Tasks : u # r /\ u # t => hand'[u] = hand[u]
    <3>1. hand \in [Tasks -> Nat] /\ Nothing \in Nat
      BY DEF ChainTypes, Nothing
    <3>q. QED  BY <1>6, <2>1, <2>2, <3>1
  <2>4. ChainTypes'
    BY <1>1, <1>6, <2>3 DEF ChainTypes
  <2>5. Hands'
    <3>1. Carries(r, o)
      BY <1>3, <2>1 DEF Carries
    <3>2. \A u \in Tasks : hand'[u] # Nothing => u = r \/ (u # t /\ hand[u] # Nothing /\ hand'[u] = hand[u])
      BY <2>3
    <3>3. \A u \in Tasks : hand'[u] # Nothing => call = "run" /\ task[u] = "run" /\ Carries(u, hand'[u])
      BY <1>1, <2>2, <2>3, <3>1, <3>2 DEF Hands
    <3>4. mode = "send" => \A u \in Tasks : hand'[u] # Nothing => u = r
      BY <1>1, <2>3 DEF Hands
    <3>q. QED  BY <1>1, <3>3, <3>4 DEF Hands
  <2>6. \A p : (\E u \in Tasks : hand[u] = p) => p = Nothing \/ (\E u \in Tasks : hand'[u] = p)
    BY <1>2, <2>1, <2>2, <2>3
  <2>7. 0 \notin due
    BY DEF ChainTypes
  <2>8. AllAccounted'
    BY <1>1, <1>6, <2>6, <2>7 DEF AllAccounted, Nothing
  <2>q. QED  BY <1>4, <2>4, <2>5, <2>8
<1>7. \/ delivered' = Append(delivered, o) /\ hand' = [hand EXCEPT ![t] = Nothing]
      \/ \E r \in Readers(t[1] + 1, KindOf[o]) :
           t[1] + 1 < Length /\ Idle(r) /\ hand' = [hand EXCEPT ![t] = Nothing, ![r] = o] /\ delivered' = delivered
  BY <1>2, Zenon DEF PassOn, Drop
<1>8. ASSUME t[1] + 1 < Length  PROVE <<t[1] + 1, KindOf[o]>> \in Feeders(t[1] + 1)
  <2>1. KindOf[o] \in Kinds
    BY <1>3, MadeOnce DEF Carries, MadeBy
  <2>q. QED  BY <2>1 DEF Feeders
<1>q. QED  BY <1>5, <1>6, <1>7, <1>8 DEF Readers

\* Nobody sends on a closed channel, where a kernel whose outputs are closed
\* early generates nothing.
LEMMA NeverOnClosed ==
  ASSUME ChainInv, \A i \in ClosedEarly : Makes[i] = <<>>, NEW t \in Tasks, Holds(t)
  PROVE  t[1] + 1 \notin closedLinks
<1> USE DEF ChainInv
<1> SUFFICES ASSUME t[1] + 1 \in closedLinks  PROVE FALSE
  OBVIOUS
<1>1. call = "run" /\ task[t] = "run" /\ hand[t] # Nothing /\ Carries(t, hand[t])
  BY DEF Holds, Runs, Hands
<1>2. CASE t[1] = 0
  <2>1. t = First /\ 1 \in closedLinks
    BY <1>2, TasksAre
  <2>q. QED  BY <1>1, <2>1 DEF Closures
<1>3. CASE t[1] # 0
  <2>1. t[1] \in Kernels \ {0}
    BY <1>3, TasksAre
  <2>2. t \notin Feeders(t[1])
    BY <1>1, <2>1 DEF Closures
  <2>3. t = <<t[1], "gen">> /\ t[2] = "gen"
    BY <2>2, TasksAre
  <2>4. t[1] \in ClosedEarly
    BY <1>1, <2>1, <2>3 DEF Closures
  <2>5. MadeBy(t[1], hand[t])
    BY <1>1, <2>3 DEF Carries
  <2>6. PICK n \in DOMAIN Makes[t[1]] : TRUE
    BY <2>5 DEF MadeBy
  <2>7. Makes[t[1]] = <<>>
    BY <2>4
  <2>q. QED  BY <2>6, <2>7
<1>q. QED  BY <1>2, <1>3

\* A goroutine that fails drops what it has: in Generate it ends, in SendInput it
\* goes on or ends, and a failure of the first kernel ends the call.
LEMMA FailuresKeep ==
  ASSUME ChainInv, NEW t \in Tasks, Fail(t) \/ FeedFails(t) \/ (FirstFails /\ t = First)
  PROVE  ChainInv'
<1> USE DEF ChainInv
<1>1. /\ hand[t] # Nothing /\ call = "run" /\ task[t] = "run" /\ hand' = [hand EXCEPT ![t] = Nothing]
      /\ UNCHANGED <<mode, generated, due, delivered, sentOnClosed>>
  BY DEF Fail, FeedFails, FirstFails, MayFail, Holds, Runs, Drop
<1>2. (\A u \in Tasks : u # t => hand'[u] = hand[u]) /\ hand'[t] = Nothing /\ hand' \in [Tasks -> Nat]
  BY <1>1 DEF ChainTypes, Nothing
<1>3. CASE Fail(t)
  <2>1. /\ task' = [task EXCEPT ![t] = "done"] /\ errors' = errors + 1 /\ chainCtxDone' = TRUE
        /\ closedLinks' = (IF t = First THEN closedLinks \cup {1} ELSE closedLinks)
        /\ UNCHANGED <<call, leaked>>
    BY <1>3 DEF Fail, End, CloseAfter
  <2>2. task'[t] = "done" /\ (\A u \in Tasks : u # t => task'[u] = task[u])
        /\ task' \in [Tasks -> {"off", "run", "done"}]
    BY <2>1 DEF ChainTypes
  <2>3. errors' \in Nat /\ errors' # 0
    BY <2>1 DEF ChainTypes
  <2>4. ChainTypes'
    <3>1. closedLinks' \subseteq Kernels \ {0}
      BY <2>1, TasksAre DEF ChainTypes
    <3>q. QED  BY <1>1, <1>2, <2>1, <2>2, <2>3, <3>1 DEF ChainTypes
  <2>5. Hands'
    BY <1>1, <1>2, <2>1, <2>2 DEF Hands
  <2>6. Closures'
    <3>1. \A j \in Kernels \ {0} : j + 1 \in closedLinks' => j + 1 \in closedLinks
      <4>1. \A j \in Kernels \ {0} : j + 1 # 1
        BY LengthAssumption DEF Kernels
      <4>q. QED  BY <2>1, <4>1
    <3>2. \A u \in Tasks : task'[u] = "run" => task[u] = "run"
      BY <2>2
    <3>3. \A u \in Tasks : task[u] = "done" => task'[u] = "done"
      BY <2>2
    <3>4. \A j \in Kernels \ {0} : Feeders(j) \subseteq Tasks
      BY TasksAre DEF Feeders
    <3>5. 1 \in closedLinks' => task'[First] # "run"
      BY <1>1, <2>1, <2>2, <3>2, TasksAre DEF Closures
    <3>q. QED  BY <1>1, <2>1, <3>1, <3>2, <3>3, <3>4, <3>5, TasksAre DEF Closures
  <2>7. AllAccounted'
    BY <2>3 DEF AllAccounted
  <2>q. QED  BY <2>4, <2>5, <2>6, <2>7
<1>4. CASE FeedFails(t)
  <2>1. mode = "send" /\ UNCHANGED <<chainCtxDone, call, closedLinks, leaked>>
    BY <1>4 DEF FeedFails
  <2>2. \/ errors' = errors + 1 /\ task' = task
        \/ chainCtxDone /\ task' = [task EXCEPT ![t] = "done"] /\ errors' = errors
    BY <1>4 DEF FeedFails, End
  <2>3. /\ task' \in [Tasks -> {"off", "run", "done"}]
        /\ \A u \in Tasks : task'[u] = task[u] \/ task'[u] = "done"
        /\ \A u \in Tasks : u # t => task'[u] = task[u]
    BY <2>2 DEF ChainTypes
  <2>4. errors' \in Nat /\ (errors' # 0 \/ chainCtxDone)
    BY <2>2 DEF ChainTypes
  <2>5. ChainTypes'
    BY <1>1, <1>2, <2>1, <2>3, <2>4 DEF ChainTypes
  <2>6. Hands'
    BY <1>1, <1>2, <2>1, <2>3 DEF Hands
  <2>7. Closures'
    <3>1. \A j \in Kernels \ {0} : Feeders(j) \subseteq Tasks
      BY TasksAre DEF Feeders
    <3>q. QED  BY <1>1, <2>1, <2>3, <3>1, TasksAre DEF Closures
  <2>8. AllAccounted'
    BY <1>1, <2>1, <2>4 DEF AllAccounted
  <2>q. QED  BY <2>5, <2>6, <2>7, <2>8
<1>5. CASE FirstFails /\ t = First
  <2>1. mode = "send" /\ call' = "failed" /\ UNCHANGED <<chainCtxDone, closedLinks, task, errors>>
        /\ leaked' = leaked + Cardinality(Tasks \ (Kernels \X {"gen"}))
    BY <1>5 DEF FirstFails
  <2>2. \A u \in Tasks : hand'[u] = Nothing
    BY <1>1, <1>2, <2>1 DEF Hands
  <2>3. Hands' /\ Closures' /\ AllAccounted'
    BY <2>1, <2>2 DEF Hands, Closures, AllAccounted
  <2>4. leaked' \in Nat
    BY <2>1, FeedersFinite DEF ChainTypes
  <2>5. ChainTypes'
    BY <1>1, <1>2, <2>1, <2>4 DEF ChainTypes
  <2>q. QED  BY <2>3, <2>5
<1>q. QED  BY <1>3, <1>4, <1>5

\* A goroutine that feeds a kernel ends, a channel is closed, the call returns, or
\* its context ends.
LEMMA EndsKeep ==
  ASSUME ChainInv,
         \/ \E t \in Tasks : FeederEnds(t)
         \/ \E i \in Kernels \ {0} : CloseStage(i)
         \/ ChainReturns \/ CancelChain
  PROVE  ChainInv'
<1> USE DEF ChainInv
<1>0. UNCHANGED <<mode, hand, generated, due, errors, leaked, delivered, sentOnClosed>>
  BY DEF FeederEnds, CloseStage, ChainReturns, CancelChain
<1>1. ASSUME NEW t \in Tasks, FeederEnds(t)  PROVE ChainInv'
  <2>1. task' = [task EXCEPT ![t] = "done"] /\ hand[t] = Nothing /\ UNCHANGED <<chainCtxDone, call, closedLinks>>
    BY <1>1 DEF FeederEnds, Idle, End
  <2>2. task'[t] = "done" /\ (\A u \in Tasks : u # t => task'[u] = task[u])
        /\ task' \in [Tasks -> {"off", "run", "done"}]
    BY <2>1 DEF ChainTypes
  <2>3. ChainTypes'
    BY <1>0, <2>1, <2>2 DEF ChainTypes
  <2>4. Hands'
    BY <1>0, <2>1, <2>2 DEF Hands
  <2>5. Closures'
    <3>1. \A j \in Kernels \ {0} : Feeders(j) \subseteq Tasks
      BY TasksAre DEF Feeders
    <3>2. \A u \in Tasks : task'[u] = task[u] \/ task'[u] = "done"
      BY <2>2
    <3>q. QED  BY <1>0, <2>1, <3>1, <3>2, TasksAre DEF Closures
  <2>6. AllAccounted'
    BY <1>0, <2>1 DEF AllAccounted
  <2>q. QED  BY <2>3, <2>4, <2>5, <2>6
<1>2. ASSUME NEW i \in Kernels \ {0}, CloseStage(i)  PROVE ChainInv'
  <2>1. /\ call = "run" /\ closedLinks' = closedLinks \cup {i + 1} /\ i + 1 < Length
        /\ (\A t \in Feeders(i) : task[t] = "done")
        /\ task[<<i, "gen">>] \in {"off", "done"} \/ i \in ClosedEarly
        /\ UNCHANGED <<chainCtxDone, call, task>>
    BY <1>2 DEF CloseStage
  <2>2. i + 1 \in Kernels \ {0} /\ i + 1 # 1 /\ \A j \in Kernels \ {0} : j + 1 = i + 1 => j = i
    BY <2>1, LengthAssumption DEF Kernels
  <2>3. ChainTypes'
    BY <1>0, <2>1, <2>2 DEF ChainTypes
  <2>4. Hands'
    BY <1>0, <2>1 DEF Hands
  <2>5. Closures'
    <3>1. \A j \in Kernels \ {0} : j + 1 \in closedLinks' => j + 1 \in closedLinks \/ j = i
      BY <2>1, <2>2
    <3>2. 1 \in closedLinks' => 1 \in closedLinks
      BY <2>1, <2>2
    <3>q. QED  BY <1>0, <2>1, <3>1, <3>2 DEF Closures
  <2>6. AllAccounted'
    BY <1>0, <2>1 DEF AllAccounted
  <2>q. QED  BY <2>3, <2>4, <2>5, <2>6
<1>3. CASE ChainReturns
  <2>1. call' = "done" /\ call = "run" /\ (\A t \in Tasks : task[t] # "run") /\ UNCHANGED <<chainCtxDone, closedLinks, task>>
    BY <1>3 DEF ChainReturns
  <2>2. \A t \in Tasks : hand'[t] = Nothing
    BY <1>0, <2>1 DEF Hands
  <2>3. ChainTypes'
    BY <1>0, <2>1 DEF ChainTypes
  <2>4. Hands'
    BY <2>2 DEF Hands
  <2>5. Closures'
    BY <2>1 DEF Closures
  <2>6. AllAccounted'
    BY <1>0, <2>1 DEF AllAccounted
  <2>q. QED  BY <2>3, <2>4, <2>5, <2>6
<1>4. CASE CancelChain
  <2>1. chainCtxDone' = TRUE /\ UNCHANGED <<call, closedLinks, task>>
    BY <1>4 DEF CancelChain
  <2>2. ChainTypes'
    BY <1>0, <2>1 DEF ChainTypes
  <2>3. Hands'
    BY <1>0, <2>1 DEF Hands
  <2>4. Closures'
    BY <1>0, <2>1 DEF Closures
  <2>5. AllAccounted'
    BY <1>0, <2>1 DEF AllAccounted
  <2>q. QED  BY <2>2, <2>3, <2>4, <2>5
<1>q. QED  BY <1>1, <1>2, <1>3, <1>4

\* Every step of a chain keeps its invariant.
LEMMA ChainKeeps == ChainInv /\ ChainNext => ChainInv'
<1> SUFFICES ASSUME ChainInv, ChainNext  PROVE ChainInv'
  OBVIOUS
<1>1. ASSUME NEW t \in Tasks, SendOnClosed(t)  PROVE ChainInv'
  BY <1>1 DEF SendOnClosed, ChainInv, ChainTypes, Hands, Closures, AllAccounted
<1>2. CASE SendingStep
  BY <1>2, StartsKeep, FailuresKeep, TasksAre DEF SendingStep
<1>3. CASE GeneratingStep
  BY <1>3, StartsKeep, GeneratesKeeps, FailuresKeep DEF GeneratingStep
<1>4. ASSUME NEW t \in Tasks, TaskStep(t)  PROVE ChainInv'
  BY <1>1, <1>4, PassOnKeeps, EndsKeep DEF TaskStep
<1>q. QED  BY <1>2, <1>3, <1>4, EndsKeep DEF ChainNext

\* A chain with its invariant has its types and reports what it loses.
LEMMA ChainImplies == ChainInv => ChainTypeOK /\ LossIsReported
<1> SUFFICES ASSUME ChainInv  PROVE ChainTypeOK /\ LossIsReported
  OBVIOUS
<1>1. ChainTypeOK
  BY DEF ChainInv, ChainTypes, ChainTypeOK
<1>2. LossIsReported
  <2>1. call = "done" => \A t \in Tasks : hand[t] = Nothing
    BY DEF ChainInv, Hands
  <2>2. 0 \notin due
    BY DEF ChainInv, ChainTypes
  <2>q. QED  BY <2>1, <2>2 DEF ChainInv, AllAccounted, LossIsReported, Nothing
<1>q. QED  BY <1>1, <1>2

\* The panic of a send on a closed channel does not come, where a kernel whose
\* outputs are closed early generates nothing.
LEMMA ChainNeverPanics ==
  ASSUME ChainInv, \A i \in ClosedEarly : Makes[i] = <<>>, NoSendOnClosedLink, ChainNext
  PROVE  NoSendOnClosedLink'
<1>1. ASSUME NEW t \in Tasks, SendOnClosed(t)  PROVE FALSE
  BY <1>1, NeverOnClosed DEF SendOnClosed
<1>q. QED
  BY <1>1 DEF NoSendOnClosedLink, ChainNext, SendingStep, StartSend, FirstFails, FeedFails, GeneratingStep,
     StartGenerate, Produce, GenEnds, Fail, ChainReturns, CancelChain, CloseStage, TaskStep, PassOn, FeederEnds

----------------------------------------------------------------------------
(* A chain is a pipe.                                                      *)

\* A set of natural numbers has a least one.  Induction on a number is by the
\* least counterexample, since its predicate is written out in each proof.
LEMMA Least ==
  ASSUME NEW T, T \subseteq Nat, T # {}
  PROVE  \E n \in T : \A m \in T : n <= m
<1> DEFINE W == {0..n : n \in T}
<1>1. W \subseteq FiniteSubsetsOf(Nat) /\ W # {}
  <2>1. \A n \in Nat : IsFiniteSet(0..n) /\ 0..n \in SUBSET Nat
    BY FS_Interval
  <2>q. QED  BY <2>1 DEF FiniteSubsetsOf
<1>2. PICK x \in W : \A y \in W : ~ (<<y, x>> \in StrictSubsetOrdering(Nat))
  <2> HIDE DEF W
  <2>1. IsWellFoundedOn(StrictSubsetOrdering(Nat), FiniteSubsetsOf(Nat))
    BY FS_StrictSubsetOrderingWellFounded
  <2>q. QED  BY <1>1, <2>1, WFMin
<1>3. PICK n \in T : x = 0..n
  OBVIOUS
<1>4. ASSUME NEW m \in T, ~ (n <= m)  PROVE FALSE
  <2>1. 0..m \in W /\ <<0..m, 0..n>> \notin StrictSubsetOrdering(Nat)
    BY <1>2, <1>3
  <2>2. n \in 0..n /\ n \notin 0..m /\ 0..m \subseteq 0..n /\ 0..n \subseteq Nat
    BY <1>4
  <2>q. QED  BY <2>1, <2>2 DEF StrictSubsetOrdering
<1>q. QED  BY <1>4

\* Concatenation of sequences of objects is associative.
LEMMA Associates == \A s, t, u \in Seq(Nat) : s \o (t \o u) = (s \o t) \o u
<1> SUFFICES ASSUME NEW s \in Seq(Nat), NEW t \in Seq(Nat), NEW u \in Seq(Nat)
             PROVE  s \o (t \o u) = (s \o t) \o u
  OBVIOUS
<1>1. (s \o t) \o u = s \o (t \o u)
  BY ConcatAssociative
<1>q. QED  BY <1>1

\* What the kernels up to each of them hold, the last one's first.
IsUpTo(f, held, n) == f = [i \in 0..n |-> IF i = 0 THEN <<>> ELSE held[i] \o f[i - 1]]
Holdings == [Kernels \ {0} -> Seq(Nat)]

\* The recursion of Stacked defines a function ...
LEMMA StackedRecurs ==
  ASSUME NEW held
  PROVE  \E f : Stacked(held) = f[Length - 1] /\ IsUpTo(f, held, Length - 1)
<1> DEFINE Body(f, i) == IF i = 0 THEN <<>> ELSE held[i] \o f[i - 1]
           IsRec(f, n) == f = [i \in 0..n |-> Body(f, i)]
           Good(n) == \E f : IsRec(f, n)
           Bad == {n \in Kernels : ~Good(n)}
<1>1. Length - 1 \in Nat
  BY LengthAssumption
<1>2. Good(0)
  <2>1. IsRec([i \in 0..0 |-> <<>>], 0)
    OBVIOUS
  <2>q. QED  BY <2>1
<1>3. ASSUME NEW n \in 1..(Length - 1), Good(n - 1)  PROVE Good(n)
  <2>1. PICK f : IsRec(f, n - 1)
    BY <1>3
  <2> DEFINE g == [i \in 0..n |-> IF i = n THEN Body(f, n) ELSE f[i]]
  <2>2. n \in Nat /\ n - 1 \in 0..n - 1 /\ n # 0 /\ n \in 0..n
    BY <1>1
  <2>3. g[n] = Body(f, n) /\ \A i \in 0..n - 1 : g[i] = f[i]
    <3> HIDE DEF Body
    <3>q. QED  BY <2>2
  <2>4. \A i \in 0..n - 1 : f[i] = Body(f, i)
    BY <2>1, Zenon
  <2>5. \A i \in 0..n - 1 : i = 0 \/ i - 1 \in 0..n - 1
    BY <2>2
  <2>6. ASSUME NEW i \in 0..n  PROVE g[i] = Body(g, i)
    <3> HIDE DEF g
    <3>1. CASE i = n
      BY <3>1, <2>2, <2>3
    <3>2. CASE i # n
      <4>1. i \in 0..n - 1
        BY <3>2, <2>2
      <4>q. QED  BY <4>1, <2>3, <2>4, <2>5
    <3>q. QED  BY <3>1, <3>2
  <2>7. g = [i \in 0..n |-> g[i]]
    OBVIOUS
  <2>8. IsRec(g, n)
    <3> HIDE DEF g
    <3>q. QED  BY <2>6, <2>7
  <2>q. QED  BY <2>8
<1>4. Bad = {}
  <2> HIDE DEF Good
  <2>1. Bad \subseteq Nat
    BY LengthAssumption DEF Kernels
  <2>2. ASSUME NEW n \in Bad, \A m \in Bad : n <= m  PROVE FALSE
    <3>1. n \in 1..(Length - 1) /\ n - 1 \in Kernels /\ n - 1 \notin Bad
      BY <2>2, <1>1, <1>2 DEF Kernels
    <3>q. QED  BY <2>2, <3>1, <1>3
  <2>q. QED
    <3> HIDE DEF Bad
    <3>q. QED  BY <2>1, <2>2, Least
<1>5. Good(Length - 1)
  <2> HIDE DEF Good
  <2>q. QED  BY <1>1, <1>4 DEF Kernels
<1>6. PICK f : f = (CHOOSE g : IsRec(g, Length - 1))
  OBVIOUS
<1>7. IsRec(f, Length - 1) /\ Stacked(held) = f[Length - 1]
  BY <1>5, <1>6, Zenon DEF Stacked, Kernels
<1>q. QED  BY <1>7, Zenon DEF IsUpTo

\* ... whose values are sequences.
LEMMA UpToTyped ==
  ASSUME NEW held \in Holdings, NEW f, IsUpTo(f, held, Length - 1)
  PROVE  /\ f[0] = <<>>
         /\ \A i \in Kernels : f[i] \in Seq(Nat)
         /\ \A i \in Kernels \ {0} : i - 1 \in Kernels /\ f[i] = held[i] \o f[i - 1] /\ held[i] \in Seq(Nat)
<1> DEFINE Bad == {i \in Kernels : f[i] \notin Seq(Nat)}
<1>1. \A i \in Kernels : f[i] = IF i = 0 THEN <<>> ELSE held[i] \o f[i - 1]
  BY Zenon DEF IsUpTo, Kernels
<1>2. 0 \in Kernels /\ Kernels \subseteq Nat /\ \A i \in Kernels \ {0} : i - 1 \in Kernels /\ i - 1 < i
  BY LengthAssumption DEF Kernels
<1>3. f[0] = <<>> /\ f[0] \in Seq(Nat)
  BY <1>1, <1>2, EmptySeq
<1>4. \A i \in Kernels \ {0} : f[i] = held[i] \o f[i - 1] /\ held[i] \in Seq(Nat)
  BY <1>1 DEF Holdings
<1>5. Bad = {}
  <2>1. Bad \subseteq Nat
    BY <1>2
  <2>2. ASSUME NEW n \in Bad, \A m \in Bad : n <= m  PROVE FALSE
    <3>1. n \in Kernels \ {0} /\ n - 1 \in Kernels /\ n - 1 < n /\ n \in Nat
      BY <1>2, <1>3
    <3>2. n - 1 \notin Bad
      <4>1. ~ (n <= n - 1)
        BY <3>1
      <4>q. QED  BY <2>2, <4>1
    <3>3. f[n - 1] \in Seq(Nat) /\ held[n] \in Seq(Nat) /\ f[n] = held[n] \o f[n - 1]
      BY <3>1, <3>2, <1>4
    <3>q. QED  BY <3>3, ConcatProperties
  <2>q. QED
    <3> HIDE DEF Bad
    <3>q. QED  BY <2>1, <2>2, Least
<1>q. QED  BY <1>2, <1>3, <1>4, <1>5

SameOnTop(f, g, p) ==
  \A n \in Kernels : n >= p =>
    \E s \in Seq(Nat) : f[n] = s \o f[p] /\ g[n] = s \o g[p] /\ (n = p => s = <<>>)

\* Where two holdings agree behind a kernel they have the same before it.
LEMMA SameAbove ==
  ASSUME NEW held \in Holdings, NEW f, IsUpTo(f, held, Length - 1),
         NEW later \in Holdings, NEW g, IsUpTo(g, later, Length - 1),
         NEW p \in Kernels, \A i \in Kernels : i > p => held[i] = later[i]
  PROVE  SameOnTop(f, g, p)
<1> DEFINE Good(n) == \E s \in Seq(Nat) : f[n] = s \o f[p] /\ g[n] = s \o g[p] /\ (n = p => s = <<>>)
           Bad == {n \in Kernels : n >= p /\ ~Good(n)}
<1>1. /\ \A i \in Kernels : f[i] \in Seq(Nat) /\ g[i] \in Seq(Nat)
      /\ \A i \in Kernels \ {0} : i - 1 \in Kernels /\ f[i] = held[i] \o f[i - 1] /\ g[i] = later[i] \o g[i - 1]
                                 /\ held[i] \in Seq(Nat)
  BY UpToTyped
<1>2. Kernels \subseteq Nat
  BY LengthAssumption DEF Kernels
<1>3. Good(p)
  <2>1. <<>> \in Seq(Nat) /\ f[p] = <<>> \o f[p] /\ g[p] = <<>> \o g[p]
    BY <1>1, EmptySeq, ConcatEmptySeq
  <2>q. QED  BY <2>1
<1>4. ASSUME NEW n \in Kernels, n > p, Good(n - 1)  PROVE Good(n)
  <2>1. n \in Kernels \ {0} /\ n # p /\ held[n] = later[n]
    BY <1>2, <1>4
  <2>2. PICK s \in Seq(Nat) : f[n - 1] = s \o f[p] /\ g[n - 1] = s \o g[p]
    BY <1>4
  <2>3. f[n] = held[n] \o (s \o f[p]) /\ g[n] = held[n] \o (s \o g[p]) /\ held[n] \in Seq(Nat)
    BY <1>1, <2>1, <2>2
  <2>0. held[n] \in Seq(Nat) /\ f[p] \in Seq(Nat) /\ g[p] \in Seq(Nat)
    BY <1>1, <2>3
  <2>4. held[n] \o (s \o f[p]) = (held[n] \o s) \o f[p]
    BY <2>0, Associates
  <2>5. held[n] \o (s \o g[p]) = (held[n] \o s) \o g[p]
    BY <2>0, Associates
  <2>6. held[n] \o s \in Seq(Nat)
    BY <2>3, ConcatProperties
  <2>q. QED  BY <2>1, <2>3, <2>4, <2>5, <2>6
<1>5. Bad = {}
  <2> HIDE DEF Good
  <2>1. Bad \subseteq Nat
    BY <1>2
  <2>2. ASSUME NEW n \in Bad, \A m \in Bad : n <= m  PROVE FALSE
    <3>1. n \in Kernels /\ n \in Nat /\ p \in Nat /\ n >= p /\ n # p
      BY <1>2, <1>3
    <3>2. n - 1 \in Kernels /\ n - 1 >= p /\ n > p /\ ~ (n <= n - 1)
      BY <3>1, LengthAssumption DEF Kernels
    <3>q. QED  BY <2>2, <3>1, <3>2, <1>4
  <2>q. QED
    <3> HIDE DEF Bad
    <3>q. QED  BY <2>1, <2>2, Least
<1>q. QED  BY <1>5 DEF SameOnTop

\* Where two holdings agree up to a kernel they have the same up to there.
LEMMA SameBelow ==
  ASSUME NEW held \in Holdings, NEW f, IsUpTo(f, held, Length - 1),
         NEW later \in Holdings, NEW g, IsUpTo(g, later, Length - 1),
         NEW p \in Kernels, \A i \in Kernels : i > 0 /\ i <= p => held[i] = later[i]
  PROVE  g[p] = f[p]
<1> DEFINE Bad == {n \in Kernels : n <= p /\ g[n] # f[n]}
<1>1. /\ f[0] = <<>> /\ g[0] = <<>>
      /\ \A i \in Kernels \ {0} : i - 1 \in Kernels /\ f[i] = held[i] \o f[i - 1] /\ g[i] = later[i] \o g[i - 1]
  BY UpToTyped
<1>2. Kernels \subseteq Nat
  BY LengthAssumption DEF Kernels
<1>3. Bad = {}
  <2>1. Bad \subseteq Nat
    BY <1>2
  <2>2. ASSUME NEW n \in Bad, \A m \in Bad : n <= m  PROVE FALSE
    <3>0. n \in Kernels /\ n <= p /\ g[n] # f[n] /\ n # 0
      BY <1>1
    <3>1. n \in Kernels \ {0} /\ n \in Nat /\ p \in Nat /\ n <= p /\ n > 0 /\ g[n] # f[n]
      BY <1>2, <3>0
    <3>2. n - 1 \in Kernels /\ n - 1 <= p /\ ~ (n <= n - 1)
      BY <3>1, LengthAssumption DEF Kernels
    <3>3. g[n - 1] = f[n - 1]
      BY <2>2, <3>2
    <3>q. QED  BY <1>1, <3>1, <3>3
  <2>q. QED
    <3> HIDE DEF Bad
    <3>q. QED  BY <2>1, <2>2, Least
<1>4. p \in Nat /\ p <= p
  BY <1>2
<1>q. QED  BY <1>3, <1>4

SameAround(held, later, p) ==
  \E s, t \in Seq(Nat) :
    /\ Stacked(held) = s \o (held[p] \o t) /\ Stacked(later) = s \o (later[p] \o t)
    /\ p = Length - 1 => s = <<>>
    /\ p = 1 => t = <<>>

\* Where they differ at one kernel alone, what is behind it and before it is the
\* same: nothing is before the last one, and nothing behind the first that is fed.
LEMMA DifferAtOne ==
  ASSUME NEW held \in Holdings, NEW later \in Holdings, NEW p \in Kernels \ {0},
         \A i \in Kernels \ {0} : i # p => held[i] = later[i]
  PROVE  SameAround(held, later, p)
<1>1. PICK f : Stacked(held) = f[Length - 1] /\ IsUpTo(f, held, Length - 1)
  BY StackedRecurs
<1>2. PICK g : Stacked(later) = g[Length - 1] /\ IsUpTo(g, later, Length - 1)
  BY StackedRecurs
<1>3. p - 1 \in Kernels /\ 0 \in Kernels /\ Length - 1 \in Kernels /\ p \in Nat /\ Length - 1 >= p
      /\ \A i \in Kernels : i \in Nat
  BY LengthAssumption DEF Kernels
<1>4. /\ f[0] = <<>> /\ g[0] = <<>> /\ f[p - 1] \in Seq(Nat)
      /\ f[p] = held[p] \o f[p - 1] /\ g[p] = later[p] \o g[p - 1]
  BY <1>1, <1>2, <1>3, UpToTyped
<1>5. g[p - 1] = f[p - 1]
  <2>1. \A i \in Kernels : i > 0 /\ i <= p - 1 => held[i] = later[i]
    BY <1>3
  <2>q. QED  BY <1>1, <1>2, <1>3, <2>1, SameBelow
<1>6. \A i \in Kernels : i > p => held[i] = later[i]
  BY <1>3
<1>7. PICK s \in Seq(Nat) : f[Length - 1] = s \o f[p] /\ g[Length - 1] = s \o g[p] /\ (Length - 1 = p => s = <<>>)
  <2>1. SameOnTop(f, g, p)
    BY <1>1, <1>2, <1>3, <1>6, SameAbove
  <2>q. QED  BY <1>3, <2>1 DEF SameOnTop
<1>8. p = 1 => f[p - 1] = <<>>
  BY <1>4
<1>q. QED  BY <1>1, <1>2, <1>4, <1>5, <1>7, <1>8 DEF SameAround

\* What goes from one kernel to the next stays where it is.
LEMMA MoveKeepsStack ==
  ASSUME NEW held \in Holdings, NEW later \in Holdings, NEW p \in Kernels \ {0}, p + 1 \in Kernels,
         \A i \in Kernels \ {0} : i # p /\ i # p + 1 => held[i] = later[i],
         held[p + 1] \o held[p] = later[p + 1] \o later[p]
  PROVE  Stacked(held) = Stacked(later)
<1>1. PICK f : Stacked(held) = f[Length - 1] /\ IsUpTo(f, held, Length - 1)
  BY StackedRecurs
<1>2. PICK g : Stacked(later) = g[Length - 1] /\ IsUpTo(g, later, Length - 1)
  BY StackedRecurs
<1>3. p - 1 \in Kernels /\ Length - 1 \in Kernels /\ p \in Nat /\ Length - 1 >= p + 1
      /\ p + 1 \in Kernels \ {0} /\ (p + 1) - 1 = p /\ \A i \in Kernels : i \in Nat
  BY LengthAssumption DEF Kernels
<1>4. /\ f[p - 1] \in Seq(Nat) /\ g[p - 1] \in Seq(Nat)
      /\ f[p] = held[p] \o f[p - 1] /\ g[p] = later[p] \o g[p - 1]
  BY <1>1, <1>2, <1>3, UpToTyped
<1>5. f[p + 1] = held[p + 1] \o f[p] /\ g[p + 1] = later[p + 1] \o g[p]
  <2>1. PICK q : q = p + 1
    OBVIOUS
  <2>2. q \in Kernels \ {0} /\ q - 1 = p
    BY <1>3, <2>1
  <2>3. f[q] = held[q] \o f[q - 1] /\ g[q] = later[q] \o g[q - 1]
    BY <1>1, <1>2, <2>2, UpToTyped
  <2>q. QED  BY <2>1, <2>2, <2>3
<1>6. g[p - 1] = f[p - 1]
  <2>1. \A i \in Kernels : i > 0 /\ i <= p - 1 => held[i] = later[i]
    BY <1>3
  <2>q. QED  BY <1>1, <1>2, <1>3, <2>1, SameBelow
<1>7. /\ held[p] \in Seq(Nat) /\ held[p + 1] \in Seq(Nat)
      /\ later[p] \in Seq(Nat) /\ later[p + 1] \in Seq(Nat)
  BY <1>3 DEF Holdings
<1>8. f[p + 1] = g[p + 1]
  <2>a. f[p - 1] \in Seq(Nat) /\ held[p] \in Seq(Nat) /\ held[p + 1] \in Seq(Nat)
    BY <1>4, <1>7
  <2>b. later[p] \in Seq(Nat) /\ later[p + 1] \in Seq(Nat)
    BY <1>7
  <2>1. held[p + 1] \o (held[p] \o f[p - 1]) = (held[p + 1] \o held[p]) \o f[p - 1]
    BY <2>a, Associates, Zenon
  <2>2. later[p + 1] \o (later[p] \o f[p - 1]) = (later[p + 1] \o later[p]) \o f[p - 1]
    BY <2>a, <2>b, Associates, Zenon
  <2>3. f[p + 1] = (held[p + 1] \o held[p]) \o f[p - 1]
    BY <1>4, <1>5, <2>1, Zenon
  <2>4. g[p + 1] = (later[p + 1] \o later[p]) \o f[p - 1]
    BY <1>4, <1>5, <1>6, <2>2, Zenon
  <2>5. held[p + 1] \o held[p] = later[p + 1] \o later[p]
    OBVIOUS
  <2>q. QED  BY <2>3, <2>4, <2>5, Zenon
<1>9. \A i \in Kernels : i > p + 1 => held[i] = later[i]
  BY <1>3
<1>10. PICK s \in Seq(Nat) : f[Length - 1] = s \o f[p + 1] /\ g[Length - 1] = s \o g[p + 1]
  <2>1. SameOnTop(f, g, p + 1)
    BY <1>1, <1>2, <1>3, <1>9, SameAbove
  <2>q. QED  BY <1>3, <2>1 DEF SameOnTop
<1>q. QED  BY <1>1, <1>2, <1>8, <1>10

\* Where nobody holds anything there is nothing inside.
LEMMA NothingStacked ==
  ASSUME NEW held \in Holdings, \A i \in Kernels \ {0} : held[i] = <<>>
  PROVE  Stacked(held) = <<>>
<1>1. PICK f : Stacked(held) = f[Length - 1] /\ IsUpTo(f, held, Length - 1)
  BY StackedRecurs
<1> DEFINE Bad == {n \in Kernels : f[n] # <<>>}
<1>2. Kernels \subseteq Nat /\ Length - 1 \in Kernels /\ \A n \in Kernels \ {0} : ~ (n <= n - 1)
  BY LengthAssumption DEF Kernels
<1>3. f[0] = <<>> /\ \A i \in Kernels \ {0} : i - 1 \in Kernels /\ f[i] = <<>> \o f[i - 1]
  BY <1>1, UpToTyped
<1>4. Bad = {}
  <2>1. Bad \subseteq Nat
    BY <1>2
  <2>2. ASSUME NEW n \in Bad, \A m \in Bad : n <= m  PROVE FALSE
    <3>1. n \in Kernels \ {0} /\ n - 1 \in Kernels /\ ~ (n <= n - 1)
      BY <1>2, <1>3
    <3>2. f[n - 1] = <<>>
      BY <2>2, <3>1
    <3>3. <<>> \o <<>> = <<>>
      OBVIOUS
    <3>q. QED  BY <1>3, <3>1, <3>2, <3>3
  <2>q. QED
    <3> HIDE DEF Bad
    <3>q. QED  BY <2>1, <2>2, Least
<1>q. QED  BY <1>1, <1>2, <1>4

\* What is inside is a sequence of objects.
LEMMA StackedTyped ==
  ASSUME NEW held \in Holdings
  PROVE  Stacked(held) \in Seq(Nat)
<1>1. PICK f : Stacked(held) = f[Length - 1] /\ IsUpTo(f, held, Length - 1)
  BY StackedRecurs
<1>2. Length - 1 \in Kernels
  BY LengthAssumption DEF Kernels
<1>q. QED  BY <1>1, <1>2, UpToTyped

\* What the goroutines that feed the kernels with a kind hold of it.
Held(k) == [i \in Kernels \ {0} |-> InHand(<<i, k>>)]
Queue == [k \in Kinds |-> Inside(k)]
Broken == chainCtxDone \/ errors > 0 \/ call = "failed"

\* These are sequences, and stacked they are what is inside.
LEMMA HeldTyped ==
  ASSUME ChainTypes, NEW k \in Kinds
  PROVE  /\ Held(k) \in Holdings /\ Inside(k) = Stacked(Held(k)) /\ Inside(k) \in Seq(Nat)
         /\ \A i \in Kernels \ {0} : Held(k)[i] = InHand(<<i, k>>) /\ InHand(<<i, k>>) \in Seq(Nat)
<1>1. \A i \in Kernels \ {0} : InHand(<<i, k>>) \in Seq(Nat)
  <2>1. ASSUME NEW i \in Kernels \ {0}  PROVE InHand(<<i, k>>) \in Seq(Nat)
    <3>1. hand[<<i, k>>] \in Nat
      BY TasksAre DEF ChainTypes
    <3>2. <<>> \in Seq(Nat) /\ <<hand[<<i, k>>]>> \in Seq(Nat)
      BY <3>1
    <3>q. QED  BY <3>2 DEF InHand
  <2>q. QED  BY <2>1
<1>2. Held(k) \in Holdings /\ \A i \in Kernels \ {0} : Held(k)[i] = InHand(<<i, k>>)
  BY <1>1 DEF Held, Holdings
<1>3. Inside(k) = Stacked(Held(k))
  BY DEF Inside, Held
<1>q. QED  BY <1>1, <1>2, <1>3, StackedTyped

\* An object in the middle of a sequence is removed at its place.
LEMMA RemoveMiddle ==
  ASSUME NEW s \in Seq(Nat), NEW u \in Seq(Nat), NEW o \in Nat
  PROVE  /\ Len(s) + 1 \in 1..Len(s \o (<<o>> \o u))
         /\ RemoveAt(s \o (<<o>> \o u), Len(s) + 1) = s \o u
<1> DEFINE w == s \o (<<o>> \o u)
           n == Len(s)
           m == Len(u)
<1>1. n \in Nat /\ m \in Nat /\ <<o>> \in Seq(Nat) /\ Len(<<o>>) = 1
  BY LenProperties
<1>2. /\ <<o>> \o u \in Seq(Nat) /\ Len(<<o>> \o u) = 1 + m
      /\ \A i \in 1..1 + m : (<<o>> \o u)[i] = IF i <= 1 THEN <<o>>[i] ELSE u[i - 1]
  BY <1>1, ConcatProperties
<1>3. /\ w \in Seq(Nat) /\ Len(w) = n + (1 + m)
      /\ \A i \in 1..n + (1 + m) : w[i] = IF i <= n THEN s[i] ELSE (<<o>> \o u)[i - n]
  BY <1>2, ConcatProperties
<1>4. n + 1 \in 1..Len(w)
  BY <1>1, <1>3
<1> HIDE DEF w
<1>5. /\ SubSeq(w, 1, n) \in Seq(Nat) /\ Len(SubSeq(w, 1, n)) = n
      /\ \A i \in 1..n : SubSeq(w, 1, n)[i] = w[i]
  <2>1. \A i \in 1..n : w[i] \in Nat
    BY <1>1, <1>3, ElementOfSeq
  <2>2. Len(SubSeq(w, 1, n)) = (IF 1 <= n THEN n - 1 + 1 ELSE 0) /\ SubSeq(w, 1, n) \in Seq(Nat)
        /\ \A i \in 1..n - 1 + 1 : SubSeq(w, 1, n)[i] = w[1 + i - 1]
    BY <1>1, <2>1, SubSeqProperties
  <2>3. n - 1 + 1 = n /\ (IF 1 <= n THEN n - 1 + 1 ELSE 0) = n /\ \A i \in 1..n : 1 + i - 1 = i
    BY <1>1
  <2>q. QED  BY <2>2, <2>3
<1>6. SubSeq(w, 1, n) = s
  <2>1. \A i \in 1..n : w[i] = s[i]
    BY <1>1, <1>3
  <2>q. QED  BY <1>1, <1>5, <2>1, SeqEqual
<1>7. /\ SubSeq(w, n + 2, Len(w)) \in Seq(Nat) /\ Len(SubSeq(w, n + 2, Len(w))) = m
      /\ \A i \in 1..m : SubSeq(w, n + 2, Len(w))[i] = w[n + 1 + i]
  <2>0. n + 2 \in Int /\ Len(w) \in Int /\ \A i \in n + 2..Len(w) : i \in 1..Len(w)
    BY <1>1, <1>3
  <2>1. \A i \in n + 2..Len(w) : w[i] \in Nat
    BY <1>3, <2>0, ElementOfSeq
  <2>2. Len(SubSeq(w, n + 2, Len(w))) = (IF n + 2 <= Len(w) THEN Len(w) - (n + 2) + 1 ELSE 0)
        /\ SubSeq(w, n + 2, Len(w)) \in Seq(Nat)
        /\ \A i \in 1..Len(w) - (n + 2) + 1 : SubSeq(w, n + 2, Len(w))[i] = w[n + 2 + i - 1]
    BY <2>0, <2>1, SubSeqProperties
  <2>3. Len(w) - (n + 2) + 1 = m /\ (IF n + 2 <= Len(w) THEN Len(w) - (n + 2) + 1 ELSE 0) = m
        /\ \A i \in 1..m : n + 2 + i - 1 = n + 1 + i
    BY <1>1, <1>3
  <2>q. QED  BY <2>2, <2>3
<1>8. SubSeq(w, n + 2, Len(w)) = u
  <2>1. ASSUME NEW i \in 1..m  PROVE w[n + 1 + i] = u[i]
    <3>1. n + 1 + i \in 1..n + (1 + m) /\ ~ (n + 1 + i <= n) /\ n + 1 + i - n = 1 + i
          /\ 1 + i \in 1..1 + m /\ ~ (1 + i <= 1) /\ 1 + i - 1 = i
      BY <1>1
    <3>2. w[n + 1 + i] = (<<o>> \o u)[n + 1 + i - n]
      BY <1>3, <3>1
    <3>3. (<<o>> \o u)[1 + i] = u[1 + i - 1]
      BY <1>2, <3>1
    <3>q. QED  BY <3>1, <3>2, <3>3
  <2>q. QED  BY <1>1, <1>7, <2>1, SeqEqual
<1>9. RemoveAt(w, n + 1) = SubSeq(w, 1, n) \o SubSeq(w, n + 2, Len(w))
  <2>1. PICK q : q = n + 1
    OBVIOUS
  <2>2. q - 1 = n /\ q + 1 = n + 2
    BY <1>1, <2>1
  <2>3. RemoveAt(w, q) = SubSeq(w, 1, q - 1) \o SubSeq(w, q + 1, Len(w))
    BY DEF RemoveAt
  <2> HIDE DEF n
  <2>q. QED  BY <2>1, <2>2, <2>3
<1>q. QED  BY <1>4, <1>6, <1>8, <1>9 DEF w

\* The tail of a sequence is what follows its first object.
LEMMA TailOfCons ==
  ASSUME NEW o \in Nat, NEW u \in Seq(Nat)
  PROVE  <<o>> \o u \in Seq(Nat) /\ <<o>> \o u # <<>> /\ Tail(<<o>> \o u) = u
<1>1. <<o>> \in Seq(Nat) /\ Len(<<o>>) = 1 /\ Len(u) \in Nat
  BY LenProperties
<1>2. /\ <<o>> \o u \in Seq(Nat) /\ Len(<<o>> \o u) = 1 + Len(u)
      /\ \A i \in 1..1 + Len(u) : (<<o>> \o u)[i] = IF i <= 1 THEN <<o>>[i] ELSE u[i - 1]
  BY <1>1, ConcatProperties
<1>3. <<o>> \o u # <<>>
  BY <1>1, <1>2, EmptySeq
<1>4. /\ Tail(<<o>> \o u) \in Seq(Nat) /\ Len(Tail(<<o>> \o u)) = 1 + Len(u) - 1
      /\ \A i \in 1..Len(Tail(<<o>> \o u)) : Tail(<<o>> \o u)[i] = (<<o>> \o u)[i + 1]
  BY <1>2, <1>3, HeadTailProperties
<1>5. Len(Tail(<<o>> \o u)) = Len(u)
  BY <1>1, <1>4
<1>6. ASSUME NEW i \in 1..Len(u)  PROVE Tail(<<o>> \o u)[i] = u[i]
  <2>1. i + 1 \in 1..1 + Len(u) /\ ~ (i + 1 <= 1) /\ i + 1 - 1 = i
    BY <1>1
  <2>2. (<<o>> \o u)[i + 1] = u[i + 1 - 1]
    BY <1>2, <2>1
  <2>q. QED  BY <1>4, <1>5, <2>1, <2>2
<1>q. QED  BY <1>2, <1>3, <1>4, <1>5, <1>6, SeqEqual

\* Where no hand changes that holds something from the front the queues stay.
LEMMA QueueStays ==
  ASSUME \A k \in Kinds : \A i \in Kernels \ {0} : InHand(<<i, k>>)' = InHand(<<i, k>>)
  PROVE  Queue' = Queue
<1>1. \A k \in Kinds : Held(k)' = Held(k)
  BY DEF Held
<1>2. \A k \in Kinds : Inside(k) = Stacked(Held(k)) /\ Inside(k)' = Stacked(Held(k)')
  BY DEF Inside, Held
<1>q. QED  BY <1>1, <1>2 DEF Queue

LeavesQueue(p, k) ==
  \E s, u \in Seq(Nat), o \in Nat :
    /\ Queue[k] = s \o (<<o>> \o u) /\ Queue' = [Queue EXCEPT ![k] = s \o u]
    /\ p = Length - 1 => s = <<>>

\* An object from the front that a goroutine drops leaves its queue, at the head
\* where it feeds the last kernel.
LEMMA DroppedFromQueue ==
  ASSUME ChainTypes, NEW p \in Kernels \ {0}, NEW k \in Kinds, FromFront(hand[<<p, k>>]),
         hand' = [hand EXCEPT ![<<p, k>>] = Nothing]
  PROVE  LeavesQueue(p, k)
<1>1. <<p, k>> \in Tasks /\ hand[<<p, k>>] \in Nat
  BY TasksAre DEF ChainTypes
<1>2. \A i \in Kernels \ {0}, j \in Kinds : <<i, j>> \in Tasks /\ (i # p \/ j # k => hand'[<<i, j>>] = hand[<<i, j>>])
  BY <1>1, TasksAre DEF ChainTypes
<1>3. hand'[<<p, k>>] = Nothing
  BY <1>1 DEF ChainTypes
<1>4. ~FromFront(Nothing)
  BY MadeOnce, TasksAre DEF FromFront, Nothing
<1>5. InHand(<<p, k>>)' = <<>> /\ InHand(<<p, k>>) = <<hand[<<p, k>>]>>
  BY <1>3, <1>4 DEF InHand
<1>6. \A i \in Kernels \ {0}, j \in Kinds : i # p \/ j # k => InHand(<<i, j>>)' = InHand(<<i, j>>)
  <2>1. ASSUME NEW i \in Kernels \ {0}, NEW j \in Kinds, i # p \/ j # k  PROVE InHand(<<i, j>>)' = InHand(<<i, j>>)
    <3>1. hand'[<<i, j>>] = hand[<<i, j>>]
      BY <1>2, <2>1
    <3>q. QED  BY <3>1 DEF InHand
  <2>q. QED  BY <2>1
<1>7. \A j \in Kinds : Inside(j) = Stacked(Held(j)) /\ Inside(j)' = Stacked(Held(j)')
  BY DEF Inside, Held
<1>8. \A j \in Kinds : j # k => Inside(j)' = Inside(j)
  <2>1. \A j \in Kinds : j # k => Held(j)' = Held(j)
    BY <1>6 DEF Held
  <2>q. QED  BY <1>7, <2>1
<1>9. PICK later : later = Held(k)'
  OBVIOUS
<1>10. /\ later \in Holdings /\ later[p] = <<>>
       /\ \A i \in Kernels \ {0} : i # p => Held(k)[i] = later[i]
  <2>1. \A i \in Kernels \ {0} : later[i] = InHand(<<i, k>>)' /\ DOMAIN later = Kernels \ {0}
    BY <1>9 DEF Held
  <2>2. \A i \in Kernels \ {0} : Held(k)[i] = InHand(<<i, k>>) /\ InHand(<<i, k>>) \in Seq(Nat)
    BY HeldTyped
  <2>3. \A i \in Kernels \ {0} : i # p => Held(k)[i] = later[i]
    BY <1>6, <2>1, <2>2
  <2>4. later[p] = <<>> /\ <<>> \in Seq(Nat)
    BY <1>5, <2>1
  <2>5. later \in Holdings
    <3>1. later = [i \in Kernels \ {0} |-> InHand(<<i, k>>)']
      BY <1>9 DEF Held
    <3>2. \A i \in Kernels \ {0} : InHand(<<i, k>>)' \in Seq(Nat)
      BY <2>1, <2>2, <2>3, <2>4
    <3>q. QED  BY <3>1, <3>2 DEF Holdings
  <2>q. QED  BY <2>3, <2>4, <2>5
<1>11. Held(k) \in Holdings /\ Held(k)[p] = <<hand[<<p, k>>]>>
  BY <1>5, HeldTyped
<1>12. PICK s, u \in Seq(Nat) : /\ Stacked(Held(k)) = s \o (Held(k)[p] \o u) /\ Stacked(later) = s \o (later[p] \o u)
                                /\ p = Length - 1 => s = <<>>
  <2>1. SameAround(Held(k), later, p)
    BY <1>10, <1>11, DifferAtOne
  <2>q. QED  BY <2>1 DEF SameAround
<1>13. <<>> \o u = u
  BY ConcatEmptySeq
<1>14. Inside(k) = s \o (<<hand[<<p, k>>]>> \o u) /\ Inside(k)' = s \o u
  BY <1>7, <1>9, <1>10, <1>11, <1>12, <1>13
<1>15. Queue[k] = s \o (<<hand[<<p, k>>]>> \o u) /\ Queue' = [Queue EXCEPT ![k] = s \o u]
  <2>1. Queue' = [j \in Kinds |-> Inside(j)']
    BY DEF Queue
  <2>2. Queue = [j \in Kinds |-> Inside(j)]
    BY DEF Queue
  <2>q. QED  BY <1>8, <1>14, <2>1, <2>2
<1>q. QED  BY <1>1, <1>12, <1>15 DEF LeavesQueue

\* An object that the first kernel passes on enters its queue at the end.
LEMMA EntersQueue ==
  ASSUME ChainTypes, NEW k \in Kinds, NEW o \in Nat, FromFront(o), hand[<<1, k>>] = Nothing,
         hand' = [hand EXCEPT ![First] = Nothing, ![<<1, k>>] = o]
  PROVE  Queue' = [Queue EXCEPT ![k] = Append(Queue[k], o)]
<1>1. <<1, k>> \in Tasks /\ First \in Tasks /\ 1 \in Kernels \ {0}
  BY TasksAre
<1>2. \A i \in Kernels \ {0}, j \in Kinds :
        <<i, j>> \in Tasks /\ (i # 1 \/ j # k => hand'[<<i, j>>] = hand[<<i, j>>])
  BY <1>1, TasksAre DEF ChainTypes, First
<1>3. hand'[<<1, k>>] = o
  BY <1>1 DEF ChainTypes
<1>4. ~FromFront(Nothing)
  BY MadeOnce, TasksAre DEF FromFront, Nothing
<1>5. InHand(<<1, k>>)' = <<o>> /\ InHand(<<1, k>>) = <<>>
  BY <1>3, <1>4 DEF InHand
<1>6. \A i \in Kernels \ {0}, j \in Kinds : i # 1 \/ j # k => InHand(<<i, j>>)' = InHand(<<i, j>>)
  <2>1. ASSUME NEW i \in Kernels \ {0}, NEW j \in Kinds, i # 1 \/ j # k  PROVE InHand(<<i, j>>)' = InHand(<<i, j>>)
    <3>1. hand'[<<i, j>>] = hand[<<i, j>>]
      BY <1>2, <2>1
    <3>q. QED  BY <3>1 DEF InHand
  <2>q. QED  BY <2>1
<1>7. \A j \in Kinds : Inside(j) = Stacked(Held(j)) /\ Inside(j)' = Stacked(Held(j)')
  BY DEF Inside, Held
<1>8. \A j \in Kinds : j # k => Inside(j)' = Inside(j)
  <2>1. \A j \in Kinds : j # k => Held(j)' = Held(j)
    BY <1>6 DEF Held
  <2>q. QED  BY <1>7, <2>1
<1>9. PICK later : later = Held(k)'
  OBVIOUS
<1>10. /\ later \in Holdings /\ later[1] = <<o>>
       /\ \A i \in Kernels \ {0} : i # 1 => Held(k)[i] = later[i]
  <2>1. \A i \in Kernels \ {0} : later[i] = InHand(<<i, k>>)' /\ DOMAIN later = Kernels \ {0}
    BY <1>9 DEF Held
  <2>2. \A i \in Kernels \ {0} : Held(k)[i] = InHand(<<i, k>>) /\ InHand(<<i, k>>) \in Seq(Nat)
    BY HeldTyped
  <2>3. \A i \in Kernels \ {0} : i # 1 => Held(k)[i] = later[i]
    BY <1>6, <2>1, <2>2
  <2>4. later[1] = <<o>> /\ <<o>> \in Seq(Nat)
    BY <1>1, <1>5, <2>1
  <2>5. later \in Holdings
    <3>1. later = [i \in Kernels \ {0} |-> InHand(<<i, k>>)']
      BY <1>9 DEF Held
    <3>2. \A i \in Kernels \ {0} : later[i] \in Seq(Nat)
      BY <2>2, <2>3, <2>4
    <3>3. \A i \in Kernels \ {0} : InHand(<<i, k>>)' \in Seq(Nat)
      BY <2>1, <3>2
    <3>q. QED  BY <3>1, <3>3 DEF Holdings
  <2>q. QED  BY <2>3, <2>4, <2>5
<1>11. Held(k) \in Holdings /\ Held(k)[1] = <<>>
  BY <1>1, <1>5, HeldTyped
<1>12. PICK s, u \in Seq(Nat) : /\ Stacked(Held(k)) = s \o (Held(k)[1] \o u) /\ Stacked(later) = s \o (later[1] \o u)
                                /\ u = <<>>
  <2>1. SameAround(Held(k), later, 1)
    BY <1>1, <1>10, <1>11, DifferAtOne
  <2>q. QED  BY <2>1 DEF SameAround
<1>13. <<>> \o <<>> = <<>> /\ s \o <<>> = s /\ <<o>> \o <<>> = <<o>> /\ s \o <<o>> = Append(s, o)
  BY ConcatEmptySeq, AppendIsConcat
<1>14. Inside(k) = s /\ Inside(k)' = Append(s, o)
  BY <1>7, <1>9, <1>10, <1>11, <1>12, <1>13
<1>q. QED
  <2>1. Queue' = [j \in Kinds |-> Inside(j)']
    BY DEF Queue
  <2>2. Queue = [j \in Kinds |-> Inside(j)]
    BY DEF Queue
  <2>q. QED  BY <1>8, <1>14, <2>1, <2>2

\* An object that goes from one kernel to the next stays at its place.
LEMMA MovesInQueue ==
  ASSUME ChainTypes, NEW p \in Kernels \ {0}, p + 1 \in Kernels, NEW k \in Kinds,
         hand[<<p + 1, k>>] = Nothing, hand' = [hand EXCEPT ![<<p, k>>] = Nothing, ![<<p + 1, k>>] = hand[<<p, k>>]]
  PROVE  Queue' = Queue
<1>1. PICK q : q = p + 1
  OBVIOUS
<1>2. q \in Kernels \ {0} /\ q # p /\ <<p, k>> \in Tasks /\ <<q, k>> \in Tasks
  <2>1. q \in Kernels \ {0} /\ q # p
    BY <1>1, LengthAssumption DEF Kernels
  <2>q. QED  BY <2>1, TasksAre
<1>3. \A i \in Kernels \ {0}, j \in Kinds :
        <<i, j>> \in Tasks /\ ((i # p /\ i # q) \/ j # k => hand'[<<i, j>>] = hand[<<i, j>>])
  BY <1>1, <1>2, TasksAre DEF ChainTypes
<1>4. hand'[<<q, k>>] = hand[<<p, k>>] /\ hand'[<<p, k>>] = Nothing /\ hand[<<q, k>>] = Nothing
  BY <1>1, <1>2 DEF ChainTypes
<1>5. ~FromFront(Nothing)
  BY MadeOnce, TasksAre DEF FromFront, Nothing
<1>6. InHand(<<q, k>>)' = InHand(<<p, k>>) /\ InHand(<<p, k>>)' = <<>> /\ InHand(<<q, k>>) = <<>>
  BY <1>4, <1>5 DEF InHand
<1>7. \A i \in Kernels \ {0}, j \in Kinds : (i # p /\ i # q) \/ j # k => InHand(<<i, j>>)' = InHand(<<i, j>>)
  <2>1. ASSUME NEW i \in Kernels \ {0}, NEW j \in Kinds, (i # p /\ i # q) \/ j # k  PROVE InHand(<<i, j>>)' = InHand(<<i, j>>)
    <3>1. hand'[<<i, j>>] = hand[<<i, j>>]
      BY <1>3, <2>1
    <3>q. QED  BY <3>1 DEF InHand
  <2>q. QED  BY <2>1
<1>8. \A j \in Kinds : Inside(j) = Stacked(Held(j)) /\ Inside(j)' = Stacked(Held(j)')
  BY DEF Inside, Held
<1>9. \A j \in Kinds : j # k => Inside(j)' = Inside(j)
  <2>1. \A j \in Kinds : j # k => Held(j)' = Held(j)
    BY <1>7 DEF Held
  <2>q. QED  BY <1>8, <2>1
<1>10. PICK later : later = Held(k)'
  OBVIOUS
<1>11. PICK held : held = Held(k)
  OBVIOUS
<1>12. /\ later \in Holdings /\ held \in Holdings /\ later[p] = <<>> /\ held[q] = <<>> /\ later[q] = held[p]
       /\ held[p] \in Seq(Nat) /\ \A i \in Kernels \ {0} : i # p /\ i # q => held[i] = later[i]
  <2>1. \A i \in Kernels \ {0} : later[i] = InHand(<<i, k>>)' /\ DOMAIN later = Kernels \ {0}
    BY <1>10 DEF Held
  <2>2. held \in Holdings /\ \A i \in Kernels \ {0} : held[i] = InHand(<<i, k>>) /\ InHand(<<i, k>>) \in Seq(Nat)
    BY <1>11, HeldTyped
  <2>3. \A i \in Kernels \ {0} : i # p /\ i # q => held[i] = later[i]
    BY <1>7, <2>1, <2>2
  <2>4. later[p] = <<>> /\ later[q] = held[p] /\ held[q] = <<>> /\ <<>> \in Seq(Nat)
    BY <1>2, <1>6, <2>1, <2>2
  <2>5. later \in Holdings
    <3>1. later = [i \in Kernels \ {0} |-> InHand(<<i, k>>)']
      BY <1>10 DEF Held
    <3>2. \A i \in Kernels \ {0} : InHand(<<i, k>>)' \in Seq(Nat)
      BY <2>1, <2>2, <2>3, <2>4
    <3>q. QED  BY <3>1, <3>2 DEF Holdings
  <2>q. QED  BY <2>2, <2>3, <2>4, <2>5
<1>13. held[q] \o held[p] = later[q] \o later[p]
  BY <1>12, ConcatEmptySeq
<1>14. Stacked(held) = Stacked(later)
  <2>1. held \in Holdings /\ later \in Holdings
    BY <1>12
  <2>2. p \in Kernels \ {0} /\ p + 1 \in Kernels
    OBVIOUS
  <2>3. q = p + 1
    BY <1>1
  <2>4. \A i \in Kernels \ {0} : i # p /\ i # p + 1 => held[i] = later[i]
    BY <1>12, <2>3, Zenon
  <2>5. held[p + 1] \o held[p] = later[p + 1] \o later[p]
    BY <1>13, <2>3, Zenon
  <2>q. QED  BY <2>1, <2>2, <2>4, <2>5, MoveKeepsStack, Zenon
<1>q. QED
  <2>1. Queue' = [j \in Kinds |-> Inside(j)']
    BY DEF Queue
  <2>2. Queue = [j \in Kinds |-> Inside(j)]
    BY DEF Queue
  <2>3. Inside(k)' = Inside(k)
    BY <1>8, <1>10, <1>11, <1>14
  <2>q. QED  BY <1>9, <2>1, <2>2, <2>3

\* What changes the queues and the state of a chain as a pipe does is a step of it.
LEMMA PipeSteps ==
  /\ \A k \in Kinds, o \in {Makes[0][i] : i \in DOMAIN Makes[0]} :
       Queue' = [Queue EXCEPT ![k] = Append(Queue[k], o)] /\ Broken' = Broken => Abstract!PipeNext
  /\ \A k \in Kinds :
       Queue[k] # <<>> /\ Queue' = [Queue EXCEPT ![k] = Tail(Queue[k])] /\ Broken' = Broken => Abstract!PipeNext
  /\ Broken' = TRUE /\ Queue' = Queue => Abstract!PipeNext
  /\ \A k \in Kinds : \A i \in 1..Len(Queue[k]) :
       Broken' = TRUE /\ Queue' = [Queue EXCEPT ![k] = RemoveAt(Queue[k], i)] => Abstract!PipeNext
  /\ Broken /\ Queue' = [k \in Kinds |-> <<>>] /\ Broken' \in BOOLEAN => Abstract!PipeNext
<1>1. ASSUME NEW k \in Kinds, NEW o \in {Makes[0][i] : i \in DOMAIN Makes[0]},
             Queue' = [Queue EXCEPT ![k] = Append(Queue[k], o)], Broken' = Broken
      PROVE  Abstract!PipeNext
  <2>1. Abstract!Enter(k, o)
    BY <1>1 DEF Abstract!Enter, Queue, Broken
  <2>q. QED  BY <2>1 DEF Abstract!PipeNext
<1>2. ASSUME NEW k \in Kinds, Queue[k] # <<>>, Queue' = [Queue EXCEPT ![k] = Tail(Queue[k])], Broken' = Broken
      PROVE  Abstract!PipeNext
  <2>1. Abstract!Leave(k)
    BY <1>2 DEF Abstract!Leave, Queue, Broken
  <2>q. QED  BY <2>1 DEF Abstract!PipeNext
<1>3. ASSUME Broken' = TRUE, Queue' = Queue  PROVE Abstract!PipeNext
  BY <1>3 DEF Abstract!PipeNext, Abstract!Lose, Queue, Broken
<1>4. ASSUME NEW k \in Kinds, NEW i \in 1..Len(Queue[k]), Broken' = TRUE,
             Queue' = [Queue EXCEPT ![k] = RemoveAt(Queue[k], i)]
      PROVE  Abstract!PipeNext
  BY <1>4 DEF Abstract!PipeNext, Abstract!Lose, Abstract!RemoveAt, RemoveAt, Queue, Broken
<1>5. ASSUME Broken, Queue' = [k \in Kinds |-> <<>>], Broken' \in BOOLEAN  PROVE Abstract!PipeNext
  BY <1>5 DEF Abstract!PipeNext, Abstract!Renew, Queue, Broken
<1>q. QED  BY <1>1, <1>2, <1>3, <1>4, <1>5

\* What a kernel has generated, and what does not come from the front, is in no
\* queue: dropping it leaves the queues as they are.
LEMMA DropsNothing ==
  ASSUME ChainTypes, NEW t \in Tasks, hand' = [hand EXCEPT ![t] = Nothing], t[2] = "gen" \/ ~FromFront(hand[t])
  PROVE  Queue' = Queue
<1>1. ~FromFront(Nothing)
  BY MadeOnce, TasksAre DEF FromFront, Nothing
<1>2. \A u \in Tasks : u # t => hand'[u] = hand[u]
  BY DEF ChainTypes
<1>3. hand'[t] = Nothing
  BY DEF ChainTypes
<1>4. ASSUME NEW k \in Kinds, NEW i \in Kernels \ {0}  PROVE InHand(<<i, k>>)' = InHand(<<i, k>>)
  <2>1. <<i, k>> \in Tasks /\ <<i, k>>[2] # "gen"
    BY TasksAre
  <2>2. CASE <<i, k>> = t
    <3>1. ~FromFront(hand[<<i, k>>]) /\ hand'[<<i, k>>] = Nothing
      BY <1>3, <2>1, <2>2
    <3>q. QED  BY <1>1, <3>1 DEF InHand
  <2>3. CASE <<i, k>> # t
    <3>1. hand'[<<i, k>>] = hand[<<i, k>>]
      BY <1>2, <2>1, <2>3
    <3>q. QED  BY <3>1 DEF InHand
  <2>q. QED  BY <2>2, <2>3
<1>q. QED  BY <1>4, QueueStays

\* A broken chain that drops an object is a pipe that loses one or none.
LEMMA DropIsLoss ==
  ASSUME ChainInv, NEW t \in Tasks, hand' = [hand EXCEPT ![t] = Nothing], Broken' = TRUE
  PROVE  Abstract!PipeNext
<1>0. ChainTypes
  BY DEF ChainInv
<1>1. CASE t[2] = "gen" \/ ~FromFront(hand[t])
  BY <1>0, <1>1, DropsNothing, PipeSteps
<1>2. CASE t[2] # "gen" /\ FromFront(hand[t])
  <2>1. PICK p, k : p = t[1] /\ k = t[2]
    OBVIOUS
  <2>2. p \in Kernels \ {0} /\ k \in Kinds /\ t = <<p, k>>
    BY <1>2, <2>1, TasksAre
  <2>3. PICK s, u \in Seq(Nat), o \in Nat : Queue[k] = s \o (<<o>> \o u) /\ Queue' = [Queue EXCEPT ![k] = s \o u]
    <3>1. FromFront(hand[<<p, k>>]) /\ hand' = [hand EXCEPT ![<<p, k>>] = Nothing]
      BY <1>2, <2>2
    <3>2. LeavesQueue(p, k)
      BY <1>0, <2>2, <3>1, DroppedFromQueue
    <3>q. QED  BY <3>2 DEF LeavesQueue
  <2>4. PICK i : i = Len(s) + 1
    OBVIOUS
  <2>5. i \in 1..Len(Queue[k]) /\ RemoveAt(Queue[k], i) = s \o u
    BY <2>3, <2>4, RemoveMiddle
  <2>6. Queue' = [Queue EXCEPT ![k] = RemoveAt(Queue[k], i)]
    BY <2>3, <2>5
  <2>q. QED  BY <2>2, <2>5, <2>6, PipeSteps
<1>q. QED  BY <1>1, <1>2

\* What is passed on enters the pipe, moves inside it, or leaves it.
LEMMA PassOnPipes ==
  ASSUME ChainInv, NEW t \in Tasks, PassOn(t)
  PROVE  Abstract!PipeNext \/ UNCHANGED <<Queue, Broken>>
<1> USE DEF ChainInv
<1>1. /\ call = "run" /\ task[t] = "run" /\ hand[t] # Nothing
      /\ UNCHANGED <<mode, chainCtxDone, call, closedLinks, task, generated, due, errors, leaked, sentOnClosed>>
  BY DEF PassOn, Holds, Runs
<1>2. Broken' = Broken
  BY <1>1 DEF Broken
<1>3. PICK o \in Nat : o = hand[t]
  BY DEF ChainTypes
<1>4. Carries(t, o) /\ KindOf[o] \in Kinds
  BY <1>1, <1>3, MadeOnce DEF Hands, Carries, MadeBy
<1>5. \/ t[1] + 1 = Length /\ hand' = [hand EXCEPT ![t] = Nothing]
      \/ t[1] + 1 < Length /\ \E r \in Readers(t[1] + 1, KindOf[o]) : Idle(r) /\ hand' = [hand EXCEPT ![t] = Nothing, ![r] = o]
  BY <1>3, Zenon DEF PassOn, Drop
<1>6. PICK p, k : p = t[1] /\ k = t[2]
  OBVIOUS
<1>7. t = <<p, k>> /\ p \in Kernels /\ (p # 0 \/ t = First) /\ (k # "gen" => k \in Kinds /\ p # 0)
  BY <1>6, TasksAre
<1>8. CASE t[1] + 1 = Length /\ hand' = [hand EXCEPT ![t] = Nothing]
  <2>1. CASE k = "gen" \/ ~FromFront(o)
    BY <1>2, <1>3, <1>6, <1>8, <2>1, DropsNothing
  <2>2. CASE k # "gen" /\ FromFront(o)
    <3>1. p \in Kernels \ {0} /\ k \in Kinds /\ p = Length - 1
      BY <1>6, <1>7, <1>8, <2>2, LengthAssumption DEF Kernels
    <3>2. PICK s, u \in Seq(Nat), q \in Nat :
            Queue[k] = s \o (<<q>> \o u) /\ Queue' = [Queue EXCEPT ![k] = s \o u] /\ s = <<>>
      <4>1. FromFront(hand[<<p, k>>]) /\ hand' = [hand EXCEPT ![<<p, k>>] = Nothing]
        BY <1>3, <1>7, <1>8, <2>2
      <4>2. LeavesQueue(p, k)
        BY <3>1, <4>1, DroppedFromQueue
      <4>q. QED  BY <3>1, <4>2 DEF LeavesQueue
    <3>3. <<q>> \o u \in Seq(Nat) /\ <<q>> \o u # <<>> /\ Tail(<<q>> \o u) = u
      BY TailOfCons
    <3>4. Queue[k] = <<q>> \o u /\ s \o u = u
      BY <3>2, <3>3, ConcatEmptySeq
    <3>5. Queue' = [Queue EXCEPT ![k] = Tail(Queue[k])] /\ Queue[k] # <<>>
      BY <3>2, <3>3, <3>4
    <3>q. QED  BY <1>2, <3>1, <3>5, PipeSteps
  <2>q. QED  BY <2>1, <2>2
<1>9. ASSUME NEW r, r = <<p + 1, KindOf[o]>>, p + 1 < Length, Idle(r), hand' = [hand EXCEPT ![t] = Nothing, ![r] = o]
      PROVE  Abstract!PipeNext \/ UNCHANGED <<Queue, Broken>>
  <2>1. p + 1 \in Kernels \ {0} /\ r \in Tasks /\ r[2] # "gen" /\ hand[r] = Nothing
    <3>1. p + 1 \in Kernels \ {0}
      BY <1>7, <1>9, LengthAssumption DEF Kernels
    <3>q. QED  BY <1>4, <1>9, <3>1, TasksAre DEF Idle
  <2>2. CASE t = First
    <3>1. p = 0 /\ k = "gen" /\ r = <<1, KindOf[o]>>
      BY <1>7, <1>9, <2>2 DEF First
    <3>2. FromFront(o) /\ o \in {Makes[0][i] : i \in DOMAIN Makes[0]}
      BY <1>4, <1>6, <3>1 DEF Carries, MadeBy, FromFront
    <3>3. Queue' = [Queue EXCEPT ![KindOf[o]] = Append(Queue[KindOf[o]], o)]
      BY <1>4, <1>9, <2>1, <2>2, <3>1, <3>2, EntersQueue
    <3>q. QED  BY <1>2, <1>4, <3>2, <3>3, PipeSteps
  <2>3. CASE t # First /\ k = "gen"
    <3>1. ~FromFront(o)
      <4>1. MadeBy(p, o) /\ p \in Kernels /\ p # 0
        BY <1>4, <1>6, <1>7, <2>3 DEF Carries
      <4>2. FromFront(o) => MadeBy(0, o)
        BY DEF FromFront, MadeBy
      <4>3. \A i, j \in Kernels : MadeBy(i, o) /\ MadeBy(j, o) => i = j
        BY MadeOnce
      <4>q. QED  BY <4>1, <4>2, <4>3, TasksAre
    <3>2. ~FromFront(Nothing)
      BY MadeOnce, TasksAre DEF FromFront, Nothing
    <3>3. hand'[r] = o /\ \A u \in Tasks : u # t /\ u # r => hand'[u] = hand[u]
      BY <1>9, <2>1 DEF ChainTypes
    <3>4. ASSUME NEW j \in Kinds, NEW i \in Kernels \ {0}  PROVE InHand(<<i, j>>)' = InHand(<<i, j>>)
      <4>1. <<i, j>> \in Tasks /\ <<i, j>> # t
        BY <1>6, <2>3, TasksAre
      <4>2. CASE <<i, j>> = r
        <5>1. hand[<<i, j>>] = Nothing /\ hand'[<<i, j>>] = o
          BY <2>1, <3>3, <4>2
        <5>q. QED  BY <3>1, <3>2, <5>1 DEF InHand
      <4>3. CASE <<i, j>> # r
        <5>1. hand'[<<i, j>>] = hand[<<i, j>>]
          BY <3>3, <4>1, <4>3
        <5>q. QED  BY <5>1 DEF InHand
      <4>q. QED  BY <4>2, <4>3
    <3>q. QED  BY <1>2, <3>4, QueueStays
  <2>4. CASE k # "gen"
    <3>1. k \in Kinds /\ p \in Kernels \ {0} /\ KindOf[o] = k
      BY <1>4, <1>6, <1>7, <2>4 DEF Carries
    <3>2. r = <<p + 1, k>> /\ hand[<<p + 1, k>>] = Nothing
      BY <1>9, <2>1, <3>1
    <3>3. hand' = [hand EXCEPT ![<<p, k>>] = Nothing, ![<<p + 1, k>>] = hand[<<p, k>>]]
      BY <1>3, <1>7, <1>9, <3>2
    <3>4. Queue' = Queue
      BY <2>1, <3>1, <3>2, <3>3, MovesInQueue
    <3>q. QED  BY <1>2, <3>4
  <2>q. QED  BY <2>2, <2>3, <2>4
<1>q. QED  BY <1>5, <1>6, <1>8, <1>9 DEF Readers

\* Every step of a chain is one of the pipe, or changes nothing that is seen of it.
LEMMA ChainPipes ==
  ASSUME ChainInv, ChainNext
  PROVE  Abstract!PipeNext \/ UNCHANGED <<Queue, Broken>>
<1> USE DEF ChainInv
<1>1. ASSUME UNCHANGED <<hand, chainCtxDone, errors>>, (call' = "failed") = (call = "failed")
      PROVE  UNCHANGED <<Queue, Broken>>
  <2>1. Broken' = Broken
    BY <1>1 DEF Broken
  <2>2. Queue' = Queue
    BY <1>1, QueueStays DEF InHand
  <2>q. QED  BY <2>1, <2>2
<1>2. CASE StartGenerate \/ ChainReturns \/ \E t \in Tasks : SendOnClosed(t) \/ FeederEnds(t)
  BY <1>1, <1>2 DEF StartGenerate, ChainReturns, SendOnClosed, FeederEnds
<1>3. ASSUME NEW i \in Kernels \ {0}, CloseStage(i)  PROVE UNCHANGED <<Queue, Broken>>
  BY <1>1, <1>3 DEF CloseStage
<1>4. CASE StartSend
  <2>1. /\ call # "run" /\ errors' = 0 /\ call' = "run" /\ chainCtxDone' = chainCtxDone
        /\ hand' = [hand EXCEPT ![First] = Makes[0][generated'[0]]]
    BY <1>4 DEF StartSend
  <2>2. \A k \in Kinds : \A i \in Kernels \ {0} : InHand(<<i, k>>) = <<>> /\ InHand(<<i, k>>)' = <<>>
    <3>1. ASSUME NEW k \in Kinds, NEW i \in Kernels \ {0}
          PROVE  InHand(<<i, k>>) = <<>> /\ InHand(<<i, k>>)' = <<>>
      <4>1. <<i, k>> \in Tasks /\ <<i, k>> # First
        BY TasksAre DEF First
      <4>2. hand[<<i, k>>] = Nothing
        BY <2>1, <4>1 DEF Hands
      <4>3. hand'[<<i, k>>] = hand[<<i, k>>]
        BY <2>1, <4>1 DEF ChainTypes
      <4>4. ~FromFront(Nothing)
        BY MadeOnce, TasksAre DEF FromFront, Nothing
      <4>q. QED  BY <4>2, <4>3, <4>4 DEF InHand
    <3>q. QED  BY <3>1
  <2>3. Queue' = Queue
    BY <2>2, QueueStays
  <2>4. Queue = [k \in Kinds |-> <<>>]
    <3>1. ASSUME NEW k \in Kinds  PROVE Inside(k) = <<>>
      <4>1. Held(k) \in Holdings /\ \A i \in Kernels \ {0} : Held(k)[i] = <<>>
        BY <2>2, HeldTyped
      <4>q. QED  BY <4>1, NothingStacked, HeldTyped
    <3>q. QED  BY <3>1 DEF Queue
  <2>5. Broken \in BOOLEAN /\ Broken' \in BOOLEAN
    BY DEF Broken
  <2>6. ~Broken => ~Broken'
    BY <2>1 DEF Broken, ChainTypes
  <2>7. CASE Broken
    BY <2>3, <2>4, <2>5, <2>7, PipeSteps
  <2>8. CASE ~Broken
    <3>1. Broken' = Broken
      BY <2>5, <2>6, <2>8
    <3>q. QED  BY <2>3, <3>1
  <2>q. QED  BY <2>7, <2>8
<1>5. ASSUME NEW i \in Kernels, Produce(i)  PROVE UNCHANGED <<Queue, Broken>>
  <2>1. /\ hand' = [hand EXCEPT ![<<i, "gen">>] = Makes[i][generated'[i]]]
        /\ UNCHANGED <<chainCtxDone, errors, call>>
    BY <1>5 DEF Produce
  <2>2. Broken' = Broken
    BY <2>1 DEF Broken
  <2>3. \A k \in Kinds : \A j \in Kernels \ {0} : InHand(<<j, k>>)' = InHand(<<j, k>>)
    <3>1. ASSUME NEW k \in Kinds, NEW j \in Kernels \ {0}  PROVE InHand(<<j, k>>)' = InHand(<<j, k>>)
      <4>1. <<j, k>> \in Tasks /\ <<j, k>> # <<i, "gen">>
        BY KindsAssumption, TasksAre
      <4>2. hand'[<<j, k>>] = hand[<<j, k>>]
        BY <2>1, <4>1 DEF ChainTypes
      <4>q. QED  BY <4>2 DEF InHand
    <3>q. QED  BY <3>1
  <2>q. QED  BY <2>2, <2>3, QueueStays
<1>6. ASSUME hand' = hand, Broken' = TRUE  PROVE Abstract!PipeNext
  <2>1. Queue' = Queue
    BY <1>6, QueueStays DEF InHand
  <2>q. QED  BY <1>6, <2>1, PipeSteps
<1>7. CASE CancelChain
  <2>1. hand' = hand /\ chainCtxDone' = TRUE
    BY <1>7 DEF CancelChain
  <2>2. Broken' = TRUE
    BY <2>1 DEF Broken
  <2>q. QED  BY <1>6, <2>1, <2>2
<1>8. ASSUME NEW i \in Kernels, GenEnds(i)  PROVE Abstract!PipeNext \/ UNCHANGED <<Queue, Broken>>
  <2>1. hand' = hand /\ call' = call /\ (UNCHANGED <<chainCtxDone, errors>> \/ chainCtxDone' = TRUE)
    BY <1>8 DEF GenEnds
  <2>2. CASE UNCHANGED <<chainCtxDone, errors>>
    BY <1>1, <2>1, <2>2
  <2>3. CASE chainCtxDone' = TRUE
    <3>1. Broken' = TRUE
      BY <2>3 DEF Broken
    <3>q. QED  BY <1>6, <2>1, <3>1
  <2>q. QED  BY <2>1, <2>2, <2>3
<1>9. ASSUME NEW t \in Tasks, Fail(t) \/ FeedFails(t) \/ (FirstFails /\ t = First)
      PROVE  Abstract!PipeNext
  <2>1. hand' = [hand EXCEPT ![t] = Nothing]
    BY <1>9 DEF Fail, FeedFails, FirstFails, Drop
  <2>2. chainCtxDone' = TRUE \/ errors' = errors + 1 \/ (chainCtxDone /\ chainCtxDone' = chainCtxDone) \/ call' = "failed"
    BY <1>9 DEF Fail, FeedFails, FirstFails
  <2>3. errors' = errors + 1 => errors' > 0
    BY DEF ChainTypes
  <2>4. Broken' = TRUE
    BY <2>2, <2>3 DEF Broken
  <2>q. QED  BY <2>1, <2>4, DropIsLoss
<1>10. CASE SendingStep
  BY <1>4, <1>9, <1>10, TasksAre DEF SendingStep
<1>11. CASE GeneratingStep
  BY <1>2, <1>5, <1>8, <1>9, <1>11 DEF GeneratingStep
<1>12. ASSUME NEW t \in Tasks, TaskStep(t)  PROVE Abstract!PipeNext \/ UNCHANGED <<Queue, Broken>>
  BY <1>2, <1>12, PassOnPipes DEF TaskStep
<1>q. QED  BY <1>2, <1>3, <1>7, <1>10, <1>11, <1>12 DEF ChainNext

\* A chain starts as an empty pipe.
LEMMA ChainStartsEmpty == ChainInit => Queue = [k \in Kinds |-> <<>>] /\ Broken = FALSE
<1> SUFFICES ASSUME ChainInit  PROVE Queue = [k \in Kinds |-> <<>>] /\ Broken = FALSE
  OBVIOUS
<1>1. Broken = FALSE
  BY DEF ChainInit, Broken
<1>2. ASSUME NEW k \in Kinds  PROVE Inside(k) = <<>>
  <2>1. \A i \in Kernels \ {0} : InHand(<<i, k>>) = <<>>
    <3>1. ~FromFront(Nothing)
      BY MadeOnce, TasksAre DEF FromFront, Nothing
    <3>q. QED  BY <3>1, TasksAre DEF ChainInit, InHand
  <2>2. ChainTypes
    BY ChainInitially DEF ChainInv
  <2>3. Held(k) \in Holdings /\ \A i \in Kernels \ {0} : Held(k)[i] = <<>>
    BY <2>1, <2>2, HeldTyped
  <2>q. QED  BY <2>2, <2>3, NothingStacked, HeldTyped
<1>q. QED  BY <1>1, <1>2 DEF Queue

----------------------------------------------------------------------------
(* InputKernel.                                                            *)

GenerateStages == {"no", "waits", "reads", "sendPrev", "sendCur", "flush", "ends", "returned", "crashed"}
CloseStages == {"idle", "crashed", "signals", "waits", "closes", "done"}

InputTypes ==
  /\ file \in Files /\ nbRead \in 0..Len(file) /\ prevPkts \in [InputStreams -> 0..nbRead]
  /\ sentPackets \in Seq(1..nbRead)
  /\ interrupter \in {"unset", "set", "interrupted"} /\ formatIs \in {"allocated", "open", "freed", "closed"}
  /\ generateAt \in GenerateStages /\ closing \in [Closers -> CloseStages]
  /\ initialized \in BOOLEAN /\ startedLate \in BOOLEAN /\ closureDone \in BOOLEAN /\ inputCtxDone \in BOOLEAN
  /\ taken \in BOOLEAN

\* What is held back is a packet of the stream that was read without a duration, and
\* is none once Generate is through with it.
HoldsUntimed ==
  /\ \A s \in InputStreams :
       prevPkts[s] # 0 => StreamOf(prevPkts[s]) = s /\ Kind(prevPkts[s]) = "untimed" /\ ~ignoreZeroDuration
  /\ generateAt \in {"no", "waits"} => nbRead = 0
  /\ generateAt \in {"ends", "returned"} => \A s \in InputStreams : prevPkts[s] = 0

\* A packet that has just been read is neither sent nor held back, and is sent
\* when nothing of its stream is held back, unless it is an unclear one.
JustRead ==
  /\ generateAt \in {"sendPrev", "sendCur"} =>
       /\ nbRead # 0 /\ (\A s \in InputStreams : prevPkts[s] # nbRead)
       /\ \A i \in DOMAIN sentPackets : sentPackets[i] # nbRead
  /\ generateAt = "sendPrev" => prevPkts[StreamOf(nbRead)] # 0
  /\ generateAt = "sendCur" => prevPkts[StreamOf(nbRead)] = 0 \/ Kind(nbRead) = "unclear"

\* Held back packets come after what was sent of their stream.
SentAgain(p) == \E k \in p..nbRead : StreamOf(k) = StreamOf(p) /\ Kind(k) = "unclear" /\ Kind(p) = "untimed"
HeldComesAfter ==
  \A s \in InputStreams : prevPkts[s] # 0 =>
    \/ SentAgain(prevPkts[s])
    \/ \A i \in DOMAIN sentPackets : StreamOf(sentPackets[i]) = s => sentPackets[i] < prevPkts[s]
SentInOrder ==
  \A i, j \in DOMAIN sentPackets :
    i < j /\ StreamOf(sentPackets[i]) = StreamOf(sentPackets[j]) =>
      sentPackets[i] < sentPackets[j] \/ SentAgain(sentPackets[j])

\* While nobody closes the input or ends its context, what was read is sent, or held
\* back, or has just been read.
Undisturbed == ~inputCtxDone /\ \A c \in Closers : closing[c] = "idle"
WasSent(p) == \E i \in DOMAIN sentPackets : sentPackets[i] = p
ReadIsSomewhere ==
  /\ Undisturbed => \A p \in 1..nbRead :
       WasSent(p) \/ prevPkts[StreamOf(p)] = p \/ (p = nbRead /\ generateAt \in {"sendPrev", "sendCur"})
  /\ endedWith = "eof" => generateAt \in {"flush", "ends", "returned"} /\ nbRead = Len(file)
  /\ closureDone /\ generateAt # "returned" => \E c \in Closers : closing[c] # "idle"

\* Whoever closes the context has seen Generate idle, or it began after that.
ClosesAfterGenerate ==
  /\ (initialized => openerAt = "done") /\ (generateAt = "no" => ~startedLate)
  /\ \A c \in Closers : closing[c] \in {"closes", "done"} => generateAt \in {"no", "returned"} \/ startedLate
  /\ formatIs # "open" /\ initialized =>
       \/ generateAt \in {"ends", "returned"} \/ startedLate
       \/ generateAt = "no" /\ \E c \in Closers : closing[c] \in {"closes", "done"}

InputOrder == HoldsUntimed /\ JustRead /\ HeldComesAfter /\ SentInOrder
InputInv == InputTypes /\ InputOrder /\ ReadIsSomewhere /\ ClosesAfterGenerate

\* A packet of a file has a stream and a kind.
LEMMA PacketsAre ==
  ASSUME NEW f \in Files
  PROVE  Len(f) \in Nat /\ \A p \in 1..Len(f) : f[p][1] \in InputStreams
BY FilesAssumption

\* An input starts with its invariant.
LEMMA InputInitially == InputInit => InputInv
<1> SUFFICES ASSUME InputInit  PROVE InputInv
  OBVIOUS
<1>1. InputTypes
  <2>1. file \in Files /\ Len(file) \in Nat
    BY PacketsAre DEF InputInit
  <2>2. nbRead \in 0..Len(file) /\ sentPackets \in Seq(1..nbRead) /\ prevPkts \in [InputStreams -> 0..nbRead]
    BY <2>1 DEF InputInit
  <2>3. initialized \in BOOLEAN
    BY DEF InputInit
  <2>q. QED  BY <2>1, <2>2, <2>3 DEF InputInit, InputTypes, GenerateStages, CloseStages
<1>2. InputOrder
  BY DEF InputInit, InputOrder, HoldsUntimed, JustRead, HeldComesAfter, SentInOrder
<1>3. ReadIsSomewhere
  BY DEF InputInit, ReadIsSomewhere
<1>4. ClosesAfterGenerate
  BY DEF InputInit, ClosesAfterGenerate
<1>q. QED  BY <1>1, <1>2, <1>3, <1>4 DEF InputInv

\* Nothing changes what was read and sent but Generate.
Untouched == UNCHANGED <<file, ignoreZeroDuration, nbRead, prevPkts, sentPackets>>

\* A step that leaves them leaves their order.
LEMMA OrderStays ==
  ASSUME InputInv, Untouched, generateAt' \in {generateAt, "reads", "flush", "crashed"}
  PROVE  InputOrder'
BY DEF InputInv, InputOrder, Untouched, HoldsUntimed, JustRead, HeldComesAfter, SentInOrder, SentAgain, StreamOf, Kind

\* Opening an input keeps the invariant.
LEMMA OpeningKeeps ==
  ASSUME InputInv, BeginOpen \/ OpenSucceeds \/ OpenFails \/ CtxInterrupts
  PROVE  InputInv'
<1> USE DEF BeginOpen, OpenSucceeds, OpenFails, CtxInterrupts, options, opening, generating
<1>1. InputTypes'
  BY DEF InputInv, InputTypes
<1>2. InputOrder'
  BY OrderStays DEF Untouched
<1>3. ReadIsSomewhere'
  BY DEF InputInv, ReadIsSomewhere, WasSent, Undisturbed, StreamOf
<1>4. ClosesAfterGenerate'
  BY DEF InputInv, ClosesAfterGenerate
<1>q. QED  BY <1>1, <1>2, <1>3, <1>4 DEF InputInv

\* So does closing it ...
LEMMA ClosingKeeps ==
  ASSUME InputInv, NEW c \in Closers, StartClose(c) \/ CloseGoesOn(c)
  PROVE  InputInv'
<1> USE DEF StartClose, CloseGoesOn, SignalClosure, GenerateIsOver, CloseFormat, CloseStep, options, opening, generating
<1>1. InputTypes'
  <2>1. InputTypes
    BY DEF InputInv
  <2>2. closing' \in [Closers -> CloseStages]
    <3>1. closing \in [Closers -> CloseStages]
      BY <2>1 DEF InputTypes
    <3>2. \E to \in CloseStages : closing' = [closing EXCEPT ![c] = to]
      BY DEF CloseStages
    <3>q. QED  BY <3>1, <3>2
  <2>3. interrupter' \in {interrupter, "interrupted"} /\ formatIs' \in {formatIs, "closed"} /\ closureDone' \in {closureDone, TRUE}
    OBVIOUS
  <2>4. /\ file' = file /\ nbRead' = nbRead /\ prevPkts' = prevPkts /\ sentPackets' = sentPackets /\ generateAt' = generateAt
        /\ initialized' = initialized /\ startedLate' = startedLate /\ inputCtxDone' = inputCtxDone /\ taken' = taken
    OBVIOUS
  <2>q. QED  BY <2>1, <2>2, <2>3, <2>4 DEF InputTypes
<1>2. InputOrder'
  BY OrderStays DEF Untouched
<1>3. closing'[c] # "idle" /\ closing[c] \in CloseStages /\ \A d \in Closers : closing[d] # "idle" => closing'[d] # "idle"
  BY DEF InputInv, InputTypes
<1>4. ReadIsSomewhere'
  BY <1>3 DEF InputInv, ReadIsSomewhere, WasSent, Undisturbed, StreamOf
<1>5. ClosesAfterGenerate'
  BY DEF InputInv, InputTypes, ClosesAfterGenerate
<1>q. QED  BY <1>1, <1>2, <1>4, <1>5 DEF InputInv

\* ... and what others do.
LEMMA OthersKeep ==
  ASSUME InputInv, CtxEnds \/ NobodyTakes
  PROVE  InputInv'
<1> USE DEF CtxEnds, NobodyTakes, options, opening, generating
<1>1. InputTypes'
  BY DEF InputInv, InputTypes
<1>2. InputOrder'
  BY OrderStays DEF Untouched
<1>3. ReadIsSomewhere'
  BY DEF InputInv, ReadIsSomewhere, WasSent, Undisturbed, StreamOf
<1>4. ClosesAfterGenerate'
  BY DEF InputInv, ClosesAfterGenerate
<1>q. QED  BY <1>1, <1>2, <1>3, <1>4 DEF InputInv

\* Generate begins and ends ...
LEMMA StagesKeep ==
  ASSUME InputInv, BeginGenerate \/ Opened \/ ReadClosed \/ AllFlushed \/ ReturnGenerate
  PROVE  InputInv'
<1> USE DEF BeginGenerate, Opened, ReadClosed, AllFlushed, ReturnGenerate, options, opening, generating
<1>1. InputTypes'
  <2>1. InputTypes
    BY DEF InputInv
  <2>2. generateAt' \in GenerateStages
    BY DEF GenerateStages
  <2>3. startedLate' \in BOOLEAN /\ formatIs' \in {formatIs, "closed"} /\ closureDone' \in {closureDone, TRUE}
    BY <2>1 DEF InputTypes
  <2>4. /\ file' = file /\ nbRead' = nbRead /\ prevPkts' = prevPkts /\ sentPackets' = sentPackets /\ closing' = closing
        /\ interrupter' = interrupter /\ initialized' = initialized /\ inputCtxDone' = inputCtxDone /\ taken' = taken
    OBVIOUS
  <2>q. QED  BY <2>1, <2>2, <2>3, <2>4 DEF InputTypes
<1>t. Untouched
  BY DEF Untouched
<1>n. nbRead \in Nat
  BY PacketsAre DEF InputInv, InputTypes
<1>o. InputOrder /\ nbRead \in Nat /\ Untouched /\ InputTypes
  BY <1>t, <1>n DEF InputInv
<1>2. InputOrder'
  <2> USE DEF Untouched
  <2>0. generateAt' \in {"ends", "returned"} => \A s \in InputStreams : prevPkts[s] = 0
    <3>1. CASE Opened
      <4>1. CASE nbRead = 0
        BY <4>1, <1>o DEF InputTypes
      <4>q. QED  BY <4>1, <3>1, <1>o DEF InputOrder, HoldsUntimed
    <3>q. QED  BY <3>1, <1>o DEF InputOrder, HoldsUntimed, StreamsHeldBack
  <2>1. HoldsUntimed'
    BY <1>o, <2>0 DEF InputOrder, InputTypes, HoldsUntimed, StreamOf, Kind
  <2>2. JustRead' /\ HeldComesAfter' /\ SentInOrder'
    BY <1>o DEF InputOrder, JustRead, HeldComesAfter, SentInOrder, SentAgain, StreamOf, Kind
  <2>q. QED  BY <2>1, <2>2 DEF InputOrder
<1>3. ReadIsSomewhere'
  <2>1. endedWith' = "eof" => generateAt' \in {"flush", "ends", "returned"} /\ nbRead = Len(file)
    BY DEF InputInv, ReadIsSomewhere
  <2>2. Undisturbed' => Undisturbed
    BY DEF Undisturbed
  <2>3. generateAt \notin {"sendPrev", "sendCur"} /\ file' = file /\ nbRead' = nbRead /\ sentPackets' = sentPackets
        /\ prevPkts' = prevPkts
    OBVIOUS
  <2>4. Undisturbed => \A p \in 1..nbRead : WasSent(p) \/ prevPkts[StreamOf(p)] = p
    BY <2>3 DEF InputInv, ReadIsSomewhere
  <2>5. closureDone' /\ generateAt' # "returned" => \E c \in Closers : closing'[c] # "idle"
    BY DEF InputInv, ReadIsSomewhere
  <2>q. QED  BY <2>1, <2>2, <2>3, <2>4, <2>5 DEF ReadIsSomewhere, WasSent, StreamOf
<1>4. ClosesAfterGenerate'
  <2>1. CASE BeginGenerate
    <3>1. ~startedLate' => \A c \in Closers : closing[c] \notin {"closes", "done"}
      BY <2>1
    <3>2. startedLate' \/ ~(formatIs # "open" /\ initialized)
      BY <3>1, <2>1 DEF InputInv, ClosesAfterGenerate
    <3>q. QED  BY <3>1, <3>2, <2>1 DEF InputInv, ClosesAfterGenerate
  <2>2. CASE Opened
    BY <2>2 DEF InputInv, ClosesAfterGenerate
  <2>3. CASE AllFlushed
    BY <2>3 DEF InputInv, ClosesAfterGenerate
  <2>4. CASE ReadClosed
    BY <2>4 DEF InputInv, ClosesAfterGenerate
  <2>5. CASE ReturnGenerate
    BY <2>5 DEF InputInv, ClosesAfterGenerate
  <2>q. QED  BY <2>1, <2>2, <2>3, <2>4, <2>5
<1>q. QED  BY <1>1, <1>2, <1>3, <1>4 DEF InputInv

\* ... and leaves its loop.
LEMMA LeavingKeeps ==
  ASSUME InputInv, SendRefused \/ CtxSeen \/ ReadInterrupted \/ ReadFails \/ EndOfFile
  PROVE  InputInv'
<1>1. PICK reason :
        /\ LeaveLoop(reason) /\ generateAt \in {"reads", "sendPrev", "sendCur"}
        /\ reason = "eof" => nbRead = Len(file) /\ generateAt = "reads"
        /\ generateAt # "reads" => inputCtxDone \/ closureDone
  BY DEF SendRefused, CtxSeen, ReadInterrupted, ReadFails, EndOfFile
<1> USE DEF LeaveLoop, options, opening
<1>2. InputTypes'
  BY <1>1 DEF InputInv, InputTypes, GenerateStages
<1>3. InputOrder'
  BY <1>1, OrderStays DEF Untouched
<1>4. ReadIsSomewhere'
  <2>1. Undisturbed' => Undisturbed /\ generateAt = "reads"
    BY <1>1 DEF Undisturbed, InputInv, ReadIsSomewhere
  <2>q. QED  BY <1>1, <2>1 DEF InputInv, ReadIsSomewhere, WasSent, StreamOf
<1>5. ClosesAfterGenerate'
  BY <1>1 DEF InputInv, ClosesAfterGenerate
<1>q. QED  BY <1>2, <1>3, <1>4, <1>5 DEF InputInv

\* A packet that is given is the last one that was sent.
LEMMA GiveAppends ==
  ASSUME InputTypes, NEW p \in 1..nbRead, Give(p)
  PROVE  /\ nbRead \in Nat /\ sentPackets' \in Seq(1..nbRead) /\ Len(sentPackets) \in Nat
         /\ DOMAIN sentPackets = 1..Len(sentPackets) /\ DOMAIN sentPackets' = 1..Len(sentPackets) + 1
         /\ \A i \in 1..Len(sentPackets) : sentPackets'[i] = sentPackets[i]
         /\ sentPackets'[Len(sentPackets) + 1] = p
<1>1. sentPackets' = Append(sentPackets, p) /\ sentPackets \in Seq(1..nbRead)
  BY DEF InputTypes, Give
<1>2. nbRead \in Nat
  BY PacketsAre DEF InputTypes
<1>q. QED  BY <1>1, <1>2

\* What is given after all that was sent of its stream comes in order.
LEMMA GivenInOrder ==
  ASSUME InputTypes, SentInOrder, NEW p \in 1..nbRead, Give(p), UNCHANGED <<file, nbRead>>,
         SentAgain(p) \/ \A i \in DOMAIN sentPackets : StreamOf(sentPackets[i]) = StreamOf(p) => sentPackets[i] < p
  PROVE  SentInOrder'
<1> SUFFICES ASSUME NEW i \in DOMAIN sentPackets', NEW j \in DOMAIN sentPackets', i < j,
                    StreamOf(sentPackets'[i]) = StreamOf(sentPackets'[j])
             PROVE  sentPackets'[i] < sentPackets'[j] \/ SentAgain(sentPackets'[j])
  BY DEF SentInOrder, SentAgain, StreamOf, Kind
<1>1. PICK n : n = Len(sentPackets)
  OBVIOUS
<1>2. n \in Nat /\ i \in 1..n + 1 /\ j \in 1..n + 1 /\ DOMAIN sentPackets = 1..n
  BY GiveAppends, <1>1
<1>3. i \in 1..n /\ sentPackets'[i] = sentPackets[i]
  BY GiveAppends, <1>1, <1>2
<1>4. CASE j \in 1..n
  BY <1>1, <1>2, <1>3, <1>4, GiveAppends DEF SentInOrder
<1>5. CASE j = n + 1
  BY <1>1, <1>2, <1>3, <1>5, GiveAppends
<1>q. QED  BY <1>2, <1>4, <1>5

\* What has been read stays read: an unclear packet is not forgotten.
LEMMA ReadStays ==
  ASSUME InputTypes, nbRead' = nbRead \/ nbRead' = nbRead + 1, file' = file, NEW p \in 1..nbRead, SentAgain(p)
  PROVE  SentAgain(p)'
<1>1. nbRead \in Nat
  BY PacketsAre DEF InputTypes
<1>q. QED  BY <1>1 DEF SentAgain, StreamOf, Kind

\* Reading a packet keeps the invariant.
LEMMA ReadingKeeps ==
  ASSUME InputInv, ReadPacket
  PROVE  InputInv'
<1> DEFINE s == StreamOf(nbRead')
<1> USE DEF ReadPacket, options, opening
<1>1. /\ nbRead \in Nat /\ nbRead' = nbRead + 1 /\ nbRead' \in 1..Len(file) /\ Len(file) \in Nat /\ s \in InputStreams
      /\ UNCHANGED <<file, ignoreZeroDuration, sentPackets>> /\ generateAt = "reads"
  BY PacketsAre DEF InputInv, InputTypes, StreamOf
<1>2. InputTypes /\ InputOrder /\ prevPkts \in [InputStreams -> 0..nbRead]
  BY DEF InputInv, InputTypes
<1>3. \/ prevPkts[s] # 0 /\ generateAt' = "sendPrev" /\ prevPkts' = prevPkts
      \/ /\ prevPkts[s] = 0 /\ ~ignoreZeroDuration /\ Kind(nbRead') = "untimed" /\ generateAt' = "reads"
         /\ prevPkts' = [prevPkts EXCEPT ![s] = nbRead']
      \/ prevPkts[s] = 0 /\ generateAt' = "sendCur" /\ prevPkts' \in {prevPkts, [prevPkts EXCEPT ![s] = 0]}
  BY DEF HoldBackOrSend, StreamOf, Kind
<1> HIDE DEF s
<1>4. /\ prevPkts' \in [InputStreams -> 0..nbRead']
      /\ \A t \in InputStreams : prevPkts'[t] # prevPkts[t] =>
           /\ t = s /\ prevPkts[t] = 0 /\ prevPkts'[t] = nbRead' /\ Kind(nbRead') = "untimed" /\ ~ignoreZeroDuration
           /\ generateAt' = "reads"
      /\ generateAt' = "reads" => prevPkts'[s] = nbRead'
  BY <1>1, <1>2, <1>3
<1>5. \A i \in DOMAIN sentPackets : sentPackets[i] \in 1..nbRead
  BY DEF InputInv, InputTypes
<1>6. InputTypes'
  BY <1>1, <1>3, <1>4 DEF InputInv, InputTypes, GenerateStages
<1>7. HoldsUntimed'
  BY <1>1, <1>2, <1>3, <1>4 DEF InputOrder, HoldsUntimed, StreamOf, Kind, s
<1>8. JustRead'
  BY <1>1, <1>2, <1>3, <1>4, <1>5 DEF JustRead, s, StreamOf
<1>9. HeldComesAfter'
  <2> SUFFICES ASSUME NEW t \in InputStreams, prevPkts'[t] # 0
               PROVE  \/ SentAgain(prevPkts[t])'
                      \/ \A i \in DOMAIN sentPackets : StreamOf(sentPackets[i]) = t => sentPackets[i] < prevPkts'[t]
    BY <1>1 DEF HeldComesAfter, StreamOf
  <2>1. CASE prevPkts'[t] # prevPkts[t]
    BY <2>1, <1>1, <1>4, <1>5
  <2>2. CASE prevPkts'[t] = prevPkts[t]
    <3>1. PICK p \in 1..nbRead : p = prevPkts[t]
      BY <2>2, <1>1, <1>2
    <3>2. SentAgain(p) => SentAgain(p)'
      BY <1>1, <1>2, ReadStays
    <3>3. SentAgain(p)' => SentAgain(prevPkts[t])'
      BY <3>1, <2>2 DEF SentAgain, StreamOf, Kind
    <3>q. QED  BY <3>1, <3>2, <3>3, <2>2, <1>2 DEF InputOrder, HeldComesAfter
  <2>q. QED  BY <2>1, <2>2
<1>10. SentInOrder'
  <2>1. \A i \in DOMAIN sentPackets : SentAgain(sentPackets[i]) => SentAgain(sentPackets[i])'
    BY <1>1, <1>2, <1>5, ReadStays
  <2>q. QED  BY <2>1, <1>1, <1>2 DEF InputOrder, SentInOrder, StreamOf
<1>11. ReadIsSomewhere'
  <2>1. Undisturbed' = Undisturbed
    BY DEF Undisturbed
  <2>2. ASSUME Undisturbed, NEW p \in 1..nbRead + 1
        PROVE  WasSent(p) \/ prevPkts'[StreamOf(p)] = p \/ (p = nbRead' /\ generateAt' \in {"sendPrev", "sendCur"})
    <3>1. CASE p = nbRead'
      BY <3>1, <1>1, <1>3, <1>4 DEF s, StreamOf
    <3>2. CASE p \in 1..nbRead
      <4>1. WasSent(p) \/ prevPkts[StreamOf(p)] = p
        BY <2>2, <3>2, <1>1 DEF InputInv, ReadIsSomewhere
      <4>2. p \in 1..Len(file)
        BY <1>1, <3>2
      <4>3. StreamOf(p) \in InputStreams /\ p # 0
        BY <4>2, <1>2, PacketsAre DEF InputTypes, StreamOf
      <4>q. QED  BY <4>1, <4>3, <1>4
    <3>q. QED  BY <3>1, <3>2, <1>1
  <2>3. endedWith' # "eof"
    BY DEF InputInv, ReadIsSomewhere
  <2>4. closureDone' => \E c \in Closers : closing'[c] # "idle"
    BY DEF InputInv, ReadIsSomewhere
  <2>q. QED  BY <2>1, <2>2, <2>3, <2>4, <1>1 DEF ReadIsSomewhere, WasSent, StreamOf
<1>12. ClosesAfterGenerate'
  BY <1>3 DEF InputInv, ClosesAfterGenerate
<1>q. QED  BY <1>6, <1>7, <1>8, <1>9, <1>10, <1>11, <1>12 DEF InputInv, InputOrder

\* What was sent stays sent, and what is given has been sent.
LEMMA GivenIsSent ==
  ASSUME InputTypes, NEW p \in 1..nbRead, Give(p)
  PROVE  WasSent(p)' /\ \A q : WasSent(q) => WasSent(q)'
<1>1. WasSent(p)'
  BY GiveAppends DEF WasSent
<1>2. ASSUME NEW q, WasSent(q)  PROVE WasSent(q)'
  <2>1. PICK i \in 1..Len(sentPackets) : sentPackets[i] = q
    BY <1>2, GiveAppends DEF WasSent
  <2>q. QED  BY <2>1, GiveAppends DEF WasSent
<1>q. QED  BY <1>1, <1>2

\* Sending what was held back for a packet that follows keeps the invariant.
LEMMA SendPrevKeeps ==
  ASSUME InputInv, SendPrev
  PROVE  InputInv'
<1> DEFINE s == StreamOf(nbRead)
           h == prevPkts[s]
<1> USE DEF SendPrev, options, opening
<1>1. InputTypes /\ InputOrder /\ nbRead \in 1..Len(file) /\ Len(file) \in Nat /\ UNCHANGED <<file, ignoreZeroDuration, nbRead>>
  BY PacketsAre DEF InputInv, InputTypes, InputOrder, JustRead
<1>2. s \in InputStreams /\ h \in 1..nbRead /\ h < nbRead /\ Give(h) /\ generateAt = "sendPrev" /\ Kind(h) = "untimed"
      /\ StreamOf(h) = s /\ ~ignoreZeroDuration
  <2>1. s \in InputStreams /\ prevPkts \in [InputStreams -> 0..nbRead]
    BY <1>1, PacketsAre DEF InputTypes, StreamOf
  <2>2. h # 0 /\ h # nbRead
    BY <1>1, <2>1 DEF InputOrder, JustRead
  <2>q. QED  BY <1>1, <2>1, <2>2 DEF InputOrder, HoldsUntimed
<1>3. \/ Kind(nbRead) = "untimed" /\ generateAt' = "reads" /\ prevPkts' = [prevPkts EXCEPT ![s] = nbRead]
      \/ Kind(nbRead) = "unclear" /\ generateAt' = "sendCur" /\ prevPkts' = prevPkts
      \/ generateAt' = "sendCur" /\ prevPkts' = [prevPkts EXCEPT ![s] = 0]
  BY <1>2 DEF HoldBackOrSend
<1> HIDE DEF s, h
<1>4. /\ prevPkts' \in [InputStreams -> 0..nbRead] /\ (\A t \in InputStreams : t # s => prevPkts'[t] = prevPkts[t])
      /\ \/ Kind(nbRead) = "untimed" /\ generateAt' = "reads" /\ prevPkts'[s] = nbRead
         \/ Kind(nbRead) = "unclear" /\ generateAt' = "sendCur" /\ prevPkts'[s] = h
         \/ generateAt' = "sendCur" /\ prevPkts'[s] = 0
  BY <1>1, <1>2, <1>3 DEF InputTypes, h
<1>5. \A i \in DOMAIN sentPackets : sentPackets[i] \in 1..nbRead /\ sentPackets[i] # nbRead
  BY <1>1, <1>2 DEF InputOrder, JustRead, InputTypes
<1>6. \A i \in DOMAIN sentPackets' : sentPackets'[i] = h \/ (i \in DOMAIN sentPackets /\ sentPackets'[i] = sentPackets[i])
  BY <1>1, <1>2, GiveAppends
<1>7. InputTypes'
  BY <1>1, <1>2, <1>3, <1>4, GiveAppends DEF InputTypes, GenerateStages
<1>8. HoldsUntimed'
  BY <1>1, <1>2, <1>4 DEF InputOrder, HoldsUntimed, StreamOf, Kind, s, h
<1>9. JustRead'
  <2>1. \A i \in DOMAIN sentPackets' : sentPackets'[i] # nbRead
    BY <1>2, <1>5, <1>6
  <2>2. generateAt' = "sendCur" => \A t \in InputStreams : prevPkts'[t] # nbRead
    BY <1>1, <1>2, <1>4 DEF InputOrder, JustRead, InputTypes
  <2>3. StreamOf(nbRead)' = s /\ Kind(nbRead)' = Kind(nbRead) /\ nbRead # 0
    BY <1>1 DEF StreamOf, Kind, s
  <2>q. QED  BY <2>1, <2>2, <2>3, <1>1, <1>4 DEF JustRead
<1>10. HeldComesAfter'
  <2> SUFFICES ASSUME NEW t \in InputStreams, prevPkts'[t] # 0
               PROVE  \/ SentAgain(prevPkts[t])'
                      \/ \A i \in DOMAIN sentPackets' : StreamOf(sentPackets'[i]) = t => sentPackets'[i] < prevPkts'[t]
    BY <1>1 DEF HeldComesAfter, StreamOf
  <2>1. CASE t # s
    <3>1. SentAgain(prevPkts[t]) \/ \A i \in DOMAIN sentPackets : StreamOf(sentPackets[i]) = t => sentPackets[i] < prevPkts[t]
      BY <2>1, <1>1, <1>4 DEF InputOrder, HeldComesAfter
    <3>2. SentAgain(prevPkts[t]) => SentAgain(prevPkts[t])'
      BY <2>1, <1>1, <1>4 DEF SentAgain, StreamOf, Kind
    <3>q. QED  BY <3>1, <3>2, <2>1, <1>2, <1>4, <1>6
  <2>2. CASE t = s /\ prevPkts'[s] = nbRead
    <3>1. nbRead \in Int
      BY <1>1
    <3>2. \A i \in DOMAIN sentPackets' : sentPackets'[i] \in 1..nbRead /\ sentPackets'[i] # nbRead
      BY <1>2, <1>5, <1>6
    <3>q. QED  BY <3>1, <3>2, <2>2
  <2>3. CASE t = s /\ prevPkts'[s] = h /\ Kind(nbRead) = "unclear"
    <3>1. nbRead \in h..nbRead
      BY <1>1, <1>2
    <3>q. QED  BY <3>1, <2>3, <1>1, <1>2 DEF SentAgain, StreamOf, Kind, s
  <2>q. QED  BY <2>1, <2>2, <2>3, <1>4
<1>11. SentInOrder'
  <2>1. SentAgain(h) \/ \A i \in DOMAIN sentPackets : StreamOf(sentPackets[i]) = StreamOf(h) => sentPackets[i] < h
    BY <1>1, <1>2 DEF InputOrder, HeldComesAfter, h
  <2>q. QED  BY <2>1, <1>1, <1>2, GivenInOrder DEF InputOrder
<1>12. ReadIsSomewhere'
  <2>1. Undisturbed' = Undisturbed
    BY DEF Undisturbed
  <2>2. ASSUME Undisturbed, NEW p \in 1..nbRead
        PROVE  WasSent(p)' \/ prevPkts'[StreamOf(p)] = p \/ (p = nbRead /\ generateAt' \in {"sendPrev", "sendCur"})
    <3>1. CASE p = nbRead
      BY <3>1, <1>4 DEF s
    <3>2. CASE p # nbRead
      <4>1. WasSent(p) \/ prevPkts[StreamOf(p)] = p
        BY <2>2, <3>2 DEF InputInv, ReadIsSomewhere
      <4>2. StreamOf(p) \in InputStreams
        BY <1>1, PacketsAre DEF InputTypes, StreamOf
      <4>3. StreamOf(p) = s => WasSent(p)'
        BY <4>1, <1>1, <1>2, GivenIsSent DEF h
      <4>q. QED  BY <4>1, <4>2, <4>3, <1>1, <1>2, <1>4, GivenIsSent
    <3>q. QED  BY <3>1, <3>2
  <2>3. endedWith' # "eof"
    BY DEF InputInv, ReadIsSomewhere
  <2>4. closureDone' => \E c \in Closers : closing'[c] # "idle"
    BY DEF InputInv, ReadIsSomewhere
  <2>q. QED  BY <2>1, <2>2, <2>3, <2>4, <1>1 DEF ReadIsSomewhere, StreamOf
<1>13. ClosesAfterGenerate'
  BY <1>3 DEF InputInv, ClosesAfterGenerate
<1>q. QED  BY <1>7, <1>8, <1>9, <1>10, <1>11, <1>12, <1>13 DEF InputInv, InputOrder

\* So does sending the packet itself ...
LEMMA SendCurKeeps ==
  ASSUME InputInv, SendCur
  PROVE  InputInv'
<1> USE DEF SendCur, options, opening
<1>1. InputTypes /\ InputOrder /\ nbRead \in 1..Len(file) /\ Len(file) \in Nat
      /\ UNCHANGED <<file, ignoreZeroDuration, nbRead, prevPkts>> /\ Give(nbRead) /\ generateAt = "sendCur"
  BY PacketsAre DEF InputInv, InputTypes, InputOrder, JustRead
<1>2. \A i \in DOMAIN sentPackets : sentPackets[i] \in 1..nbRead /\ sentPackets[i] < nbRead
  BY <1>1 DEF InputOrder, JustRead, InputTypes
<1>3. InputTypes'
  BY <1>1, GiveAppends DEF InputTypes, GenerateStages
<1>4. HoldsUntimed' /\ JustRead'
  BY <1>1 DEF InputOrder, HoldsUntimed, JustRead, StreamOf, Kind
<1>5. HeldComesAfter'
  <2> SUFFICES ASSUME NEW t \in InputStreams, prevPkts[t] # 0
               PROVE  \/ SentAgain(prevPkts[t])'
                      \/ \A i \in DOMAIN sentPackets' : StreamOf(sentPackets'[i]) = t => sentPackets'[i] < prevPkts[t]
    BY <1>1 DEF HeldComesAfter, StreamOf
  <2>1. prevPkts[t] \in 1..nbRead /\ StreamOf(prevPkts[t]) = t /\ Kind(prevPkts[t]) = "untimed"
    BY <1>1 DEF InputTypes, InputOrder, HoldsUntimed
  <2>2. CASE StreamOf(nbRead) = t
    <3>1. Kind(nbRead) = "unclear" /\ nbRead \in prevPkts[t]..nbRead
      BY <2>1, <2>2, <1>1 DEF InputOrder, JustRead
    <3>q. QED  BY <3>1, <2>1, <2>2, <1>1 DEF SentAgain, StreamOf, Kind
  <2>3. CASE StreamOf(nbRead) # t
    <3>1. SentAgain(prevPkts[t]) \/ \A i \in DOMAIN sentPackets : StreamOf(sentPackets[i]) = t => sentPackets[i] < prevPkts[t]
      BY <1>1 DEF InputOrder, HeldComesAfter
    <3>2. SentAgain(prevPkts[t]) => SentAgain(prevPkts[t])'
      BY <1>1 DEF SentAgain, StreamOf, Kind
    <3>q. QED  BY <3>1, <3>2, <2>3, <1>1, GiveAppends
  <2>q. QED  BY <2>2, <2>3
<1>6. SentInOrder'
  BY <1>1, <1>2, GivenInOrder DEF InputOrder
<1>7. ReadIsSomewhere'
  <2>1. Undisturbed' = Undisturbed
    BY DEF Undisturbed
  <2>2. ASSUME Undisturbed, NEW p \in 1..nbRead  PROVE WasSent(p)' \/ prevPkts[StreamOf(p)] = p
    BY <2>2, <1>1, GivenIsSent DEF InputInv, ReadIsSomewhere
  <2>3. endedWith' # "eof" /\ (closureDone' => \E c \in Closers : closing'[c] # "idle")
    BY DEF InputInv, ReadIsSomewhere
  <2>q. QED  BY <2>1, <2>2, <2>3, <1>1 DEF ReadIsSomewhere, StreamOf
<1>8. ClosesAfterGenerate'
  BY DEF InputInv, ClosesAfterGenerate
<1>q. QED  BY <1>3, <1>4, <1>5, <1>6, <1>7, <1>8 DEF InputInv, InputOrder

\* ... and sending what is left at the end.
LEMMA SendHeldBackKeeps ==
  ASSUME InputInv, SendHeldBack
  PROVE  InputInv'
<1> USE DEF SendHeldBack, options, opening
<1>1. PICK s \in StreamsHeldBack :
        /\ prevPkts' = [prevPkts EXCEPT ![s] = 0]
        /\ \/ Give(prevPkts[s])
           \/ (inputCtxDone \/ closureDone) /\ UNCHANGED sentPackets
  OBVIOUS
<1> DEFINE h == prevPkts[s]
<1>2. InputTypes /\ InputOrder /\ nbRead \in Nat /\ UNCHANGED <<file, ignoreZeroDuration, nbRead, generateAt>>
      /\ generateAt = "flush"
  BY PacketsAre DEF InputInv, InputTypes
<1>3. s \in InputStreams /\ h \in 1..nbRead /\ StreamOf(h) = s
  BY <1>2 DEF StreamsHeldBack, InputTypes, InputOrder, HoldsUntimed
<1>4. /\ prevPkts' \in [InputStreams -> 0..nbRead] /\ prevPkts'[s] = 0
      /\ \A t \in InputStreams : t # s => prevPkts'[t] = prevPkts[t]
  BY <1>1, <1>2, <1>3 DEF InputTypes
<1>5. Give(h) \/ ((inputCtxDone \/ closureDone) /\ UNCHANGED sentPackets)
  BY <1>1
<1> HIDE DEF h
<1>6. \A i \in DOMAIN sentPackets' : sentPackets'[i] = h \/ (i \in DOMAIN sentPackets /\ sentPackets'[i] = sentPackets[i])
  BY <1>2, <1>3, <1>5, GiveAppends
<1>7. InputTypes'
  <2>1. sentPackets' \in Seq(1..nbRead)
    BY <1>2, <1>3, <1>5, GiveAppends DEF InputTypes
  <2>q. QED  BY <2>1, <1>2, <1>4 DEF InputTypes
<1>8. HoldsUntimed' /\ JustRead'
  BY <1>2, <1>4 DEF InputOrder, HoldsUntimed, JustRead, StreamOf, Kind
<1>9. HeldComesAfter'
  <2> SUFFICES ASSUME NEW t \in InputStreams, prevPkts'[t] # 0
               PROVE  \/ SentAgain(prevPkts[t])'
                      \/ \A i \in DOMAIN sentPackets' : StreamOf(sentPackets'[i]) = t => sentPackets'[i] < prevPkts'[t]
    BY <1>2 DEF HeldComesAfter, StreamOf
  <2>1. t # s /\ prevPkts'[t] = prevPkts[t]
    BY <1>4
  <2>2. SentAgain(prevPkts[t]) \/ \A i \in DOMAIN sentPackets : StreamOf(sentPackets[i]) = t => sentPackets[i] < prevPkts[t]
    BY <2>1, <1>2 DEF InputOrder, HeldComesAfter
  <2>3. SentAgain(prevPkts[t]) => SentAgain(prevPkts[t])'
    BY <2>1, <1>2 DEF SentAgain, StreamOf, Kind
  <2>q. QED  BY <2>1, <2>2, <2>3, <1>3, <1>6
<1>10. SentInOrder'
  <2>1. SentAgain(h) \/ \A i \in DOMAIN sentPackets : StreamOf(sentPackets[i]) = StreamOf(h) => sentPackets[i] < h
    BY <1>2, <1>3 DEF InputOrder, HeldComesAfter, h
  <2>2. CASE Give(h)
    BY <2>1, <2>2, <1>2, <1>3, GivenInOrder DEF InputOrder
  <2>3. CASE UNCHANGED sentPackets
    BY <2>3, <1>2 DEF InputOrder, SentInOrder, SentAgain, StreamOf, Kind
  <2>q. QED  BY <2>2, <2>3, <1>5
<1>11. ReadIsSomewhere'
  <2>1. Undisturbed' => Undisturbed /\ Give(h)
    BY <1>2, <1>5 DEF Undisturbed, InputInv, ReadIsSomewhere
  <2>2. ASSUME Undisturbed, Give(h), NEW p \in 1..nbRead  PROVE WasSent(p)' \/ prevPkts'[StreamOf(p)] = p
    <3>1. WasSent(p) \/ prevPkts[StreamOf(p)] = p
      BY <2>2, <1>2 DEF InputInv, ReadIsSomewhere
    <3>2. p \in 1..Len(file)
      BY <1>2, PacketsAre DEF InputTypes
    <3>3. StreamOf(p) \in InputStreams
      BY <3>2, <1>2, PacketsAre DEF InputTypes, StreamOf
    <3>4. StreamOf(p) = s => WasSent(p)'
      BY <3>1, <2>2, <1>2, <1>3, GivenIsSent DEF h
    <3>q. QED  BY <3>1, <3>3, <3>4, <2>2, <1>2, <1>3, <1>4, GivenIsSent
  <2>3. endedWith' = "eof" => nbRead = Len(file)
    BY DEF InputInv, ReadIsSomewhere
  <2>4. closureDone' /\ generateAt # "returned" => \E c \in Closers : closing'[c] # "idle"
    BY DEF InputInv, ReadIsSomewhere
  <2>q. QED  BY <2>1, <2>2, <2>3, <2>4, <1>2 DEF ReadIsSomewhere, StreamOf
<1>12. ClosesAfterGenerate'
  BY <1>2 DEF InputInv, ClosesAfterGenerate
<1>q. QED  BY <1>7, <1>8, <1>9, <1>10, <1>11, <1>12 DEF InputInv, InputOrder

\* Every step of an input keeps its invariant.
LEMMA InputKeeps == InputInv /\ InputNext => InputInv'
BY OpeningKeeps, ClosingKeeps, OthersKeep, StagesKeep, LeavingKeeps, ReadingKeeps, SendPrevKeeps, SendCurKeeps, SendHeldBackKeeps
   DEF InputNext, GenerateGoesOn, CloseGoesOn

\* The invariant says what an input promises.
LEMMA InputImplies == InputInv => InputTypeOK /\ InputSafe
<1> SUFFICES ASSUME InputInv  PROVE InputTypeOK /\ InputSafe
  OBVIOUS
<1>1. InputTypes /\ InputOrder /\ nbRead \in 0..Len(file) /\ Len(file) \in Nat
  BY PacketsAre DEF InputInv, InputTypes
<1>2. InputTypeOK
  <2>1. prevPkts \in [InputStreams -> 0..Len(file)]
    BY <1>1 DEF InputTypes
  <2>2. \A i \in DOMAIN sentPackets : sentPackets[i] \in 1..nbRead
    BY <1>1 DEF InputTypes
  <2>3. {initialized, startedLate, closureDone, inputCtxDone, taken} \subseteq BOOLEAN
    BY <1>1 DEF InputTypes
  <2>q. QED  BY <2>1, <2>2, <2>3, <1>1 DEF InputTypes, InputTypeOK
<1>3. ReadOrderKept
  BY <1>1 DEF InputOrder, SentInOrder, SentAgain, ReadOrderKept
<1>4. AllSentAtEOF
  <2> SUFFICES ASSUME endedWith = "eof", generateAt = "returned", Undisturbed, NEW p \in 1..Len(file)  PROVE WasSent(p)
    BY DEF AllSentAtEOF, Undisturbed, WasSent
  <2>1. WasSent(p) \/ prevPkts[StreamOf(p)] = p
    BY DEF InputInv, ReadIsSomewhere
  <2>2. StreamOf(p) \in InputStreams /\ p # 0
    BY <1>1, PacketsAre DEF InputTypes, StreamOf
  <2>q. QED  BY <2>1, <2>2, <1>1 DEF InputOrder, HoldsUntimed
<1>5. NoReadAfterClose
  BY DEF InputInv, ClosesAfterGenerate, NoReadAfterClose
<1>q. QED  BY <1>2, <1>3, <1>4, <1>5 DEF InputSafe

----------------------------------------------------------------------------
(* OutputKernel.                                                           *)

Medias == {"video", "audio"}
StreamRecords ==
  [outputStreams : [Indexes -> Int], made : Seq(Medias \cup {"any"}), preallocated : [Medias -> Seq(Nat)],
   waitingKeyFrames : SUBSET Nat, failed : BOOLEAN]

\* Output streams are numbered as they are made; each is reserved once, or used by one
\* stream of the sources.
Numbered(o) ==
  /\ \A i \in Indexes : o.outputStreams[i] \in {Missing, Reserved} \cup 1..Len(o.made)
  /\ o.waitingKeyFrames \subseteq 1..Len(o.made)
  /\ \A m \in Medias : \A n \in DOMAIN o.preallocated[m] : o.preallocated[m][n] \in 1..Len(o.made)
UsedOnce(o) ==
  /\ \A m, l \in Medias : \A n \in DOMAIN o.preallocated[m] : \A k \in DOMAIN o.preallocated[l] :
       o.preallocated[m][n] = o.preallocated[l][k] => m = l /\ n = k
  /\ \A i \in Indexes : \A m \in Medias : \A n \in DOMAIN o.preallocated[m] : o.outputStreams[i] # o.preallocated[m][n]
  /\ \A i, j \in Indexes : i # j /\ o.outputStreams[i] > 0 => o.outputStreams[i] # o.outputStreams[j]
Tidy(o) == o \in StreamRecords /\ Numbered(o) /\ UsedOnce(o)

\* Streams are added: a new one of video waits for a key frame.
Extends(o) ==
  /\ \A i \in Indexes : outputStreams[i] # Missing => o.outputStreams[i] = outputStreams[i]
  /\ waitingKeyFrames \subseteq o.waitingKeyFrames
  /\ \A i \in Indexes : outputStreams[i] = Missing /\ o.outputStreams[i] > 0 /\ Is(i, "video") =>
       o.outputStreams[i] \in o.waitingKeyFrames

\* A stream gets what is reserved for its media ...
LEMMA FromReserve ==
  ASSUME NEW o, Tidy(o), Extends(o), NEW i \in Indexes, o.outputStreams[i] = Missing, o.preallocated[Media[i]] # <<>>
  PROVE  Tidy(InitOutputStream(o, i)) /\ Extends(InitOutputStream(o, i))
<1> DEFINE m == Media[i]
           L == Len(o.made)
           r == o.preallocated[m]
           u == InitOutputStream(o, i)
<1>1. m \in Medias /\ r \in Seq(Nat) /\ r # <<>> /\ L \in Nat
  BY OutputAssumption DEF Medias, Tidy, StreamRecords
<1>2. PICK number : number = Head(r)
  OBVIOUS
<1>3. number = r[1] /\ number \in 1..L /\ 1 \in DOMAIN r
  BY <1>1, <1>2 DEF Tidy, Numbered
<1>4. /\ Tail(r) \in Seq(Nat) /\ DOMAIN Tail(r) = 1..Len(r) - 1 /\ Len(r) \in Nat /\ DOMAIN r = 1..Len(r)
      /\ \A n \in 1..Len(r) - 1 : Tail(r)[n] = r[n + 1]
  BY <1>1
<1>5. u = [o EXCEPT !.outputStreams[i] = number, !.made[number] = m, !.preallocated[m] = Tail(r),
                    !.waitingKeyFrames = o.waitingKeyFrames \cup Awaited(m, number)]
  BY <1>1, <1>2 DEF InitOutputStream, Unused
<1>6. PICK v : v = u
  OBVIOUS
<1>7. o \in StreamRecords
  BY DEF Tidy
<1> HIDE DEF u
<1>8. /\ v.outputStreams = [o.outputStreams EXCEPT ![i] = number] /\ v.made = [o.made EXCEPT ![number] = m]
      /\ v.preallocated = [o.preallocated EXCEPT ![m] = Tail(r)] /\ v.failed = o.failed
      /\ v.waitingKeyFrames = o.waitingKeyFrames \cup Awaited(m, number)
      /\ v = [outputStreams |-> v.outputStreams, made |-> v.made, preallocated |-> v.preallocated,
              waitingKeyFrames |-> v.waitingKeyFrames, failed |-> v.failed]
  BY <1>5, <1>6, <1>7 DEF StreamRecords
<1>9. v.made \in Seq(Medias \cup {"any"}) /\ Len(v.made) = L
  BY <1>1, <1>3, <1>7, <1>8 DEF StreamRecords
<1>10. Awaited(m, number) \subseteq 1..L /\ (m = "video" => number \in Awaited(m, number))
  BY <1>3 DEF Awaited
<1>11. /\ \A j \in Indexes : v.outputStreams[j] = IF j = i THEN number ELSE o.outputStreams[j]
       /\ \A l \in Medias : v.preallocated[l] = IF l = m THEN Tail(r) ELSE o.preallocated[l]
  BY <1>7, <1>8 DEF StreamRecords
<1> HIDE DEF L, m
<1>12. v \in StreamRecords
  <2>1. v.outputStreams \in [Indexes -> Int]
    BY <1>3, <1>7, <1>8 DEF StreamRecords
  <2>2. v.preallocated \in [Medias -> Seq(Nat)]
    BY <1>1, <1>4, <1>7, <1>8 DEF StreamRecords
  <2>3. v.waitingKeyFrames \in SUBSET Nat /\ v.failed \in BOOLEAN
    BY <1>1, <1>7, <1>8, <1>10 DEF StreamRecords
  <2>q. QED  BY <2>1, <2>2, <2>3, <1>8, <1>9 DEF StreamRecords
<1>13. Numbered(v)
  <2>1. /\ \A j \in Indexes : o.outputStreams[j] \in {Missing, Reserved} \cup 1..L
        /\ o.waitingKeyFrames \subseteq 1..L
        /\ \A l \in Medias : \A k \in DOMAIN o.preallocated[l] : o.preallocated[l][k] \in 1..L
    BY DEF Tidy, Numbered, L
  <2>2. \A j \in Indexes : v.outputStreams[j] \in {Missing, Reserved} \cup 1..L
    BY <1>3, <1>11, <2>1
  <2>3. v.waitingKeyFrames \subseteq 1..L
    BY <1>8, <1>10, <2>1
  <2>4. ASSUME NEW l \in Medias, NEW k \in DOMAIN v.preallocated[l]  PROVE v.preallocated[l][k] \in 1..L
    <3>1. CASE l # m
      BY <1>11, <2>1, <2>4, <3>1
    <3>2. CASE l = m
      <4>1. PICK rest : rest = Tail(r)
        OBVIOUS
      <4>2. v.preallocated[l] = rest
        BY <1>11, <3>2, <4>1
      <4>3. k \in 1..Len(r) - 1 /\ v.preallocated[l][k] = r[k + 1]
        BY <1>4, <2>4, <4>1, <4>2
      <4>4. k + 1 \in DOMAIN r
        BY <1>4, <4>3
      <4>q. QED  BY <1>1, <2>1, <4>3, <4>4
    <3>q. QED  BY <3>1, <3>2
  <2>q. QED  BY <1>9, <2>2, <2>3, <2>4 DEF Numbered
<1>14. UsedOnce(v)
  <2> DEFINE WasAt(l, n) == IF l = m THEN n + 1 ELSE n
  <2>1. ASSUME NEW l \in Medias, NEW n \in DOMAIN v.preallocated[l]
        PROVE  /\ WasAt(l, n) \in DOMAIN o.preallocated[l] /\ v.preallocated[l][n] = o.preallocated[l][WasAt(l, n)]
               /\ v.preallocated[l][n] # number
    <3>1. WasAt(l, n) \in DOMAIN o.preallocated[l] /\ v.preallocated[l][n] = o.preallocated[l][WasAt(l, n)]
          /\ (l = m => WasAt(l, n) # 1)
      <4>1. CASE l = m
        <5>1. v.preallocated[l] = Tail(r) /\ n \in 1..Len(r) - 1
          BY <4>1, <1>4, <1>11
        <5>2. n + 1 \in 1..Len(r) /\ n + 1 # 1
          BY <5>1, <1>4
        <5>q. QED  BY <4>1, <5>1, <5>2, <1>4
      <4>2. CASE l # m
        BY <4>2, <1>11
      <4>q. QED  BY <4>1, <4>2
    <3> HIDE DEF WasAt
    <3>2. o.preallocated[l][WasAt(l, n)] # o.preallocated[m][1]
      BY <3>1, <1>1, <1>3 DEF Tidy, UsedOnce
    <3>q. QED  BY <3>1, <3>2, <1>3
  <2>2. ASSUME NEW l \in Medias, NEW n \in DOMAIN v.preallocated[l], NEW k \in DOMAIN v.preallocated[l],
               WasAt(l, n) = WasAt(l, k)
        PROVE  n = k
    <3>1. CASE l = m
      <4>1. v.preallocated[l] = Tail(r) /\ n \in 1..Len(r) - 1 /\ k \in 1..Len(r) - 1
        BY <3>1, <1>4, <1>11
      <4>q. QED  BY <4>1, <3>1, <2>2
    <3>2. CASE l # m
      BY <3>2, <2>2
    <3>q. QED  BY <3>1, <3>2
  <2> HIDE DEF WasAt
  <2>3. ASSUME NEW l \in Medias, NEW h \in Medias, NEW n \in DOMAIN v.preallocated[l], NEW k \in DOMAIN v.preallocated[h],
               v.preallocated[l][n] = v.preallocated[h][k]
        PROVE  l = h /\ n = k
    <3>1. l = h /\ WasAt(l, n) = WasAt(h, k)
      BY <2>1, <2>3 DEF Tidy, UsedOnce
    <3>q. QED  BY <3>1, <2>2
  <2>4. \A j \in Indexes : \A l \in Medias : \A n \in DOMAIN v.preallocated[l] : v.outputStreams[j] # v.preallocated[l][n]
    BY <2>1, <1>11 DEF Tidy, UsedOnce
  <2>5. \A j \in Indexes : o.outputStreams[j] # number
    BY <1>1, <1>3 DEF Tidy, UsedOnce
  <2>6. \A j, k \in Indexes : j # k /\ v.outputStreams[j] > 0 => v.outputStreams[j] # v.outputStreams[k]
    BY <2>5, <1>11 DEF Tidy, UsedOnce
  <2>q. QED  BY <2>3, <2>4, <2>6 DEF UsedOnce
<1>15. Extends(v)
  BY <1>3, <1>8, <1>10, <1>11 DEF Extends, Is, m
<1>q. QED  BY <1>6, <1>12, <1>13, <1>14, <1>15 DEF Tidy, u

\* ... or a new one ...
LEMMA WithNew ==
  ASSUME NEW o, Tidy(o), Extends(o), NEW i \in Indexes, o.outputStreams[i] = Missing,
         NEW v, v \in StreamRecords, Len(v.made) = Len(o.made) + 1,
         NEW number, number \in {Reserved, Len(o.made) + 1}, v.outputStreams = [o.outputStreams EXCEPT ![i] = number],
         \/ v.preallocated = o.preallocated
         \/ /\ number = Reserved
            /\ v.preallocated = [o.preallocated EXCEPT ![Media[i]] = Append(o.preallocated[Media[i]], Len(o.made) + 1)],
         v.waitingKeyFrames \subseteq o.waitingKeyFrames \cup {Len(o.made) + 1},
         o.waitingKeyFrames \subseteq v.waitingKeyFrames,
         number > 0 /\ Is(i, "video") => number \in v.waitingKeyFrames
  PROVE  Tidy(v) /\ Extends(v)
<1>1. PICK m \in Medias : m = Media[i]
  BY OutputAssumption DEF Medias
<1>2. PICK n \in Nat : n = Len(o.made)
  BY DEF Tidy, StreamRecords
<1>3. PICK r \in Seq(Nat) : r = o.preallocated[m]
  BY <1>1 DEF Tidy, StreamRecords
<1>4. o.outputStreams \in [Indexes -> Int] /\ o.preallocated \in [Medias -> Seq(Nat)]
  BY DEF Tidy, StreamRecords
<1>5. \A j \in Indexes : v.outputStreams[j] = IF j = i THEN number ELSE o.outputStreams[j]
  BY <1>4
<1>6. /\ \A j \in Indexes : o.outputStreams[j] \in {Missing, Reserved} \cup 1..n
      /\ o.waitingKeyFrames \subseteq 1..n
      /\ \A l \in Medias : \A k \in DOMAIN o.preallocated[l] : o.preallocated[l][k] \in 1..n
  BY <1>2 DEF Tidy, Numbered
\* What is reserved was so before, or is the new one.
<1>7. ASSUME NEW l \in Medias, NEW k \in DOMAIN v.preallocated[l]
      PROVE  \/ k \in DOMAIN o.preallocated[l] /\ v.preallocated[l][k] = o.preallocated[l][k]
             \/ number = Reserved /\ l = m /\ k = Len(r) + 1 /\ v.preallocated[l][k] = n + 1
  <2>1. CASE v.preallocated = o.preallocated
    BY <2>1
  <2>2. CASE number = Reserved /\ v.preallocated = [o.preallocated EXCEPT ![m] = Append(r, n + 1)]
    <3>1. v.preallocated[l] = IF l = m THEN Append(r, n + 1) ELSE o.preallocated[l]
      BY <2>2, <1>4
    <3>2. DOMAIN Append(r, n + 1) = 1..Len(r) + 1 /\ DOMAIN r = 1..Len(r) /\ Len(r) \in Nat
          /\ Append(r, n + 1)[Len(r) + 1] = n + 1 /\ \A j \in 1..Len(r) : Append(r, n + 1)[j] = r[j]
      OBVIOUS
    <3>3. CASE l = m
      BY <3>1, <3>2, <3>3, <1>3, <2>2
    <3>4. CASE l # m
      BY <3>1, <3>4
    <3>q. QED  BY <3>3, <3>4
  <2>q. QED  BY <2>1, <2>2, <1>1, <1>2, <1>3
<1>8. Missing = 0 /\ Reserved = -1 /\ number \in {-1, n + 1} /\ \A k \in 1..n : k # n + 1 /\ k \in 1..n + 1 /\ k > 0
  BY <1>2 DEF Missing, Reserved
<1>9. Numbered(v)
  <2>1. \A j \in Indexes : v.outputStreams[j] \in {Missing, Reserved} \cup 1..n + 1
    BY <1>5, <1>6, <1>8
  <2>2. v.waitingKeyFrames \subseteq 1..n + 1
    BY <1>2, <1>6, <1>8
  <2>3. \A l \in Medias : \A k \in DOMAIN v.preallocated[l] : v.preallocated[l][k] \in 1..n + 1
    BY <1>6, <1>7, <1>8
  <2>q. QED  BY <2>1, <2>2, <2>3, <1>2 DEF Numbered
<1>10. UsedOnce(v)
  <2>1. ASSUME NEW l \in Medias, NEW h \in Medias, NEW j \in DOMAIN v.preallocated[l], NEW k \in DOMAIN v.preallocated[h],
               v.preallocated[l][j] = v.preallocated[h][k]
        PROVE  l = h /\ j = k
    <3>1. \/ j \in DOMAIN o.preallocated[l] /\ v.preallocated[l][j] = o.preallocated[l][j]
          \/ l = m /\ j = Len(r) + 1 /\ v.preallocated[l][j] = n + 1
      BY <1>7, <2>1
    <3>2. \/ k \in DOMAIN o.preallocated[h] /\ v.preallocated[h][k] = o.preallocated[h][k]
          \/ h = m /\ k = Len(r) + 1 /\ v.preallocated[h][k] = n + 1
      BY <1>7, <2>1
    <3>3. CASE v.preallocated[l][j] = n + 1
      BY <1>6, <1>8, <2>1, <3>1, <3>2, <3>3
    <3>4. CASE v.preallocated[l][j] # n + 1
      <4>1. /\ j \in DOMAIN o.preallocated[l] /\ k \in DOMAIN o.preallocated[h]
            /\ o.preallocated[l][j] = o.preallocated[h][k]
        BY <2>1, <3>1, <3>2, <3>4
      <4>q. QED  BY <2>1, <4>1 DEF Tidy, UsedOnce
    <3>q. QED  BY <3>3, <3>4
  <2>2. \A j \in Indexes : \A l \in Medias : \A k \in DOMAIN v.preallocated[l] : v.outputStreams[j] # v.preallocated[l][k]
    <3> SUFFICES ASSUME NEW j \in Indexes, NEW l \in Medias, NEW k \in DOMAIN v.preallocated[l]
                 PROVE  v.outputStreams[j] # v.preallocated[l][k]
      OBVIOUS
    <3>1. CASE k \in DOMAIN o.preallocated[l] /\ v.preallocated[l][k] = o.preallocated[l][k]
      <4>1. v.preallocated[l][k] \in 1..n /\ o.outputStreams[j] # v.preallocated[l][k]
        BY <3>1, <1>6 DEF Tidy, UsedOnce
      <4>q. QED  BY <4>1, <1>5, <1>8
    <3>2. CASE number = Reserved /\ v.preallocated[l][k] = n + 1
      <4>1. n + 1 # 0 /\ n + 1 # -1
        OBVIOUS
      <4>q. QED  BY <4>1, <3>2, <1>5, <1>6, <1>8
    <3>q. QED  BY <3>1, <3>2, <1>7
  <2>3. ASSUME NEW j \in Indexes, NEW k \in Indexes, j # k, v.outputStreams[j] > 0  PROVE v.outputStreams[j] # v.outputStreams[k]
    <3>1. \A h \in Indexes : o.outputStreams[h] # n + 1
      BY <1>6, <1>8
    <3>q. QED  BY <3>1, <2>3, <1>5, <1>8 DEF Tidy, UsedOnce
  <2>q. QED  BY <2>1, <2>2, <2>3 DEF UsedOnce
<1>11. Extends(v)
  BY <1>5 DEF Extends
<1>q. QED  BY <1>9, <1>10, <1>11 DEF Tidy

\* ... and waits for a key frame; a stream that is there stays as it is.
LEMMA OneStream ==
  ASSUME NEW o, Tidy(o), Extends(o), NEW i \in Indexes, NEW notice \in BOOLEAN
  PROVE  Tidy(ForStream(o, i, notice)) /\ Extends(ForStream(o, i, notice))
<1>1. PICK m \in Medias : m = Media[i]
  BY OutputAssumption DEF Medias
<1>2. PICK n \in Nat : n = Len(o.made)
  BY DEF Tidy, StreamRecords
<1>3. PICK r \in Seq(Nat) : r = o.preallocated[m]
  BY <1>1 DEF Tidy, StreamRecords
<1>4. /\ o.outputStreams \in [Indexes -> Int] /\ o.preallocated \in [Medias -> Seq(Nat)] /\ o.made \in Seq(Medias \cup {"any"})
      /\ o.waitingKeyFrames \in SUBSET Nat /\ o.failed \in BOOLEAN /\ o \in StreamRecords
  BY DEF Tidy, StreamRecords
<1>5. CASE notice /\ o.outputStreams[i] = Missing
  <2>1. PICK v : v = Preallocate(o, i)
    OBVIOUS
  <2>2. v = [[o EXCEPT !.made = Append(o.made, "any")] EXCEPT
               !.outputStreams[i] = Reserved, !.preallocated[m] = Append(r, n + 1),
               !.waitingKeyFrames = IF m = "audio" THEN o.waitingKeyFrames \cup {n + 1} ELSE o.waitingKeyFrames]
    BY <2>1, <1>1, <1>2, <1>3, <1>4, <1>5 DEF Preallocate, NewStream, StreamRecords
  <2>3. /\ v.outputStreams = [o.outputStreams EXCEPT ![i] = Reserved] /\ v.made = Append(o.made, "any") /\ v.failed = o.failed
        /\ v.preallocated = [o.preallocated EXCEPT ![m] = Append(r, n + 1)]
        /\ v.waitingKeyFrames \in {o.waitingKeyFrames, o.waitingKeyFrames \cup {n + 1}}
        /\ v = [outputStreams |-> v.outputStreams, made |-> v.made, preallocated |-> v.preallocated,
                waitingKeyFrames |-> v.waitingKeyFrames, failed |-> v.failed]
    BY <2>2, <1>4 DEF StreamRecords
  <2>4. v.outputStreams \in [Indexes -> Int] /\ v.preallocated \in [Medias -> Seq(Nat)]
    BY <2>3, <1>3, <1>4 DEF Reserved
  <2>5. v.made \in Seq(Medias \cup {"any"}) /\ Len(v.made) = n + 1
    BY <2>3, <1>2, <1>4
  <2>s. v.waitingKeyFrames \in SUBSET Nat
    <3>1. n + 1 \in Nat
      OBVIOUS
    <3>q. QED  BY <3>1, <2>3, <1>4
  <2>6. v \in StreamRecords
    BY <2>3, <2>4, <2>5, <2>s, <1>4 DEF StreamRecords
  <2>t. /\ Len(v.made) = Len(o.made) + 1 /\ Reserved \in {Reserved, Len(o.made) + 1} /\ ~ (Reserved > 0)
        /\ v.waitingKeyFrames \subseteq o.waitingKeyFrames \cup {Len(o.made) + 1} /\ o.waitingKeyFrames \subseteq v.waitingKeyFrames
        /\ v.preallocated = [o.preallocated EXCEPT ![Media[i]] = Append(o.preallocated[Media[i]], Len(o.made) + 1)]
    BY <2>3, <2>5, <1>1, <1>2, <1>3 DEF Reserved
  <2>7. Tidy(v) /\ Extends(v)
    BY <2>3, <2>6, <2>t, <1>5, WithNew
  <2>q. QED  BY <2>1, <2>7, <1>5 DEF ForStream
<1>6. CASE ~notice /\ o.outputStreams[i] = Missing /\ ~o.failed
  <2>1. CASE TooMany(o, i)
    <3>1. PICK v : v = [o EXCEPT !.failed = TRUE]
      OBVIOUS
    <3>2. /\ v.outputStreams = o.outputStreams /\ v.made = o.made /\ v.preallocated = o.preallocated
          /\ v.waitingKeyFrames = o.waitingKeyFrames /\ v \in StreamRecords
      BY <3>1, <1>4 DEF StreamRecords
    <3>3. Numbered(v) /\ Extends(v)
      BY <3>2 DEF Tidy, Numbered, Extends
    <3>4. UsedOnce(v)
      BY <3>2 DEF Tidy, UsedOnce
    <3>q. QED  BY <3>1, <3>2, <3>3, <3>4, <2>1, <1>6 DEF ForStream, UpdateOutputFormat, Tidy
  <2>2. CASE ~TooMany(o, i) /\ r # <<>>
    BY <2>2, <1>1, <1>3, <1>6, FromReserve DEF ForStream, UpdateOutputFormat
  <2>3. CASE ~TooMany(o, i) /\ r = <<>>
    <3>1. PICK v : v = InitOutputStream(o, i)
      OBVIOUS
    <3>2. v = [[o EXCEPT !.made = Append(o.made, m)] EXCEPT
                 !.outputStreams[i] = n + 1, !.made[n + 1] = m, !.preallocated[m] = <<>>,
                 !.waitingKeyFrames = o.waitingKeyFrames \cup Awaited(m, n + 1)]
      BY <3>1, <2>3, <1>1, <1>2, <1>3, <1>4 DEF InitOutputStream, NewStream, Unused, StreamRecords
    <3>3. /\ v.outputStreams = [o.outputStreams EXCEPT ![i] = n + 1] /\ v.made = [Append(o.made, m) EXCEPT ![n + 1] = m]
          /\ v.preallocated = [o.preallocated EXCEPT ![m] = <<>>] /\ v.failed = o.failed
          /\ v.waitingKeyFrames = o.waitingKeyFrames \cup Awaited(m, n + 1)
          /\ v = [outputStreams |-> v.outputStreams, made |-> v.made, preallocated |-> v.preallocated,
                  waitingKeyFrames |-> v.waitingKeyFrames, failed |-> v.failed]
      BY <3>2, <1>4 DEF StreamRecords
    <3>4. v.preallocated = o.preallocated
      BY <3>3, <2>3, <1>3, <1>4
    <3>5. v.made \in Seq(Medias \cup {"any"}) /\ Len(v.made) = n + 1
      <4>1. Append(o.made, m) \in Seq(Medias \cup {"any"}) /\ Len(Append(o.made, m)) = n + 1
        BY <1>2, <1>4
      <4>q. QED  BY <4>1, <3>3
    <3>6. Awaited(m, n + 1) \subseteq {n + 1} /\ (m = "video" => n + 1 \in Awaited(m, n + 1))
      BY DEF Awaited
    <3>7. v.outputStreams \in [Indexes -> Int] /\ v.waitingKeyFrames \in SUBSET Nat
      BY <3>3, <3>6, <1>4
    <3>8. v \in StreamRecords
      BY <3>3, <3>4, <3>5, <3>7, <1>4 DEF StreamRecords
    <3>9. /\ Len(v.made) = Len(o.made) + 1 /\ n + 1 \in {Reserved, Len(o.made) + 1}
          /\ v.waitingKeyFrames \subseteq o.waitingKeyFrames \cup {Len(o.made) + 1} /\ o.waitingKeyFrames \subseteq v.waitingKeyFrames
          /\ (n + 1 > 0 /\ Is(i, "video") => n + 1 \in v.waitingKeyFrames)
      BY <3>3, <3>5, <3>6, <1>1, <1>2 DEF Is
    <3>10. Tidy(v) /\ Extends(v)
      BY <3>3, <3>4, <3>8, <3>9, <1>6, WithNew
    <3>q. QED  BY <3>1, <3>10, <2>3, <1>6 DEF ForStream, UpdateOutputFormat
  <2>q. QED  BY <2>1, <2>2, <2>3
<1>7. CASE ForStream(o, i, notice) = o
  BY <1>7
<1>8. ForStream(o, i, notice) = o \/ (o.outputStreams[i] = Missing /\ (notice \/ ~o.failed))
  BY DEF ForStream, Preallocate, UpdateOutputFormat
<1>q. QED  BY <1>5, <1>6, <1>7, <1>8

\* The streams as they are.
StreamsNow ==
  [outputStreams |-> outputStreams, made |-> made, preallocated |-> preallocated, waitingKeyFrames |-> waitingKeyFrames,
   failed |-> FALSE]

IsFold(f, source, notice, n) ==
  f = [k \in 0..n |-> IF k = 0 THEN StreamsNow ELSE ForStream(f[k - 1], StreamsOf[source][k], notice)]

\* The recursion over the streams of a source defines a function ...
LEMMA FoldRecurs ==
  ASSUME NEW source \in Sources, NEW notice \in BOOLEAN
  PROVE  \E f : ForStreams(source, notice) = f[Len(StreamsOf[source])] /\ IsFold(f, source, notice, Len(StreamsOf[source]))
<1> DEFINE Body(f, k) == IF k = 0 THEN StreamsNow ELSE ForStream(f[k - 1], StreamsOf[source][k], notice)
           IsRec(f, n) == f = [k \in 0..n |-> Body(f, k)]
           Good(n) == \E f : IsRec(f, n)
<1>1. PICK N \in Nat : N = Len(StreamsOf[source])
  BY OutputAssumption
<1> DEFINE Bad == {n \in 0..N : ~Good(n)}
<1>2. Good(0)
  <2>1. IsRec([k \in 0..0 |-> StreamsNow], 0)
    OBVIOUS
  <2>q. QED  BY <2>1
<1>3. ASSUME NEW n \in 1..N, Good(n - 1)  PROVE Good(n)
  <2>1. PICK f : IsRec(f, n - 1)
    BY <1>3
  <2> DEFINE g == [k \in 0..n |-> IF k = n THEN Body(f, n) ELSE f[k]]
  <2>2. n \in Nat /\ n - 1 \in 0..n - 1 /\ n # 0 /\ n \in 0..n
    BY <1>1
  <2>3. g[n] = Body(f, n) /\ \A k \in 0..n - 1 : g[k] = f[k]
    <3> HIDE DEF Body
    <3>q. QED  BY <2>2
  <2>4. \A k \in 0..n - 1 : f[k] = Body(f, k)
    BY <2>1, Zenon
  <2>5. \A k \in 0..n - 1 : k = 0 \/ k - 1 \in 0..n - 1
    BY <2>2
  <2>6. ASSUME NEW k \in 0..n  PROVE g[k] = Body(g, k)
    <3> HIDE DEF g
    <3>1. CASE k = n
      BY <3>1, <2>2, <2>3
    <3>2. CASE k # n
      <4>1. k \in 0..n - 1
        BY <3>2, <2>2
      <4>q. QED  BY <4>1, <2>3, <2>4, <2>5
    <3>q. QED  BY <3>1, <3>2
  <2>7. g = [k \in 0..n |-> g[k]]
    OBVIOUS
  <2>8. IsRec(g, n)
    <3> HIDE DEF g
    <3>q. QED  BY <2>6, <2>7
  <2>q. QED  BY <2>8
<1>4. Bad = {}
  <2> HIDE DEF Good
  <2>1. Bad \subseteq Nat
    OBVIOUS
  <2>2. ASSUME NEW n \in Bad, \A k \in Bad : n <= k  PROVE FALSE
    <3>1. n \in 1..N /\ n - 1 \in 0..N /\ n - 1 \notin Bad
      BY <2>2, <1>1, <1>2
    <3>q. QED  BY <2>2, <3>1, <1>3
  <2>q. QED
    <3> HIDE DEF Bad
    <3>q. QED  BY <2>1, <2>2, Least
<1>5. Good(N)
  <2> HIDE DEF Good
  <2>q. QED  BY <1>1, <1>4
<1>6. PICK f : f = (CHOOSE g : IsRec(g, N))
  OBVIOUS
<1>7. IsRec(f, N) /\ ForStreams(source, notice) = f[N]
  BY <1>1, <1>5, <1>6, Zenon DEF ForStreams, StreamsNow
<1>q. QED  BY <1>1, <1>7, Zenon DEF IsFold

\* ... whose values are tidy.
LEMMA ForStreamsTidy ==
  ASSUME Tidy(StreamsNow), NEW source \in Sources, NEW notice \in BOOLEAN
  PROVE  Tidy(ForStreams(source, notice)) /\ Extends(ForStreams(source, notice))
<1>1. PICK N \in Nat : N = Len(StreamsOf[source]) /\ \A k \in 1..N : StreamsOf[source][k] \in Indexes
  BY OutputAssumption
<1>2. PICK f : ForStreams(source, notice) = f[N] /\ IsFold(f, source, notice, N)
  BY <1>1, FoldRecurs
<1>3. \A k \in 0..N : f[k] = IF k = 0 THEN StreamsNow ELSE ForStream(f[k - 1], StreamsOf[source][k], notice)
  BY <1>2, Zenon DEF IsFold
<1> DEFINE Fits(k) == Tidy(f[k]) /\ Extends(f[k])
           Bad == {k \in 0..N : ~Fits(k)}
<1>4. Extends(StreamsNow)
  BY DEF Extends, StreamsNow, Missing
<1>5. Fits(0)
  BY <1>1, <1>3, <1>4
<1>6. ASSUME NEW k \in 1..N, Fits(k - 1)  PROVE Fits(k)
  <2>1. k \in 0..N /\ k # 0 /\ StreamsOf[source][k] \in Indexes
    BY <1>1
  <2>2. f[k] = ForStream(f[k - 1], StreamsOf[source][k], notice)
    BY <2>1, <1>3
  <2>q. QED  BY <2>1, <2>2, <1>6, OneStream
<1>7. Bad = {}
  <2> HIDE DEF Fits
  <2>1. Bad \subseteq Nat
    OBVIOUS
  <2>2. ASSUME NEW n \in Bad, \A k \in Bad : n <= k  PROVE FALSE
    <3>1. n \in 1..N /\ n - 1 \in 0..N /\ n - 1 \notin Bad
      BY <2>2, <1>1, <1>5
    <3>q. QED  BY <2>2, <3>1, <1>6
  <2>q. QED
    <3> HIDE DEF Bad
    <3>q. QED  BY <2>1, <2>2, Least
<1>8. Fits(N)
  <2> HIDE DEF Fits
  <2>q. QED  BY <1>1, <1>7
<1>q. QED  BY <1>2, <1>8

SentPackets == [source : Sources, index : Indexes, key : BOOLEAN, dts : PacketDTSs]
OutputStages == {"none", "stream", "send", "header", "flush", "write", "failed", "panic"}

OutputTypes ==
  /\ Tidy(StreamsNow) /\ DOMAIN lastDTS = DOMAIN made /\ DOMAIN lastKeyFrameSource = DOMAIN made
  /\ formatContext \in {"open", "nil"} /\ wrote \in {"nothing", "header", "broken", "trailer"}
  /\ flv \in BOOLEAN /\ outStarted \in BOOLEAN /\ headerSent \in BOOLEAN /\ misplaced \in BOOLEAN
  /\ sendAt \in OutputStages /\ (sendAt # "none" => sending \in SentPackets)
  /\ pendingPackets \in Seq(SentPackets)

\* The header is the first that is written, when the kernel starts, and after that packets
\* are, until the context is closed.
HeaderFirst ==
  /\ sendAt \in {"header", "flush", "write"} => outStarted
  /\ ~outStarted \/ sendAt = "header" => wrote = "nothing" /\ ~headerSent
  /\ outStarted /\ sendAt \in {"none", "stream", "send", "flush", "write"} => wrote = "header" \/ formatContext = "nil"
  /\ headerSent => wrote \in {"header", "broken"}
  /\ ~misplaced

\* A video stream waits for a key frame or has a packet among those that are kept, which
\* are kept until the kernel has started.
KeepsOf(i) == \E n \in DOMAIN pendingPackets : pendingPackets[n].index = i
WaitsOrKeeps ==
  /\ ~outStarted => \A i \in Indexes : Is(i, "video") /\ outputStreams[i] > 0 => outputStreams[i] \in waitingKeyFrames \/ KeepsOf(i)
  /\ sendAt = "send" => outputStreams[sending.index] > 0
  /\ outStarted => pendingPackets = <<>> \/ sendAt \in {"header", "flush", "failed"}
  /\ sendAt \in {"header", "flush"} => pendingPackets # <<>>

OutputInv == OutputTypes /\ HeaderFirst /\ WaitsOrKeeps /\ KeptStartsWithKey

\* An output starts with its invariant.
LEMMA OutputInitially == OutputInit => OutputInv
<1> SUFFICES ASSUME OutputInit  PROVE OutputInv
  OBVIOUS
<1> DEFINE P == PreallocatesVideo
<1>1. P \in Nat /\ made = [n \in 1..P |-> "any"] /\ made \in Seq(Medias \cup {"any"}) /\ Len(made) = P
  BY OutputAssumption DEF OutputInit
<1>2. PICK reserve : reserve = [n \in 1..P |-> n]
  OBVIOUS
<1>3. reserve \in Seq(Nat) /\ DOMAIN reserve = 1..P /\ \A n \in 1..P : reserve[n] = n
  BY <1>1, <1>2
<1>4. /\ DOMAIN preallocated["video"] = 1..P /\ (\A n \in 1..P : preallocated["video"][n] = n)
      /\ preallocated["audio"] = <<>> /\ preallocated \in [Medias -> Seq(Nat)] /\ DOMAIN preallocated["audio"] = {}
  BY <1>2, <1>3 DEF OutputInit, Medias
<1>5. \A i \in Indexes : outputStreams[i] = 0 /\ outputStreams \in [Indexes -> Int]
  BY DEF OutputInit, Missing
<1>6. Tidy(StreamsNow)
  <2>1. StreamsNow \in StreamRecords
    <3>1. outputStreams \in [Indexes -> Int]
      BY DEF OutputInit, Missing
    <3>q. QED  BY <3>1, <1>1, <1>4 DEF StreamsNow, StreamRecords, OutputInit
  <2>2. Numbered(StreamsNow)
    BY <1>1, <1>4, <1>5 DEF StreamsNow, Numbered, OutputInit, Missing, Medias
  <2>3. UsedOnce(StreamsNow)
    <3>1. \A m \in Medias : \A n \in DOMAIN preallocated[m] : m = "video" /\ preallocated[m][n] = n /\ n \in 1..P
      BY <1>4 DEF Medias
    <3>2. \A n \in 1..P : n # 0 /\ ~ (0 > 0)
      BY <1>1
    <3>q. QED  BY <3>1, <3>2, <1>5 DEF StreamsNow, UsedOnce
  <2>q. QED  BY <2>1, <2>2, <2>3 DEF Tidy
<1>7. OutputTypes
  <2>1. DOMAIN lastDTS = DOMAIN made /\ DOMAIN lastKeyFrameSource = DOMAIN made
    BY DEF OutputInit
  <2>2. pendingPackets \in Seq(SentPackets) /\ sendAt = "none" /\ flv \in BOOLEAN
    BY DEF OutputInit
  <2>q. QED  BY <2>1, <2>2, <1>6 DEF OutputInit, OutputTypes, OutputStages
<1>8. HeaderFirst /\ WaitsOrKeeps /\ KeptStartsWithKey
  BY <1>5 DEF OutputInit, HeaderFirst, WaitsOrKeeps, KeptStartsWithKey
<1>q. QED  BY <1>7, <1>8 DEF OutputInv

\* What a source shows adds streams, and takes none.
LEMMA AssignKeeps ==
  ASSUME Tidy(StreamsNow), NEW source \in Sources, NEW notice \in BOOLEAN, Assign(ForStreams(source, notice))
  PROVE  /\ Tidy(StreamsNow)' /\ DOMAIN lastDTS' = DOMAIN made' /\ DOMAIN lastKeyFrameSource' = DOMAIN made'
         /\ \A i \in Indexes : outputStreams[i] > 0 => outputStreams'[i] = outputStreams[i]
         /\ \A i \in Indexes : Is(i, "video") /\ outputStreams'[i] > 0 =>
              outputStreams'[i] = outputStreams[i] \/ outputStreams'[i] \in waitingKeyFrames'
         /\ waitingKeyFrames \subseteq waitingKeyFrames'
<1>1. PICK o : o = ForStreams(source, notice)
  OBVIOUS
<1>2. Tidy(o) /\ Extends(o) /\ Assign(o)
  BY <1>1, ForStreamsTidy
<1>3. /\ outputStreams' = o.outputStreams /\ made' = o.made /\ preallocated' = o.preallocated
      /\ waitingKeyFrames' = o.waitingKeyFrames /\ DOMAIN lastDTS' = DOMAIN made' /\ DOMAIN lastKeyFrameSource' = DOMAIN made'
  BY <1>2 DEF Assign
<1>4. Tidy(StreamsNow)'
  <2>1. StreamsNow' \in StreamRecords
    BY <1>2, <1>3 DEF Tidy, StreamRecords, StreamsNow
  <2>2. Numbered(StreamsNow)'
    BY <1>2, <1>3 DEF Tidy, Numbered, StreamsNow
  <2>3. UsedOnce(StreamsNow)'
    BY <1>2, <1>3 DEF Tidy, UsedOnce, StreamsNow
  <2>q. QED  BY <2>1, <2>2, <2>3 DEF Tidy, StreamRecords
<1>q. QED  BY <1>2, <1>3, <1>4 DEF Extends, Missing

\* The streams stay tidy while nothing is added, whether they wait for a key frame or not.
LEMMA StreamsStayTidy ==
  ASSUME Tidy(StreamsNow), waitingKeyFrames' \subseteq waitingKeyFrames, UNCHANGED <<outputStreams, made, preallocated>>
  PROVE  Tidy(StreamsNow)'
<1>1. StreamsNow' \in StreamRecords
  BY DEF Tidy, StreamRecords, StreamsNow
<1>2. Numbered(StreamsNow)'
  BY DEF Tidy, Numbered, StreamsNow
<1>3. UsedOnce(StreamsNow)'
  BY DEF Tidy, UsedOnce, StreamsNow
<1>q. QED  BY <1>1, <1>2, <1>3 DEF Tidy, StreamRecords

\* A notice of a source keeps the invariant ...
LEMMA NotifiedKeeps ==
  ASSUME OutputInv, NEW source \in Sources, OutputNotified(source)
  PROVE  OutputInv'
<1> USE DEF OutputNotified
<1>1. /\ Tidy(StreamsNow)' /\ DOMAIN lastDTS' = DOMAIN made' /\ DOMAIN lastKeyFrameSource' = DOMAIN made'
      /\ \A i \in Indexes : outputStreams[i] > 0 => outputStreams'[i] = outputStreams[i]
      /\ \A i \in Indexes : Is(i, "video") /\ outputStreams'[i] > 0 =>
           outputStreams'[i] = outputStreams[i] \/ outputStreams'[i] \in waitingKeyFrames'
      /\ waitingKeyFrames \subseteq waitingKeyFrames'
  BY AssignKeeps DEF OutputInv, OutputTypes
<1>2. OutputTypes'
  BY <1>1 DEF OutputInv, OutputTypes
<1>3. HeaderFirst'
  BY DEF OutputInv, HeaderFirst
<1>4. WaitsOrKeeps'
  <2>1. sendAt = "send" => sending.index \in Indexes
    BY DEF OutputInv, OutputTypes, SentPackets
  <2>q. QED  BY <1>1, <2>1 DEF OutputInv, WaitsOrKeeps, KeepsOf, Is
<1>5. KeptStartsWithKey'
  BY DEF OutputInv, KeptStartsWithKey, Is
<1>q. QED  BY <1>2, <1>3, <1>4, <1>5 DEF OutputInv

\* ... and so does finding the stream of a packet.
LEMMA GetStreamKeeps ==
  ASSUME OutputInv, GetOutputStream
  PROVE  OutputInv'
<1> USE DEF GetOutputStream
<1>1. sending.source \in Sources /\ sending.index \in Indexes /\ Tidy(StreamsNow) /\ sendAt = "stream"
  BY DEF OutputInv, OutputTypes, SentPackets
<1>2. CASE UNCHANGED <<streamState, lastDTS, lastKeyFrameSource>> /\ sendAt' \in {"send", "failed", "panic"}
           /\ (sendAt' = "send" => outputStreams[sending.index] > 0)
  <2> USE DEF streamState
  <2>1. Tidy(StreamsNow)'
    BY <1>1, <1>2, StreamsStayTidy
  <2>2. OutputTypes'
    BY <1>2, <2>1 DEF OutputInv, OutputTypes, OutputStages
  <2>3. HeaderFirst' /\ WaitsOrKeeps'
    BY <1>1, <1>2 DEF OutputInv, HeaderFirst, WaitsOrKeeps, KeepsOf, Is
  <2>4. KeptStartsWithKey'
    BY <1>1, <1>2 DEF OutputInv, KeptStartsWithKey, Is
  <2>q. QED  BY <2>2, <2>3, <2>4 DEF OutputInv
<1>3. CASE Assign(ForStreams(sending.source, FALSE)) /\ sendAt' \in {"send", "failed", "panic"}
           /\ (sendAt' = "send" => outputStreams'[sending.index] > 0)
  <2>1. /\ Tidy(StreamsNow)' /\ DOMAIN lastDTS' = DOMAIN made' /\ DOMAIN lastKeyFrameSource' = DOMAIN made'
        /\ \A i \in Indexes : outputStreams[i] > 0 => outputStreams'[i] = outputStreams[i]
        /\ \A i \in Indexes : Is(i, "video") /\ outputStreams'[i] > 0 =>
             outputStreams'[i] = outputStreams[i] \/ outputStreams'[i] \in waitingKeyFrames'
        /\ waitingKeyFrames \subseteq waitingKeyFrames'
    BY <1>1, <1>3, AssignKeeps
  <2>2. OutputTypes'
    BY <1>1, <1>3, <2>1 DEF OutputInv, OutputTypes, OutputStages
  <2>3. HeaderFirst' /\ WaitsOrKeeps'
    BY <1>1, <1>3, <2>1 DEF OutputInv, HeaderFirst, WaitsOrKeeps, KeepsOf, Is
  <2>4. KeptStartsWithKey'
    BY <1>1, <1>3 DEF OutputInv, KeptStartsWithKey, Is
  <2>q. QED  BY <2>2, <2>3, <2>4 DEF OutputInv
<1>4. PICK updated : updated = ForStreams(sending.source, FALSE)
  OBVIOUS
<1>5. Assign(updated) => outputStreams' = updated.outputStreams
  BY DEF Assign
<1>q. QED  BY <1>2, <1>3, <1>4, <1>5 DEF Number

\* A packet that is sent ...
LEMMA SendPacketKeeps ==
  ASSUME OutputInv, NEW p \in SourceOfIndex, NEW key \in BOOLEAN, NEW dts \in PacketDTSs, SendPacket(p[1], p[2], key, dts)
  PROVE  OutputInv'
<1> USE DEF SendPacket, streamState
<1>1. p[1] \in Sources /\ p[2] \in Indexes /\ (key \/ Is(p[2], "audio")) \in BOOLEAN
  BY OutputAssumption
<1>2. sending' \in SentPackets
  BY <1>1 DEF SentPackets
<1>3. Tidy(StreamsNow)'
  BY StreamsStayTidy DEF OutputInv, OutputTypes
<1>4. OutputTypes'
  BY <1>2, <1>3 DEF OutputInv, OutputTypes, OutputStages
<1>5. HeaderFirst' /\ WaitsOrKeeps'
  BY DEF OutputInv, HeaderFirst, WaitsOrKeeps, KeepsOf, Is
<1>6. KeptStartsWithKey'
  BY DEF OutputInv, KeptStartsWithKey, Is
<1>q. QED  BY <1>4, <1>5, <1>6 DEF OutputInv

\* ... is kept until the kernel starts, if it may start its stream.
LEMMA SendKeeps ==
  ASSUME OutputInv, Send
  PROVE  OutputInv'
<1> USE DEF Send
<1>1. sending \in SentPackets /\ sending.index \in Indexes /\ Tidy(StreamsNow) /\ sendAt = "send" /\ Number > 0
  BY DEF OutputInv, OutputTypes, SentPackets, WaitsOrKeeps, Number
<1>2. Tidy(StreamsNow)'
  BY <1>1, StreamsStayTidy
<1>3. CASE outStarted
  <2>1. OutputTypes'
    BY <1>2, <1>3 DEF OutputInv, OutputTypes, OutputStages
  <2>2. HeaderFirst' /\ WaitsOrKeeps'
    BY <1>1, <1>3 DEF OutputInv, HeaderFirst, WaitsOrKeeps, KeepsOf, Is
  <2>3. KeptStartsWithKey'
    BY <1>1, <1>3 DEF OutputInv, KeptStartsWithKey, Is
  <2>q. QED  BY <2>1, <2>2, <2>3 DEF OutputInv
<1>4. CASE ~outStarted /\ NotYet
  <2>1. OutputTypes'
    BY <1>2, <1>4 DEF OutputInv, OutputTypes, OutputStages
  <2>2. HeaderFirst' /\ WaitsOrKeeps'
    BY <1>1, <1>4 DEF OutputInv, HeaderFirst, WaitsOrKeeps, KeepsOf, Is
  <2>3. KeptStartsWithKey'
    BY <1>1, <1>4 DEF OutputInv, KeptStartsWithKey, Is
  <2>q. QED  BY <2>1, <2>2, <2>3 DEF OutputInv
<1>5. CASE ~outStarted /\ ~NotYet
  <2>1. /\ waitingKeyFrames' = waitingKeyFrames \ {Number} /\ pendingPackets' = Append(pendingPackets, sending)
        /\ \/ outStarted' = TRUE /\ sendAt' = "header" /\ UNCHANGED sending
           \/ outStarted' = outStarted /\ sendAt' = "none"
    BY <1>5
  <2>2. PICK n \in Nat : n = Len(pendingPackets)
    BY DEF OutputInv, OutputTypes
  <2>3. /\ pendingPackets' \in Seq(SentPackets) /\ DOMAIN pendingPackets = 1..n /\ DOMAIN pendingPackets' = 1..n + 1
        /\ pendingPackets'[n + 1] = sending /\ \A k \in 1..n : pendingPackets'[k] = pendingPackets[k]
        /\ pendingPackets' # <<>>
    BY <1>1, <2>1, <2>2 DEF OutputInv, OutputTypes
  <2>4. OutputTypes'
    BY <1>2, <1>5, <2>1, <2>3, <1>1 DEF OutputInv, OutputTypes, OutputStages
  <2>5. HeaderFirst'
    BY <1>5, <2>1 DEF OutputInv, HeaderFirst
  <2>6. ASSUME NEW i \in Indexes, Is(i, "video"), outputStreams[i] > 0
        PROVE  outputStreams[i] \in waitingKeyFrames' \/ KeepsOf(i)'
    <3>1. n + 1 \in 1..n + 1 /\ \A k \in 1..n : k \in 1..n + 1
      OBVIOUS
    <3>2. KeepsOf(i) => KeepsOf(i)'
      BY <2>3, <3>1 DEF KeepsOf
    <3>3. i = sending.index => KeepsOf(i)'
      BY <2>3, <3>1 DEF KeepsOf
    <3>4. i # sending.index => outputStreams[i] # Number
      BY <1>1, <2>6 DEF Tidy, UsedOnce, StreamsNow, Number
    <3>q. QED  BY <3>2, <3>3, <3>4, <2>1, <2>6, <1>5 DEF OutputInv, WaitsOrKeeps
  <2>7. WaitsOrKeeps'
    BY <2>1, <2>3, <2>6, <1>5 DEF WaitsOrKeeps, Is
  <2>8. KeptStartsWithKey'
    <3> SUFFICES ASSUME NEW k \in 1..n + 1, Is(pendingPackets'[k].index, "video"),
                        \A j \in 1..(k - 1) : pendingPackets'[j].index # pendingPackets'[k].index
                 PROVE  pendingPackets'[k].key
      BY <2>3 DEF KeptStartsWithKey, Is
    <3>1. CASE k \in 1..n
      <4>1. \A j \in 1..(k - 1) : j \in 1..n
        BY <3>1
      <4>q. QED  BY <3>1, <4>1, <2>3, <1>1 DEF OutputInv, KeptStartsWithKey
    <3>2. CASE k = n + 1
      <4>1. \A j \in 1..n : pendingPackets[j].index # sending.index
        BY <3>2, <2>3
      <4>2. Number \in waitingKeyFrames
        BY <4>1, <3>2, <2>3, <1>1, <1>5 DEF OutputInv, WaitsOrKeeps, KeepsOf, Number
      <4>q. QED  BY <4>2, <3>2, <2>3, <1>5 DEF NotYet
    <3>q. QED  BY <3>1, <3>2
  <2>q. QED  BY <2>4, <2>5, <2>7, <2>8 DEF OutputInv
<1>q. QED  BY <1>3, <1>4, <1>5

\* The header is written once; its failure is an end.
LEMMA HeaderKeeps ==
  ASSUME OutputInv, WriteHeader
  PROVE  OutputInv'
<1> USE DEF WriteHeader, streamState
<1>1. Tidy(StreamsNow)'
  BY StreamsStayTidy DEF OutputInv, OutputTypes
<1>2. OutputTypes'
  <2>1. misplaced' \in BOOLEAN
    BY DEF OutputInv, OutputTypes
  <2>q. QED  BY <1>1, <2>1 DEF OutputInv, OutputTypes, OutputStages
<1>3. HeaderFirst'
  BY DEF OutputInv, HeaderFirst
<1>4. WaitsOrKeeps'
  BY DEF OutputInv, WaitsOrKeeps, KeepsOf, Is
<1>5. KeptStartsWithKey'
  BY DEF OutputInv, KeptStartsWithKey, Is
<1>q. QED  BY <1>2, <1>3, <1>4, <1>5 DEF OutputInv

\* A packet is written where it should be.
LEMMA WrittenInPlace ==
  ASSUME OutputInv, NEW p, NEW then \in {"none", "flush"}, DoWritePacket(p, then), sendAt \in {"flush", "write"}
  PROVE  /\ sendAt' \in {then, "failed"} /\ (sendAt' # "none" => sending' = sending) /\ ~misplaced' /\ misplaced' \in BOOLEAN
         /\ DOMAIN lastDTS' = DOMAIN lastDTS /\ DOMAIN lastKeyFrameSource' = DOMAIN lastKeyFrameSource
<1>1. ~misplaced /\ (wrote = "header" \/ formatContext = "nil")
  BY DEF OutputInv, HeaderFirst
<1>2. \E place \in {then, "failed"} : Goto(place)
  BY DEF DoWritePacket
<1>3. DOMAIN lastKeyFrameSource' = DOMAIN lastKeyFrameSource
  BY DEF DoWritePacket, KeySource
<1>4. DOMAIN lastDTS' = DOMAIN lastDTS /\ ~misplaced'
  BY <1>1 DEF DoWritePacket
<1>5. misplaced' \in BOOLEAN
  BY DEF DoWritePacket, OutputInv, OutputTypes
<1>q. QED  BY <1>2, <1>3, <1>4, <1>5 DEF Goto

\* So writing what was kept keeps the invariant ...
LEMMA FlushKeeps ==
  ASSUME OutputInv, FlushPending
  PROVE  OutputInv'
<1> USE DEF FlushPending, streamState
<1>1. PICK then \in {"none", "flush"} :
        DoWritePacket(Head(pendingPackets), then) /\ then = (IF Len(pendingPackets) = 1 THEN "none" ELSE "flush")
  OBVIOUS
<1>2. /\ sendAt' \in {then, "failed"} /\ (sendAt' # "none" => sending' = sending) /\ ~misplaced' /\ misplaced' \in BOOLEAN
      /\ DOMAIN lastDTS' = DOMAIN lastDTS /\ DOMAIN lastKeyFrameSource' = DOMAIN lastKeyFrameSource
  BY <1>1, WrittenInPlace
<1>3. Tidy(StreamsNow)'
  BY StreamsStayTidy DEF OutputInv, OutputTypes
<1>4. /\ pendingPackets' \in Seq(SentPackets) /\ (Len(pendingPackets) = 1 => pendingPackets' = <<>>)
      /\ (Len(pendingPackets) # 1 => pendingPackets' # <<>>) /\ outStarted /\ outStarted' = outStarted
  <2>1. pendingPackets \in Seq(SentPackets) /\ pendingPackets # <<>> /\ outStarted
    BY DEF OutputInv, OutputTypes, WaitsOrKeeps, HeaderFirst
  <2>2. Tail(pendingPackets) \in Seq(SentPackets) /\ Len(Tail(pendingPackets)) = Len(pendingPackets) - 1
        /\ Len(pendingPackets) \in Nat
    BY <2>1
  <2>3. Len(pendingPackets) = 1 => Tail(pendingPackets) = <<>>
    BY <2>2
  <2>4. PICK rest : rest = Tail(pendingPackets)
    OBVIOUS
  <2>5. rest = <<>> => Len(rest) = 0
    OBVIOUS
  <2>q. QED  BY <2>1, <2>2, <2>3, <2>4, <2>5
<1>5. OutputTypes'
  BY <1>1, <1>2, <1>3, <1>4 DEF OutputInv, OutputTypes, OutputStages
<1>6. HeaderFirst'
  BY <1>1, <1>2, <1>4 DEF OutputInv, HeaderFirst
<1>7. WaitsOrKeeps'
  BY <1>1, <1>2, <1>4 DEF WaitsOrKeeps
<1>8. KeptStartsWithKey'
  BY <1>1, <1>2, <1>4 DEF KeptStartsWithKey
<1>q. QED  BY <1>5, <1>6, <1>7, <1>8 DEF OutputInv

\* ... and so does writing a packet ...
LEMMA WriteKeeps ==
  ASSUME OutputInv, WritePacket \/ WriteFails
  PROVE  OutputInv'
<1> USE DEF streamState, WritePacket, WriteFails
<1>1. /\ sendAt' \in {"none", "failed"} /\ (sendAt' # "none" => sending' = sending) /\ ~misplaced' /\ misplaced' \in BOOLEAN
      /\ DOMAIN lastDTS' = DOMAIN lastDTS /\ DOMAIN lastKeyFrameSource' = DOMAIN lastKeyFrameSource
  <2>1. CASE WritePacket
    BY <2>1, WrittenInPlace
  <2>2. CASE WriteFails
    BY <2>2 DEF OutputInv, OutputTypes, HeaderFirst
  <2>q. QED  BY <2>1, <2>2
<1>2. /\ UNCHANGED <<flv, outputStreams, made, preallocated, waitingKeyFrames, outStarted, headerSent, formatContext>>
      /\ UNCHANGED <<pendingPackets, wrote>> /\ sendAt \in {"flush", "write"} /\ (sendAt = "flush" => sendAt' = "failed")
      /\ outStarted
  BY DEF OutputInv, HeaderFirst
<1>3. Tidy(StreamsNow)'
  BY <1>2, StreamsStayTidy DEF OutputInv, OutputTypes
<1>4. OutputTypes'
  BY <1>1, <1>2, <1>3 DEF OutputInv, OutputTypes, OutputStages
<1>5. HeaderFirst'
  BY <1>1, <1>2 DEF OutputInv, HeaderFirst
<1>6. pendingPackets = <<>> \/ sendAt' = "failed"
  BY <1>2 DEF OutputInv, WaitsOrKeeps
<1>7. WaitsOrKeeps'
  BY <1>1, <1>2, <1>6 DEF WaitsOrKeeps
<1>8. KeptStartsWithKey'
  BY <1>2, <1>6 DEF KeptStartsWithKey
<1>q. QED  BY <1>4, <1>5, <1>7, <1>8 DEF OutputInv

\* ... and Close, with a trailer if there is a header.
LEMMA CloseKeeps ==
  ASSUME OutputInv, CloseOutput
  PROVE  OutputInv'
<1> USE DEF CloseOutput, streamState
<1>1. Tidy(StreamsNow)'
  BY StreamsStayTidy DEF OutputInv, OutputTypes
<1>2. HeaderFirst'
  BY DEF OutputInv, HeaderFirst
<1>3. OutputTypes'
  <2>1. misplaced' = FALSE /\ headerSent' \in BOOLEAN
    BY <1>2 DEF OutputInv, OutputTypes, HeaderFirst
  <2>q. QED  BY <1>1, <2>1 DEF OutputInv, OutputTypes, OutputStages
<1>4. WaitsOrKeeps'
  BY DEF OutputInv, WaitsOrKeeps, KeepsOf, Is
<1>5. KeptStartsWithKey'
  BY DEF OutputInv, KeptStartsWithKey, Is
<1>q. QED  BY <1>2, <1>3, <1>4, <1>5 DEF OutputInv

\* Every step of an output keeps its invariant.
LEMMA OutputKeeps == OutputInv /\ OutputNext => OutputInv'
BY NotifiedKeeps, GetStreamKeeps, SendPacketKeeps, SendKeeps, HeaderKeeps, FlushKeeps, WriteKeeps, CloseKeeps
   DEF OutputNext, HandleOutput

\* The invariant says what an output promises.
LEMMA OutputImplies == OutputInv => OutputTypeOK /\ OutputSafe
<1> SUFFICES ASSUME OutputInv  PROVE OutputTypeOK /\ OutputSafe
  OBVIOUS
<1>1. /\ outputStreams \in [Indexes -> Int] /\ made \in Seq(Medias \cup {"any"}) /\ DOMAIN made = 1..Len(made)
      /\ \A i \in Indexes : outputStreams[i] \in {Missing, Reserved} \cup DOMAIN made
      /\ waitingKeyFrames \subseteq DOMAIN made
      /\ \A m \in Medias : \A n \in DOMAIN preallocated[m] : preallocated[m][n] \in DOMAIN made
  BY DEF OutputInv, OutputTypes, Tidy, StreamRecords, Numbered, StreamsNow
<1>2. outputStreams \in [Indexes -> {Missing, Reserved} \cup DOMAIN made]
  BY <1>1
<1>3. \A n \in DOMAIN made : made[n] \in {"any", "video", "audio"}
  BY <1>1 DEF Medias
<1>4. {flv, outStarted, headerSent, misplaced} \subseteq BOOLEAN
  BY DEF OutputInv, OutputTypes
<1>5. OutputTypeOK
  BY <1>1, <1>2, <1>3, <1>4 DEF OutputInv, OutputTypes, OutputStages, OutputTypeOK, Medias
<1>6. FileWellFormed /\ KeptStartsWithKey
  BY DEF OutputInv, HeaderFirst, FileWellFormed
<1>7. OwnOutputStream
  BY DEF OutputInv, OutputTypes, Tidy, UsedOnce, StreamsNow, OwnOutputStream
<1>q. QED  BY <1>5, <1>6, <1>7 DEF OutputSafe

----------------------------------------------------------------------------
(* ReorderByDTS.                                                           *)

InOrder(heap) == \A j, k \in DOMAIN heap : j <= k => heap[j] <= heap[k]

\* A heap has the DTSs of a stream's items in the queue, each of its own item.
Paired(f, heap, s, queue) ==
  /\ f \in [DOMAIN heap -> queue]
  /\ \A k \in DOMAIN heap : f[k].stream = s /\ f[k].dts = heap[k]
  /\ \A j, k \in DOMAIN heap : f[j] = f[k] => j = k
  /\ \A i \in queue : i.stream = s => \E k \in DOMAIN heap : f[k] = i
Matched(heap, s, queue) == \E f : Paired(f, heap, s, queue)

\* A DTS is inserted after those that are not greater.
LEMMA InsertPlace ==
  ASSUME NEW heap \in Seq(Nat), InOrder(heap), NEW d \in Nat
  PROVE  \E p \in 1..Len(heap) + 1 :
           /\ Insert(heap, d) = [k \in 1..Len(heap) + 1 |-> IF k < p THEN heap[k] ELSE IF k = p THEN d ELSE heap[k - 1]]
           /\ \A k \in 1..Len(heap) : (k < p => heap[k] <= d) /\ (k >= p => d < heap[k])
<1>1. PICK n \in Nat : n = Len(heap) /\ DOMAIN heap = 1..n /\ \A k \in 1..n : heap[k] \in Nat
  OBVIOUS
<1> DEFINE T == {k \in 1..n + 1 : ~ (k <= n /\ heap[k] <= d)}
<1>2. T \subseteq Nat /\ n + 1 \in T
  BY <1>1
<1>3. PICK p \in T : \A k \in T : p <= k
  <2> HIDE DEF T
  <2>q. QED  BY <1>2, Least
<1>4. p \in 1..n + 1
  OBVIOUS
<1>5. ASSUME NEW k \in 1..n, k < p  PROVE heap[k] <= d
  BY <1>1, <1>3, <1>4, <1>5
<1>6. ASSUME NEW k \in 1..n, k >= p  PROVE d < heap[k]
  <2>1. p <= n /\ p \in 1..n
    BY <1>1, <1>4, <1>6
  <2>2. d < heap[p]
    BY <2>1, <1>1, <1>3
  <2>3. heap[p] <= heap[k]
    BY <2>1, <1>1, <1>6 DEF InOrder
  <2>q. QED  BY <2>1, <2>2, <2>3, <1>1
<1> HIDE DEF T
<1>7. ASSUME NEW k \in 1..n + 1
      PROVE  (IF k <= n /\ heap[k] <= d THEN heap[k] ELSE IF k = 1 \/ heap[k - 1] <= d THEN d ELSE heap[k - 1])
             = (IF k < p THEN heap[k] ELSE IF k = p THEN d ELSE heap[k - 1])
  <2>1. CASE k < p
    <3>1. k \in 1..n
      BY <2>1, <1>1, <1>4
    <3>q. QED  BY <3>1, <2>1, <1>5
  <2>2. CASE k = p
    <3>1. ~ (k <= n /\ heap[k] <= d)
      BY <2>2, <1>1, <1>3 DEF T
    <3>2. k # 1 => k - 1 \in 1..n /\ k - 1 < p
      BY <2>2, <1>1, <1>4
    <3>q. QED  BY <3>1, <3>2, <2>2, <1>4, <1>5
  <2>3. CASE k > p
    <3>1. k - 1 \in 1..n /\ k - 1 >= p /\ k # 1
      BY <2>3, <1>1, <1>4
    <3>2. heap[k - 1] > d /\ heap[k - 1] \in Nat
      BY <3>1, <1>1, <1>6
    <3>3. k <= n => k \in 1..n /\ k >= p
      BY <2>3, <1>1, <1>4
    <3>4. k <= n => heap[k] > d /\ heap[k] \in Nat
      BY <3>3, <1>1, <1>6
    <3>q. QED  BY <3>1, <3>2, <3>4, <2>3, <1>4
  <2>q. QED  BY <2>1, <2>2, <2>3, <1>4
<1>8. Insert(heap, d) = [k \in 1..n + 1 |-> IF k < p THEN heap[k] ELSE IF k = p THEN d ELSE heap[k - 1]]
  BY <1>1, <1>7 DEF Insert
<1>q. QED  BY <1>1, <1>4, <1>5, <1>6, <1>8

\* The parameters are numbers.
LEMMA NumbersAre ==
  /\ DTSs \subseteq Nat /\ MaxBufferSize \in Nat /\ MaxItems \in Nat /\ MaxDTSDifference \in Nat
  /\ IsFiniteSet(Streams) /\ Streams # {} /\ Announced \subseteq Streams
BY ReorderAssumption

\* The DTSs of a heap are numbers.
LEMMA HeapsAreNumbers ==
  ASSUME NEW heap \in Seq(DTSs)
  PROVE  heap \in Seq(Nat)
<1>1. Len(heap) \in Nat /\ heap \in [1..Len(heap) -> DTSs]
  OBVIOUS
<1>2. heap \in [1..Len(heap) -> Nat]
  BY <1>1, NumbersAre
<1>q. QED  BY <1>1, <1>2

\* So the heap stays one in order ...
LEMMA InsertInOrder ==
  ASSUME NEW heap \in Seq(DTSs), InOrder(heap), NEW d \in DTSs
  PROVE  Insert(heap, d) \in Seq(DTSs) /\ Len(Insert(heap, d)) = Len(heap) + 1 /\ InOrder(Insert(heap, d))
<1>1. PICK n \in Nat : n = Len(heap) /\ DOMAIN heap = 1..n /\ \A k \in 1..n : heap[k] \in DTSs /\ heap[k] \in Nat
  <2>1. Len(heap) \in Nat /\ DOMAIN heap = 1..Len(heap) /\ \A k \in 1..Len(heap) : heap[k] \in DTSs
    OBVIOUS
  <2>2. \A k \in 1..Len(heap) : heap[k] \in Nat
    BY <2>1, NumbersAre
  <2>q. QED  BY <2>1, <2>2
<1>2. heap \in Seq(Nat) /\ d \in Nat
  <2>1. Len(heap) \in Nat /\ heap \in [1..Len(heap) -> Nat]
    BY <1>1
  <2>q. QED  BY <2>1, NumbersAre
<1>3. PICK p \in 1..n + 1 :
        /\ Insert(heap, d) = [k \in 1..n + 1 |-> IF k < p THEN heap[k] ELSE IF k = p THEN d ELSE heap[k - 1]]
        /\ \A k \in 1..n : (k < p => heap[k] <= d) /\ (k >= p => d < heap[k])
  BY <1>1, <1>2, InsertPlace
<1>4. PICK g : g = Insert(heap, d)
  OBVIOUS
<1>5. \A k \in 1..n + 1 : (k < p => k \in 1..n) /\ (k > p => k - 1 \in 1..n /\ k - 1 >= p) /\ (k < p \/ k = p \/ k > p)
  BY <1>1, <1>3
<1>6. \A k \in 1..n + 1 : g[k] = IF k < p THEN heap[k] ELSE IF k = p THEN d ELSE heap[k - 1]
  BY <1>3, <1>4
<1>7. g \in [1..n + 1 -> DTSs]
  BY <1>1, <1>3, <1>4, <1>5
<1>8. g \in Seq(DTSs) /\ Len(g) = n + 1 /\ DOMAIN g = 1..n + 1
  BY <1>7
<1>9. ASSUME NEW j \in 1..n + 1, NEW k \in 1..n + 1, j < k  PROVE g[j] <= g[k]
  <2>1. CASE k < p
    BY <2>1, <1>1, <1>5, <1>6, <1>9 DEF InOrder
  <2>2. CASE k = p
    BY <2>2, <1>1, <1>3, <1>5, <1>6, <1>9
  <2>3. CASE j = p
    <3>1. g[j] = d /\ g[k] = heap[k - 1] /\ k - 1 \in 1..n /\ k - 1 >= p
      BY <2>3, <1>5, <1>6, <1>9
    <3>2. PICK e : e = heap[k - 1]
      OBVIOUS
    <3>3. d < e /\ e \in Nat
      BY <3>1, <3>2, <1>1, <1>3
    <3>4. d <= e
      BY <3>3, <1>2
    <3>q. QED  BY <3>1, <3>2, <3>4
  <2>4. CASE j > p
    <3>1. g[j] = heap[j - 1] /\ g[k] = heap[k - 1] /\ j - 1 \in 1..n /\ k - 1 \in 1..n /\ j - 1 <= k - 1
      BY <2>4, <1>5, <1>6, <1>9
    <3>q. QED  BY <3>1, <1>1 DEF InOrder
  <2>5. CASE j < p /\ k > p
    <3>1. g[j] = heap[j] /\ g[k] = heap[k - 1] /\ j \in 1..n /\ k - 1 \in 1..n /\ k - 1 >= p
      BY <2>5, <1>5, <1>6, <1>9
    <3>2. heap[j] <= d /\ d < heap[k - 1]
      BY <3>1, <2>5, <1>3
    <3>q. QED  BY <3>1, <3>2, <1>1, <1>2
  <2>q. QED  BY <2>1, <2>2, <2>3, <2>4, <2>5, <1>5
<1>10. ASSUME NEW j \in 1..n + 1, NEW k \in 1..n + 1, j <= k  PROVE g[j] <= g[k]
  <2>1. g[j] \in Nat
    BY <1>7, NumbersAre
  <2>q. QED  BY <2>1, <1>9, <1>10
<1>q. QED  BY <1>1, <1>4, <1>8, <1>10 DEF InOrder

\* ... and that of the queue's items, when an item of the stream is added ...
LEMMA InsertMatched ==
  ASSUME NEW heap \in Seq(DTSs), InOrder(heap), NEW s, NEW queue, Matched(heap, s, queue),
         NEW i, i \notin queue, i.stream = s, i.dts \in DTSs
  PROVE  Matched(Insert(heap, i.dts), s, queue \cup {i})
<1>1. PICK f : Paired(f, heap, s, queue)
  BY DEF Matched
<1>2. PICK n \in Nat : n = Len(heap) /\ DOMAIN heap = 1..n
  OBVIOUS
<1>3. PICK d : d = i.dts
  OBVIOUS
<1>d. heap \in Seq(Nat) /\ d \in Nat
  BY <1>3, HeapsAreNumbers, NumbersAre
<1>4. PICK p \in 1..n + 1 :
        /\ Insert(heap, d) = [k \in 1..n + 1 |-> IF k < p THEN heap[k] ELSE IF k = p THEN d ELSE heap[k - 1]]
        /\ \A k \in 1..n : (k < p => heap[k] <= d) /\ (k >= p => d < heap[k])
  BY <1>2, <1>d, InsertPlace
<1>5. PICK g : g = Insert(heap, d)
  OBVIOUS
<1>6. DOMAIN g = 1..n + 1 /\ \A k \in 1..n + 1 : g[k] = IF k < p THEN heap[k] ELSE IF k = p THEN i.dts ELSE heap[k - 1]
  BY <1>3, <1>4, <1>5
<1>7. \A k \in 1..n + 1 : (k < p => k \in 1..n) /\ (k > p => k - 1 \in 1..n /\ k - 1 >= p) /\ (k < p \/ k = p \/ k > p)
  BY <1>2, <1>4
<1>8. \A k \in 1..n : f[k] \in queue /\ f[k].stream = s /\ f[k].dts = heap[k] /\ f[k] # i
  BY <1>1, <1>2 DEF Paired
<1> DEFINE h == [k \in 1..n + 1 |-> IF k < p THEN f[k] ELSE IF k = p THEN i ELSE f[k - 1]]
<1>9. \A k \in 1..n + 1 : h[k] = IF k < p THEN f[k] ELSE IF k = p THEN i ELSE f[k - 1]
  OBVIOUS
<1>10. h \in [1..n + 1 -> queue \cup {i}]
  BY <1>7, <1>8
<1> HIDE DEF h
<1>11. \A k \in 1..n + 1 : h[k].stream = s /\ h[k].dts = g[k]
  BY <1>6, <1>7, <1>8, <1>9
<1>12. ASSUME NEW j \in 1..n + 1, NEW k \in 1..n + 1, h[j] = h[k]  PROVE j = k
  <2>1. \A a, b \in 1..n : f[a] = f[b] => a = b
    BY <1>1, <1>2 DEF Paired
  <2>2. (h[j] = i <=> j = p) /\ (h[k] = i <=> k = p)
    BY <1>7, <1>8, <1>9
  <2>3. CASE j < p /\ k < p
    BY <2>1, <2>3, <1>7, <1>9, <1>12
  <2>4. CASE j > p /\ k > p
    <3>1. j - 1 = k - 1
      BY <2>1, <2>4, <1>7, <1>9, <1>12
    <3>q. QED  BY <3>1
  <2>5. CASE j < p /\ k > p
    <3>1. j = k - 1 /\ k - 1 >= p
      BY <2>1, <2>5, <1>7, <1>9, <1>12
    <3>q. QED  BY <3>1, <2>5
  <2>6. CASE j > p /\ k < p
    <3>1. j - 1 = k /\ j - 1 >= p
      BY <2>1, <2>6, <1>7, <1>9, <1>12
    <3>q. QED  BY <3>1, <2>6
  <2>q. QED  BY <2>2, <2>3, <2>4, <2>5, <2>6, <1>7, <1>12
<1>13. ASSUME NEW j \in queue \cup {i}, j.stream = s  PROVE \E k \in 1..n + 1 : h[k] = j
  <2>1. CASE j = i
    <3>1. h[p] = i /\ p \in 1..n + 1
      BY <1>4, <1>7, <1>9
    <3>q. QED  BY <2>1, <3>1
  <2>2. CASE j # i
    <3>1. PICK k \in 1..n : f[k] = j
      BY <2>2, <1>1, <1>2, <1>13 DEF Paired
    <3>2. CASE k < p
      <4>1. k \in 1..n + 1
        OBVIOUS
      <4>q. QED  BY <3>1, <3>2, <4>1, <1>9
    <3>3. CASE k >= p
      <4>1. PICK l \in 1..n + 1 : l = k + 1
        OBVIOUS
      <4>2. l - 1 = k /\ l > p /\ ~ (l < p) /\ l # p
        BY <4>1, <3>3
      <4>q. QED  BY <3>1, <4>1, <4>2, <1>9
    <3>q. QED  BY <3>2, <3>3
  <2>q. QED  BY <2>1, <2>2
<1>14. Paired(h, g, s, queue \cup {i})
  BY <1>6, <1>10, <1>11, <1>12, <1>13 DEF Paired
<1>q. QED  BY <1>3, <1>5, <1>14 DEF Matched

\* ... or an oldest one taken.
LEMMA TailMatched ==
  ASSUME NEW heap \in Seq(DTSs), InOrder(heap), NEW s, NEW queue, Matched(heap, s, queue),
         NEW i \in queue, i.stream = s, i.dts \in DTSs, \A j \in queue : i.dts <= j.dts
  PROVE  /\ heap # <<>> /\ Head(heap) = i.dts /\ Tail(heap) \in Seq(DTSs) /\ InOrder(Tail(heap))
         /\ Matched(Tail(heap), s, queue \ {i})
<1>1. PICK f : Paired(f, heap, s, queue)
  BY DEF Matched
<1>2. PICK n \in Nat : n = Len(heap) /\ DOMAIN heap = 1..n /\ \A k \in 1..n : heap[k] \in DTSs
  OBVIOUS
<1>3. PICK p \in 1..n : f[p] = i
  BY <1>1, <1>2 DEF Paired
<1>4. 1 \in 1..n /\ 1 <= p /\ heap # <<>>
  BY <1>2, <1>3
<1>5. heap[p] = i.dts /\ f[1] \in queue /\ f[1].dts = heap[1] /\ f[1].stream = s
  BY <1>1, <1>2, <1>3, <1>4 DEF Paired
<1>6. heap[1] = i.dts
  <2>1. heap[1] <= heap[p] /\ i.dts <= heap[1]
    BY <1>2, <1>3, <1>4, <1>5 DEF InOrder
  <2>2. heap[1] \in Nat /\ i.dts \in Nat
    BY <1>2, <1>4, NumbersAre
  <2>q. QED  BY <2>1, <2>2, <1>5
<1>7. PICK g : g = Tail(heap)
  OBVIOUS
<1>8. g \in Seq(DTSs) /\ DOMAIN g = 1..n - 1 /\ \A k \in 1..n - 1 : g[k] = heap[k + 1] /\ k + 1 \in 1..n /\ k + 1 # 1
  BY <1>2, <1>4, <1>7
<1>9. InOrder(g)
  <2>1. \A j, k \in 1..n - 1 : j <= k => j + 1 <= k + 1
    OBVIOUS
  <2>2. ASSUME NEW j \in 1..n - 1, NEW k \in 1..n - 1, j <= k  PROVE g[j] <= g[k]
    BY <2>1, <2>2, <1>2, <1>8 DEF InOrder
  <2>q. QED  BY <2>2, <1>8 DEF InOrder
<1> DEFINE h == [k \in 1..n - 1 |-> IF k + 1 = p THEN f[1] ELSE f[k + 1]]
<1>10. \A k \in 1..n - 1 : h[k] = IF k + 1 = p THEN f[1] ELSE f[k + 1]
  OBVIOUS
<1>11. \A a, b \in 1..n : f[a] = f[b] => a = b
  BY <1>1, <1>2 DEF Paired
<1>12. \A a \in 1..n : f[a] \in queue /\ f[a].stream = s /\ f[a].dts = heap[a] /\ (a # p => f[a] # i)
  BY <1>1, <1>2, <1>3, <1>11 DEF Paired
<1>13. \A k \in 1..n - 1 : h[k] \in queue \ {i} /\ h[k].stream = s /\ h[k].dts = g[k]
  BY <1>3, <1>4, <1>5, <1>6, <1>8, <1>10, <1>12
<1>14. h \in [1..n - 1 -> queue \ {i}]
  BY <1>13
<1> HIDE DEF h
<1>15. ASSUME NEW j \in 1..n - 1, NEW k \in 1..n - 1, h[j] = h[k]  PROVE j = k
  <2>1. j + 1 \in 1..n /\ k + 1 \in 1..n /\ j + 1 # 1 /\ k + 1 # 1
    BY <1>8
  <2>2. (j + 1 = p /\ k + 1 = p) \/ (j + 1 # p /\ k + 1 # p)
    BY <2>1, <1>4, <1>10, <1>11, <1>15
  <2>3. CASE j + 1 # p /\ k + 1 # p
    <3>1. j + 1 = k + 1
      BY <2>1, <2>3, <1>10, <1>11, <1>15
    <3>q. QED  BY <3>1
  <2>4. CASE j + 1 = p /\ k + 1 = p
    BY <2>4
  <2>q. QED  BY <2>2, <2>3, <2>4
<1>16. ASSUME NEW j \in queue \ {i}, j.stream = s  PROVE \E k \in 1..n - 1 : h[k] = j
  <2>1. PICK a \in 1..n : f[a] = j
    BY <1>1, <1>2, <1>16 DEF Paired
  <2>2. a # p
    BY <2>1, <1>3, <1>16
  <2>3. CASE a = 1
    <3>1. PICK k \in 1..n - 1 : k + 1 = p
      <4>1. p - 1 \in 1..n - 1 /\ (p - 1) + 1 = p
        BY <2>2, <2>3, <1>2, <1>3
      <4>q. QED  BY <4>1
    <3>q. QED  BY <3>1, <2>1, <2>3, <1>10
  <2>4. CASE a # 1
    <3>1. PICK k \in 1..n - 1 : k + 1 = a
      <4>1. a - 1 \in 1..n - 1 /\ (a - 1) + 1 = a
        BY <2>1, <2>4, <1>2
      <4>q. QED  BY <4>1
    <3>q. QED  BY <3>1, <2>1, <2>2, <1>10
  <2>q. QED  BY <2>3, <2>4
<1>17. Paired(h, g, s, queue \ {i})
  BY <1>8, <1>13, <1>14, <1>15, <1>16 DEF Paired
<1>18. Head(heap) = i.dts
  BY <1>4, <1>6
<1>q. QED  BY <1>4, <1>7, <1>8, <1>9, <1>17, <1>18 DEF Matched

\* Items of other streams make no difference.
LEMMA OthersMatched ==
  ASSUME NEW heap, NEW s, NEW queue, Matched(heap, s, queue), NEW i, i.stream # s
  PROVE  Matched(heap, s, queue \ {i}) /\ Matched(heap, s, queue \cup {i})
<1>1. PICK f : Paired(f, heap, s, queue)
  BY DEF Matched
<1>2. f \in [DOMAIN heap -> queue \ {i}] /\ f \in [DOMAIN heap -> queue \cup {i}]
  BY <1>1 DEF Paired
<1>3. Paired(f, heap, s, queue \ {i}) /\ Paired(f, heap, s, queue \cup {i})
  BY <1>1, <1>2 DEF Paired
<1>q. QED  BY <1>3 DEF Matched

Items == [n : 1..MaxItems, stream : Streams, dts : DTSs]
PushStages == {"enforce", "full", "push"}

ReorderTypes ==
  /\ itemQueue \subseteq Items /\ IsFiniteSet(itemQueue) /\ Cardinality(itemQueue) <= MaxBufferSize
  /\ (at = "push" => Cardinality(itemQueue) < MaxBufferSize)
  /\ Known \subseteq Streams /\ streamDTSs \in [Known -> Seq(DTSs)]
  /\ emptyQueuesCount \in Nat /\ prevDTS \in Nat /\ pushed \in 0..MaxItems /\ newest \in [Streams -> Nat]
  /\ at \in PushStages \cup {"none", "pull"} /\ (at = "none" => item = NoItem) /\ (at # "none" => item \in Items)
  /\ started \in BOOLEAN /\ discards \in BOOLEAN /\ closed \in BOOLEAN /\ flushing \in BOOLEAN /\ reorderGone \in BOOLEAN
  /\ assertFailed \in BOOLEAN /\ wentBackwards \in BOOLEAN
  /\ excuse \subseteq {"forced", "disordered", "late stream"}

\* The heaps are in order and, unless a full queue has lost an item, those of the queue.
HeapsMatch == \A s \in Known : Matched(streamDTSs[s], s, itemQueue)
Heaps ==
  /\ (\A s \in Known : InOrder(streamDTSs[s])) /\ EmptyCountRight /\ (\A i \in itemQueue : i.stream \in Known)
  /\ ~discards \/ excuse = {} => HeapsMatch

\* Without an excuse, nothing that is there or that comes is older than what was sent.
Newness ==
  /\ \A i \in itemQueue : i.n <= pushed /\ i.dts <= newest[i.stream]
  /\ at # "none" => item.n = pushed /\ item.dts <= newest[item.stream]
  /\ at \in PushStages => \A i \in itemQueue : i.n # item.n
  /\ at = "pull" => item.stream \in Known
  /\ excuse = {} =>
       /\ \A i \in itemQueue : prevDTS <= i.dts
       /\ \A s \in Known : prevDTS <= newest[s]
       /\ at \in PushStages => item.dts = newest[item.stream]

Unhindered == started /\ ~reorderGone /\ ~closed /\ ~wentBackwards /\ ~assertFailed
Waits ==
  /\ flushing => closed
  /\ at # "pull" /\ Unhindered => emptyQueuesCount > 0
  /\ wentBackwards => excuse # {}
  /\ assertFailed => discards /\ excuse # {}

ReorderInv == ReorderTypes /\ Heaps /\ Newness /\ Waits

EmptyHeaps == {s \in Known : streamDTSs[s] = <<>>}

\* What sending the oldest item i does to the queue, the heaps and the counter.
Taken(i) ==
  /\ i \in itemQueue /\ (\A j \in itemQueue : i.dts <= j.dts) /\ itemQueue' = itemQueue \ {i}
  /\ Known' = Known /\ streamDTSs' \in [Known -> Seq(DTSs)] /\ \A s \in Known : InOrder(streamDTSs'[s])
  /\ emptyQueuesCount' \in Nat /\ emptyQueuesCount <= emptyQueuesCount' /\ EmptyCountRight'
  /\ HeapsMatch => HeapsMatch' /\ assertFailed' = assertFailed
  /\ assertFailed' \in BOOLEAN

\* Taking an item does that.
LEMMA TakeTakes ==
  ASSUME ReorderTypes, Heaps, NEW i \in Oldest, Take(i)
  PROVE  Taken(i)
<1> DEFINE s == i.stream
           heap == streamDTSs[s]
<1>1. i \in itemQueue /\ (\A j \in itemQueue : i.dts <= j.dts) /\ itemQueue' = itemQueue \ {i} /\ s \in Known
      /\ i.dts \in DTSs /\ heap \in Seq(DTSs) /\ InOrder(heap)
  BY DEF Oldest, Take, ReorderTypes, Heaps, Items
<1>2. streamDTSs \in [Known -> Seq(DTSs)] /\ emptyQueuesCount \in Nat /\ assertFailed \in BOOLEAN
  BY DEF ReorderTypes
<1>3. IsFiniteSet(EmptyHeaps) /\ emptyQueuesCount = Cardinality(EmptyHeaps) /\ Cardinality(EmptyHeaps) \in Nat
  <2>1. EmptyHeaps \subseteq Streams
    BY DEF EmptyHeaps, ReorderTypes
  <2>2. IsFiniteSet(EmptyHeaps)
    BY <2>1, NumbersAre, FS_Subset
  <2>q. QED  BY <2>2, FS_CardinalityType DEF Heaps, EmptyCountRight, EmptyHeaps
<1>4. ASSUME HeapsMatch
      PROVE  heap # <<>> /\ Head(heap) = i.dts
  <2>1. Matched(heap, s, itemQueue)
    BY <1>1, <1>4 DEF HeapsMatch
  <2> HIDE DEF heap, s
  <2>q. QED  BY <2>1, <1>1, TailMatched DEF s
<1>5. CASE heap # <<>> /\ Head(heap) = i.dts
  <2>1. /\ streamDTSs' = [streamDTSs EXCEPT ![s] = Tail(heap)] /\ UNCHANGED assertFailed
        /\ emptyQueuesCount' = emptyQueuesCount + (IF Len(heap) = 1 THEN 1 ELSE 0)
    BY <1>5 DEF Take
  <2>2. /\ Known' = Known /\ Tail(heap) \in Seq(DTSs) /\ (Len(heap) = 1 <=> Tail(heap) = <<>>)
        /\ \A t \in Known : streamDTSs'[t] = IF t = s THEN Tail(heap) ELSE streamDTSs[t]
    <3>1. Tail(heap) \in Seq(DTSs) /\ Len(Tail(heap)) = Len(heap) - 1 /\ Len(heap) \in Nat
      BY <1>1, <1>5
    <3>2. PICK rest \in Seq(DTSs) : rest = Tail(heap)
      BY <3>1
    <3>3. rest = <<>> <=> Len(rest) = 0
      OBVIOUS
    <3>4. Len(heap) = 1 <=> Tail(heap) = <<>>
      BY <3>1, <3>2, <3>3
    <3> HIDE DEF heap
    <3>5. DOMAIN streamDTSs = Known
      BY <1>2
    <3>6. DOMAIN streamDTSs' = DOMAIN streamDTSs /\ \A t \in DOMAIN streamDTSs : streamDTSs'[t] = IF t = s THEN Tail(heap) ELSE streamDTSs[t]
      BY <2>1
    <3>7. Known' = DOMAIN streamDTSs'
      BY DEF Known
    <3>q. QED  BY <3>1, <3>4, <3>5, <3>6, <3>7
  <2>3. InOrder(Tail(heap))
    <3>1. PICK n \in Nat : n = Len(heap) /\ DOMAIN heap = 1..n
      BY <1>1
    <3>2. PICK rest : rest = Tail(heap)
      OBVIOUS
    <3>3. DOMAIN rest = 1..n - 1 /\ \A k \in 1..n - 1 : rest[k] = heap[k + 1] /\ k + 1 \in 1..n
      BY <3>1, <3>2, <1>1, <1>5
    <3>4. \A j, k \in 1..n - 1 : j <= k => j + 1 <= k + 1
      OBVIOUS
    <3>5. ASSUME NEW j \in 1..n - 1, NEW k \in 1..n - 1, j <= k  PROVE rest[j] <= rest[k]
      BY <3>1, <3>3, <3>4, <3>5, <1>1 DEF InOrder
    <3>q. QED  BY <3>2, <3>3, <3>5 DEF InOrder
  <2> HIDE DEF heap
  <2>4. EmptyCountRight' /\ emptyQueuesCount' \in Nat /\ emptyQueuesCount <= emptyQueuesCount'
    <3>0. EmptyCountRight' <=> emptyQueuesCount' = Cardinality(EmptyHeaps')
      BY DEF EmptyCountRight, EmptyHeaps
    <3>1. s \notin EmptyHeaps
      BY <1>5 DEF EmptyHeaps, heap
    <3>2. CASE Len(heap) = 1
      <4>1. EmptyHeaps' = EmptyHeaps \cup {s}
        BY <3>2, <2>2, <1>1 DEF EmptyHeaps
      <4>2. Cardinality(EmptyHeaps \cup {s}) = Cardinality(EmptyHeaps) + 1
        BY <3>1, <1>3, FS_AddElement
      <4>q. QED  BY <4>1, <4>2, <3>0, <3>2, <2>1, <1>2, <1>3
    <3>3. CASE Len(heap) # 1
      <4>1. EmptyHeaps' = EmptyHeaps
        BY <3>1, <3>3, <2>2, <1>1 DEF EmptyHeaps
      <4>q. QED  BY <4>1, <3>0, <3>3, <2>1, <1>2, <1>3
    <3>q. QED  BY <3>2, <3>3
  <2>5. ASSUME HeapsMatch  PROVE HeapsMatch'
    <3> SUFFICES ASSUME NEW t \in Known  PROVE Matched(streamDTSs'[t], t, itemQueue')
      BY <2>2 DEF HeapsMatch
    <3>1. Matched(streamDTSs[t], t, itemQueue)
      BY <2>5 DEF HeapsMatch
    <3>2. CASE t = s
      <4>1. Matched(Tail(heap), s, itemQueue \ {i})
        BY <3>1, <3>2, <1>1, TailMatched DEF heap
      <4>q. QED  BY <4>1, <3>2, <2>2, <1>1
    <3>3. CASE t # s
      <4>1. Matched(streamDTSs[t], t, itemQueue \ {i})
        BY <3>1, <3>3, OthersMatched
      <4>q. QED  BY <4>1, <3>3, <2>2, <1>1
    <3>q. QED  BY <3>2, <3>3
  <2>6. streamDTSs' \in [Known -> Seq(DTSs)] /\ \A t \in Known : InOrder(streamDTSs'[t])
    BY <2>1, <2>2, <2>3, <1>1, <1>2 DEF Heaps
  <2>q. QED  BY <2>1, <2>2, <2>4, <2>5, <2>6, <1>1, <1>2 DEF Taken
<1>6. CASE ~ (heap # <<>> /\ Head(heap) = i.dts)
  <2>1. assertFailed' = TRUE /\ UNCHANGED <<streamDTSs, emptyQueuesCount>> /\ ~HeapsMatch
    BY <1>4, <1>6 DEF Take
  <2>2. Known' = Known
    BY <2>1 DEF Known
  <2>3. EmptyCountRight' <=> emptyQueuesCount' = Cardinality({t \in Known' : streamDTSs'[t] = <<>>})
    BY DEF EmptyCountRight
  <2>4. EmptyCountRight'
    BY <2>1, <2>2, <2>3 DEF Heaps, EmptyCountRight
  <2>5. emptyQueuesCount' \in Nat /\ emptyQueuesCount <= emptyQueuesCount'
    BY <2>1, <1>2
  <2>6. streamDTSs' \in [Known -> Seq(DTSs)] /\ \A t \in Known : InOrder(streamDTSs'[t])
    BY <2>1, <1>2 DEF Heaps
  <2>q. QED  BY <2>1, <2>2, <2>4, <2>5, <2>6, <1>1 DEF Taken
<1>q. QED  BY <1>5, <1>6

\* What sending does besides.
Sends(i) ==
  /\ Taken(i) /\ prevDTS' \in Nat /\ wentBackwards' \in BOOLEAN
  /\ prevDTS <= i.dts => prevDTS' = i.dts /\ wentBackwards' = wentBackwards
  /\ ~ (prevDTS <= i.dts) => prevDTS' = prevDTS /\ wentBackwards'

\* The oldest item is sent, or dropped as too old, or something has failed.
LEMMA SendSends ==
  ASSUME ReorderTypes, Heaps, SendOk \/ SendFails
  PROVE  \E i \in itemQueue : Sends(i) /\ (SendFails => wentBackwards' \/ reorderGone \/ closed)
<1>1. PICK i \in Oldest :
        /\ Take(i)
        /\ \/ prevDTS > i.dts /\ wentBackwards' = TRUE /\ UNCHANGED prevDTS
           \/ ~ (prevDTS > i.dts) /\ prevDTS' = i.dts /\ UNCHANGED wentBackwards
        /\ SendFails => wentBackwards' = TRUE \/ reorderGone \/ closed
  <2>1. CASE SendFails
    <3>1. PICK i \in Oldest :
            /\ Take(i)
            /\ \/ prevDTS > i.dts /\ ~discards /\ wentBackwards' = TRUE /\ UNCHANGED prevDTS
               \/ prevDTS <= i.dts /\ (reorderGone \/ closed) /\ prevDTS' = i.dts /\ UNCHANGED wentBackwards
      BY <2>1 DEF SendFails
    <3>2. prevDTS \in Nat /\ i.dts \in Nat
      BY <3>1, NumbersAre DEF ReorderTypes, Items, Oldest
    <3>3. prevDTS <= i.dts => ~ (prevDTS > i.dts)
      BY <3>2
    <3>q. QED  BY <3>1, <3>3
  <2>2. CASE SendOk /\ ~SendFails
    <3>1. PICK i \in Oldest :
            /\ Take(i)
            /\ IF prevDTS > i.dts
               THEN discards /\ wentBackwards' = TRUE /\ UNCHANGED prevDTS
               ELSE prevDTS' = i.dts /\ UNCHANGED wentBackwards
      BY <2>2 DEF SendOk
    <3>q. QED  BY <3>1, <2>2
  <2>q. QED  BY <2>1, <2>2
<1>2. prevDTS \in Nat /\ i.dts \in Nat /\ i \in itemQueue /\ wentBackwards \in BOOLEAN
  BY NumbersAre DEF ReorderTypes, Items, Oldest
<1>3. prevDTS <= i.dts <=> ~ (prevDTS > i.dts)
  BY <1>2
<1>4. Taken(i)
  BY <1>1, TakeTakes
<1>5. Sends(i)
  BY <1>1, <1>2, <1>3, <1>4 DEF Sends
<1>q. QED  BY <1>1, <1>2, <1>5

\* The fields of an item.
LEMMA ItemsAre ==
  ASSUME NEW i \in Items
  PROVE  i.n \in Nat /\ i.n \in 1..MaxItems /\ i.stream \in Streams /\ i.dts \in DTSs /\ i.dts \in Nat
<1>1. i.n \in 1..MaxItems /\ i.stream \in Streams /\ i.dts \in DTSs
  BY DEF Items
<1>2. \A k \in 1..MaxItems : k \in Nat
  BY NumbersAre
<1>q. QED  BY <1>1, <1>2, NumbersAre

\* At first nothing has come.
LEMMA ReorderInitially ==
  ASSUME ReorderInit
  PROVE  ReorderInv
<1>1. Known = {} /\ streamDTSs \in [Known -> Seq(DTSs)]
  BY DEF ReorderInit, Known
<1>2. IsFiniteSet(itemQueue) /\ Cardinality(itemQueue) = 0 /\ itemQueue = {}
  BY FS_EmptySet DEF ReorderInit
<1>3. ReorderTypes
  <2>1. Cardinality(itemQueue) <= MaxBufferSize /\ pushed \in 0..MaxItems /\ prevDTS \in Nat /\ emptyQueuesCount \in Nat
        /\ newest \in [Streams -> Nat]
    BY <1>2, NumbersAre DEF ReorderInit
  <2>2. (started \in BOOLEAN /\ discards \in BOOLEAN /\ closed \in BOOLEAN) /\ (flushing \in BOOLEAN /\ reorderGone \in BOOLEAN)
        /\ (assertFailed \in BOOLEAN /\ wentBackwards \in BOOLEAN)
    BY DEF ReorderInit
  <2>3. at = "none" /\ item = NoItem /\ excuse = {}
    BY DEF ReorderInit
  <2>q. QED  BY <1>1, <1>2, <2>1, <2>2, <2>3 DEF ReorderTypes
<1>4. EmptyCountRight
  <2>1. {s \in Known : streamDTSs[s] = <<>>} = {}
    BY <1>1
  <2>q. QED  BY <2>1, FS_EmptySet DEF EmptyCountRight, ReorderInit
<1>5. Heaps
  BY <1>1, <1>2, <1>4 DEF Heaps, HeapsMatch
<1>6. Newness /\ Waits
  BY <1>1, <1>2 DEF ReorderInit, Newness, Waits, Unhindered, PushStages
<1>q. QED  BY <1>3, <1>5, <1>6 DEF ReorderInv

\* Items and heaps stay as they are.
QueueUntouched == UNCHANGED <<itemQueue, streamDTSs, emptyQueuesCount, prevDTS, assertFailed, wentBackwards>>

\* Their facts stay with them.
LEMMA HeapsUntouched ==
  ASSUME ReorderInv, QueueUntouched, excuse \subseteq excuse', UNCHANGED discards
  PROVE  Heaps' /\ Known' = Known
<1>1. Known' = Known
  BY DEF QueueUntouched, Known
<1>2. EmptyCountRight'
  <2>1. EmptyCountRight' <=> emptyQueuesCount' = Cardinality({t \in Known' : streamDTSs'[t] = <<>>})
    BY DEF EmptyCountRight
  <2>q. QED  BY <1>1, <2>1 DEF QueueUntouched, ReorderInv, Heaps, EmptyCountRight
<1>3. HeapsMatch => HeapsMatch'
  BY <1>1 DEF QueueUntouched, HeapsMatch
<1>q. QED  BY <1>1, <1>2, <1>3 DEF QueueUntouched, ReorderInv, Heaps

\* An item comes.
LEMMA PushKeeps ==
  ASSUME ReorderInv, NEW s \in Streams, NEW d \in DTSs, Push(s, d)
  PROVE  ReorderInv'
<1>1. /\ at = "none" /\ pushed < MaxItems /\ pushed' = pushed + 1 /\ at' = "enforce" /\ QueueUntouched
      /\ item' = [n |-> pushed', stream |-> s, dts |-> d]
      /\ newest' = [newest EXCEPT ![s] = IF d > newest[s] THEN d ELSE newest[s]]
      /\ excuse' = excuse \cup (IF d < newest[s] THEN {"disordered"} ELSE {})
      /\ UNCHANGED <<started, discards, closed, flushing, reorderGone>>
  BY DEF Push, QueueUntouched
<1>2. pushed \in 0..MaxItems /\ newest \in [Streams -> Nat] /\ d \in Nat /\ MaxItems \in Nat
  BY NumbersAre DEF ReorderInv, ReorderTypes
<1>3. pushed' \in 1..MaxItems
  BY <1>1, <1>2
<1>4. item' \in Items
  BY <1>1, <1>3 DEF Items
<1>5. newest' \in [Streams -> Nat] /\ \A t \in Streams : newest'[t] = IF t = s THEN (IF d > newest[s] THEN d ELSE newest[s]) ELSE newest[t]
  BY <1>1, <1>2
<1>6. Known' = Known /\ Heaps'
  BY <1>1, HeapsUntouched
<1>7. ReorderTypes'
  <2>1. itemQueue' = itemQueue /\ streamDTSs' = streamDTSs /\ emptyQueuesCount' = emptyQueuesCount /\ prevDTS' = prevDTS
        /\ assertFailed' = assertFailed /\ wentBackwards' = wentBackwards
    BY <1>1 DEF QueueUntouched
  <2>2. pushed' \in 0..MaxItems
    BY <1>3
  <2>3. excuse' \subseteq {"forced", "disordered", "late stream"}
    BY <1>1 DEF ReorderInv, ReorderTypes
  <2>q. QED  BY <1>1, <1>4, <1>5, <1>6, <2>1, <2>2, <2>3 DEF ReorderInv, ReorderTypes, PushStages
<1>8. \A t \in Streams : newest'[t] \in Nat /\ newest[t] \in Nat /\ newest[t] <= newest'[t]
  <2>1. newest[s] \in Nat
    BY <1>2
  <2>q. QED  BY <1>2, <1>5, <2>1
<1>9. \A i \in itemQueue : i.n \in Nat /\ i.n <= pushed /\ i.stream \in Streams /\ i.dts \in Nat /\ i.dts <= newest[i.stream]
  <2>1. itemQueue \subseteq Items /\ \A i \in itemQueue : i.n <= pushed /\ i.dts <= newest[i.stream]
    BY DEF ReorderInv, ReorderTypes, Newness
  <2>q. QED  BY <2>1, ItemsAre
<1>10. \A i \in itemQueue : i.n <= pushed' /\ i.n # pushed' /\ i.dts <= newest'[i.stream]
  BY <1>1, <1>2, <1>8, <1>9
<1>11. d <= newest'[s] /\ (~ (d < newest[s]) => d = newest'[s])
  BY <1>2, <1>5, <1>8
<1>12. prevDTS \in Nat /\ Known \subseteq Streams
  BY DEF ReorderInv, ReorderTypes
<1>13. ASSUME excuse = {}, NEW t \in Known  PROVE prevDTS <= newest'[t]
  <2>1. prevDTS <= newest[t] /\ t \in Streams
    BY <1>12, <1>13 DEF ReorderInv, Newness
  <2>q. QED  BY <2>1, <1>8, <1>12
<1>14. item'.n = pushed' /\ item'.stream = s /\ item'.dts = d
  BY <1>1
<1>15. excuse' = {} => excuse = {} /\ ~ (d < newest[s])
  BY <1>1
<1>16. Newness'
  BY <1>1, <1>6, <1>10, <1>11, <1>13, <1>14, <1>15 DEF ReorderInv, Newness, QueueUntouched
<1>17. Waits'
  BY <1>1, <1>15 DEF ReorderInv, Waits, Unhindered, QueueUntouched
<1>q. QED  BY <1>6, <1>7, <1>16, <1>17 DEF ReorderInv

\* What holds after a step that sends an item or none.
Queued ==
  /\ itemQueue' \subseteq itemQueue /\ IsFiniteSet(itemQueue') /\ Cardinality(itemQueue') <= MaxBufferSize
  /\ Known' = Known /\ streamDTSs' \in [Known -> Seq(DTSs)] /\ emptyQueuesCount' \in Nat /\ prevDTS' \in Nat
  /\ assertFailed' \in BOOLEAN /\ wentBackwards' \in BOOLEAN
  /\ Heaps'
  /\ ~wentBackwards' => ~wentBackwards
  /\ wentBackwards' => excuse' # {}
  /\ assertFailed' => discards /\ excuse' # {}
  /\ excuse' = {} => \A j \in itemQueue' : prevDTS' <= j.dts

\* The call goes on or returns.
Onwards ==
  \/ at' = "none" /\ item' = NoItem
  \/ item' = item /\ (at' = at \/ {at, at'} \subseteq PushStages)

\* Then the invariant holds.
LEMMA QueuedKeeps ==
  ASSUME ReorderInv, Queued, Onwards, UNCHANGED Kept, excuse \subseteq excuse',
         excuse' \subseteq {"forced", "disordered", "late stream"},
         flushing' \in BOOLEAN, flushing' => closed,
         at' = "push" => Cardinality(itemQueue') < MaxBufferSize,
         at' # "pull" /\ Unhindered' => emptyQueuesCount' > 0,
         excuse' = {} => \A t \in Known : prevDTS' <= newest[t]
  PROVE  ReorderInv'
<1>1. /\ started' = started /\ discards' = discards /\ closed' = closed /\ pushed' = pushed
      /\ reorderGone' = reorderGone /\ newest' = newest
  BY DEF Kept
<1>2. at' \in PushStages \cup {"none", "pull"} /\ (at' = "none" => item' = NoItem) /\ (at' # "none" => item' \in Items)
      /\ (at' # "none" => at # "none" /\ item' = item) /\ (at' \in PushStages => at \in PushStages)
      /\ (at' = "pull" => at = "pull")
  BY DEF Onwards, PushStages, ReorderInv, ReorderTypes
<1>3. ReorderTypes'
  <2>1. itemQueue' \subseteq Items /\ Known' \subseteq Streams
    BY DEF Queued, ReorderInv, ReorderTypes
  <2>2. pushed' \in 0..MaxItems /\ newest' \in [Streams -> Nat]
    BY <1>1 DEF ReorderInv, ReorderTypes
  <2>3. (started' \in BOOLEAN /\ discards' \in BOOLEAN) /\ (closed' \in BOOLEAN /\ reorderGone' \in BOOLEAN)
    BY <1>1 DEF ReorderInv, ReorderTypes
  <2>q. QED  BY <1>2, <2>1, <2>2, <2>3 DEF Queued, ReorderTypes
<1>4. Newness'
  <2>1. \A i \in itemQueue' : i.n <= pushed' /\ i.dts <= newest'[i.stream]
    BY <1>1 DEF Queued, ReorderInv, Newness
  <2>2. at' # "none" => item'.n = pushed' /\ item'.dts <= newest'[item'.stream]
    BY <1>1, <1>2 DEF ReorderInv, Newness
  <2>3. at' \in PushStages => \A i \in itemQueue' : i.n # item'.n
    BY <1>2 DEF PushStages, Queued, ReorderInv, Newness
  <2>4. at' = "pull" => item'.stream \in Known'
    BY <1>2 DEF Queued, ReorderInv, Newness
  <2>5. excuse' = {} => excuse = {}
    OBVIOUS
  <2>6. excuse' = {} /\ at' \in PushStages => item'.dts = newest'[item'.stream]
    BY <2>5, <1>1, <1>2 DEF PushStages, ReorderInv, Newness
  <2>7. excuse' = {} => \A t \in Known' : prevDTS' <= newest'[t]
    BY <1>1 DEF Queued
  <2>q. QED  BY <2>1, <2>2, <2>3, <2>4, <2>6, <2>7 DEF Newness, Queued
<1>5. Waits'
  BY <1>1 DEF Waits, Queued
<1>q. QED  BY <1>3, <1>4, <1>5 DEF ReorderInv, Queued

\* Without sending.
LEMMA NoneQueued ==
  ASSUME ReorderInv, QueueUntouched, UNCHANGED Kept, excuse \subseteq excuse'
  PROVE  Queued
<1>1. Heaps' /\ Known' = Known
  BY HeapsUntouched DEF Kept
<1>2. itemQueue' = itemQueue /\ streamDTSs' = streamDTSs /\ emptyQueuesCount' = emptyQueuesCount /\ prevDTS' = prevDTS
      /\ assertFailed' = assertFailed /\ wentBackwards' = wentBackwards
  BY DEF QueueUntouched
<1>3. excuse' = {} => excuse = {}
  OBVIOUS
<1>q. QED  BY <1>1, <1>2, <1>3 DEF Queued, ReorderInv, ReorderTypes, Waits, Newness

\* With.
LEMMA OneQueued ==
  ASSUME ReorderInv, ~assertFailed, NEW i \in itemQueue, Sends(i), UNCHANGED Kept, excuse \subseteq excuse'
  PROVE  /\ Queued /\ Cardinality(itemQueue') < MaxBufferSize /\ emptyQueuesCount <= emptyQueuesCount'
         /\ Unhindered' => Unhindered
         /\ \A j \in itemQueue : i.dts <= j.dts
         /\ excuse' = {} => prevDTS' = i.dts
<1>1. IsFiniteSet(itemQueue') /\ Cardinality(itemQueue') < MaxBufferSize /\ Cardinality(itemQueue') <= MaxBufferSize
  <2>1. IsFiniteSet(itemQueue) /\ Cardinality(itemQueue) <= MaxBufferSize /\ itemQueue' = itemQueue \ {i}
    BY DEF ReorderInv, ReorderTypes, Sends, Taken
  <2>2. IsFiniteSet(itemQueue \ {i}) /\ Cardinality(itemQueue \ {i}) = Cardinality(itemQueue) - 1
        /\ Cardinality(itemQueue) \in Nat
    BY <2>1, FS_RemoveElement, FS_CardinalityType
  <2>q. QED  BY <2>1, <2>2, NumbersAre
<1>2. excuse' = {} => excuse = {}
  OBVIOUS
<1>3. excuse = {} => prevDTS <= i.dts /\ HeapsMatch /\ ~wentBackwards
  BY DEF ReorderInv, Newness, Heaps, Waits
<1>4. Taken(i)
  BY DEF Sends
<1>5. Heaps'
  <2>1. \A j \in itemQueue' : j.stream \in Known'
    BY <1>4 DEF Taken, ReorderInv, Heaps
  <2>2. ~discards' \/ excuse' = {} => HeapsMatch'
    BY <1>2, <1>4 DEF Kept, Taken, ReorderInv, Heaps
  <2>q. QED  BY <1>4, <2>1, <2>2 DEF Taken, Heaps
<1>6. wentBackwards' => excuse' # {}
  BY <1>2, <1>3 DEF Sends
<1>7. assertFailed' => discards /\ excuse' # {}
  BY <1>2, <1>4 DEF Taken, ReorderInv, Heaps
<1>8. ~wentBackwards' => ~wentBackwards
  BY DEF Sends
<1>9. Unhindered' => Unhindered
  BY <1>8 DEF Unhindered, Kept
<1>10. excuse' = {} => prevDTS' = i.dts
  BY <1>2, <1>3 DEF Sends
<1>11. excuse' = {} => \A j \in itemQueue' : prevDTS' <= j.dts
  BY <1>4, <1>10 DEF Taken
<1>12. Queued
  BY <1>1, <1>4, <1>5, <1>6, <1>7, <1>8, <1>11 DEF Queued, Taken, Sends
<1>q. QED  BY <1>1, <1>4, <1>9, <1>10, <1>12 DEF Taken

\* "forced" is one of the excuses.
LEMMA Forced ==
  ASSUME ReorderInv, Excuse("forced")
  PROVE  excuse \subseteq excuse' /\ excuse' # {} /\ excuse' \subseteq {"forced", "disordered", "late stream"}
BY DEF Excuse, ReorderInv, ReorderTypes

\* What is too old against the new item is sent.
LEMMA EnforceKeeps ==
  ASSUME ReorderInv, ~assertFailed, EnforceLowDTSDifference
  PROVE  ReorderInv'
<1>1. UNCHANGED Kept /\ flushing' = flushing /\ at = "enforce"
  BY DEF EnforceLowDTSDifference
<1>2. flushing' \in BOOLEAN /\ (flushing' => closed) /\ (Unhindered => emptyQueuesCount > 0) /\ emptyQueuesCount \in Nat
  BY <1>1 DEF ReorderInv, ReorderTypes, Waits
<1>3. CASE QueueUntouched /\ excuse' = excuse /\ (Return \/ (at' = "full" /\ item' = item))
  <2>1. Queued
    BY <1>1, <1>3, NoneQueued
  <2>2. Onwards /\ at' # "push" /\ at' # "pull"
    BY <1>1, <1>3 DEF Onwards, Return, PushStages
  <2>3. Unhindered' => emptyQueuesCount' > 0
    BY <1>1, <1>2, <1>3 DEF Unhindered, Kept, QueueUntouched
  <2>4. excuse' = {} => \A t \in Known : prevDTS' <= newest[t]
    BY <1>3 DEF QueueUntouched, ReorderInv, Newness
  <2>5. excuse' \subseteq {"forced", "disordered", "late stream"} /\ excuse \subseteq excuse'
    BY <1>3 DEF ReorderInv, ReorderTypes
  <2>q. QED  BY <1>1, <1>2, <2>1, <2>2, <2>3, <2>4, <2>5, QueuedKeeps
<1>4. CASE (SendOk \/ SendFails) /\ Excuse("forced") /\ (Return \/ (at' = at /\ item' = item))
  <2>1. PICK i \in itemQueue : Sends(i)
    BY <1>4, SendSends DEF ReorderInv
  <2>2. excuse \subseteq excuse' /\ excuse' # {} /\ excuse' \subseteq {"forced", "disordered", "late stream"}
    BY <1>4, Forced
  <2>3. Queued /\ emptyQueuesCount <= emptyQueuesCount' /\ (Unhindered' => Unhindered)
    BY <1>1, <2>1, <2>2, OneQueued
  <2>4. Onwards /\ at' # "push" /\ at' # "pull"
    BY <1>1, <1>4 DEF Onwards, Return
  <2>5. emptyQueuesCount' \in Nat
    BY <2>3 DEF Queued
  <2>6. emptyQueuesCount > 0 => emptyQueuesCount' > 0
    BY <1>2, <2>3, <2>5
  <2>q. QED  BY <1>1, <1>2, <2>2, <2>3, <2>4, <2>6, QueuedKeeps
<1>5. \/ QueueUntouched /\ excuse' = excuse /\ (Return \/ (at' = "full" /\ item' = item))
      \/ (SendOk \/ SendFails) /\ Excuse("forced") /\ (Return \/ (at' = at /\ item' = item))
  BY DEF EnforceLowDTSDifference, NotSending, QueueUntouched
<1>q. QED  BY <1>3, <1>4, <1>5

\* A full queue loses an item or sends one.
LEMMA MakeRoomKeeps ==
  ASSUME ReorderInv, ~assertFailed, MakeRoom
  PROVE  ReorderInv'
<1>1. UNCHANGED Kept /\ flushing' = flushing /\ at = "full"
  BY DEF MakeRoom
<1>2. flushing' \in BOOLEAN /\ (flushing' => closed) /\ (Unhindered => emptyQueuesCount > 0) /\ emptyQueuesCount \in Nat
  BY <1>1 DEF ReorderInv, ReorderTypes, Waits
<1>s. IsFiniteSet(itemQueue) /\ Cardinality(itemQueue) \in Nat /\ Cardinality(itemQueue) <= MaxBufferSize
  BY FS_CardinalityType DEF ReorderInv, ReorderTypes
<1>3. CASE QueueUntouched /\ excuse' = excuse /\ ~QueueFull /\ at' = "push" /\ item' = item
  <2>1. Queued
    BY <1>1, <1>3, NoneQueued
  <2>2. Onwards /\ at' # "pull"
    BY <1>1, <1>3 DEF Onwards, PushStages
  <2>3. Unhindered' => emptyQueuesCount' > 0
    BY <1>1, <1>2, <1>3 DEF Unhindered, Kept, QueueUntouched
  <2>4. excuse' = {} => \A t \in Known : prevDTS' <= newest[t]
    BY <1>3 DEF QueueUntouched, ReorderInv, Newness
  <2>5. excuse' \subseteq {"forced", "disordered", "late stream"} /\ excuse \subseteq excuse'
    BY <1>3 DEF ReorderInv, ReorderTypes
  <2>6. Cardinality(itemQueue') < MaxBufferSize
    BY <1>3, <1>s, NumbersAre DEF QueueFull, QueueUntouched
  <2>q. QED  BY <1>1, <1>2, <2>1, <2>2, <2>3, <2>4, <2>5, <2>6, QueuedKeeps
<1>4. CASE (SendOk \/ SendFails) /\ Excuse("forced") /\ (Return \/ (at' = "push" /\ item' = item))
  <2>1. PICK i \in itemQueue : Sends(i)
    BY <1>4, SendSends DEF ReorderInv
  <2>2. excuse \subseteq excuse' /\ excuse' # {} /\ excuse' \subseteq {"forced", "disordered", "late stream"}
    BY <1>4, Forced
  <2>3. Queued /\ emptyQueuesCount <= emptyQueuesCount' /\ (Unhindered' => Unhindered) /\ Cardinality(itemQueue') < MaxBufferSize
    BY <1>1, <2>1, <2>2, OneQueued
  <2>4. Onwards /\ at' # "pull"
    BY <1>1, <1>4 DEF Onwards, Return, PushStages
  <2>5. emptyQueuesCount' \in Nat
    BY <2>3 DEF Queued
  <2>6. emptyQueuesCount > 0 => emptyQueuesCount' > 0
    BY <1>2, <2>3, <2>5
  <2>q. QED  BY <1>1, <1>2, <2>2, <2>3, <2>4, <2>6, QueuedKeeps
<1>5. ASSUME discards, Excuse("forced"), at' = "push", item' = item,
             NEW i \in Oldest, itemQueue' = itemQueue \ {i},
             UNCHANGED <<streamDTSs, emptyQueuesCount, prevDTS, assertFailed, wentBackwards>>
      PROVE  ReorderInv'
  <2>1. excuse \subseteq excuse' /\ excuse' # {} /\ excuse' \subseteq {"forced", "disordered", "late stream"}
    BY <1>5, Forced
  <2>2. Known' = Known /\ i \in itemQueue
    BY <1>5 DEF Known, Oldest
  <2>3. IsFiniteSet(itemQueue') /\ Cardinality(itemQueue') < MaxBufferSize /\ Cardinality(itemQueue') <= MaxBufferSize
    <3>1. IsFiniteSet(itemQueue \ {i}) /\ Cardinality(itemQueue \ {i}) = Cardinality(itemQueue) - 1
      BY <1>s, <2>2, FS_RemoveElement
    <3>q. QED  BY <1>5, <1>s, <3>1, NumbersAre
  <2>4. Heaps'
    <3>1. EmptyCountRight' <=> emptyQueuesCount' = Cardinality({t \in Known' : streamDTSs'[t] = <<>>})
      BY DEF EmptyCountRight
    <3>2. EmptyCountRight'
      BY <1>5, <2>2, <3>1 DEF ReorderInv, Heaps, EmptyCountRight
    <3>3. discards' /\ excuse' # {}
      BY <1>1, <1>5, <2>1 DEF Kept
    <3>q. QED  BY <1>5, <2>2, <3>2, <3>3 DEF ReorderInv, Heaps
  <2>5. Queued
    <3>1. (assertFailed' \in BOOLEAN /\ wentBackwards' \in BOOLEAN) /\ (~wentBackwards' => ~wentBackwards) /\ ~assertFailed'
      BY <1>5 DEF ReorderInv, ReorderTypes
    <3>2. streamDTSs' \in [Known -> Seq(DTSs)] /\ emptyQueuesCount' \in Nat /\ prevDTS' \in Nat
      BY <1>5 DEF ReorderInv, ReorderTypes
    <3>q. QED  BY <1>5, <2>1, <2>2, <2>3, <2>4, <3>1, <3>2 DEF Queued
  <2>6. Unhindered' => emptyQueuesCount' > 0
    BY <1>1, <1>2, <1>5 DEF Unhindered, Kept
  <2>7. Onwards /\ at' # "pull"
    BY <1>1, <1>5 DEF Onwards, PushStages
  <2>q. QED  BY <1>1, <1>2, <2>1, <2>3, <2>5, <2>6, <2>7, QueuedKeeps
<1>6. \/ QueueUntouched /\ excuse' = excuse /\ ~QueueFull /\ at' = "push" /\ item' = item
      \/ (SendOk \/ SendFails) /\ Excuse("forced") /\ (Return \/ (at' = "push" /\ item' = item))
      \/ /\ discards /\ Excuse("forced") /\ at' = "push" /\ item' = item
         /\ \E i \in Oldest : itemQueue' = itemQueue \ {i}
         /\ UNCHANGED <<streamDTSs, emptyQueuesCount, prevDTS, assertFailed, wentBackwards>>
  BY DEF MakeRoom, NotSending, QueueUntouched
<1>q. QED  BY <1>3, <1>4, <1>5, <1>6

\* Generate sends what is left.
LEMMA ReorderFlushKeeps ==
  ASSUME ReorderInv, ~assertFailed, Flush
  PROVE  ReorderInv'
<1>1. UNCHANGED Kept /\ flushing /\ Excuse("forced") /\ flushing' \in BOOLEAN /\ item' = item /\ at' = at
  BY DEF Flush, ReorderInv, ReorderTypes
<1>2. closed /\ closed' = closed
  BY <1>1 DEF ReorderInv, Waits, Kept
<1>3. excuse \subseteq excuse' /\ excuse' # {} /\ excuse' \subseteq {"forced", "disordered", "late stream"}
  BY <1>1, Forced
<1>4. ~Unhindered'
  BY <1>2 DEF Unhindered
<1>5. Queued /\ (at' = "push" => Cardinality(itemQueue') < MaxBufferSize)
  <2>1. CASE SendOk \/ SendFails
    <3>1. PICK i \in itemQueue : Sends(i)
      BY <2>1, SendSends DEF ReorderInv
    <3>q. QED  BY <3>1, <1>1, <1>3, OneQueued
  <2>2. CASE NotSending
    <3>1. QueueUntouched
      BY <2>2 DEF NotSending, QueueUntouched
    <3>q. QED  BY <3>1, <1>1, <1>3, NoneQueued DEF QueueUntouched, ReorderInv, ReorderTypes
  <2>q. QED  BY <2>1, <2>2 DEF Flush
<1>6. Onwards
  BY <1>1 DEF Onwards
<1>q. QED  BY <1>1, <1>2, <1>3, <1>4, <1>5, <1>6, QueuedKeeps

\* The items that wait for no stream any more are sent.
LEMMA PullKeeps ==
  ASSUME ReorderInv, ~assertFailed, Pull
  PROVE  ReorderInv'
<1>1. UNCHANGED Kept /\ flushing' = flushing /\ at = "pull" /\ excuse' = excuse
  BY DEF Pull
<1>2. flushing' \in BOOLEAN /\ (flushing' => closed) /\ emptyQueuesCount \in Nat /\ item \in Items /\ item.stream \in Known
      /\ excuse' \subseteq {"forced", "disordered", "late stream"} /\ excuse \subseteq excuse'
  BY <1>1 DEF ReorderInv, ReorderTypes, Waits, Newness
<1>3. CASE HeldBack /\ Return /\ NotSending
  <2>1. QueueUntouched
    BY <1>3 DEF NotSending, QueueUntouched
  <2>2. Queued
    BY <1>1, <2>1, NoneQueued
  <2>3. Onwards /\ at' # "push"
    BY <1>3 DEF Onwards, Return
  <2>4. emptyQueuesCount' > 0
    <3>1. emptyQueuesCount' = emptyQueuesCount /\ emptyQueuesCount # 0
      BY <1>3, <2>1 DEF HeldBack, QueueUntouched
    <3>2. emptyQueuesCount \in Nat
      BY <1>2
    <3>q. QED  BY <3>1, <3>2
  <2>5. excuse' = {} => \A t \in Known : prevDTS' <= newest[t]
    BY <1>1, <2>1 DEF QueueUntouched, ReorderInv, Newness
  <2>q. QED  BY <1>1, <1>2, <2>2, <2>3, <2>4, <2>5, QueuedKeeps
<1>4. ASSUME ~HeldBack  PROVE \A t \in Known : streamDTSs[t] \in Seq(DTSs) /\ streamDTSs[t] # <<>>
  <2>1. emptyQueuesCount = 0 /\ streamDTSs \in [Known -> Seq(DTSs)] /\ Known \subseteq Streams
    BY <1>4 DEF HeldBack, ReorderInv, ReorderTypes
  <2>2. EmptyHeaps \subseteq Streams /\ Cardinality(EmptyHeaps) = 0
    BY <2>1 DEF ReorderInv, Heaps, EmptyCountRight, EmptyHeaps
  <2>3. IsFiniteSet(EmptyHeaps)
    BY <2>2, NumbersAre, FS_Subset
  <2>4. EmptyHeaps = {}
    BY <2>2, <2>3, FS_EmptySet
  <2>q. QED  BY <2>1, <2>4 DEF EmptyHeaps
<1>5. ASSUME ~HeldBack, HeapsMatch, NEW t \in Known
      PROVE  \E j \in itemQueue : j.stream = t
  <2>1. PICK f : Paired(f, streamDTSs[t], t, itemQueue)
    BY <1>5 DEF HeapsMatch, Matched
  <2>2. 1 \in DOMAIN streamDTSs[t]
    BY <1>4, <1>5
  <2>q. QED  BY <2>1, <2>2 DEF Paired
<1>6. CASE ~HeldBack /\ (SendOk \/ SendFails) /\ ((at' = at /\ item' = item) \/ (SendFails /\ Return))
  <2>1. PICK i \in itemQueue : Sends(i) /\ (SendFails => wentBackwards' \/ reorderGone \/ closed)
    BY <1>6, SendSends DEF ReorderInv
  <2>2. Queued /\ (Unhindered' => Unhindered) /\ (\A j \in itemQueue : i.dts <= j.dts) /\ (excuse' = {} => prevDTS' = i.dts)
    BY <1>1, <1>2, <2>1, OneQueued
  <2>3. Onwards /\ at' # "push"
    BY <1>1, <1>6 DEF Onwards, Return
  <2>4. at' # "pull" /\ Unhindered' => emptyQueuesCount' > 0
    BY <1>1, <1>6, <2>1, <2>2 DEF Unhindered, Kept
  <2>5. ASSUME excuse' = {}, NEW t \in Known  PROVE prevDTS' <= newest[t]
    <3>1. HeapsMatch
      BY <1>1, <2>5 DEF ReorderInv, Heaps
    <3>2. PICK j \in itemQueue : j.stream = t
      BY <1>5, <1>6, <2>5, <3>1
    <3>3. i.dts <= j.dts /\ j.dts <= newest[t]
      BY <2>2, <3>2 DEF ReorderInv, Newness
    <3>4. i \in Items /\ j \in Items /\ newest[t] \in Nat
      BY <2>1, <2>5, <3>2 DEF ReorderInv, ReorderTypes
    <3>5. i.dts \in Nat /\ j.dts \in Nat
      BY <3>4, ItemsAre
    <3>q. QED  BY <2>2, <2>5, <3>3, <3>4, <3>5
  <2>q. QED  BY <1>1, <1>2, <2>2, <2>3, <2>4, <2>5, QueuedKeeps
<1>7. ASSUME ~HeldBack, itemQueue = {}, assertFailed' = TRUE,
             UNCHANGED <<at, item, itemQueue, streamDTSs, emptyQueuesCount, prevDTS, wentBackwards>>
      PROVE  ReorderInv'
  <2>1. ~HeapsMatch
    BY <1>2, <1>5, <1>7
  <2>2. discards /\ excuse # {}
    BY <2>1 DEF ReorderInv, Heaps
  <2>3. Known' = Known
    BY <1>7 DEF Known
  <2>4. Heaps'
    <3>1. EmptyCountRight' <=> emptyQueuesCount' = Cardinality({t \in Known' : streamDTSs'[t] = <<>>})
      BY DEF EmptyCountRight
    <3>2. EmptyCountRight'
      BY <1>7, <2>3, <3>1 DEF ReorderInv, Heaps, EmptyCountRight
    <3>3. HeapsMatch' <=> HeapsMatch
      BY <1>7, <2>3 DEF HeapsMatch
    <3>q. QED  BY <1>1, <1>7, <2>3, <3>2, <3>3 DEF ReorderInv, Heaps, Kept
  <2>5. Queued
    <3>1. assertFailed' \in BOOLEAN /\ wentBackwards' \in BOOLEAN /\ (~wentBackwards' => ~wentBackwards)
      BY <1>7 DEF ReorderInv, ReorderTypes
    <3>2. streamDTSs' \in [Known -> Seq(DTSs)] /\ emptyQueuesCount' \in Nat /\ prevDTS' \in Nat
      BY <1>7 DEF ReorderInv, ReorderTypes
    <3>3. itemQueue' \subseteq itemQueue /\ IsFiniteSet(itemQueue') /\ Cardinality(itemQueue') <= MaxBufferSize
      BY <1>7 DEF ReorderInv, ReorderTypes
    <3>q. QED  BY <1>1, <1>7, <2>2, <2>3, <2>4, <3>1, <3>2, <3>3 DEF Queued
  <2>6. Onwards /\ at' = "pull"
    BY <1>1, <1>7 DEF Onwards
  <2>q. QED  BY <1>1, <1>2, <2>2, <2>5, <2>6, QueuedKeeps
<1>8. \/ HeldBack /\ Return /\ NotSending
      \/ ~HeldBack /\ (SendOk \/ SendFails) /\ ((at' = at /\ item' = item) \/ (SendFails /\ Return))
      \/ /\ ~HeldBack /\ itemQueue = {} /\ assertFailed' = TRUE
         /\ UNCHANGED <<at, item, itemQueue, streamDTSs, emptyQueuesCount, prevDTS, wentBackwards>>
  BY DEF Pull
<1>q. QED  BY <1>3, <1>6, <1>7, <1>8

\* A stream without items has an empty heap.
LEMMA NewHeapMatched ==
  ASSUME NEW s, NEW queue, \A i \in queue : i.stream # s
  PROVE  Matched(<<>>, s, queue) /\ InOrder(<<>>)
<1>1. DOMAIN <<>> = {} /\ <<>> \in [{} -> queue]
  OBVIOUS
<1>2. Paired(<<>>, <<>>, s, queue)
  BY <1>1 DEF Paired
<1>q. QED  BY <1>1, <1>2 DEF Matched, InOrder

\* The new item enters the queue and the heap of its stream.
LEMMA EnqueueKeeps ==
  ASSUME ReorderInv, ~assertFailed, Enqueue
  PROVE  ReorderInv'
<1> DEFINE s == item.stream
           heap == IF s \in Known THEN streamDTSs[s] ELSE <<>>
<1>1. /\ at = "push" /\ itemQueue' = itemQueue \cup {item} /\ emptyQueuesCount' = Added(s)
      /\ streamDTSs' = [t \in Known \cup {s} |-> IF t = s THEN Insert(heap, item.dts) ELSE streamDTSs[t]]
      /\ excuse' = excuse \cup (IF s \notin Known /\ prevDTS > 0 THEN {"late stream"} ELSE {})
      /\ UNCHANGED <<prevDTS, discards, closed, pushed, flushing, reorderGone, assertFailed, wentBackwards, newest>>
      /\ \/ emptyQueuesCount' # 0 /\ at' = "none" /\ item' = NoItem /\ started' = started
         \/ emptyQueuesCount' = 0 /\ started' = TRUE /\ at' = "pull" /\ item' = item
         \/ emptyQueuesCount' = 0 /\ ~started /\ at' = "none" /\ item' = NoItem /\ started' = started
  BY DEF Enqueue, Return
<1>2. item \in Items /\ s \in Streams /\ item.dts \in DTSs /\ item.dts \in Nat
  BY <1>1, ItemsAre DEF ReorderInv, ReorderTypes
<1>3. item \notin itemQueue /\ item.n = pushed /\ item.dts <= newest[s]
      /\ (excuse = {} => item.dts = newest[s])
  BY <1>1 DEF ReorderInv, Newness, PushStages
<1>4. streamDTSs \in [Known -> Seq(DTSs)] /\ Known \subseteq Streams /\ emptyQueuesCount \in Nat
  BY DEF ReorderInv, ReorderTypes
<1>5. heap \in Seq(DTSs) /\ InOrder(heap)
  <2>1. CASE s \in Known
    BY <2>1, <1>4 DEF ReorderInv, Heaps
  <2>2. CASE s \notin Known
    <3>1. InOrder(<<>>) /\ <<>> \in Seq(DTSs)
      BY NewHeapMatched
    <3>q. QED  BY <2>2, <3>1
  <2>q. QED  BY <2>1, <2>2
<1>6. HeapsMatch => Matched(heap, s, itemQueue)
  <2>1. CASE s \in Known
    BY <2>1 DEF HeapsMatch
  <2>2. CASE s \notin Known
    <3>1. \A i \in itemQueue : i.stream # s
      BY <2>2 DEF ReorderInv, Heaps
    <3>2. Matched(<<>>, s, itemQueue)
      BY <3>1, NewHeapMatched
    <3>q. QED  BY <2>2, <3>2
  <2>q. QED  BY <2>1, <2>2
<1>c. s \in Known => heap = streamDTSs[s]
  OBVIOUS
<1> HIDE DEF heap
<1>7. PICK new : new = Insert(heap, item.dts)
  OBVIOUS
<1>8. new \in Seq(DTSs) /\ Len(new) = Len(heap) + 1 /\ InOrder(new)
  BY <1>2, <1>5, <1>7, InsertInOrder
<1>9. new # <<>>
  <2>1. Len(heap) \in Nat
    BY <1>5
  <2>q. QED  BY <1>8, <2>1
<1>10. Known' = Known \cup {s} /\ Known' \subseteq Streams
       /\ \A t \in Known' : streamDTSs'[t] = IF t = s THEN new ELSE streamDTSs[t]
  BY <1>1, <1>2, <1>4, <1>7 DEF Known
<1>11. streamDTSs' \in [Known' -> Seq(DTSs)]
  <2>1. streamDTSs' = [t \in Known' |-> IF t = s THEN new ELSE streamDTSs[t]]
    BY <1>1, <1>7, <1>10
  <2>q. QED  BY <2>1, <1>4, <1>8, <1>10
<1>12. EmptyHeaps' = EmptyHeaps \ {s}
  BY <1>9, <1>10 DEF EmptyHeaps
<1>13. IsFiniteSet(EmptyHeaps) /\ emptyQueuesCount = Cardinality(EmptyHeaps)
  <2>1. EmptyHeaps \subseteq Streams
    BY <1>4 DEF EmptyHeaps
  <2>2. IsFiniteSet(EmptyHeaps)
    BY <2>1, NumbersAre, FS_Subset
  <2>q. QED  BY <2>2 DEF ReorderInv, Heaps, EmptyCountRight, EmptyHeaps
<1>14. EmptyCountRight' /\ emptyQueuesCount' \in Nat
  <2>0. EmptyCountRight' <=> emptyQueuesCount' = Cardinality(EmptyHeaps')
    BY DEF EmptyCountRight, EmptyHeaps
  <2>c. emptyQueuesCount \in Nat
        /\ emptyQueuesCount' = emptyQueuesCount + (IF s \notin Known THEN 1 ELSE 0)
                                              - (IF s \notin Known \/ streamDTSs[s] = <<>> THEN 1 ELSE 0)
    BY <1>1, <1>4 DEF Added
  <2>1. CASE s \notin Known
    <3>1. EmptyHeaps' = EmptyHeaps
      BY <2>1, <1>12 DEF EmptyHeaps
    <3>2. emptyQueuesCount' = emptyQueuesCount
      BY <2>1, <2>c
    <3>q. QED  BY <2>0, <3>1, <3>2, <1>4, <1>13
  <2>2. CASE s \in Known /\ heap = <<>>
    <3>1. s \in EmptyHeaps
      BY <2>2, <1>c DEF EmptyHeaps
    <3>2. Cardinality(EmptyHeaps \ {s}) = Cardinality(EmptyHeaps) - 1 /\ IsFiniteSet(EmptyHeaps \ {s})
      BY <3>1, <1>13, FS_RemoveElement
    <3>3. Cardinality(EmptyHeaps \ {s}) \in Nat
      BY <3>2, FS_CardinalityType
    <3>4. emptyQueuesCount' = emptyQueuesCount - 1
      BY <2>2, <2>c, <1>c
    <3>q. QED  BY <2>0, <3>2, <3>3, <3>4, <1>12, <1>13
  <2>3. CASE s \in Known /\ heap # <<>>
    <3>1. EmptyHeaps' = EmptyHeaps
      BY <2>3, <1>c, <1>12 DEF EmptyHeaps
    <3>2. emptyQueuesCount' = emptyQueuesCount
      BY <2>3, <2>c, <1>c
    <3>q. QED  BY <2>0, <3>1, <3>2, <1>4, <1>13
  <2>q. QED  BY <2>1, <2>2, <2>3
<1>15. ASSUME HeapsMatch  PROVE HeapsMatch'
  <2> SUFFICES ASSUME NEW t \in Known'  PROVE Matched(streamDTSs'[t], t, itemQueue')
    BY DEF HeapsMatch
  <2>1. CASE t = s
    <3>1. Matched(new, s, itemQueue \cup {item})
      <4> HIDE DEF s
      <4>1. Matched(heap, s, itemQueue) /\ item.stream = s
        BY <1>6, <1>15 DEF s
      <4>q. QED  BY <4>1, <1>2, <1>3, <1>5, <1>7, InsertMatched
    <3>q. QED  BY <3>1, <2>1, <1>1, <1>10
  <2>2. CASE t # s
    <3>1. Matched(streamDTSs[t], t, itemQueue)
      BY <2>2, <1>10, <1>15 DEF HeapsMatch
    <3>2. Matched(streamDTSs[t], t, itemQueue \cup {item})
      BY <2>2, <3>1, OthersMatched
    <3>q. QED  BY <3>2, <2>2, <1>1, <1>10
  <2>q. QED  BY <2>1, <2>2
<1>16. Heaps'
  <2>1. \A t \in Known' : InOrder(streamDTSs'[t])
    BY <1>8, <1>10 DEF ReorderInv, Heaps
  <2>2. \A i \in itemQueue' : i.stream \in Known'
    BY <1>1, <1>10 DEF ReorderInv, Heaps
  <2>3. ~discards' \/ excuse' = {} => ~discards \/ excuse = {}
    BY <1>1
  <2>q. QED  BY <2>1, <2>2, <2>3, <1>14, <1>15 DEF ReorderInv, Heaps
<1>17. itemQueue' \subseteq Items /\ IsFiniteSet(itemQueue') /\ Cardinality(itemQueue') <= MaxBufferSize
  <2>1. IsFiniteSet(itemQueue) /\ Cardinality(itemQueue) < MaxBufferSize /\ itemQueue \subseteq Items
    BY <1>1 DEF ReorderInv, ReorderTypes
  <2>2. Cardinality(itemQueue \cup {item}) = Cardinality(itemQueue) + 1 /\ IsFiniteSet(itemQueue \cup {item})
        /\ Cardinality(itemQueue) \in Nat
    BY <2>1, <1>3, FS_AddElement, FS_CardinalityType
  <2>3. itemQueue' = itemQueue \cup {item} /\ MaxBufferSize \in Nat
    BY <1>1, NumbersAre
  <2>4. Cardinality(itemQueue') <= MaxBufferSize
    BY <2>1, <2>2, <2>3
  <2>q. QED  BY <2>1, <2>2, <2>3, <2>4, <1>2
<1>18. at' \in {"none", "pull"} /\ (at' = "none" => item' = NoItem) /\ (at' = "pull" => item' = item)
       /\ (started' = started \/ started' = TRUE)
  BY <1>1
<1>19. ReorderTypes'
  <2>1. (started' \in BOOLEAN /\ discards' \in BOOLEAN) /\ (closed' \in BOOLEAN /\ flushing' \in BOOLEAN)
        /\ (reorderGone' \in BOOLEAN /\ assertFailed' \in BOOLEAN /\ wentBackwards' \in BOOLEAN)
    BY <1>1, <1>18 DEF ReorderInv, ReorderTypes
  <2>2. prevDTS' \in Nat /\ pushed' \in 0..MaxItems /\ newest' \in [Streams -> Nat]
    BY <1>1 DEF ReorderInv, ReorderTypes
  <2>3. excuse' \subseteq {"forced", "disordered", "late stream"}
    BY <1>1 DEF ReorderInv, ReorderTypes
  <2>q. QED  BY <1>2, <1>10, <1>11, <1>14, <1>17, <1>18, <2>1, <2>2, <2>3 DEF ReorderTypes, PushStages
<1>20. prevDTS' = prevDTS /\ newest' = newest /\ pushed' = pushed /\ prevDTS \in Nat /\ newest[s] \in Nat
  BY <1>1, <1>2 DEF ReorderInv, ReorderTypes
<1>21. ASSUME excuse' = {}
       PROVE  excuse = {} /\ prevDTS <= newest[s] /\ prevDTS <= item.dts
  <2>1. excuse = {} /\ ~ (s \notin Known /\ prevDTS > 0)
    BY <1>1, <1>21
  <2>2. prevDTS <= newest[s]
    <3>1. CASE s \in Known
      BY <2>1, <3>1 DEF ReorderInv, Newness
    <3>2. CASE s \notin Known
      BY <2>1, <3>2, <1>20
    <3>q. QED  BY <3>1, <3>2
  <2>q. QED  BY <2>1, <2>2, <1>3
<1>22. Newness'
  <2>1. \A i \in itemQueue' : i.n <= pushed' /\ i.dts <= newest'[i.stream]
    <3>1. item.n <= pushed
      BY <1>2, <1>3, ItemsAre
    <3>2. ASSUME NEW i \in itemQueue'  PROVE i \in itemQueue \/ i = item
      BY <1>1
    <3>q. QED  BY <3>1, <3>2, <1>3, <1>20 DEF ReorderInv, Newness
  <2>2. at' # "none" => item'.n = pushed' /\ item'.dts <= newest'[item'.stream] /\ item'.stream \in Known'
    BY <1>3, <1>10, <1>18, <1>20
  <2>3. at' \notin PushStages
    BY <1>18 DEF PushStages
  <2>4. ASSUME excuse' = {}
        PROVE  (\A i \in itemQueue' : prevDTS' <= i.dts) /\ (\A t \in Known' : prevDTS' <= newest'[t])
    BY <2>4, <1>1, <1>10, <1>20, <1>21 DEF ReorderInv, Newness
  <2>q. QED  BY <2>1, <2>2, <2>3, <2>4 DEF Newness
<1>23. Waits'
  <2>1. at' # "pull" /\ Unhindered' => emptyQueuesCount' # 0
    BY <1>1 DEF Unhindered
  <2>2. at' # "pull" /\ Unhindered' => emptyQueuesCount' > 0
    BY <2>1, <1>14
  <2>3. (flushing' => closed') /\ (wentBackwards' => excuse' # {}) /\ (assertFailed' => discards' /\ excuse' # {})
    BY <1>1 DEF ReorderInv, Waits
  <2>q. QED  BY <2>2, <2>3 DEF Waits
<1>q. QED  BY <1>16, <1>19, <1>22, <1>23 DEF ReorderInv

\* A stream that is announced gets an empty heap.
LEMMA ReorderNotifiedKeeps ==
  ASSUME ReorderInv, ~assertFailed, NEW s, ReorderNotified(s)
  PROVE  ReorderInv'
<1>1. /\ s \in Announced \ Known /\ emptyQueuesCount' = emptyQueuesCount + 1
      /\ streamDTSs' = [t \in Known \cup {s} |-> IF t = s THEN <<>> ELSE streamDTSs[t]]
      /\ excuse' = excuse \cup (IF prevDTS > 0 THEN {"late stream"} ELSE {})
      /\ UNCHANGED <<itemQueue, started, prevDTS, discards, closed, pushed, item, at, flushing, reorderGone>>
      /\ UNCHANGED <<assertFailed, wentBackwards, newest>>
  BY DEF ReorderNotified
<1>2. streamDTSs \in [Known -> Seq(DTSs)] /\ Known \subseteq Streams /\ emptyQueuesCount \in Nat /\ s \in Streams
      /\ prevDTS \in Nat /\ newest[s] \in Nat
  BY <1>1, NumbersAre DEF ReorderInv, ReorderTypes
<1>3. Known' = Known \cup {s} /\ Known' \subseteq Streams
      /\ \A t \in Known' : streamDTSs'[t] = IF t = s THEN <<>> ELSE streamDTSs[t]
  BY <1>1, <1>2 DEF Known
<1>4. streamDTSs' \in [Known' -> Seq(DTSs)]
  <2>1. streamDTSs' = [t \in Known' |-> IF t = s THEN <<>> ELSE streamDTSs[t]] 
    BY <1>1, <1>3
  <2>2. <<>> \in Seq(DTSs)
    OBVIOUS
  <2>q. QED  BY <2>1, <2>2, <1>2, <1>3
<1>5. (\A i \in itemQueue : i.stream # s) /\ Matched(<<>>, s, itemQueue) /\ InOrder(<<>>)
  <2>1. \A i \in itemQueue : i.stream # s
    BY <1>1 DEF ReorderInv, Heaps
  <2>q. QED  BY <2>1, NewHeapMatched
<1>6. EmptyCountRight' /\ emptyQueuesCount' \in Nat /\ emptyQueuesCount' > 0
  <2>1. EmptyHeaps \subseteq Streams /\ s \notin EmptyHeaps
    BY <1>1, <1>2 DEF EmptyHeaps
  <2>2. IsFiniteSet(EmptyHeaps)
    BY <2>1, NumbersAre, FS_Subset
  <2>3. Cardinality(EmptyHeaps \cup {s}) = Cardinality(EmptyHeaps) + 1
    BY <2>1, <2>2, FS_AddElement
  <2>4. EmptyHeaps' = EmptyHeaps \cup {s}
    BY <1>3 DEF EmptyHeaps
  <2>5. EmptyCountRight' <=> emptyQueuesCount' = Cardinality(EmptyHeaps')
    BY DEF EmptyCountRight, EmptyHeaps
  <2>6. emptyQueuesCount = Cardinality(EmptyHeaps)
    BY DEF ReorderInv, Heaps, EmptyCountRight, EmptyHeaps
  <2>7. emptyQueuesCount' = emptyQueuesCount + 1 /\ emptyQueuesCount \in Nat
    BY <1>1, <1>2
  <2>q. QED  BY <2>3, <2>4, <2>5, <2>6, <2>7
<1>7. HeapsMatch => HeapsMatch'
  BY <1>1, <1>3, <1>5 DEF HeapsMatch
<1>8. Heaps'
  <2>1. \A t \in Known' : InOrder(streamDTSs'[t])
    BY <1>3, <1>5 DEF ReorderInv, Heaps
  <2>2. \A i \in itemQueue' : i.stream \in Known'
    BY <1>1, <1>3 DEF ReorderInv, Heaps
  <2>3. ~discards' \/ excuse' = {} => ~discards \/ excuse = {}
    BY <1>1
  <2>q. QED  BY <2>1, <2>2, <2>3, <1>6, <1>7 DEF ReorderInv, Heaps
<1>9. ReorderTypes'
  <2>1. (started' \in BOOLEAN /\ discards' \in BOOLEAN) /\ (closed' \in BOOLEAN /\ flushing' \in BOOLEAN)
        /\ (reorderGone' \in BOOLEAN /\ assertFailed' \in BOOLEAN /\ wentBackwards' \in BOOLEAN)
    BY <1>1 DEF ReorderInv, ReorderTypes
  <2>2. prevDTS' \in Nat /\ pushed' \in 0..MaxItems /\ newest' \in [Streams -> Nat]
    BY <1>1 DEF ReorderInv, ReorderTypes
  <2>3. excuse' \subseteq {"forced", "disordered", "late stream"}
    BY <1>1 DEF ReorderInv, ReorderTypes
  <2>4. at' \in PushStages \cup {"none", "pull"} /\ (at' = "none" => item' = NoItem) /\ (at' # "none" => item' \in Items)
    BY <1>1 DEF ReorderInv, ReorderTypes, PushStages
  <2>5. itemQueue' \subseteq Items /\ IsFiniteSet(itemQueue') /\ Cardinality(itemQueue') <= MaxBufferSize
        /\ (at' = "push" => Cardinality(itemQueue') < MaxBufferSize)
    BY <1>1 DEF ReorderInv, ReorderTypes
  <2>q. QED  BY <1>3, <1>4, <1>6, <2>1, <2>2, <2>3, <2>4, <2>5 DEF ReorderTypes
<1>10. excuse' = {} => excuse = {} /\ prevDTS <= newest[s]
  <2>1. excuse' = {} => excuse = {} /\ ~ (prevDTS > 0)
    BY <1>1
  <2>q. QED  BY <2>1, <1>2
<1>11. Newness'
  BY <1>1, <1>3, <1>10 DEF ReorderInv, Newness
<1>12. Waits'
  BY <1>1, <1>6 DEF ReorderInv, Waits
<1>q. QED  BY <1>8, <1>9, <1>11, <1>12 DEF ReorderInv

\* Every step keeps the invariant.
LEMMA ReorderKeeps ==
  ASSUME ReorderInv, ReorderNext \/ UNCHANGED reorder
  PROVE  ReorderInv'
<1>1. ASSUME UNCHANGED reorder  PROVE ReorderInv'
  <2>1. QueueUntouched /\ excuse' = excuse /\ discards' = discards
    BY <1>1 DEF reorder, QueueUntouched
  <2>2. Heaps' /\ Known' = Known
    BY <2>1, HeapsUntouched
  <2>3. ReorderTypes'
    BY <1>1, <2>2 DEF reorder, ReorderInv, ReorderTypes, PushStages
  <2>4. Newness' /\ Waits'
    BY <1>1, <2>2 DEF reorder, ReorderInv, Newness, Waits, Unhindered, PushStages
  <2>q. QED  BY <2>2, <2>3, <2>4 DEF ReorderInv
<1>2. ASSUME CloseReorder  PROVE ReorderInv'
  <2>1. QueueUntouched /\ excuse' = excuse /\ discards' = discards
    BY <1>2 DEF CloseReorder, QueueUntouched
  <2>2. Heaps' /\ Known' = Known
    BY <2>1, HeapsUntouched
  <2>3. ReorderTypes'
    BY <1>2, <2>2 DEF CloseReorder, ReorderInv, ReorderTypes, PushStages
  <2>4. Newness' /\ Waits'
    BY <1>2, <2>2 DEF CloseReorder, ReorderInv, Newness, Waits, Unhindered
  <2>q. QED  BY <2>2, <2>3, <2>4 DEF ReorderInv
<1>3. ASSUME CtxDone  PROVE ReorderInv'
  <2>1. QueueUntouched /\ excuse' = excuse /\ discards' = discards
    BY <1>3 DEF CtxDone, QueueUntouched
  <2>2. Heaps' /\ Known' = Known
    BY <2>1, HeapsUntouched
  <2>3. ReorderTypes'
    BY <1>3, <2>2 DEF CtxDone, ReorderInv, ReorderTypes, PushStages
  <2>4. Newness' /\ Waits'
    BY <1>3, <2>2 DEF CtxDone, ReorderInv, Newness, Waits, Unhindered
  <2>q. QED  BY <2>2, <2>3, <2>4 DEF ReorderInv
<1>q. QED  BY <1>1, <1>2, <1>3, EnforceKeeps, MakeRoomKeeps, EnqueueKeeps, PullKeeps, ReorderFlushKeeps, ReorderNotifiedKeeps,
              PushKeeps DEF ReorderNext

\* What the invariant says of the kernel.
LEMMA ReorderImplies ==
  ASSUME ReorderInv
  PROVE  ReorderTypeOK /\ ReorderSafe
<1>1. NothingWaitsInVain
  <2>1. at = "none" => at # "pull"
    OBVIOUS
  <2>q. QED  BY <2>1 DEF ReorderInv, Waits, Unhindered, NothingWaitsInVain
<1>2. NoDisorderOfItsOwn /\ AssertionsHold /\ EmptyCountRight
  BY DEF ReorderInv, Waits, Heaps, NoDisorderOfItsOwn, AssertionsHold
<1>3. \A s \in Known : streamDTSs[s] \in Seq(DTSs)
  BY DEF ReorderInv, ReorderTypes
<1>4. \A i \in itemQueue \cup {item} : i.n \in 0..MaxItems /\ i.stream \in Streams
  <2>1. ASSUME NEW i \in Items  PROVE i.n \in 0..MaxItems /\ i.stream \in Streams
    BY ItemsAre, NumbersAre
  <2>2. NoItem.n = 0 /\ NoItem.stream \in Streams /\ 0 \in 0..MaxItems
    BY NumbersAre DEF NoItem
  <2>q. QED  BY <2>1, <2>2 DEF ReorderInv, ReorderTypes
<1>5. ReorderTypeOK
  <2>1. {started, discards, closed, flushing, reorderGone, assertFailed, wentBackwards} \subseteq BOOLEAN
    BY DEF ReorderInv, ReorderTypes
  <2>q. QED  BY <1>3, <1>4, <2>1 DEF ReorderInv, ReorderTypes, ReorderTypeOK, PushStages
<1>q. QED  BY <1>1, <1>2, <1>5 DEF ReorderSafe

----------------------------------------------------------------------------
(* All of them.                                                            *)

KernelsInv == ChainInv /\ SwitchInv /\ FanoutInv /\ InputInv /\ OutputInv /\ ReorderInv /\ CodecInv /\ TranscoderInv

\* A part that does not run keeps its invariant.
LEMMA PartsRest ==
  /\ ChainInv /\ UNCHANGED chain => ChainInv'
  /\ SwitchInv /\ UNCHANGED switch => SwitchInv'
  /\ FanoutInv /\ UNCHANGED fanout => FanoutInv'
  /\ InputInv /\ UNCHANGED inputKernel => InputInv'
  /\ OutputInv /\ UNCHANGED outputState => OutputInv'
  /\ ReorderInv /\ UNCHANGED reorder => ReorderInv'
  /\ CodecInv /\ UNCHANGED codecKernel => CodecInv'
  /\ TranscoderInv /\ UNCHANGED transcoder => TranscoderInv'
<1>1. ASSUME ChainInv, UNCHANGED chain  PROVE ChainInv'
  BY <1>1 DEF chain, ChainInv, ChainTypes, Hands, Closures, AllAccounted
<1>2. ASSUME SwitchInv, UNCHANGED switch  PROVE SwitchInv'
  BY <1>2 DEF switch, SwitchInv, SwitchTypes, RequestPending, OutputsSoFar, Current, Wanted
<1>3. ASSUME FanoutInv, UNCHANGED fanout  PROVE FanoutInv'
  BY <1>3 DEF fanout, FanoutInv, FanoutTypes, Reports
<1>4. ASSUME InputInv, UNCHANGED inputKernel  PROVE InputInv'
  BY <1>4 DEF inputKernel, options, opening, generating, InputInv, InputTypes, InputOrder, HoldsUntimed, JustRead, HeldComesAfter, SentAgain, SentInOrder, ReadIsSomewhere, Undisturbed, WasSent, ClosesAfterGenerate, StreamOf, Kind
<1>5. ASSUME OutputInv, UNCHANGED outputState  PROVE OutputInv'
  BY <1>5 DEF outputState, OutputInv, OutputTypes, HeaderFirst, WaitsOrKeeps, KeepsOf, KeptStartsWithKey, StreamsNow, Tidy, StreamRecords, Numbered, UsedOnce, Is, Number
<1>6. ASSUME ReorderInv, UNCHANGED reorder  PROVE ReorderInv'
  BY <1>6, ReorderKeeps
<1>7. ASSUME CodecInv, UNCHANGED codecKernel  PROVE CodecInv'
  BY <1>7, CodecKeeps
<1>8. ASSUME TranscoderInv, UNCHANGED transcoder  PROVE TranscoderInv'
  BY <1>8, TranscoderRests
<1>q. QED  BY <1>1, <1>2, <1>3, <1>4, <1>5, <1>6, <1>7, <1>8

\* The kernels start with their invariants ...
LEMMA KernelsInitially == Init => KernelsInv
BY ChainInitially, SwitchInitially, FanoutInitially, InputInitially, OutputInitially, ReorderInitially, CodecInitially, TranscoderInitially DEF Init, KernelsInv

\* ... and every step is one of one part.
LEMMA OneSteps ==
  ASSUME [Next]_vars
  PROVE  /\ ChainNext \/ UNCHANGED chain
         /\ SwitchNext \/ UNCHANGED switch
         /\ FanoutNext \/ UNCHANGED fanout
         /\ InputNext \/ UNCHANGED inputKernel
         /\ OutputNext \/ UNCHANGED outputState
         /\ ReorderNext \/ UNCHANGED reorder
         /\ CodecNext \/ UNCHANGED codecKernel
         /\ TranscoderNext \/ UNCHANGED transcoder
BY DEF Next, vars, InChain, InSwitch, InFanout, InReorder, InOutput, InCodec, InTranscoder, InInput

\* ... so that it keeps them.
LEMMA KernelsKeep == KernelsInv /\ [Next]_vars => KernelsInv'
<1> SUFFICES ASSUME KernelsInv, [Next]_vars  PROVE KernelsInv'
  OBVIOUS
<1>1. ChainInv'
  BY OneSteps, ChainKeeps, PartsRest DEF KernelsInv
<1>2. SwitchInv'
  BY OneSteps, SwitchKeeps, PartsRest DEF KernelsInv
<1>3. FanoutInv'
  BY OneSteps, FanoutKeeps, PartsRest DEF KernelsInv
<1>4. InputInv'
  BY OneSteps, InputKeeps, PartsRest DEF KernelsInv
<1>5. OutputInv'
  BY OneSteps, OutputKeeps, PartsRest DEF KernelsInv
<1>6. ReorderInv'
  BY OneSteps, ReorderKeeps, PartsRest DEF KernelsInv
<1>7. CodecInv'
  BY OneSteps, CodecKeeps, PartsRest DEF KernelsInv
<1>8. TranscoderInv'
  BY OneSteps, TranscoderKeeps, PartsRest DEF KernelsInv
<1>q. QED  BY <1>1, <1>2, <1>3, <1>4, <1>5, <1>6, <1>7, <1>8 DEF KernelsInv

\* The invariants of the kernels are invariants.
THEOREM KernelsInvariant == Spec => []KernelsInv
BY KernelsInitially, KernelsKeep, PTL DEF Spec

\* A chain is a pipe: each kind leaves in the order in which it entered, and
\* nothing is lost before a kernel fails or the context is done.
THEOREM ChainIsAPipe == Spec => ImplementsPipe
<1>1. Init => Queue = [k \in Kinds |-> <<>>] /\ Broken = FALSE
  BY ChainStartsEmpty DEF Init
<1>2. KernelsInv /\ [Next]_vars => [Abstract!PipeNext]_<<Queue, Broken>>
  <2> SUFFICES ASSUME KernelsInv, [Next]_vars  PROVE Abstract!PipeNext \/ UNCHANGED <<Queue, Broken>>
    OBVIOUS
  <2>1. CASE ChainNext
    BY <2>1, ChainPipes DEF KernelsInv
  <2>2. CASE UNCHANGED chain
    <3>1. Queue' = Queue
      BY <2>2, QueueStays DEF chain, InHand
    <3>2. Broken' = Broken
      BY <2>2 DEF chain, Broken
    <3>q. QED  BY <3>1, <3>2
  <2>q. QED  BY <2>1, <2>2, OneSteps
<1>3. Spec => (Queue = [k \in Kinds |-> <<>>] /\ Broken = FALSE) /\ [][Abstract!PipeNext]_<<Queue, Broken>>
  BY <1>1, <1>2, KernelsInvariant, PTL DEF Spec
<1>q. QED  BY <1>3, PTL DEF ImplementsPipe, Abstract!PipeSpec, Queue, Broken

\* The kernel switch keeps the last request until it is used, and gives a packet to
\* one kernel unless the next one fails, for any kernels and requests.
THEOREM SwitchIsSafe == Spec => []SwitchSafe
<1>1. KernelsInv => SwitchSafe
  BY SwitchImplies DEF KernelsInv
<1>q. QED  BY <1>1, KernelsInvariant, PTL

\* A tee reports the failures of its kernels unless its caller has cancelled it, for
\* any number of them.
THEOREM FanoutReports == Spec => []FailuresReported
<1>1. KernelsInv => FailuresReported
  BY FanoutImplies DEF KernelsInv
<1>q. QED  BY <1>1, KernelsInvariant, PTL

\* A chain of any length reports what it loses, and nobody sends on a channel of it
\* that is closed, if a kernel whose outputs are closed early generates nothing.
THEOREM ChainIsSafe ==
  ASSUME \A i \in ClosedEarly : Makes[i] = <<>>
  PROVE  Spec => []ChainSafe
<1>1. Init => NoSendOnClosedLink
  BY DEF Init, ChainInit, NoSendOnClosedLink
<1>2. KernelsInv /\ NoSendOnClosedLink /\ [Next]_vars => NoSendOnClosedLink'
  <2> SUFFICES ASSUME KernelsInv, NoSendOnClosedLink, [Next]_vars  PROVE NoSendOnClosedLink'
    OBVIOUS
  <2>1. CASE ChainNext
    BY <2>1, ChainNeverPanics DEF KernelsInv
  <2>2. CASE UNCHANGED chain
    BY <2>2 DEF chain, NoSendOnClosedLink
  <2>q. QED  BY <2>1, <2>2, OneSteps
<1>3. KernelsInv /\ NoSendOnClosedLink => ChainSafe
  BY ChainImplies DEF KernelsInv, ChainSafe
<1>q. QED  BY <1>1, <1>2, <1>3, KernelsInvariant, PTL DEF Spec

\* An input sends the packets of a stream in order and once, except that one which was
\* held back is sent again when an unclear one follows; all of them if it comes to the end
\* undisturbed; and it does not read from a context that is closed, except in a
\* Generate that began after Close had looked for one.  For any files.
THEOREM InputIsSafe == Spec => []InputSafe
<1>1. KernelsInv => InputSafe
  BY InputImplies DEF KernelsInv
<1>q. QED  BY <1>1, KernelsInvariant, PTL

\* An output writes its header first and once, no two streams to one, and keeps a key
\* packet first until it starts; for any sources, streams and minima.
THEOREM OutputIsSafe == Spec => []OutputSafe
<1>1. KernelsInv => OutputSafe
  BY OutputImplies DEF KernelsInv
<1>q. QED  BY <1>1, KernelsInvariant, PTL

\* Items that are reordered wait while a stream has none and, once started and until
\* the kernel is closed or disordered, no longer; they leave in order unless there was a
\* reason; no assertion fails unless items are discarded; for any streams and bounds.
THEOREM ReorderIsSafe == Spec => []ReorderSafe
<1>1. KernelsInv => ReorderSafe
  BY ReorderImplies DEF KernelsInv
<1>q. QED  BY <1>1, KernelsInvariant, PTL

\* What an encoder or a decoder accepts comes out once and in order or is accounted
\* for, and an open codec is kept; for any inputs.  As long as no call was cut off, and
\* only then, a flush leaves nothing behind and a clean codec is empty: after a cut a
\* decoder may take itself for flushed with frames inside.
THEOREM CodecIsSafe == Spec => []CodecSafe
<1>1. KernelsInv => CodecSafe
  BY CodecImplies DEF KernelsInv
<1>q. QED  BY <1>1, KernelsInvariant, PTL

\* So all that is said of the switch, the order, the output, the codecs and the input
\* holds, each with its exceptions.
THEOREM KernelsAreSafe == Spec => []KernelsSafe
<1>1. KernelsInv => KernelsSafe
  BY SwitchImplies, ReorderImplies, OutputImplies, CodecImplies, InputImplies DEF KernelsInv, KernelsSafe
<1>q. QED  BY <1>1, KernelsInvariant, PTL

\* The types of the parts follow from their invariants.
LEMMA TypesFollow == KernelsInv => TypeOK
<1> SUFFICES ASSUME KernelsInv  PROVE TypeOK
  OBVIOUS
<1> USE DEF KernelsInv
<1>1. ChainTypeOK
  BY DEF ChainInv, ChainTypes, ChainTypeOK
<1>2. SwitchTypeOK
  <2>1. packet \in {"none", "current", "loaded", "verify", "store", "swap", "via"}
    BY DEF SwitchInv, SwitchTypes, Loads, Commits
  <2>2. loaded \in SwitchKernels \X (SwitchKernels \cup {None})
    BY DEF SwitchInv, SwitchTypes
  <2>3. {conditional, verified, nextFailed} \subseteq BOOLEAN
    BY DEF SwitchInv, SwitchTypes
  <2>q. QED  BY <2>1, <2>2, <2>3 DEF SwitchInv, SwitchTypes, SwitchTypeOK
<1>3. FanoutTypeOK
  BY DEF FanoutInv, FanoutTypes, FanoutTypeOK
<1>4. ReorderTypeOK
  <2>0. 0 \in 0..MaxItems /\ 1..MaxItems \subseteq 0..MaxItems
    <3>1. MaxItems \in Nat
      BY ReorderAssumption
    <3>q. QED  BY <3>1
  <2> USE DEF ReorderInv, ReorderTypes
  <2>1. ASSUME NEW i \in itemQueue \cup {item}  PROVE i.n \in 0..MaxItems /\ i.stream \in Streams
    <3>1. CASE i \in Items
      <4>1. i.n \in 1..MaxItems /\ i.stream \in Streams
        BY <3>1 DEF Items
      <4>q. QED  BY <4>1, <2>0
    <3>2. CASE i = NoItem
      <4>1. (CHOOSE s \in Streams : TRUE) \in Streams
        BY ReorderAssumption
      <4>2. i.n = 0 /\ i.stream \in Streams
        BY <3>2, <4>1 DEF NoItem
      <4>q. QED  BY <4>2, <2>0
    <3>q. QED  BY <3>1, <3>2
  <2>2. at \in {"none", "enforce", "full", "push", "pull"}
    BY DEF PushStages
  <2>3. {started, discards, closed, flushing, reorderGone, assertFailed, wentBackwards} \subseteq BOOLEAN
    OBVIOUS
  <2>q. QED  BY <2>1, <2>2, <2>3 DEF ReorderTypeOK
<1>5. OutputTypeOK
  <2> USE DEF OutputInv, OutputTypes
  <2>1. /\ outputStreams \in [Indexes -> {Missing, Reserved} \cup DOMAIN made]
        /\ \A n \in DOMAIN made : made[n] \in {"any", "video", "audio"}
        /\ \A media \in {"video", "audio"} : \A n \in DOMAIN preallocated[media] : preallocated[media][n] \in DOMAIN made
        /\ waitingKeyFrames \subseteq DOMAIN made
    <3>1. /\ StreamsNow.outputStreams = outputStreams /\ StreamsNow.made = made
          /\ StreamsNow.preallocated = preallocated /\ StreamsNow.waitingKeyFrames = waitingKeyFrames
      BY DEF StreamsNow
    <3>2. Tidy(StreamsNow)
      OBVIOUS
    <3>3. /\ outputStreams \in [Indexes -> Int] /\ made \in Seq(Medias \cup {"any"})
      BY <3>1, <3>2 DEF Tidy, StreamRecords
    <3>4. /\ \A i \in Indexes : outputStreams[i] \in {Missing, Reserved} \cup 1..Len(made)
          /\ waitingKeyFrames \subseteq 1..Len(made)
          /\ \A m \in Medias : \A n \in DOMAIN preallocated[m] : preallocated[m][n] \in 1..Len(made)
      BY <3>1, <3>2, Zenon DEF Tidy, Numbered
    <3>5. DOMAIN made = 1..Len(made)
      BY <3>3
    <3>6. Medias = {"video", "audio"}
      BY DEF Medias
    <3>7. \A n \in DOMAIN made : made[n] \in {"any", "video", "audio"}
      BY <3>3, <3>6
    <3>8. outputStreams \in [Indexes -> {Missing, Reserved} \cup DOMAIN made]
      BY <3>3, <3>4, <3>5, Zenon
    <3>q. QED  BY <3>4, <3>5, <3>6, <3>7, <3>8
  <2>2. {flv, outStarted, headerSent, misplaced} \subseteq BOOLEAN
    OBVIOUS
  <2>3. sendAt \in {"none", "stream", "send", "header", "flush", "write", "failed", "panic"}
    BY DEF OutputStages
  <2>q. QED  BY <2>1, <2>2, <2>3 DEF OutputTypeOK
<1>6. CodecTypeOK
  <2> USE DEF CodecInv, CodecTypes
  <2>1. ASSUME NEW c \in Created  PROVE codecs[c].lock \in Callers \cup {Nobody} /\ Contents(c) \subseteq acceptedObjects
    <3>1. codecs[c] \in Codecs
      BY DEF Created
    <3>2. codecs[c].lock \in Callers \cup {Nobody} /\ codecs[c].held \in Seq(Objects)
      BY <3>1 DEF Codecs
    <3>a. \A n \in DOMAIN codecs[c].held : codecs[c].held[n] \in Objects
      BY <3>2
    <3>b. Contents(c) \subseteq Objects
      BY <3>a, Zenon DEF Contents
    <3>c. NoObject \notin Objects
      BY CodecAssumption DEF Objects, NoObject
    <3>3. Contents(c) \subseteq Objects /\ NoObject \notin Objects
      BY <3>b, <3>c
    <3>4. Contents(c) \subseteq InsideCodec
      BY <3>3 DEF InsideCodec
    <3>q. QED  BY <3>2, <3>4 DEF CodecFates
  <2>2. codecOfStream \in 0..MaxCodecs /\ with \in [Callers -> 0..MaxCodecs]
    <3>1. Len(codecs) \in Nat /\ MaxCodecs \in Nat /\ Len(codecs) <= MaxCodecs
      BY CodecAssumption
    <3>2. 0..Len(codecs) \subseteq 0..MaxCodecs
      BY <3>1
    <3>q. QED  BY <3>2
  <2>3. {kernelClosed, hasStream, dirtyCache} \subseteq BOOLEAN
    OBVIOUS
  <2>q. QED  BY <2>1, <2>2, <2>3 DEF CodecTypeOK
<1>7. TranscoderTypeOK
  BY TranscoderImplies
<1>8. InputTypeOK
  <2> USE DEF InputInv, InputTypes
  <2>1. Len(file) \in Nat /\ nbRead \in Nat /\ nbRead <= Len(file)
    BY FilesAssumption
  <2>2. 0..nbRead \subseteq 0..Len(file)
    BY <2>1
  <2>3. prevPkts \in [InputStreams -> 0..Len(file)]
    BY <2>2
  <2>4. \A i \in DOMAIN sentPackets : sentPackets[i] \in 1..nbRead
    OBVIOUS
  <2>5. {initialized, startedLate, closureDone, inputCtxDone, taken} \subseteq BOOLEAN
    OBVIOUS
  <2>q. QED  BY <2>3, <2>4, <2>5 DEF InputTypeOK
<1>q. QED  BY <1>1, <1>2, <1>3, <1>4, <1>5, <1>6, <1>7, <1>8 DEF TypeOK

\* Every variable of the kernels keeps its type.
THEOREM KernelTypes == Spec => []TypeOK
BY TypesFollow, KernelsInvariant, PTL

\* While nothing fails a transcoder sends each stream in order, and a call of it loses no
\* more than its end; for any packets, any number of calls and any limit.
THEOREM TranscoderIsSafe == Spec => []TranscoderSafe
<1>1. KernelsInv => TranscoderSafe
  BY TranscoderImplies DEF KernelsInv
<1>q. QED  BY <1>1, KernelsInvariant, PTL

\* So calls that reach several kernels lose neither an object nor an error in silence.
THEOREM CallsAreSafe ==
  ASSUME \A i \in ClosedEarly : Makes[i] = <<>>
  PROVE  Spec => []CallsSafe
BY ChainIsSafe, FanoutReports, TranscoderIsSafe, PTL DEF CallsSafe

=============================================================================
