---------------------------- MODULE KernelSwitch ----------------------------
(***************************************************************************)
(* kernel/switch.go: one of several kernels handles the packets, and       *)
(* SetKernelIndex asks for another one.  The packets come one at a time;   *)
(* requests come at any time.  A packet commits the request if KeepUnless  *)
(* accepts it and, with VerifySwitchOutput, the next kernel makes an output*)
(* of it that is verified.  The outputs of a packet that are not are       *)
(* discarded, and the kernel in use handles the packet as well.            *)
(***************************************************************************)
EXTENDS Integers, FiniteSets

CONSTANTS
  SwitchKernels,    \* the kernels
  Verifies,         \* VerifySwitchOutput is set
  MaxRequests       \* bounds the requests

None == -1

ASSUME SwitchAssumption == 0 \in SwitchKernels /\ SwitchKernels \subseteq Nat /\ MaxRequests \in Nat

VARIABLES
  conditional,      \* KeepUnless or VerifySwitchOutput is set
  kernelIndex, nextKernelIndex,
  requested,        \* the last request
  requests,         \* how many there were
  packet,           \* where SendInputPacket is: "none", "current", "loaded", "verify", "store", "swap", "via"
  loaded,           \* the two values it has loaded
  accepted,         \* "no": KeepUnless refuses the packet; "yes": it does not, and an
                    \* output of it is verified; "maybe": that is not known yet
  verified,         \* _ret: an output of the next kernel was verified
  nextFailed,       \* the next kernel has failed on this packet
  usedBy            \* the kernels whose outputs of this packet have been passed on

switch == <<conditional, kernelIndex, nextKernelIndex, requested, requests, packet, loaded, accepted, verified, nextFailed, usedBy>>

Current == loaded[1]
Wanted == loaded[2]

----------------------------------------------------------------------------

\* Without a condition the request is carried out at once.
SetKernelIndex(k) ==
  /\ requests < MaxRequests /\ requests' = requests + 1 /\ requested' = k
  /\ IF conditional THEN nextKernelIndex' = k /\ UNCHANGED kernelIndex
                    ELSE kernelIndex' = k /\ UNCHANGED nextKernelIndex
  /\ UNCHANGED <<conditional, packet, loaded, accepted, verified, nextFailed, usedBy>>

\* The two loads are two steps: a request may come in between.
LoadKernelIndex ==
  /\ packet = "none" /\ packet' = "current"
  /\ loaded' = <<kernelIndex, None>> /\ usedBy' = {}
  /\ verified' = FALSE /\ nextFailed' = FALSE
  /\ UNCHANGED <<conditional, kernelIndex, nextKernelIndex, requested, requests, accepted>>

LoadNextKernelIndex ==
  /\ packet = "current" /\ loaded' = [loaded EXCEPT ![2] = nextKernelIndex]
  /\ packet' = IF nextKernelIndex = None THEN "via" ELSE "loaded"
  /\ UNCHANGED <<conditional, kernelIndex, nextKernelIndex, requested, requests, accepted, verified, nextFailed, usedBy>>

DecideInverted ==
  /\ packet = "loaded"
  /\ packet' = IF Wanted # Current /\ accepted # "no" THEN "via" ELSE "store"
  /\ UNCHANGED <<conditional, kernelIndex, nextKernelIndex, requested, requests, loaded, accepted, verified, nextFailed, usedBy>>

Decide ==
  /\ packet = "loaded"
  /\ packet' = CASE Wanted # Current /\ accepted = "no" -> "via"
                 [] Wanted # Current /\ accepted # "no" /\ Verifies -> "verify"
                 [] OTHER -> "store"
  /\ UNCHANGED <<conditional, kernelIndex, nextKernelIndex, requested, requests, loaded, accepted, verified, nextFailed, usedBy>>

\* doVerifySwitchOutput: once an output is verified, it and all later ones
\* are passed on.
VerifyOutput ==
  /\ packet = "verify" /\ verified' = TRUE /\ usedBy' = usedBy \cup {Wanted}
  /\ UNCHANGED <<conditional, kernelIndex, nextKernelIndex, requested, requests, packet, loaded, accepted, nextFailed>>

VerifyFails ==
  /\ packet = "verify" /\ accepted # "yes" /\ nextFailed' = TRUE
  /\ UNCHANGED <<conditional, kernelIndex, nextKernelIndex, requested, requests, packet, loaded, accepted, verified, usedBy>>

NextPacket == packet' = "none" /\ accepted' \in {"no", "maybe", "yes"}

\* After an error _ret is read and written by two goroutines: an output that
\* was passed on may be forgotten, so that the kernel in use takes the packet
\* too, or the error may be forgotten, so that the request is committed.
AfterVerify ==
  /\ packet = "verify"
  /\ \/ ~nextFailed /\ verified /\ packet' = "store" /\ UNCHANGED accepted
     \/ ~nextFailed /\ ~verified /\ accepted # "yes" /\ packet' = "via" /\ UNCHANGED accepted
     \/ nextFailed /\ packet' = "via" /\ UNCHANGED accepted
     \/ nextFailed /\ verified /\ packet' = "store" /\ UNCHANGED accepted
     \/ nextFailed /\ verified /\ NextPacket
  /\ UNCHANGED <<conditional, kernelIndex, nextKernelIndex, requested, requests, loaded, verified, nextFailed, usedBy>>

\* commitToNextKernel: a store, and a swap that leaves a newer request alone.
StoreKernelIndex ==
  /\ packet = "store" /\ kernelIndex' = Wanted /\ packet' = "swap"
  /\ UNCHANGED <<conditional, nextKernelIndex, requested, requests, loaded, accepted, verified, nextFailed, usedBy>>

AfterCommit == IF verified THEN NextPacket ELSE packet' = "via" /\ UNCHANGED accepted

Cleared == None
Swapped == IF nextKernelIndex = Wanted THEN None ELSE nextKernelIndex

ClearNext ==
  /\ packet = "swap" /\ AfterCommit
  /\ nextKernelIndex' = Swapped
  /\ UNCHANGED <<conditional, kernelIndex, requested, requests, loaded, verified, nextFailed, usedBy>>

\* The packet that commits a request goes through the kernel in use until then.
SendViaKernel ==
  /\ packet = "via" /\ NextPacket
  /\ usedBy' = usedBy \cup {Current}
  /\ UNCHANGED <<conditional, kernelIndex, nextKernelIndex, requested, requests, loaded, verified, nextFailed>>

----------------------------------------------------------------------------

SwitchInit ==
  /\ conditional \in BOOLEAN
  /\ kernelIndex = 0 /\ nextKernelIndex = None /\ requested = 0 /\ requests = 0
  /\ packet = "none" /\ loaded = <<0, None>> /\ accepted \in {"no", "maybe", "yes"}
  /\ verified = FALSE /\ nextFailed = FALSE /\ usedBy = {}

HandlePacket ==
  \/ LoadKernelIndex \/ LoadNextKernelIndex \/ Decide \/ AfterVerify
  \/ StoreKernelIndex \/ ClearNext \/ SendViaKernel

SwitchNext == HandlePacket \/ VerifyOutput \/ VerifyFails \/ \E k \in SwitchKernels : SetKernelIndex(k)

SwitchTypeOK ==
  /\ kernelIndex \in SwitchKernels /\ requested \in SwitchKernels /\ requests \in 0..MaxRequests
  /\ nextKernelIndex \in SwitchKernels \cup {None}
  /\ packet \in {"none", "current", "loaded", "verify", "store", "swap", "via"}
  /\ loaded \in SwitchKernels \X (SwitchKernels \cup {None})
  /\ accepted \in {"no", "maybe", "yes"}
  /\ {conditional, verified, nextFailed} \subseteq BOOLEAN /\ usedBy \subseteq SwitchKernels

----------------------------------------------------------------------------
(* Properties.                                                             *)

\* A packet is output through one kernel, also while the switch tries out the
\* next one, unless the next one fails.
OneKernelPerPacket == ~nextFailed => Cardinality(usedBy) <= 1

\* The last request is in use or still pending, whatever older one is
\* committed meanwhile.
LastRequestKept == requested \in {kernelIndex, nextKernelIndex}

\* No packet is doubled by a switch, and no request forgotten.
SwitchSafe == OneKernelPerPacket /\ LastRequestKept

\* The last request comes into use if packets keep arriving that KeepUnless
\* accepts and whose output is verified.
LastRequestUsed == []<>(packet = "current" /\ accepted = "yes") => <>[](kernelIndex = requested)
=============================================================================
