------------------------------ MODULE PushLists ------------------------------
(***************************************************************************)
(* The push lists of nodes (node/node.go, node/push_to.go): where a node   *)
(* pushes its packets and its frames, the channels that are closed when a  *)
(* list changes, and the destinations that the cache handler has marked    *)
(* (node/cachehandler).  An entry is named by its destination; an edit is  *)
(* one step, since it holds the node's Locker from its beginning to its    *)
(* end.                                                                    *)
(***************************************************************************)
EXTENDS Integers, Sequences, SequencesExt

CONSTANTS
  Nodes,
  CachingNodes,   \* those with a CacheHandler
  InitialPackets, InitialFrames,   \* the lists at the start
  MaxEdits        \* bound: edits of push lists

ASSUME ListsAssumption ==
  /\ InitialPackets \in [Nodes -> Seq(Nodes)] /\ InitialFrames \in [Nodes -> Seq(Nodes)]
  /\ MaxEdits \in Nat

VARIABLES
  packetsTo, framesTo,       \* the lists
  packetsChan, framesChan,   \* how often each change channel was closed and replaced
  marked,                    \* needsSendingTo of the cache handler
  edits                      \* how many edits were made

lists == <<packetsTo, framesTo, packetsChan, framesChan, marked, edits>>

Rotate(chan, n) == chan' = [chan EXCEPT ![n] = @ + 1]

\* OnAddPushPacketsTo and OnRemovePushPacketsTo, in this order.
Hooks(n, added, removed) ==
  marked' = IF n \in CachingNodes THEN [marked EXCEPT ![n] = (@ \cup added) \ removed] ELSE marked

Edit == edits < MaxEdits /\ edits' = edits + 1

AddPushPacketsTo(n, dst) ==
  /\ Edit
  /\ Hooks(n, {dst}, {})
  /\ packetsTo' = [packetsTo EXCEPT ![n] = Append(@, dst)]
  /\ Rotate(packetsChan, n)
  /\ UNCHANGED <<framesTo, framesChan>>

AddPushFramesTo(n, dst) ==
  /\ Edit
  /\ framesTo' = [framesTo EXCEPT ![n] = Append(@, dst)]
  /\ Rotate(framesChan, n)
  /\ UNCHANGED <<packetsTo, packetsChan, marked>>

\* The removals are computed from the list that has just been assigned: there
\* are none, and the hook is never called.
SetPushPacketsTos(n, s) ==
  /\ Edit
  /\ Hooks(n, ToSet(s) \ ToSet(packetsTo[n]), {})
  /\ packetsTo' = [packetsTo EXCEPT ![n] = s]
  /\ Rotate(packetsChan, n)
  /\ UNCHANGED <<framesTo, framesChan>>

SetPushFramesTos(n, s) ==
  /\ Edit
  /\ framesTo' = [framesTo EXCEPT ![n] = s]
  /\ Rotate(framesChan, n)
  /\ UNCHANGED <<packetsTo, packetsChan, marked>>

\* The callback replaces the list by s.
WithPushPacketsTos(n, s) ==
  LET removed == ToSet(packetsTo[n]) \ ToSet(s)
      added == ToSet(s) \ ToSet(packetsTo[n])
  IN /\ Edit
     /\ packetsTo' = [packetsTo EXCEPT ![n] = s]
     /\ \/ /\ removed = {} /\ added = {}
           /\ UNCHANGED <<packetsChan, marked>>
        \/ /\ removed # {} \/ added # {}
           /\ Hooks(n, added, removed)
           /\ Rotate(packetsChan, n)
     /\ UNCHANGED <<framesTo, framesChan>>

\* It is the channel of the packets' list that is replaced.
WithPushFramesTos(n, s) ==
  /\ Edit
  /\ framesTo' = [framesTo EXCEPT ![n] = s]
  /\ IF ToSet(s) = ToSet(framesTo[n]) THEN UNCHANGED packetsChan ELSE Rotate(packetsChan, n)
  /\ UNCHANGED <<packetsTo, framesChan, marked>>

RemovePushPacketsTo(n, dst) ==
  /\ Edit
  /\ Contains(packetsTo[n], dst)
  /\ packetsTo' = [packetsTo EXCEPT ![n] = RemoveFirst(@, dst)]
  /\ Rotate(packetsChan, n)
  /\ Hooks(n, {}, {dst})
  /\ UNCHANGED <<framesTo, framesChan>>

RemovePushFramesTo(n, dst) ==
  /\ Edit
  /\ Contains(framesTo[n], dst)
  /\ framesTo' = [framesTo EXCEPT ![n] = RemoveFirst(@, dst)]
  /\ Rotate(framesChan, n)
  /\ UNCHANGED <<packetsTo, packetsChan, marked>>

\* An edit of a list; With and Set are given the lists in "choices".
EditPackets(n, dsts, choices) ==
  \/ \E dst \in dsts : AddPushPacketsTo(n, dst) \/ RemovePushPacketsTo(n, dst)
  \/ \E s \in choices : SetPushPacketsTos(n, s) \/ WithPushPacketsTos(n, s)

EditFrames(n, dsts, choices) ==
  \/ \E dst \in dsts : AddPushFramesTo(n, dst) \/ RemovePushFramesTo(n, dst)
  \/ \E s \in choices : SetPushFramesTos(n, s) \/ WithPushFramesTos(n, s)

ListsInit ==
  /\ packetsTo = InitialPackets /\ framesTo = InitialFrames
  /\ packetsChan = [n \in Nodes |-> 0] /\ framesChan = packetsChan
  /\ marked = [n \in Nodes |-> {}]
  /\ edits = 0

ListsTypeOK ==
  /\ packetsTo \in [Nodes -> Seq(Nodes)] /\ framesTo \in [Nodes -> Seq(Nodes)]
  /\ packetsChan \in [Nodes -> 0..MaxEdits] /\ framesChan \in [Nodes -> 0..MaxEdits]
  /\ marked \in [Nodes -> SUBSET Nodes]
  /\ edits \in 0..MaxEdits
=============================================================================
