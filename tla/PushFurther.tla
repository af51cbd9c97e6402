----------------------------- MODULE PushFurther -----------------------------
(***************************************************************************)
(* How Serve hands an object on (pushFurther and pushToDestination in      *)
(* node/node_serve.go): it remembers a packet in the cache, takes the list *)
(* under the node's Locker, and without it pushes to all destinations at   *)
(* once and waits for them, while the list is edited.  A destination that  *)
(* was added since the last packet gets what is in the cache instead of    *)
(* the packet (node/cachehandler/cache_handler.go).                        *)
(*                                                                         *)
(* The node pushes packets; frames go the same way, without the cache.     *)
(***************************************************************************)
EXTENDS PushLists, FiniteSets

CONSTANTS
  Pusher,         \* the node
  Dsts,           \* the destinations they add and remove
  ListChoices,    \* the lists that Set and With are given
  MaxObjects,     \* bound: objects 1 .. MaxObjects are pulled in this order
  Video,          \* those of them that are packets of video
  CacheSize,      \* capacity of the packet cache
  Refused,        \* <<destination, object>> that the entry's Condition refuses
  Filtered,       \* <<destination, object>> that the input filter refuses
  Discarding,     \* destinations whose input channel is DiscardInputPacketChan
  Droppable       \* objects of the types that FrameDropVideo, -Audio, -Other name

Objects == 1..MaxObjects

ASSUME PushAssumption ==
  /\ Pusher \in Nodes /\ Dsts \subseteq Nodes /\ ListChoices \subseteq Seq(Nodes)
  /\ MaxObjects \in Nat /\ Video \subseteq Objects /\ Droppable \subseteq Objects
  /\ Video \subseteq Droppable \/ Video \cap Droppable = {}

VARIABLES
  pushCtxDone,    \* the context of Serve is done
  locked,         \* Serve holds the node's Locker
  editor,         \* a goroutine that edits the list: "idle" or "lock"
  pushing,        \* "pull", "lock", "spawned", "wait", "return"
  object,         \* the object that was pulled last
  cache,          \* packetCache
  entry,          \* the list as pushFurther took it
  task,           \* per entry, its goroutine: "build", "push", "done"
  rest,           \* per entry, what is still to be pushed
  outcome,        \* per entry, what its deferred incrementReceived will count
  addressed, received, missed, sent,   \* the counters
  inbox,          \* per destination, its input channel, of capacity one
  got,            \* per destination, all it was given
  doubled         \* history: destinations that were in the list twice

caching == <<marked, cache>>
counters == <<addressed, received, missed, sent>>
push == <<pushCtxDone, locked, editor, pushing, object, cache, entry, task, rest, outcome,
          counters, inbox, got, doubled>>

Twice(s) == {d \in Nodes : \E i, j \in DOMAIN s : i # j /\ s[i] = d /\ s[j] = d}
Count(counter, d) == counter' = [counter EXCEPT ![d] = @ + 1]

----------------------------------------------------------------------------
(* Serve.                                                                  *)

\* RememberPacketIfNeeded comes before the lock.  Key frames, on which it
\* panics, are left out; a full cache forgets the packet, and only logs it.
Pull ==
  /\ pushing = "pull" /\ object < MaxObjects
  /\ object' = object + 1
  /\ cache' = IF Pusher \in CachingNodes /\ object' \in Video /\ Len(cache) < CacheSize
              THEN Append(cache, object') ELSE cache
  /\ pushing' = "lock"
  /\ UNCHANGED <<lists, pushCtxDone, locked, editor, entry, task, rest, outcome, counters, inbox, got,
                 doubled>>

\* Under the lock the list is taken and a goroutine started for each entry ...
TakeList ==
  /\ pushing = "lock" /\ ~locked
  /\ entry' = packetsTo[Pusher]
  /\ task' = [i \in DOMAIN entry' |-> "build"]
  /\ rest' = [i \in DOMAIN entry' |-> <<>>] /\ outcome' = rest'
  /\ IF entry' = <<>> THEN pushing' = "pull" /\ sent' = sent + 1 /\ UNCHANGED locked
                      ELSE pushing' = "spawned" /\ locked' = TRUE /\ UNCHANGED sent
  /\ UNCHANGED <<lists, pushCtxDone, editor, object, cache, addressed, received, missed,
                 inbox, got, doubled>>

\* ... and it is unlocked to wait for them.
UnlockLate ==
  /\ pushing = "spawned" /\ pushing' = "wait"
  /\ UNCHANGED <<lists, pushCtxDone, locked, editor, object, cache, entry, task, rest, outcome, counters,
                 inbox, got, doubled>>

Unlock ==
  /\ pushing = "spawned" /\ pushing' = "wait"
  /\ locked' = FALSE
  /\ UNCHANGED <<lists, pushCtxDone, editor, object, cache, entry, task, rest, outcome, counters,
                 inbox, got, doubled>>

BuildInputNewest(i) ==
  LET d == entry[i]
  IN /\ task[i] = "build" /\ task' = [task EXCEPT ![i] = "push"]
     /\ rest' = [rest EXCEPT ![i] = <<object>>]
     /\ marked' = [marked EXCEPT ![Pusher] = @ \ {d}]
     /\ UNCHANGED <<packetsTo, framesTo, packetsChan, framesChan, edits, pushCtxDone, locked, editor,
                    pushing, object, cache, entry, outcome, counters, inbox, got, doubled>>

\* pushToDestination, one goroutine per entry: what is to be pushed ...
BuildInput(i) ==
  LET d == entry[i]
  IN /\ task[i] = "build" /\ task' = [task EXCEPT ![i] = "push"]
     /\ rest' = [rest EXCEPT ![i] = IF d \in marked[Pusher] /\ cache # <<>> THEN cache ELSE <<object>>]
     /\ marked' = [marked EXCEPT ![Pusher] = @ \ {d}]
     /\ UNCHANGED <<packetsTo, framesTo, packetsChan, framesChan, edits, pushCtxDone, locked, editor,
                    pushing, object, cache, entry, outcome, counters, inbox, got, doubled>>

Pushable(i) == task[i] = "push" /\ rest[i] # <<>>
IsAddressed(i) == outcome[i] # <<>> /\ Last(outcome[i]) = "addressed"

PushUnchanged == UNCHANGED <<lists, pushCtxDone, locked, editor, pushing, object, cache, entry, task, sent, doubled>>

\* ... the entry's condition leaves an object out ...
SkipRefused(i) ==
  /\ Pushable(i) /\ ~IsAddressed(i) /\ <<entry[i], Head(rest[i])>> \in Refused
  /\ rest' = [rest EXCEPT ![i] = Tail(@)]
  /\ UNCHANGED <<outcome, addressed, received, missed, inbox, got>> /\ PushUnchanged

\* ... or it is addressed, unless the context is done ...
Address(i) ==
  /\ Pushable(i) /\ ~IsAddressed(i) /\ <<entry[i], Head(rest[i])>> \notin Refused
  /\ IF pushCtxDone THEN rest' = [rest EXCEPT ![i] = <<>>] /\ UNCHANGED <<outcome, addressed>>
     ELSE /\ Count(addressed, entry[i])
          /\ outcome' = [outcome EXCEPT ![i] = Append(@, "addressed")]
          /\ UNCHANGED rest
  /\ UNCHANGED <<received, missed, inbox, got>> /\ PushUnchanged

Decided(i, how) == outcome' = [outcome EXCEPT ![i] = Append(Front(@), how)]

\* ... and given to the destination ...
Give(i) ==
  LET d == entry[i]
  IN /\ Pushable(i) /\ IsAddressed(i)
     /\ <<d, Head(rest[i])>> \notin Filtered /\ d \notin Discarding
     /\ inbox[d] = <<>>
     /\ inbox' = [inbox EXCEPT ![d] = <<Head(rest[i])>>]
     /\ got' = [got EXCEPT ![d] = Append(@, Head(rest[i]))]
     /\ Decided(i, "received")
     /\ rest' = [rest EXCEPT ![i] = Tail(@)]
     /\ UNCHANGED <<addressed, received, missed>> /\ PushUnchanged

\* ... or to nobody, who discards everything ...
Discard(i) ==
  /\ Pushable(i) /\ IsAddressed(i)
  /\ <<entry[i], Head(rest[i])>> \notin Filtered /\ entry[i] \in Discarding /\ ~pushCtxDone
  /\ Decided(i, "missed")
  /\ rest' = [rest EXCEPT ![i] = Tail(@)]
  /\ UNCHANGED <<addressed, received, missed, inbox, got>> /\ PushUnchanged

\* ... or the input filter refuses it, the queue is full and objects may be
\* dropped, or the context is done: all three leave the rest behind, too.
\* Whether they may is decided once, by the type of the object that is pushed,
\* also where what the cache holds goes instead of it.
GiveUpUncounted(i) ==
  LET d == entry[i]
  IN /\ Pushable(i) /\ IsAddressed(i)
     /\ \/ <<d, Head(rest[i])>> \in Filtered
        \/ object \in Droppable /\ d \notin Discarding /\ inbox[d] # <<>>
        \/ pushCtxDone
     /\ rest' = [rest EXCEPT ![i] = <<>>]
     /\ UNCHANGED <<outcome, addressed, received, missed, inbox, got>> /\ PushUnchanged

GiveUpNever(i) ==
  LET d == entry[i]
  IN /\ Pushable(i) /\ IsAddressed(i)
     /\ \/ <<d, Head(rest[i])>> \in Filtered
        \/ object \in Droppable /\ d \notin Discarding /\ inbox[d] # <<>>
     /\ Decided(i, "missed")
     /\ rest' = [rest EXCEPT ![i] = <<>>]
     /\ UNCHANGED <<addressed, received, missed, inbox, got>> /\ PushUnchanged

GiveUp(i) ==
  LET d == entry[i]
  IN /\ Pushable(i) /\ IsAddressed(i)
     /\ \/ <<d, Head(rest[i])>> \in Filtered
        \/ object \in Droppable /\ d \notin Discarding /\ inbox[d] # <<>>
        \/ pushCtxDone
     /\ Decided(i, "missed")
     /\ rest' = [rest EXCEPT ![i] = <<>>]
     /\ UNCHANGED <<addressed, received, missed, inbox, got>> /\ PushUnchanged

\* The deferred incrementReceived calls.
Times(i, how) == Cardinality({j \in DOMAIN outcome[i] : outcome[i][j] = how})
Counted(i) ==
  /\ task[i] = "push" /\ rest[i] = <<>> /\ task' = [task EXCEPT ![i] = "done"]
  /\ received' = [received EXCEPT ![entry[i]] = @ + Times(i, "received")]
  /\ missed' = [missed EXCEPT ![entry[i]] = @ + Times(i, "missed")]
  /\ UNCHANGED <<lists, pushCtxDone, locked, editor, pushing, object, cache, entry, rest, outcome,
                 addressed, sent, inbox, got, doubled>>

\* wg.Wait is over: the lock is taken again, Sent counted, and the lock freed.
JoinedStale ==
  /\ pushing = "wait" /\ ~locked
  /\ \A i \in DOMAIN entry : task[i] = "done"
  /\ sent' = sent + 1
  /\ pushing' = "pull" /\ entry' = <<>>
  /\ UNCHANGED <<lists, pushCtxDone, locked, editor, object, cache, task, rest, outcome, addressed,
                 received, missed, inbox, got, doubled>>

Joined ==
  /\ pushing = "wait" /\ ~locked
  /\ \A i \in DOMAIN entry : task[i] = "done"
  /\ sent' = sent + 1
  /\ pushing' = "pull"
  /\ entry' = <<>> /\ task' = <<>> /\ rest' = <<>> /\ outcome' = <<>>
  /\ UNCHANGED <<lists, pushCtxDone, locked, editor, object, cache, addressed, received, missed,
                 inbox, got, doubled>>

\* Serve returns when its processor has ended, and the cache is reset.
PushReturns ==
  /\ pushing = "pull" /\ pushCtxDone
  /\ pushing' = "return" /\ cache' = <<>>
  /\ marked' = [marked EXCEPT ![Pusher] = IF Pusher \in CachingNodes THEN {} ELSE @]
  /\ UNCHANGED <<packetsTo, framesTo, packetsChan, framesChan, edits, pushCtxDone, locked, editor,
                 object, entry, task, rest, outcome, counters, inbox, got, doubled>>

PushTask(i) ==
  BuildInput(i) \/ SkipRefused(i) \/ Address(i) \/ Give(i) \/ Discard(i) \/ GiveUp(i) \/ Counted(i)

----------------------------------------------------------------------------
(* The others.                                                             *)

\* Somebody wants to change the lists ...
WantEdit ==
  /\ editor = "idle" /\ edits < MaxEdits /\ editor' = "lock"
  /\ UNCHANGED <<lists, pushCtxDone, locked, pushing, object, cache, entry, task, rest, outcome,
                 counters, inbox, got, doubled>>

\* ... and does, or finds that there is nothing to remove.
LockAndEdit ==
  /\ editor = "lock" /\ ~locked /\ editor' = "idle"
  /\ EditPackets(Pusher, Dsts, ListChoices) \/ UNCHANGED lists
  /\ doubled' = doubled \cup Twice(packetsTo'[Pusher])
  /\ UNCHANGED <<pushCtxDone, locked, pushing, object, cache, entry, task, rest, outcome,
                 counters, inbox, got>>

Consume(d) ==
  /\ inbox[d] # <<>> /\ inbox' = [inbox EXCEPT ![d] = <<>>]
  /\ UNCHANGED <<lists, pushCtxDone, locked, editor, pushing, object, cache, entry, task, rest, outcome,
                 counters, got, doubled>>

EndPushing ==
  /\ ~pushCtxDone /\ pushCtxDone' = TRUE
  /\ UNCHANGED <<lists, locked, editor, pushing, object, cache, entry, task, rest, outcome,
                 counters, inbox, got, doubled>>
----------------------------------------------------------------------------

PushInit ==
  /\ pushCtxDone = FALSE /\ locked = FALSE /\ editor = "idle"
  /\ pushing = "pull" /\ object = 0 /\ cache = <<>>
  /\ entry = <<>> /\ task = <<>> /\ rest = <<>> /\ outcome = <<>>
  /\ addressed = [d \in Nodes |-> 0] /\ received = addressed /\ missed = addressed /\ sent = 0
  /\ inbox = [d \in Nodes |-> <<>>] /\ got = inbox
  /\ doubled = Twice(InitialPackets[Pusher])

PushStep == Pull \/ TakeList \/ Unlock \/ Joined \/ PushReturns

PushNext ==
  \/ PushStep \/ (\E i \in DOMAIN entry : PushTask(i))
  \/ WantEdit \/ LockAndEdit \/ EndPushing
  \/ \E d \in Nodes : Consume(d)

PushTypeOK ==
  /\ {pushCtxDone, locked} \subseteq BOOLEAN /\ editor \in {"idle", "lock"}
  /\ pushing \in {"pull", "lock", "spawned", "wait", "return"}
  /\ object \in 0..MaxObjects /\ cache \in Seq(Video)
  /\ entry \in Seq(Nodes) /\ DOMAIN rest = DOMAIN entry
  /\ task \in [DOMAIN entry -> {"build", "push", "done"}] /\ DOMAIN outcome = DOMAIN entry
  /\ {addressed, received, missed} \subseteq [Nodes -> Nat] /\ sent \in 0..MaxObjects
  /\ inbox \in [Nodes -> Seq(Objects)] /\ got \in [Nodes -> Seq(Objects)]
  /\ doubled \subseteq Nodes

----------------------------------------------------------------------------
(* Properties.                                                             *)

\* Between two objects each destination's counters agree, whichever way its
\* goroutine has left: what is addressed to it was received or missed, and
\* what it received it was given.  The accounting of NodeDrain rests on that.
AddressedIsAccounted ==
  entry = <<>> =>
    \A d \in Nodes : addressed[d] = received[d] + missed[d] /\ received[d] = Len(got[d])

Droppy(d) == \E o \in Objects : <<d, o>> \in Refused \cup Filtered

\* A destination that joins late and is no longer marked has had everything
\* that the cache holds, up to the newest that it has: neither an edit during
\* a push nor one between remembering a packet and pushing it makes a gap,
\* but for one that is in the list twice, whose removal takes the mark of both
\* (node.go:364 warns of that), and where an object pulled since may be dropped:
\* if it finds a full queue, what the cache holds is dropped in its place.
CacheLeavesNoGap ==
  \A d \in ToSet(packetsTo[Pusher]) \ (marked[Pusher] \cup doubled) :
    entry = <<>> /\ ~pushCtxDone /\ ~Droppy(d) /\ d \notin Discarding =>
      \A v, w \in Objects : v < w /\ Contains(cache, v) /\ Contains(got[d], w) =>
        Contains(got[d], v) \/ \E o \in Droppable : v <= o /\ o <= object

\* Who wants to edit a list gets to it while a push is stuck on a full queue.
EditorGetsIn == editor = "lock" ~> editor = "idle"

\* A push that is stuck ends with the context.
StuckPushEnds == pushCtxDone ~> pushing = "return"

\* A full queue holds up neither the editors nor the end.
PushMoves == EditorGetsIn /\ StuckPushEnds
=============================================================================
