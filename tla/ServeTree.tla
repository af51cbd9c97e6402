------------------------------ MODULE ServeTree ------------------------------
(***************************************************************************)
(* Serving a graph of nodes (serve.go).  serve walks the push lists depth  *)
(* first, and leaves two goroutines per node: one that runs the node's own *)
(* Serve, and a watcher that walks the destinations that are added later.  *)
(* The children of a node get a context that is done only after the node   *)
(* has returned, whatever happens to its own, so that the nodes end from   *)
(* the sources on.                                                         *)
(*                                                                         *)
(* A walker is a goroutine that runs serve: "main", or a watcher, which    *)
(* has the name of its node.  Its call stack is the sequence work.         *)
(***************************************************************************)
EXTENDS PushLists

CONSTANTS
  Roots,        \* the nodes that Serve is called with, in order
  Rejected,     \* nodes that NodeTreeFilter does not match
  Skipped,      \* nodes that NodeFilter does not match
  Enders,       \* nodes whose Serve may return by itself
  EditedNodes, AddedNodes,  \* bound: the lists that change, and the entries they get
  FrameChoices  \* bound: the lists that Set and With are given

ASSUME TreeAssumption ==
  /\ {"root", "main"} \cap Nodes = {} /\ Roots \in Seq(Nodes)
  /\ EditedNodes \cup AddedNodes \subseteq Nodes /\ FrameChoices \subseteq Seq(Nodes)

VARIABLES
  cancelled,    \* the context that Serve was called with is done
  visited,      \* dstAlreadyVisited
  work,         \* of each walker, what serve has still to do
  via,          \* the node in whose list a node was found, or "root"
  under,        \* the node whose end cancels a node's context, or "root"
  watcher,      \* "no", "watch", "walk", "done"
  seenPackets, seenFrames,   \* the change channels the watcher has loaded
  knownPackets, knownFrames, \* the lists it has loaded
  server        \* the node's Serve: "no", "serve", "done"

walk == <<visited, work, via, under>>
seen == <<seenPackets, seenFrames, knownPackets, knownFrames>>
tree == <<cancelled, walk, watcher, seen, server>>

Walkers == {"main"} \cup Nodes

\* The end that makes a context done: a node's children are under the node, or
\* under what the node itself is under when it is skipped.
Ended(u) == IF u = "root" THEN cancelled ELSE server[u] = "done"
ChildrenUnderParent(n) == under[n]
ChildrenUnderSelf(n) == n
ChildrenUnder(n) == IF n \in Skipped THEN under[n] ELSE n
CtxUnder(v) == IF v = "root" THEN "root" ELSE ChildrenUnder(v)
NodeCtxDone(n) == Ended(under[n]) \/ server[n] = "done"

Do(op, n, v) == [op |-> op, node |-> n, via |-> v]
Visits(s, v) == [i \in DOMAIN s |-> Do("visit", s[i], v)]

Doing(g, op) == work[g] # <<>> /\ Head(work[g]).op = op
Item(g) == Head(work[g])
Continue(g, items) == work' = [work EXCEPT ![g] = items \o Tail(@)]

----------------------------------------------------------------------------
(* serve.                                                                  *)

AlreadyVisited(g) ==
  /\ Doing(g, "visit") /\ Item(g).node \in visited
  /\ Continue(g, <<>>)
  /\ UNCHANGED <<lists, cancelled, visited, via, under, watcher, seen, server>>

\* NodeTreeFilter leaves out the whole branch.
Reject(g) ==
  /\ Doing(g, "visit") /\ Item(g).node \in Rejected \ visited
  /\ visited' = visited \cup {Item(g).node}
  /\ Continue(g, <<>>)
  /\ UNCHANGED <<lists, cancelled, via, under, watcher, seen, server>>

\* The contexts are made and the change channels loaded ...
Visit(g) ==
  LET n == Item(g).node
  IN /\ Doing(g, "visit") /\ n \notin visited \cup Rejected
     /\ visited' = visited \cup {n}
     /\ via' = [via EXCEPT ![n] = Item(g).via]
     /\ under' = [under EXCEPT ![n] = CtxUnder(Item(g).via)]
     /\ seenPackets' = [seenPackets EXCEPT ![n] = packetsChan[n]]
     /\ seenFrames' = [seenFrames EXCEPT ![n] = framesChan[n]]
     /\ Continue(g, <<Do("lists", n, n)>>)
     /\ UNCHANGED <<lists, cancelled, watcher, knownPackets, knownFrames, server>>

\* ... before the lists; the watcher starts, and the children come first.
LoadLists(g) ==
  LET n == Item(g).node
  IN /\ Doing(g, "lists")
     /\ knownPackets' = [knownPackets EXCEPT ![n] = packetsTo[n]]
     /\ knownFrames' = [knownFrames EXCEPT ![n] = framesTo[n]]
     /\ watcher' = [watcher EXCEPT ![n] = "watch"]
     /\ Continue(g, Visits(packetsTo[n] \o framesTo[n], n)
                    \o (IF n \in Skipped THEN <<>> ELSE <<Do("start", n, n)>>))
     /\ UNCHANGED <<lists, cancelled, visited, via, under, seenPackets, seenFrames, server>>

StartNode(g) ==
  /\ Doing(g, "start")
  /\ server' = [server EXCEPT ![Item(g).node] = "serve"]
  /\ Continue(g, <<>>)
  /\ UNCHANGED <<lists, cancelled, visited, via, under, watcher, seen>>

WalkStep(g) == AlreadyVisited(g) \/ Reject(g) \/ Visit(g) \/ LoadLists(g) \/ StartNode(g)

----------------------------------------------------------------------------
(* The two goroutines of a node.                                           *)

\* Nodes.Without: the new list without the nodes of the known one.
Fresh(now, known) ==
  LET without[i \in 0..Len(now)] ==
        IF i = 0 THEN <<>>
        ELSE IF Contains(known, now[i]) THEN without[i - 1] ELSE Append(without[i - 1], now[i])
  IN without[Len(now)]

PacketsListChanged(n) ==
  /\ watcher[n] = "watch" /\ seenPackets[n] < packetsChan[n]
  /\ seenPackets' = [seenPackets EXCEPT ![n] = packetsChan[n]]
  /\ knownPackets' = [knownPackets EXCEPT ![n] = packetsTo[n]]
  /\ work' = [work EXCEPT ![n] = Visits(Fresh(packetsTo[n], knownPackets[n]), n)]
  /\ watcher' = [watcher EXCEPT ![n] = "walk"]
  /\ UNCHANGED <<lists, cancelled, visited, via, under, seenFrames, knownFrames, server>>

FramesListChanged(n) ==
  /\ watcher[n] = "watch" /\ seenFrames[n] < framesChan[n]
  /\ seenFrames' = [seenFrames EXCEPT ![n] = framesChan[n]]
  /\ knownFrames' = [knownFrames EXCEPT ![n] = framesTo[n]]
  /\ work' = [work EXCEPT ![n] = Visits(Fresh(framesTo[n], knownFrames[n]), n)]
  /\ watcher' = [watcher EXCEPT ![n] = "walk"]
  /\ UNCHANGED <<lists, cancelled, visited, via, under, seenPackets, knownPackets, server>>

WatchAgainLate(n) ==
  /\ watcher[n] = "walk" /\ work[n] = <<>>
  /\ watcher' = [watcher EXCEPT ![n] = "watch"]
  /\ seenPackets' = [seenPackets EXCEPT ![n] = packetsChan[n]]
  /\ UNCHANGED <<lists, cancelled, walk, seenFrames, knownPackets, knownFrames, server>>

WatchAgain(n) ==
  /\ watcher[n] = "walk" /\ work[n] = <<>>
  /\ watcher' = [watcher EXCEPT ![n] = "watch"]
  /\ UNCHANGED <<lists, cancelled, walk, seen, server>>

StopWatching(n) ==
  /\ watcher[n] = "watch" /\ NodeCtxDone(n)
  /\ watcher' = [watcher EXCEPT ![n] = "done"]
  /\ UNCHANGED <<lists, cancelled, walk, seen, server>>

\* The node's Serve returns: its context is done, or its processor has ended.
\* Then its children's context is cancelled, and its own.
NodeReturns(n) ==
  /\ server[n] = "serve" /\ (NodeCtxDone(n) \/ n \in Enders)
  /\ server' = [server EXCEPT ![n] = "done"]
  /\ UNCHANGED <<lists, cancelled, walk, watcher, seen>>

CancelServe ==
  /\ ~cancelled /\ cancelled' = TRUE
  /\ UNCHANGED <<lists, walk, watcher, seen, server>>

EditGraph ==
  /\ \E n \in EditedNodes : EditPackets(n, AddedNodes, {}) \/ EditFrames(n, AddedNodes, FrameChoices)
  /\ UNCHANGED tree

\* nodesWG: Serve returns when nothing is left to do.
ServeReturned ==
  /\ work["main"] = <<>>
  /\ \A n \in Nodes : watcher[n] \in {"no", "done"} /\ server[n] \in {"no", "done"}

----------------------------------------------------------------------------

TreeInit ==
  /\ cancelled = FALSE /\ visited = {}
  /\ work = [g \in Walkers |-> IF g = "main" THEN Visits(Roots, "root") ELSE <<>>]
  /\ via = [n \in Nodes |-> "root"] /\ under = via
  /\ watcher = [n \in Nodes |-> "no"] /\ server = [n \in Nodes |-> "no"]
  /\ seenPackets = [n \in Nodes |-> 0] /\ seenFrames = seenPackets
  /\ knownPackets = [n \in Nodes |-> <<>>] /\ knownFrames = knownPackets

WatcherStep(n) ==
  PacketsListChanged(n) \/ FramesListChanged(n) \/ WatchAgain(n) \/ StopWatching(n)

TreeNext ==
  \/ \E g \in Walkers : WalkStep(g)
  \/ \E n \in Nodes : WatcherStep(n) \/ NodeReturns(n)
  \/ CancelServe \/ EditGraph

TreeTypeOK ==
  /\ cancelled \in BOOLEAN /\ visited \subseteq Nodes
  /\ work \in [Walkers -> Seq([op : {"visit", "lists", "start"}, node : Nodes, via : Nodes \cup {"root"}])]
  /\ {via, under} \subseteq [Nodes -> Nodes \cup {"root"}]
  /\ watcher \in [Nodes -> {"no", "watch", "walk", "done"}]
  /\ server \in [Nodes -> {"no", "serve", "done"}]
  /\ seenPackets \in [Nodes -> 0..MaxEdits] /\ seenFrames \in [Nodes -> 0..MaxEdits]
  /\ knownPackets \in [Nodes -> Seq(Nodes)] /\ knownFrames \in [Nodes -> Seq(Nodes)]

----------------------------------------------------------------------------
(* Properties.                                                             *)

\* A node that does not end by itself returns only after the node through
\* which it was found: what the sources still push is taken.
EndsAfterItsSource ==
  \A n \in Nodes \ Enders :
    server[n] = "done" /\ via[n] \in Nodes \ Skipped => server[via[n]] = "done"

\* What is added to the packets' list of a node is visited, unless it is
\* removed again or the node ends before; no change is missed between the
\* loading of a channel and of the list, or during a walk.
NewBranchServed ==
  \A n \in EditedNodes, d \in AddedNodes :
    watcher[n] = "watch" /\ Contains(packetsTo[n], d)
      ~> d \in visited \/ ~Contains(packetsTo[n], d) \/ watcher[n] = "done"

\* When a node has returned, for whatever reason, all that it led to return,
\* those that its watcher was adding meanwhile too: again and again there is
\* nobody left behind.
EndSpreads ==
  []<>(\A d \in Nodes : Ended(via[d]) => server[d] # "serve")

\* Serve returns after its context is cancelled.
TreeReturns == cancelled ~> ServeReturned

\* Nobody stays behind, whether a node ends or everything does.
TreeEnds == EndSpreads /\ TreeReturns
=============================================================================
