------------------------------- MODULE MCGraph -------------------------------
(***************************************************************************)
(* Small instances of ServeTree, PushFurther, Router and ForwardPath for   *)
(* TLC, one at a time: part says which of them runs, and the others stay as*)
(* they are.                                                               *)
(***************************************************************************)
EXTENDS ServeTree, PushFurther, Router, ForwardPath, TLC

VARIABLE part

\* a pushes to b and c, which is skipped, and c to d; w to nobody yet.
StartPackets ==
  [n \in Nodes |-> CASE n = "a" -> <<"b">> [] n = "c" -> <<"d">> [] OTHER -> <<>>]
StartFrames == [n \in Nodes |-> IF n = "a" THEN <<"c">> ELSE <<>>]
RootA == <<"a">>
NewLists == {<<"z">>}
OnlyD == {<<"d">>}
Refuses == {<<"z", 1>>}
Filters == {<<"z", 2>>}

\* Two sources publish on the path that the forwarding forwards to.
Modes == [p \in Publishers |-> CASE p = "s1" -> <<"exclusive", "takeover">>
                                 [] p = "s2" -> <<"shared", "takeover">>
                                 [] OTHER -> <<"shared", "fail">>]
AllTo == [s \in Sources |-> "to"]
Pairs == {{"s1", "s2"}, {"s1", "f"}, {"f", "c"}}

\* p sends video, something else and video; q video twice.  After q was shifted
\* by 5, its packet at 5 comes behind p's at 7.
FeedPQ == [s \in Feeds |-> IF s = "p" THEN <<1, 2, 3>> ELSE <<4, 5>>]
Media == [o \in 1..5 |-> IF o = 2 THEN "other" ELSE "video"]
Index == [o \in 1..5 |-> IF o = 2 THEN 2 ELSE 0]
PTSs == <<3, 3, 6, 0, 5>>
DTSs == <<4, 3, 6, 0, 5>>
FixedFLV == <<TRUE, TRUE>>
NeitherOf == <<FALSE, FALSE>>
BothSettings == {FixedFLV, NeitherOf}

vars == <<part, lists, tree, push, router, path>>

\* The router runs with each of its casts and the path with each setting, the
\* other parts with one.
Init ==
  /\ part \in {"tree", "push", "router", "path"}
  /\ ListsInit /\ TreeInit /\ PushInit
  /\ RouterInit /\ (part # "router" => forward.at = "absent")
  /\ PathInit /\ (part # "path" => ~toFLV)

InTree(action) == part = "tree" /\ action /\ UNCHANGED <<part, push, router, path>>
InPush(action) == part = "push" /\ action /\ UNCHANGED <<part, tree, router, path>>
InRouter(action) == part = "router" /\ action /\ UNCHANGED <<part, lists, tree, push, path>>
InPath(action) == part = "path" /\ action /\ UNCHANGED <<part, lists, tree, push, router>>

Next == InTree(TreeNext) \/ InPush(PushNext) \/ InRouter(RouterNext) \/ InPath(PathNext)

\* All goroutines run, and a node's Serve returns once its context is done
\* (ServeReturns of NodeServe).  The edits and the objects are bounded, so one
\* condition for all of them leaves nobody behind.  Who waits for the lock to
\* edit the lists gets it, however often Serve takes it.
\* Nobody has to cancel, to edit, to pull or to consume.
TreeProgress ==
  \/ \E g \in Walkers : WalkStep(g)
  \/ \E n \in Nodes : WatcherStep(n) \/ (NodeReturns(n) /\ NodeCtxDone(n))
PushProgress ==
  \/ TakeList \/ Unlock \/ Joined \/ PushReturns
  \/ \E i \in DOMAIN entry : PushTask(i)

ForwarderMoves == \E s \in Feeds : ForwarderStep(s)

\* A forwarding may be restarted until the closed route has left its path, and a
\* consumer look again and again at a closed route: each gets a condition.  Only
\* one part runs, so that those of different parts can share one.
Progress ==
  \/ InTree(TreeProgress) \/ InPush(PushProgress)
  \/ InRouter(RouteStep) \/ InPath(ForwarderMoves)
Spec ==
  /\ Init /\ [][Next]_vars
  /\ WF_vars(Progress) /\ SF_vars(InPush(LockAndEdit))
  /\ WF_vars(InRouter(SourcesStep \/ ForwardStep)) /\ WF_vars(InRouter(ConsumerStep))

\* Every variable has a value of its type.
TypeOK == ListsTypeOK /\ TreeTypeOK /\ PushTypeOK /\ RouterTypeOK /\ PathTypeOK

\* What has to do with the router: who publishes where, and what is forwarded
\* between the nodes of the routes.
RouterKeeps == RouterSafe /\ PathSafe
RoutingEnds ==
  /\ PublisherIsFound
  /\ Unsettled \/ PathUnsettled ~> (~Unsettled \/ stuck # {}) /\ ~PathUnsettled
=============================================================================
