------------------------------- MODULE Router -------------------------------
(***************************************************************************)
(* The router: routes under their paths (router/router.go), publishers and *)
(* waiters of a route (router/route.go), sources that publish their node   *)
(* on a route (router/route_source.go) and one forwarding from a route to  *)
(* another (router/route_forwarding.go, route_forwarding_local.go).        *)
(*                                                                         *)
(* A critical section is one step.  The exception is AddPublisher in mode  *)
(* "shared takeover", which closes exclusive publishers with the route's   *)
(* lock held: they wait for that lock, and it is never released again.     *)
(* A channel that is replaced and closed is a flag of whoever has loaded   *)
(* it: told.                                                               *)
(***************************************************************************)
EXTENDS Naturals, FiniteSets, Sequences

CONSTANTS
  Sources,        \* each is opened at most once
  Forwarder,      \* the forwarding
  Mode,           \* publish mode of each of them: <<exclusive or not, fails or takes over>>
  From, To,       \* paths that the forwarding connects
  PathOf,         \* path that a source publishes on
  WaitedPath,     \* path that a consumer waits for a publisher on
  Consumer,       \* the consumer
  Casts,          \* who takes part: sets of publishers and the consumer
  Failing,        \* publishers whose StreamForwarder may fail
  MaxRemovals,    \* bound: routes removed or closed, and a forwarding closed, by a user
  MaxRoutes       \* bound: routes that are created

Publishers == Sources \cup {Forwarder}
Paths == {From, To}
NoRoute == 0

ASSUME RouterAssumption ==
  /\ Forwarder \notin Sources /\ From # To
  /\ Mode \in [Publishers -> {"exclusive", "shared"} \X {"fail", "takeover"}]
  /\ PathOf \in [Sources -> Paths] /\ WaitedPath \in Paths
  /\ Casts \subseteq SUBSET (Publishers \cup {Consumer}) /\ Failing \subseteq Publishers
  /\ MaxRemovals \in Nat /\ MaxRoutes \in Nat

VARIABLES
  routes,         \* all that were created: [path, owner, open, publishers]
  byPath,         \* RoutesByPath
  waitGroup,      \* Router.WaitGroup
  closing,        \* routes that a goroutine will Close
  onClose,        \* routes whose OnClose goroutine is under way
  stuck,          \* routes whose lock is held for ever
  removals,       \* routes that a user has removed or closed
  source,         \* per source: [at, route, pushes]
  forward,        \* the forwarding: [at, known (to its user), from, to, target, pushes]
  waiter,         \* its waiter: [at, from]
  removing,       \* routes at which an output of the forwarding is being closed
  ended,          \* publishers whose CancelFunc was called
  wanted,         \* publishers that somebody has to Close
  evicts,         \* per publisher, whom it has taken over
  consumer        \* GetRoute in mode "wait for publisher": [at, route, told]

registry == <<routes, byPath, waitGroup, closing, onClose, stuck, removals>>
publishing == <<source, forward, waiter, removing, ended, wanted, evicts>>
router == <<registry, publishing, consumer>>

RouteIds == 1..Len(routes)
Exclusive(p) == Mode[p][1] = "exclusive"
FailOnConflict(p) == Mode[p][2] = "fail"

----------------------------------------------------------------------------
(* Routes.                                                                 *)

\* The consumer has loaded a channel that is now closed.
Tell(who) == consumer' = IF who THEN [consumer EXCEPT !.told = TRUE] ELSE consumer
TellRoutesChanged == Tell(consumer.at = "wait_route")
TellNobody(r) == Tell(FALSE)
TellPublishersChanged(r) == Tell(consumer.at \in {"list", "wait_publisher"} /\ consumer.route = r)

NewRoute(path, p) == [path |-> path, owner |-> p, open |-> TRUE, publishers |-> {}]

\* GetRoute in mode "create temporary if not found": the route lives as long as
\* the context of the publisher that has created it.  Its id is Found(path).
Found(path) == IF byPath[path] # NoRoute THEN byPath[path] ELSE Len(routes) + 1
GetOrCreate(path, p) ==
  IF byPath[path] # NoRoute
  THEN UNCHANGED <<routes, byPath, waitGroup, consumer>>
  ELSE /\ Len(routes) < MaxRoutes
       /\ routes' = Append(routes, NewRoute(path, p))
       /\ byPath' = [byPath EXCEPT ![path] = Len(routes) + 1]
       /\ waitGroup' = waitGroup + 1
       /\ TellRoutesChanged

\* removeRouteLocked
Unlist(r) ==
  /\ byPath' = [byPath EXCEPT ![routes[r].path] = NoRoute]
  /\ closing' = closing \cup {r}
  /\ TellRoutesChanged

IsListed(r) == byPath[routes[r].path] = r

\* RemoveRoute; another route of that path is an error.
RemoveAnyway(r) ==
  /\ waitGroup' = waitGroup - 1
  /\ IF IsListed(r) THEN Unlist(r) ELSE UNCHANGED <<byPath, closing, consumer>>
RemoveRoute(r) ==
  IF IsListed(r) THEN Unlist(r) /\ waitGroup' = waitGroup - 1
                 ELSE UNCHANGED <<byPath, closing, waitGroup, consumer>>

\* The bound counts a Close of the forwarding as well.
MayRemove == Cardinality(removals) + Cardinality(wanted \cap {Forwarder}) < MaxRemovals

\* A user calls RemoveRoute or RemoveRouteByPath, or the Serve of a route ends by itself.
UserRemoves(r) ==
  /\ MayRemove /\ IsListed(r)
  /\ RemoveRoute(r)
  /\ removals' = removals \cup {r}
  /\ UNCHANGED <<routes, onClose, stuck, publishing>>

UserRemovesByPath(r) ==
  /\ MayRemove /\ IsListed(r)
  /\ Unlist(r)
  /\ removals' = removals \cup {r}
  /\ UNCHANGED <<routes, waitGroup, onClose, stuck, publishing>>

ServeEnds(r) ==
  /\ MayRemove /\ r \notin removals
  /\ removals' = removals \cup {r} /\ closing' = closing \cup {r}
  /\ UNCHANGED <<routes, byPath, waitGroup, onClose, stuck, publishing, consumer>>

\* The context in which the route was created is done: Serve returns.
OwnerEnds(r) ==
  /\ routes[r].owner \in ended /\ routes[r].open /\ r \notin closing
  /\ closing' = closing \cup {r}
  /\ UNCHANGED <<routes, byPath, waitGroup, onClose, stuck, removals, publishing, consumer>>

\* closeNodeLocked.  The publishers are not told.
CloseNodeQuietly(r) ==
  /\ routes' = [routes EXCEPT ![r].open = FALSE]
  /\ UNCHANGED onClose
  /\ TellPublishersChanged(r)
CloseNode(r) ==
  /\ routes' = [routes EXCEPT ![r].open = FALSE]
  /\ onClose' = onClose \cup {r}
  /\ TellPublishersChanged(r)

CloseRoute(r) ==
  /\ r \in closing /\ r \notin stuck
  /\ closing' = closing \ {r}
  /\ IF routes[r].open THEN CloseNode(r) ELSE UNCHANGED <<routes, onClose, consumer>>
  /\ UNCHANGED <<byPath, waitGroup, stuck, removals, publishing>>

\* onRouteClosed
RouteClosed(r) ==
  /\ r \in onClose
  /\ onClose' = onClose \ {r}
  /\ RemoveRoute(r)
  /\ UNCHANGED <<routes, stuck, removals, publishing>>

----------------------------------------------------------------------------
(* Publishers of a route.                                                  *)

Rivals(p, r) ==
  IF Exclusive(p) THEN routes[r].publishers ELSE {q \in routes[r].publishers : Exclusive(q)}

Outcome(p, r) ==
  IF ~routes[r].open THEN "closed"
  ELSE IF p \in routes[r].publishers THEN "already"
  ELSE IF Rivals(p, r) = {} THEN "added"
  ELSE IF FailOnConflict(p) THEN "conflict"
  ELSE IF Exclusive(p) THEN "added" ELSE "stuck"

AddedBeside(p, r) ==
  /\ routes' = [routes EXCEPT ![r].publishers = @ \cup {p}]
  /\ wanted' = wanted \cup Rivals(p, r)
  /\ evicts' = [evicts EXCEPT ![p] = @ \cup Rivals(p, r)]
  /\ TellPublishersChanged(r)
  /\ UNCHANGED stuck

\* AddPublisherLocked: whoever is taken over leaves the list and is closed.
Added(p, r) ==
  /\ routes' = [routes EXCEPT ![r].publishers = (@ \ Rivals(p, r)) \cup {p}]
  /\ wanted' = wanted \cup Rivals(p, r)
  /\ evicts' = [evicts EXCEPT ![p] = @ \cup Rivals(p, r)]
  /\ TellPublishersChanged(r)
  /\ UNCHANGED stuck

AddPublisher(p, r) ==
  CASE Outcome(p, r) = "added" -> Added(p, r)
    [] Outcome(p, r) = "stuck" ->
         stuck' = stuck \cup {r} /\ wanted' = wanted \cup Rivals(p, r)
         /\ UNCHANGED <<routes, evicts, consumer>>
    [] OTHER -> UNCHANGED <<routes, stuck, wanted, evicts, consumer>>

\* RemovePublisherLocked; one that is not on the list is an error.
RemovePublisher(p, r) ==
  IF p \in routes[r].publishers
  THEN /\ routes' = [routes EXCEPT ![r].publishers = @ \ {p}]
       /\ IF routes[r].open THEN TellPublishersChanged(r) ELSE UNCHANGED consumer
  ELSE UNCHANGED <<routes, consumer>>

----------------------------------------------------------------------------
(* RouteSource: openLocked, and Close by a user or by who takes over.  Its *)
(* Locker is held from "add" to the end of openLocked.                     *)

Opening == {"add", "evict", "start", "undo", "stuck"}

OpenSource(s) ==
  /\ source[s].at = "new"
  /\ GetOrCreate(PathOf[s], s)
  /\ source' = [source EXCEPT ![s].at = "add", ![s].route = Found(PathOf[s])]
  /\ UNCHANGED <<closing, onClose, stuck, removals, forward, waiter, removing, ended, wanted, evicts>>

SourceAdds(s) ==
  LET r == source[s].route IN
  /\ source[s].at = "add" /\ r \notin stuck
  /\ AddPublisher(s, r)
  /\ source' = [source EXCEPT ![s].at = CASE Outcome(s, r) = "added" -> "evict"
                                          [] Outcome(s, r) = "stuck" -> "stuck"
                                          [] OTHER -> "undo"]
  /\ UNCHANGED <<byPath, waitGroup, closing, onClose, removals, forward, waiter, removing, ended>>

\* Close of a publisher has returned: nobody holds its Locker, and what it
\* waits for is over.
IsClosed(p) ==
  IF p = Forwarder
  THEN p \in ended /\ forward.at = "idle" /\ waiter.at = "none" /\ removing = {}
  ELSE source[p].at = "closed" \/ (source[p].at = "failed" /\ p \in ended)

\* AddPublisher waits for those whom it has taken over.
Evicted(s) ==
  /\ source[s].at = "evict"
  /\ \A p \in evicts[s] : IsClosed(p)
  /\ source' = [source EXCEPT ![s].at = "start"]
  /\ UNCHANGED <<registry, forward, waiter, removing, ended, wanted, evicts, consumer>>

SourceStarts(s) ==
  /\ source[s].at = "start"
  /\ source' = [source EXCEPT ![s].at = "open", ![s].pushes = source[s].route]
  /\ UNCHANGED <<registry, forward, waiter, removing, ended, wanted, evicts, consumer>>

StartFails(s) ==
  /\ s \in Failing /\ source[s].at = "start"
  /\ source' = [source EXCEPT ![s].at = "undo"]
  /\ UNCHANGED <<registry, forward, waiter, removing, ended, wanted, evicts, consumer>>

\* doStopLocked after a failure.
SourceUndoes(s) ==
  LET r == source[s].route IN
  /\ source[s].at = "undo" /\ r \notin stuck
  /\ RemovePublisher(s, r)
  /\ source' = [source EXCEPT ![s].at = "failed"]
  /\ UNCHANGED <<byPath, waitGroup, closing, onClose, stuck, removals, forward, waiter, removing,
                 ended, wanted, evicts>>

UserCloses(p) ==
  /\ p \notin wanted
  /\ IF p = Forwarder THEN forward.known /\ Cardinality(removals) < MaxRemovals ELSE source[p].at = "open"
  /\ wanted' = wanted \cup {p}
  /\ UNCHANGED <<registry, source, forward, waiter, removing, ended, evicts, consumer>>

\* closeLocked: a source that is no longer on the list returns with an error
\* before its StreamForwarder is stopped.
CloseSource(s) ==
  LET r == source[s].route IN
  /\ s \in wanted /\ source[s].at = "open" /\ r \notin stuck
  /\ ended' = ended \cup {s}
  /\ RemovePublisher(s, r)
  /\ source' = [source EXCEPT ![s].at = IF s \in routes[r].publishers THEN "stop" ELSE "closed"]
  /\ UNCHANGED <<byPath, waitGroup, closing, onClose, stuck, removals, forward, waiter, removing, wanted, evicts>>

\* One whose start has failed after it was taken over has only its context left.
CloseFailed(s) ==
  /\ s \in wanted \ ended /\ source[s].at = "failed"
  /\ ended' = ended \cup {s}
  /\ UNCHANGED <<registry, source, forward, waiter, removing, wanted, evicts, consumer>>

SourceStops(s) ==
  /\ source[s].at = "stop"
  /\ source' = [source EXCEPT ![s].at = "closed", ![s].pushes = NoRoute]
  /\ UNCHANGED <<registry, forward, waiter, removing, ended, wanted, evicts, consumer>>

\* Any error of the AutoFixer between the two nodes stops the StreamForwarder.
FixerStops(s) ==
  /\ s \in Failing /\ source[s].pushes # NoRoute /\ source[s].at # "stop"
  /\ source' = [source EXCEPT ![s].pushes = NoRoute]
  /\ UNCHANGED <<registry, forward, waiter, removing, ended, wanted, evicts, consumer>>

SourceStep(s) ==
  \/ SourceAdds(s) \/ Evicted(s) \/ SourceStarts(s) \/ SourceUndoes(s)
  \/ CloseSource(s) \/ CloseFailed(s) \/ SourceStops(s)

----------------------------------------------------------------------------
(* RouteForwarding.  startLocked runs in the goroutine that opens it or in *)
(* the waiter of the previous start; its Locker is held from "output" on.  *)

Unlocked == forward.at \in {"idle", "get"}

OpenForward ==
  /\ forward.at = "new" /\ forward' = [forward EXCEPT !.at = "get"]
  /\ UNCHANGED <<registry, source, waiter, removing, ended, wanted, evicts, consumer>>

\* A context that is done ends startLocked at once.  Otherwise it gets the
\* source route and starts the waiter.
StartForward ==
  \/ /\ forward.at = "get" /\ Forwarder \in ended
     /\ forward' = [forward EXCEPT !.at = "idle"]
     /\ UNCHANGED <<registry, source, waiter, removing, ended, wanted, evicts, consumer>>
  \/ /\ forward.at = "get" /\ Forwarder \notin ended
     /\ GetOrCreate(From, Forwarder)
     /\ forward' = [forward EXCEPT !.at = "output", !.from = Found(From)]
     /\ waiter' = [at |-> "wait", from |-> Found(From)]
     /\ UNCHANGED <<closing, onClose, stuck, removals, source, removing, ended, wanted, evicts>>

\* NewOutput of the local factory.
ForwardGetsOutput ==
  /\ forward.at = "output"
  /\ GetOrCreate(To, Forwarder)
  /\ forward' = [forward EXCEPT !.at = "add", !.target = Found(To)]
  /\ UNCHANGED <<closing, onClose, stuck, removals, source, waiter, removing, ended, wanted, evicts>>

ForwardAdds ==
  LET r == forward.target IN
  /\ forward.at = "add" /\ r \notin stuck
  /\ AddPublisher(Forwarder, r)
  /\ forward' = [forward EXCEPT !.at = CASE Outcome(Forwarder, r) = "added" -> "evict"
                                         [] Outcome(Forwarder, r) = "stuck" -> "stuck"
                                         [] OTHER -> "idle"]
  /\ UNCHANGED <<byPath, waitGroup, closing, onClose, removals, source, waiter, removing, ended>>

ForwardEvicted ==
  /\ forward.at = "evict"
  /\ \A p \in evicts[Forwarder] : IsClosed(p)
  /\ forward' = [forward EXCEPT !.at = "start", !.to = forward.target]
  /\ UNCHANGED <<registry, source, waiter, removing, ended, wanted, evicts, consumer>>

ForwardStarts ==
  /\ forward.at = "start"
  /\ forward' = [forward EXCEPT !.at = "idle", !.pushes = forward.from, !.known = TRUE]
  /\ UNCHANGED <<registry, source, waiter, removing, ended, wanted, evicts, consumer>>

\* stopLocked: a goroutine takes the forwarding off the list of its output.
StoppedAs(at) == [forward EXCEPT !.at = at, !.pushes = NoRoute, !.to = NoRoute]
OutputLeft == {}
OutputOf == IF forward.to = NoRoute THEN {} ELSE {forward.to}

\* A failed start leaves its waiter.
ForwardStartFails ==
  /\ Forwarder \in Failing /\ forward.at = "start"
  /\ forward' = StoppedAs("idle") /\ removing' = removing \cup OutputOf
  /\ UNCHANGED <<registry, source, waiter, ended, wanted, evicts, consumer>>

OutputClosed(r) ==
  /\ r \in removing /\ r \notin stuck
  /\ removing' = removing \ {r}
  /\ RemovePublisher(Forwarder, r)
  /\ UNCHANGED <<byPath, waitGroup, closing, onClose, stuck, removals, source, forward, waiter,
                 ended, wanted, evicts>>

\* The waiter wakes up because the context is done or the source route closed,
\* and stops the forwarding ...
WaiterStops ==
  /\ waiter.at = "wait" /\ Unlocked
  /\ Forwarder \in ended \/ ~routes[waiter.from].open
  /\ waiter' = [waiter EXCEPT !.at = "stopped"]
  /\ forward' = StoppedAs(forward.at) /\ removing' = removing \cup OutputOf
  /\ UNCHANGED <<registry, source, ended, wanted, evicts, consumer>>

\* ... waits until the output is closed, and becomes the one that starts it again.
WaiterRestarts ==
  /\ waiter.at = "stopped" /\ removing = {}
  /\ waiter' = [waiter EXCEPT !.at = "none"]
  /\ forward' = [forward EXCEPT !.at = "get"]
  /\ UNCHANGED <<registry, source, removing, ended, wanted, evicts, consumer>>

CloseForward ==
  /\ Forwarder \in wanted \ ended /\ Unlocked
  /\ ended' = ended \cup {Forwarder}
  /\ forward' = StoppedAs(forward.at) /\ removing' = removing \cup OutputOf
  /\ UNCHANGED <<registry, source, waiter, wanted, evicts, consumer>>

ForwardStep ==
  \/ StartForward \/ ForwardGetsOutput \/ ForwardAdds \/ ForwardEvicted \/ ForwardStarts
  \/ WaiterStops \/ WaiterRestarts \/ CloseForward \/ \E r \in removing : OutputClosed(r)

----------------------------------------------------------------------------
(* GetRoute in mode "wait for publisher".                                  *)

At(label) == consumer' = [consumer EXCEPT !.at = label, !.told = FALSE]

\* Under the lock it looks the path up once, then waits for a change of the
\* routes: one that comes before the channel is loaded is missed.
ConsumerGets ==
  /\ consumer.at = "get"
  /\ consumer' = IF byPath[WaitedPath] # NoRoute
                 THEN [consumer EXCEPT !.at = "load", !.route = byPath[WaitedPath]]
                 ELSE [consumer EXCEPT !.at = "load_routes"]
  /\ UNCHANGED <<registry, publishing>>

LoadRoutesChan ==
  /\ consumer.at = "load_routes" /\ At("wait_route")
  /\ UNCHANGED <<registry, publishing>>

RoutesChanged ==
  /\ consumer.at = "wait_route" /\ consumer.told
  /\ consumer' = IF byPath[WaitedPath] # NoRoute
                 THEN [at |-> "load", route |-> byPath[WaitedPath], told |-> FALSE]
                 ELSE [consumer EXCEPT !.at = "load_routes", !.told = FALSE]
  /\ UNCHANGED <<registry, publishing>>

\* WaitForPublisher loads the channel, then the list.
LoadPublishersChan ==
  /\ consumer.at = "load" /\ consumer.route \notin stuck /\ At("list")
  /\ UNCHANGED <<registry, publishing>>

LookForPublisher ==
  /\ consumer.at = "list" /\ consumer.route \notin stuck
  /\ consumer' = [consumer EXCEPT !.at = IF routes[consumer.route].publishers # {} THEN "done" ELSE "wait_publisher"]
  /\ UNCHANGED <<registry, publishing>>

PublishersChanged ==
  /\ consumer.at = "wait_publisher"
  /\ consumer.told \/ ~routes[consumer.route].open
  /\ At("load")
  /\ UNCHANGED <<registry, publishing>>

ConsumerStep ==
  \/ ConsumerGets \/ LoadRoutesChan \/ RoutesChanged
  \/ LoadPublishersChan \/ LookForPublisher \/ PublishersChanged

\* Who does not take part is never opened.
RouterInit ==
  \E cast \in Casts :
    /\ routes = <<>> /\ byPath = [p \in Paths |-> NoRoute] /\ waitGroup = 0
    /\ closing = {} /\ onClose = {} /\ stuck = {} /\ removals = {}
    /\ source = [s \in Sources |-> [at |-> IF s \in cast THEN "new" ELSE "absent",
                                    route |-> NoRoute, pushes |-> NoRoute]]
    /\ forward = [at |-> IF Forwarder \in cast THEN "new" ELSE "absent", known |-> FALSE,
                  from |-> NoRoute, to |-> NoRoute, target |-> NoRoute, pushes |-> NoRoute]
    /\ waiter = [at |-> "none", from |-> NoRoute]
    /\ removing = {} /\ ended = {} /\ wanted = {}
    /\ evicts = [p \in Publishers |-> {}]
    /\ consumer = [at |-> IF Consumer \in cast THEN "get" ELSE "absent", route |-> NoRoute, told |-> FALSE]

RouteStep == \E r \in RouteIds : OwnerEnds(r) \/ CloseRoute(r) \/ RouteClosed(r)

SourcesStep == \E s \in Sources : SourceStep(s)

RouterNext ==
  \/ RouteStep \/ ForwardStep \/ SourcesStep \/ ConsumerStep \/ OpenForward \/ ForwardStartFails
  \/ \E s \in Sources : OpenSource(s) \/ StartFails(s) \/ FixerStops(s)
  \/ \E p \in Publishers : UserCloses(p)
  \/ \E r \in RouteIds : UserRemoves(r) \/ UserRemovesByPath(r) \/ ServeEnds(r)

----------------------------------------------------------------------------
(* Properties.                                                             *)

MaybeRoute == 0..MaxRoutes

\* Every variable has a value of its type.
RouterTypeOK ==
  /\ \A r \in RouteIds : routes[r] \in [path : Paths, owner : Publishers, open : BOOLEAN,
                                         publishers : SUBSET Publishers]
  /\ byPath \in [Paths -> MaybeRoute] /\ waitGroup \in 0..MaxRoutes
  /\ closing \cup onClose \cup stuck \cup removals \cup removing \subseteq RouteIds
  /\ source \in [Sources -> [at : Opening \cup {"absent", "new", "open", "failed", "stop", "closed"},
                             route : MaybeRoute, pushes : MaybeRoute]]
  /\ forward \in [at : {"absent", "new", "idle", "get", "output", "add", "evict", "start", "stuck"}, known : BOOLEAN,
                  from : MaybeRoute, to : MaybeRoute, target : MaybeRoute, pushes : MaybeRoute]
  /\ waiter \in [at : {"none", "wait", "stopped"}, from : MaybeRoute]
  /\ ended \cup wanted \subseteq Publishers /\ evicts \in [Publishers -> SUBSET Publishers]
  /\ consumer \in [at : {"absent", "get", "load_routes", "wait_route", "load", "list", "wait_publisher", "done"},
                   route : MaybeRoute, told : BOOLEAN]

\* An exclusive publisher is alone on its route, however takeovers, removals
\* and restarts of the forwarding meet.
ExclusiveIsAlone ==
  \A r \in RouteIds : \A p \in routes[r].publishers : Exclusive(p) => routes[r].publishers = {p}

\* Router.WaitGroup covers the routes that are registered: a Done too many
\* panics, and one too early lets Close close ErrorChan under a running route.
WaitGroupCovers == waitGroup >= Cardinality({p \in Paths : byPath[p] # NoRoute})

\* A source that pushes to a route is a publisher of it, or on its way out.
\* Only one that was taken over may go on pushing: its Close fails before it
\* stops the forwarder (route_source.go:190).
PushersAreListed ==
  \A s \in Sources :
    source[s].pushes # NoRoute =>
      \/ s \in routes[source[s].pushes].publishers
      \/ source[s].at = "stop"
      \/ \E p \in Publishers : s \in evicts[p]

\* Once Close of the forwarding has returned it pushes nothing, and no restart
\* that was under way puts it back on a route.
ClosedForwardsNothing ==
  IsClosed(Forwarder) =>
    /\ forward.pushes = NoRoute
    /\ \A r \in RouteIds : Forwarder \notin routes[r].publishers

RouterSafe == ExclusiveIsAlone /\ WaitGroupCovers /\ PushersAreListed /\ ClosedForwardsNothing

\* A consumer that waits for a publisher of a route gets it, in whatever order
\* it loads the list and the channel and the publisher comes.
Published == consumer.route # NoRoute /\ routes[consumer.route].publishers # {}
PublisherIsFound ==
  consumer.at \in {"list", "wait_publisher"} /\ Published
    ~> consumer.at = "done" \/ ~Published \/ stuck # {}

\* Once its users leave it alone the router comes to rest, unless a shared
\* takeover has met an exclusive publisher: no path is left with a closed route,
\* whoever opens or closes a source is done, and the forwarding either pushes
\* from an open route or its last start has failed.
IsDead(path) == byPath[path] # NoRoute /\ ~routes[byPath[path]].open
IsBusy(s) == source[s].at \in Opening \/ (s \in wanted /\ ~IsClosed(s))
ForwardIsStale ==
  \/ forward.pushes # NoRoute /\ ~routes[forward.pushes].open
  \/ forward.at \notin {"absent", "new", "idle"} \/ waiter.at = "stopped"
  \/ Forwarder \in wanted /\ ~IsClosed(Forwarder)
Unsettled ==
  (\E path \in Paths : IsDead(path)) \/ (\E s \in Sources : IsBusy(s)) \/ ForwardIsStale
=============================================================================
