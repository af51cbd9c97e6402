SPECIFICATION Spec
CONSTANTS
  Nodes = {"a", "b", "c", "d", "e", "w", "y", "z"}
  CachingNodes = {"w"}
  InitialPackets <- StartPackets
  InitialFrames <- StartFrames
  MaxEdits = 2
  Roots <- RootA
  Rejected = {"e"}
  Skipped = {"c"}
  Enders = {"b"}
  EditedNodes = {"b"}
  AddedNodes = {"d", "e"}
  FrameChoices <- OnlyD
  Pusher = "w"
  Dsts = {"y"}
  ListChoices <- NewLists
  MaxObjects = 4
  Video = {1, 2, 4}
  CacheSize = 2
  Refused <- Refuses
  Filtered <- Filters
  Discarding = {"z"}
  Droppable = {3}
  Sources = {"s1", "s2"}
  Forwarder = "f"
  Consumer = "c"
  Casts <- Pairs
  Failing = {"s2", "f"}
  Mode <- Modes
  From = "from"
  To = "to"
  PathOf <- AllTo
  WaitedPath = "to"
  MaxRemovals = 1
  MaxRoutes = 6
  Feeds = {"p", "q"}
  Feed <- FeedPQ
  MediaOf <- Media
  IndexOf <- Index
  PTSOf <- PTSs
  DTSOf <- DTSs
  Unfixable = {5}
  Unnotified = {"p"}
  Settings <- BothSettings
  Stoppable = {"p"}
  InboxSize = 1
INVARIANTS TypeOK EndsAfterItsSource AddressedIsAccounted CacheLeavesNoGap RouterKeeps
PROPERTIES NewBranchServed TreeEnds PushMoves RoutingEnds
CHECK_DEADLOCK FALSE
