SPECIFICATION FairSpec
CONSTANTS
  None = None
  NoPacket = NoPacket
  Free = Free
  o1 = o1 o2 = o2 o3 = o3 b1 = b1 b2 = b2 r1 = r1 r2 = r2 k1 = k1 k2 = k2 p1 = p1
  Outputs = {o1, o2}
  InitialValues = {None, o1}
  Barriers = {b1, b2}
  OutputOf <- OneEach
  Requesters = {r1}
  Packets = {k1, p1}
  KeyPackets = {k1}
  KeepUnless = TRUE
  RequestHook = TRUE
  PassBothOutputs = FALSE
  ForbidTakeover = FALSE
  NextOutputBlock = FALSE
  InactiveBlock = FALSE
PROPERTIES PendingNeverDropped RequestSettled
