SPECIFICATION Spec
CONSTANTS
  Length = 3
  Kinds = {"packets", "frames"}
  Makes <- ThreeAndOne
  KindOf <- PacketsAndFrames
  Failing = {1, 2}
  ClosedEarly = {}
  SwitchKernels = {0, 1, 2}
  Verifies = TRUE
  MaxRequests = 3
  Branches = {1, 2, 3}
  Streams = {1, 2}
  Announced = {2}
  DTSs = {1, 2, 3}
  MaxBufferSize = 2
  MaxDTSDifference = 1
  MaxItems = 3
  Sources = {"A", "B", "C"}
  StreamsOf <- StreamsABC
  Media <- OneAudio
  SourceOfIndex <- PacketsOfABC
  MinStreams = 2
  MinStreamsVideo = 1
  MinStreamsAudio = 0
  VideoBeforeAudio = TRUE
  PreallocatesVideo = 1
  ErrorOnNSequentialInvalidDTS = 1
  PacketDTSs = {1, 2}
  MaxPackets = 4
  MaxPending = 3
  MaxInputs = 3
  KeyInputs = {1}
  MarkedInputs = {3}
  MaxCodecs = 2
  MaxCuts = 1
  Companies <- Pairs
  Gives <- TwoCalls
  StreamGiving <- TwoStreams
  RawObjects = {2, 5}
  NbStreams = 2
  KeptLimit = 2
  MaxErrors = 1
  Files <- TwoFiles
  InputStreams = {0, 1}
  Closers = {"user", "opener"}
INVARIANTS
  TypeOK CallsSafe KernelsSafe
PROPERTIES ImplementsPipe CallsEnd LastRequestUsed
CHECK_DEADLOCK FALSE
