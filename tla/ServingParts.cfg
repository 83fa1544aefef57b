SPECIFICATION ServingSpec
CONSTANTS
  Callers <- Threads
  SchemaAttempts = 2
  MaxCalls = 1
  MaxChanges = 3
  Borrowers = {b1, b2}
  PoolConns = {k1, k2}
  Nobody = Nobody
  MaxBorrows = 2
  MaxPoolUpsets = 2
  PoolUsers = {"u", "v"}
  PoolThreads = 1
  MaxJobs = 2
  MaxCancels = 1
  Frames = {"f", "g"}
  FrameHeights = {15}
  StripHeight = 12
  StripOverlap = 6
  CutEdge = 1
  MinSplit = 8
  MaxSplits = 1
  Engines = 1
  MaxEngineDeaths = 1
  SttRequests = {"q1", "q2", "q3"}
  Pinned = {"q1", "q3"}
  MaxSttRestarts = 1
  ProbeOrder <- Lights
  Fronted = {"llm"}
  Misconfigured = {"turma"}
  Grace = 2
  MaxFlips = 3
  Askers = {"r1", "r2", "r3"}
  MaxProbes = 2
  MaxOutages = 2
  Devices = {"p", "q"}
  Conns = {"c1", "c2"}
  MaxDevices = 1
  MaxNetFaults = 1
  MaxLinks = 2
  MaxPaneUpsets = 1
  MaxMeetings = 1
  Verifiers = {"v1", "v2"}
  Kids = {"k1", "k2"}
  MaxRotations = 1
  MaxKeyOutages = 1
  Turns = {"t1", "t2"}
  Cues = {"c1", "c2", "c3"}
  Ttl = 1
  MaxWaiting = 1
  MaxReleased = 1
  MaxLyrics = 6
  MaxOpening = 1
  MaxVersion = 2
  MaxReleases = 3
  MaxFailed = 1
  MaxSpells = 2
PROPERTY PoolsServe
PROPERTY KeysFollow
PROPERTY TurnsAreFair
PROPERTY FramesAreRead
PROPERTY SttServed
PROPERTY HealthIsTrue
PROPERTY DevicesFollowTokens
PROPERTY PaneFollowed
PROPERTY CuesTakeTurns
PROPERTY UpdatesOffered
CHECK_DEADLOCK FALSE
