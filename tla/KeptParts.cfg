SPECIFICATION KeptSpec
CONSTANTS
  Window = 2
  PingTimeout = 2
  Grace = 1
  BufferMax = 2
  MaxTime = 3
  MaxMade = 2
  MaxPlayed = 1
  Tabs = {x, y}
  Users = {r1, r2}
  MaxMinted = 3
  MaxSittings = 2
  MaxQueued = 3
  MaxFailures = 2
  Replicas = {x, y}
  Requests = {r1, r2}
  People = {"p"}
  Emails = {"env"}
  SharedEmails = FALSE
  MaxRows = 2
  MaxDevices = 1
  MaxUpsets = 1
  Booters = {x, y}
  Namers = {r1, r2}
  LegacyNames <- OldNames
  MaxAccounts = 3
  MaxNamings = 2
  Ids = {i1, i2}
  Sitters = {x, y}
  Owners = {o1}
  Meetings = {m1}
  Absent = Absent
  MaxClock = 3
  MaxWrites = 2
  Written = i1
  OldLines = 1
  MaxLines = 3
  MaxShown = 2
  MaxFrames = 3
  Steps = {0, 2}
  Stable = 2
  Fresh = 2
  Gone = 2
  Rehead = 1
SYMMETRY KeptSymmetry
INVARIANT RecentIsHeld
INVARIANT SignInSafe
INVARIANT WritesSafe
INVARIANT AccountsSafe
INVARIANT MergeSafe
PROPERTY SqlIsStore
PROPERTY ReadyIsFinal
PROPERTY LoginsStay
CHECK_DEADLOCK FALSE
