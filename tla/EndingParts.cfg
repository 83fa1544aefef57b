SPECIFICATION EndingSpec
CONSTANTS
  Sockets = {"s1"}
  Regions = {"caption", "full"}
  MaxLines = 2
  MaxFrames = 3
  MaxCloses = 1
  MaxStoreErrors = 1
  MaxLostAcks = 1
  Finished = {"m1", "m2"}
  Poll = 1
  RetryMax = 2
  GiveUp = 2
  MaxStrikes = 1
  Recordings = {c1, c2}
  Boot = Boot
  Loop = Loop
  NoCaller = NoCaller
  MaxCrashes = 2
  MaxFaults = 2
  MaxSittings = 3
  MaxStarts = 1
  MaxStops = 2
INVARIANT SweepSafe
INVARIANT StoredIsLinked
PROPERTY MeetingsReachHub
PROPERTY OrphansHealed
PROPERTY CaptureEnds
CHECK_DEADLOCK FALSE
