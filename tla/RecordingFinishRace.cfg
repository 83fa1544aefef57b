SPECIFICATION Spec
CONSTANTS
  MaxSittings = 3
  MaxChunks = 0
  MaxOpenFaults = 1
  MaxWriteFaults = 1
  MaxDiskFaults = 0
  MaxDeletes = 0
INVARIANT LiveRowStaysLive
