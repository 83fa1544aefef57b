SPECIFICATION Spec
CONSTANTS
  MaxSittings = 2
  MaxChunks = 2
  MaxOpenFaults = 0
  MaxWriteFaults = 1
  MaxDiskFaults = 2
  MaxDeletes = 0
INVARIANT StoredStays
