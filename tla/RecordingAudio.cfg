SPECIFICATION Spec
CONSTANTS
  MaxSittings = 3
  MaxChunks = 3
  MaxOpenFaults = 1
  MaxWriteFaults = 2
  MaxDiskFaults = 1
  MaxDeletes = 0
INVARIANT TypeOK
INVARIANT ReadyMeansNobodyRecording
INVARIANT SettledRowIsReady
INVARIANT AudioKept
