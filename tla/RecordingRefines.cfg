SPECIFICATION FairSpec
CONSTANTS
  MaxSittings = 3
  MaxChunks = 1
  MaxOpenFaults = 0
  MaxWriteFaults = 1
  MaxDiskFaults = 0
  MaxDeletes = 1
INVARIANT NoOrphanAudio
PROPERTY ImplementsConversation
PROPERTY TeardownsEnd
