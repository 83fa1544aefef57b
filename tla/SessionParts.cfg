SPECIFICATION SessionSpec
CONSTANTS
  MaxCuts = 3
  MaxWaiting = 1
  OutageBudget = 1
  MinDecodes = 1
  MaxTurns = 3
  Foreign = {"es"}
  MaxResends = 1
  Subjects = {"a", "b"}
  Angles = {1, 2}
  MaxFinals = 3
  Tracks = {"x", "y", "z"}
  MaxSongs = 3
  Checks = {1, 2}
  Titles = {"t"}
  ReadSlots = 1
  Retrievers = {s1, s2}
  Topics = {"a"}
  Lookups = {1, 2}
  CacheMax = 1
INVARIANT DecodeSafe
INVARIANT BoxIsRun
INVARIANT TranslationSafe
INVARIANT CueSafe
PROPERTY ImplementsTranscriber
PROPERTY RunsEnd
PROPERTY CuesAreMade
CHECK_DEADLOCK FALSE
