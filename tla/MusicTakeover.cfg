SPECIFICATION MusicSpec
CONSTANTS
  Tracks = {"a", "b", "c"}
  MaxSongs = 4
INVARIANT RunCanEnd
CHECK_DEADLOCK FALSE
