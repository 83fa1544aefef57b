SPECIFICATION Spec
CONSTANTS
  Sockets = {w1, w2, w3}
  Nobody = Nobody
  MaxStarts = 3
  MaxReadFaults = 1
  MaxRecordingDeletes = 1
SYMMETRY Alike
CONSTRAINT ThirdIsFaultless
INVARIANT SessionsOwned
INVARIANT RevocationSafe
