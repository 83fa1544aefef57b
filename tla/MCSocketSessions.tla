-------------------------- MODULE MCSocketSessions --------------------------
(* SocketSessions for TLC with more sockets, taken up to their identity: no  *)
(* action or invariant tells one socket from another.                        *)
EXTENDS SocketSessions, TLC

Alike == Permutations(Sockets)

\* Bound: a third socket only where no read fails and no recording is deleted.
ThirdIsFaultless == (\A w \in Sockets : pc[w] # "off") => readFaults + recordingDeletes = 0
=============================================================================
