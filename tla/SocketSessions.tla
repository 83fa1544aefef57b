--------------------------- MODULE SocketSessions ---------------------------
(***************************************************************************)
(* The api's capture sockets and the Sessions behind them, for one account: *)
(* the /ws handler (api/main.py ws_endpoint), the registry of live sessions *)
(* and its per-id start locks (api/registry.py), a Session's binding to a   *)
(* socket (detach, rebind, the grace close, revoke and its hooks in         *)
(* api/session.py) and an admin deleting the account (api/auth/router.py    *)
(* delete_user).                                                           *)
(*                                                                         *)
(* Everything runs on one event loop, so an action is one handler's or      *)
(* task's code from one await to the next.  What Recording models, the rows *)
(* and audio behind start() and close(), is one step here.                  *)
(***************************************************************************)
EXTENDS Integers, FiniteSets

CONSTANTS
  Sockets,          \* connections the account's clients make, each used once
  Nobody,           \* no socket: a free start lock, or a Session sending to its buffer
  MaxStarts,        \* how many session.start frames are received
  MaxReadFaults,    \* how many account and recording reads of the handler raise
  MaxRecordingDeletes   \* how many recordings History deletes

ASSUME SocketsAssumption ==
  /\ Nobody \notin Sockets
  /\ MaxStarts \in Nat
  /\ MaxReadFaults \in Nat
  /\ MaxRecordingDeletes \in Nat

VARIABLES
  \* Handlers.
  pc,          \* the await each handler is in
  up,          \* its transport is connected
  displaced,   \* its `displaced` flag
  dropping,    \* its close_task was started
  sess,        \* its `session`
  want,        \* the id its session.start asked to resume (None: fresh)
  target,      \* the Session it is rebinding or starting
  \* Sessions.
  phase,       \* "starting", then "live" (registered) until closed, "ended" once torn down
  conv,        \* its session_id, named after the Session that minted it
  send,        \* current_send: a socket, or Nobody for _buffer_send
  detached,    \* _detached, with its grace task pending
  hooks,       \* _disconnects
  revoked,     \* _revoked
  \* Shared.
  active,      \* registry._active
  lock,        \* registry._start_locks
  rows,        \* conversation ids stored
  account,     \* the account is in the user store
  revoking,    \* revokes delete_user runs
  starts, made, readFaults, recordingDeletes   \* how much of each bound is used

handlerVars == <<pc, up, displaced, dropping, sess, want, target>>
sessionVars == <<phase, conv, send, detached, hooks, revoked>>
sharedVars  == <<active, lock, rows, account, revoking>>
countVars   == <<starts, made, readFaults, recordingDeletes>>
vars == <<handlerVars, sessionVars, sharedVars, countVars>>

\* Every start makes one Session, and one more when its recording was just deleted.
Sessions == 1..(MaxStarts + MaxRecordingDeletes)
None     == 0
OrNone   == Sessions \cup {None}

Pc == {"off", "idle", "check", "lock", "closeWarm", "rebind", "hello", "row", "closeCold",
       "starting", "failed", "recheck", "ending", "revoking", "gone"}

TypeOK ==
  /\ pc \in [Sockets -> Pc]
  /\ up \in [Sockets -> BOOLEAN]
  /\ displaced \in [Sockets -> BOOLEAN]
  /\ dropping \in [Sockets -> BOOLEAN]
  /\ sess \in [Sockets -> OrNone]
  /\ want \in [Sockets -> OrNone]
  /\ target \in [Sockets -> OrNone]
  /\ phase \in [Sessions -> {"none", "starting", "live", "closing", "ended"}]
  /\ conv \in [Sessions -> OrNone]
  /\ send \in [Sessions -> Sockets \cup {Nobody}]
  /\ detached \in [Sessions -> BOOLEAN]
  /\ hooks \in [Sessions -> SUBSET Sockets]
  /\ revoked \in [Sessions -> BOOLEAN]
  /\ active \in [Sessions -> OrNone]
  /\ lock \in [Sessions -> Sockets \cup {Nobody}]
  /\ rows \subseteq Sessions
  /\ account \in BOOLEAN
  /\ revoking \subseteq Sessions
  /\ starts \in 0..MaxStarts
  /\ made \in 0..(MaxStarts + MaxRecordingDeletes)
  /\ readFaults \in 0..MaxReadFaults
  /\ recordingDeletes \in 0..MaxRecordingDeletes

Init ==
  /\ pc = [w \in Sockets |-> "off"]
  /\ up = [w \in Sockets |-> FALSE]
  /\ displaced = [w \in Sockets |-> FALSE]
  /\ dropping = [w \in Sockets |-> FALSE]
  /\ sess = [w \in Sockets |-> None]
  /\ want = [w \in Sockets |-> None]
  /\ target = [w \in Sockets |-> None]
  /\ phase = [s \in Sessions |-> "none"]
  /\ conv = [s \in Sessions |-> None]
  /\ send = [s \in Sessions |-> Nobody]
  /\ detached = [s \in Sessions |-> FALSE]
  /\ hooks = [s \in Sessions |-> {}]
  /\ revoked = [s \in Sessions |-> FALSE]
  /\ active = [c \in Sessions |-> None]
  /\ lock = [c \in Sessions |-> Nobody]
  /\ rows = {}
  /\ account = TRUE
  /\ revoking = {}
  /\ starts = 0 /\ made = 0 /\ readFaults = 0 /\ recordingDeletes = 0

-----------------------------------------------------------------------------
(* Pieces of the handler's code.                                            *)

Running(w) == pc[w] \notin {"off", "gone"}
IsClosed(s) == phase[s] \in {"closing", "ended"}

\* Ids a client can present: those a session.ready gave it.
Known == {c \in Sessions : \E s \in Sessions : conv[s] = c /\ phase[s] \notin {"none", "starting"}}

\* Mutant: a handler waits for a frame on a transport that is gone.
StopsOnDisplaced(w) == displaced[w]

\* The top of the handler's loop breaks: a disconnect, or another socket took over.
Stops(w) == ~up[w] \/ displaced[w]

Listens(w) == pc[w] = "idle" /\ ~Stops(w)

\* registry.unregister: only if it is still this session.
Unregistered(s) == IF active[conv[s]] = s THEN [active EXCEPT ![conv[s]] = None] ELSE active

\* unregister and then close() up to its await; a second close() only waits.
UnregisterAndClose(s) ==
  /\ active' = Unregistered(s)
  /\ phase' = [phase EXCEPT ![s] = IF @ = "live" THEN "closing" ELSE @]

\* `async with` lets go of the start lock however it is left.
Released(w) == [c \in Sessions |-> IF lock[c] = w THEN Nobody ELSE lock[c]]

\* The handler still owns its session: `session.current_send is send`.
StillOwns(w, s, to) == to = w

\* The handler's finally: park the session it still owns, drop its revoke hook.  `s` is its
\* session and `to` what that session sends to by then.
Exit(w, s, to, ph) ==
  /\ pc' = [pc EXCEPT ![w] = "gone"]
  /\ lock' = Released(w)
  /\ IF s = None
     THEN UNCHANGED <<detached, hooks, send>>
     ELSE /\ LET parks == ph = "live" /\ StillOwns(w, s, to)
             IN /\ detached' = [detached EXCEPT ![s] = @ \/ parks]
                /\ send' = [send EXCEPT ![s] = IF parks THEN Nobody ELSE to]
          /\ hooks' = [hooks EXCEPT ![s] = @ \ {w}]

\* The same, from an await that has changed neither the session nor its phase.
ExitAsIs(w) ==
  /\ Exit(w, sess[w], IF sess[w] = None THEN Nobody ELSE send[sess[w]],
          IF sess[w] = None THEN "none" ELSE phase[sess[w]])
  /\ UNCHANGED <<up, displaced, dropping, sess, want, target, phase, conv, revoked, active, rows,
                 account, revoking, countVars>>

\* The start is over, well or with an error frame, and the handler listens again.
BackToLoop(w) ==
  /\ pc' = [pc EXCEPT ![w] = "idle"]
  /\ lock' = Released(w)
  /\ UNCHANGED <<up, displaced, dropping, sess, want, target, sessionVars, active, rows, account,
                 revoking, starts, made, recordingDeletes>>

\* A store read raises, and the handler goes back to its loop.
ReadRaises(w) ==
  /\ readFaults < MaxReadFaults
  /\ readFaults' = readFaults + 1
  /\ BackToLoop(w)

\* Session(...) and start() up to its first await, for id (None: a server id).  The bound on
\* Sessions is no shorter than that on the starts.
NewSession(w, id) ==
  LET s == made + 1 IN
  /\ s \in Sessions
  /\ made' = s
  /\ phase' = [phase EXCEPT ![s] = "starting"]
  /\ conv' = [conv EXCEPT ![s] = IF id = None THEN s ELSE id]
  /\ send' = [send EXCEPT ![s] = w]
  /\ target' = [target EXCEPT ![w] = s]
  /\ pc' = [pc EXCEPT ![w] = "starting"]
  /\ UNCHANGED active

\* The cold path: close the socket's own session, if any, and start a new one.  A start under
\* a server id lets go of the presented id's lock first.
StartCold(w, id) ==
  /\ want' = [want EXCEPT ![w] = id]
  /\ lock' = IF id = None THEN Released(w) ELSE [lock EXCEPT ![id] = w]
  /\ IF sess[w] # None
     THEN /\ UnregisterAndClose(sess[w])
          /\ pc' = [pc EXCEPT ![w] = "closeCold"]
          /\ UNCHANGED <<made, conv, send, target>>
     ELSE NewSession(w, id)

\* A warm resume of r, up to rebind()'s first send: the socket r is bound to is displaced,
\* the pending grace close is cancelled, and r buffers while the new socket catches up.
Rebind(w, r) ==
  LET previous == {v \in Sockets \ {w} : Running(v) /\ send[r] = v} IN
  /\ sess' = [sess EXCEPT ![w] = r]
  /\ target' = [target EXCEPT ![w] = r]
  /\ displaced' = [v \in Sockets |-> displaced[v] \/ v \in previous]
  /\ dropping' = [v \in Sockets |-> dropping[v] \/ v \in previous]
  /\ detached' = [detached EXCEPT ![r] = FALSE]
  /\ send' = [send EXCEPT ![r] = Nobody]
  /\ pc' = [pc EXCEPT ![w] = "rebind"]

-----------------------------------------------------------------------------
(* The handler.                                                             *)

\* The handshake: the token resolves to a stored account.
Connect(w) ==
  /\ pc[w] = "off"
  /\ account
  /\ pc' = [pc EXCEPT ![w] = "idle"]
  /\ up' = [up EXCEPT ![w] = TRUE]
  /\ UNCHANGED <<displaced, dropping, sess, want, target, sessionVars, sharedVars, countVars>>

\* The transport goes: the client left, the network died, or a close() landed.
Drop(w) ==
  /\ Running(w) /\ up[w]
  /\ up' = [up EXCEPT ![w] = FALSE]
  /\ UNCHANGED <<pc, displaced, dropping, sess, want, target, sessionVars, sharedVars, countVars>>

\* The top of the loop breaks.
Leave(w) == pc[w] = "idle" /\ Stops(w) /\ ExitAsIs(w)

\* session.start, up to the account check's await.
StartFrame(w, id) ==
  /\ Listens(w)
  /\ starts < MaxStarts
  /\ starts' = starts + 1
  /\ want' = [want EXCEPT ![w] = id]
  /\ pc' = [pc EXCEPT ![w] = "check"]
  /\ UNCHANGED <<up, displaced, dropping, sess, target, sessionVars, sharedVars, made,
                 readFaults, recordingDeletes>>

\* The account check returns.  A deleted account's session is revoked before the handler leaves.
CheckAccount(w) ==
  /\ pc[w] = "check"
  /\ \/ ReadRaises(w)
     \/ displaced[w] /\ ExitAsIs(w)
     \/ /\ ~displaced[w] /\ ~account
        /\ IF sess[w] = None
           THEN /\ Exit(w, None, Nobody, "none")
                /\ dropping' = [dropping EXCEPT ![w] = TRUE]
                /\ UNCHANGED <<phase, active, revoked>>
           ELSE /\ UnregisterAndClose(sess[w])
                /\ revoked' = [revoked EXCEPT ![sess[w]] = TRUE]
                /\ pc' = [pc EXCEPT ![w] = "revoking"]
                /\ UNCHANGED <<dropping, lock, send, detached, hooks>>
        /\ UNCHANGED <<up, displaced, sess, want, target, conv, rows, account, revoking, countVars>>
     \/ /\ ~displaced[w] /\ account
        /\ IF want[w] = None
           THEN StartCold(w, None)
           ELSE /\ pc' = [pc EXCEPT ![w] = "lock"]
                /\ UNCHANGED <<want, lock, phase, active, made, conv, send, target>>
        /\ UNCHANGED <<up, displaced, dropping, sess, detached, hooks, revoked, rows, account,
                       revoking, starts, readFaults, recordingDeletes>>

\* Mutant: sockets presenting one id do not exclude each other.
AlwaysFree(c) == TRUE

LockFree(c) == lock[c] = Nobody

\* The start lock is ours: rebind to the session registered under the id, closing our own
\* other session first, or go cold.
TakeLock(w) ==
  LET id == want[w]
      r  == active[id]
  IN
  /\ pc[w] = "lock"
  /\ LockFree(id)
  /\ \/ displaced[w] /\ ExitAsIs(w)
     \/ /\ ~displaced[w]
        /\ lock' = [lock EXCEPT ![id] = w]
        /\ \/ /\ r = None
              /\ pc' = [pc EXCEPT ![w] = "row"]
              /\ UNCHANGED <<sess, target, displaced, dropping, detached, send, active, phase>>
           \/ /\ r # None /\ sess[w] \in {None, r}
              /\ Rebind(w, r)
              /\ UNCHANGED <<active, phase>>
           \/ /\ r # None /\ sess[w] \notin {None, r}
              /\ UnregisterAndClose(sess[w])
              /\ target' = [target EXCEPT ![w] = r]
              /\ pc' = [pc EXCEPT ![w] = "closeWarm"]
              /\ UNCHANGED <<sess, displaced, dropping, detached, send>>
        /\ UNCHANGED <<up, want, conv, hooks, revoked, rows, account, revoking, countVars>>

\* Our own session's teardown is over: rebind, unless the target was closed meanwhile.
ClosedForWarm(w) ==
  /\ pc[w] = "closeWarm"
  /\ phase[sess[w]] = "ended"
  /\ IF IsClosed(target[w])
     THEN /\ sess' = [sess EXCEPT ![w] = None]
          /\ pc' = [pc EXCEPT ![w] = "row"]
          /\ UNCHANGED <<target, displaced, dropping, detached, send>>
     ELSE Rebind(w, target[w])
  /\ UNCHANGED <<up, want, phase, conv, hooks, revoked, sharedVars, countVars>>

\* Mutant: a resumed socket leaves no revoke hook.
NotHooked(w, s) == hooks

Hooked(w, s) == [hooks EXCEPT ![s] = @ \cup {w}]

\* rebind() is over: hook the socket to a revoke, or leave if one closed the session meanwhile.
Rebound(w) ==
  /\ pc[w] = "rebind"
  /\ LET r == target[w] IN
     IF IsClosed(r)
     THEN /\ sess' = [sess EXCEPT ![w] = None]
          /\ dropping' = [dropping EXCEPT ![w] = TRUE]
          /\ send' = [send EXCEPT ![r] = w]
          /\ hooks' = Hooked(w, r)
          /\ pc' = [pc EXCEPT ![w] = "gone"]
          /\ lock' = Released(w)
     ELSE /\ send' = [send EXCEPT ![r] = w]
          /\ hooks' = Hooked(w, r)
          /\ pc' = [pc EXCEPT ![w] = "hello"]
          /\ UNCHANGED <<sess, dropping, lock>>
  /\ UNCHANGED <<up, displaced, want, target, phase, conv, detached, revoked, active, rows,
                 account, revoking, countVars>>

\* rebind()'s finally: the session sends to the new socket even if a replayed send raised.
SendAfterRaise(w) == w

\* A replayed send raises: the socket is gone, and the handler leaves.
RebindRaises(w) ==
  /\ pc[w] = "rebind"
  /\ ~up[w]
  /\ Exit(w, target[w], SendAfterRaise(w), phase[target[w]])
  /\ UNCHANGED <<up, displaced, dropping, sess, want, target, phase, conv, revoked, active, rows,
                 account, revoking, countVars>>

\* session.ready and what follows it are sent, and the start lock is let go.
Hello(w) ==
  /\ pc[w] = "hello"
  /\ \/ BackToLoop(w) /\ UNCHANGED readFaults
     \/ ~up[w] /\ ExitAsIs(w)

\* The stored recording is read: reopen it if it is there, else start fresh.
ReadRow(w) ==
  /\ pc[w] = "row"
  /\ \/ ReadRaises(w)
     \/ displaced[w] /\ ExitAsIs(w)
     \/ /\ ~displaced[w]
        /\ StartCold(w, IF want[w] \in rows THEN want[w] ELSE None)
        /\ UNCHANGED <<up, displaced, dropping, sess, detached, hooks, revoked, rows, account,
                       revoking, starts, readFaults, recordingDeletes>>

\* Our own session's teardown is over.
ClosedForCold(w) ==
  /\ pc[w] = "closeCold"
  /\ phase[sess[w]] = "ended"
  /\ NewSession(w, want[w])
  /\ UNCHANGED <<up, displaced, dropping, sess, want, detached, hooks, revoked, lock, rows,
                 account, revoking, starts, readFaults, recordingDeletes>>

\* start() returns: the row is open and session.ready sent; the session is hooked and registered.
Started(w) ==
  LET s == target[w] IN
  /\ pc[w] = "starting"
  /\ want[w] # None => want[w] \in rows
  /\ rows' = rows \cup {conv[s]}
  /\ phase' = [phase EXCEPT ![s] = "live"]
  /\ hooks' = [hooks EXCEPT ![s] = {w}]
  /\ sess' = [sess EXCEPT ![w] = s]
  /\ active' = [active EXCEPT ![conv[s]] = s]
  /\ lock' = Released(w)
  /\ pc' = [pc EXCEPT ![w] = "recheck"]
  /\ UNCHANGED <<up, displaced, dropping, want, target, conv, send, detached, revoked, account,
                 revoking, countVars>>

\* start() raises and closes what it started; the handler waits for that cleanup.
StartRaises(w) ==
  /\ pc[w] = "starting"
  /\ phase' = [phase EXCEPT ![target[w]] = "closing"]
  /\ pc' = [pc EXCEPT ![w] = "failed"]
  /\ UNCHANGED <<up, displaced, dropping, sess, want, target, conv, send, detached, hooks,
                 revoked, sharedVars, countVars>>

\* Mutant: any failed reopen starts fresh.
ReopenFailed(w) == want[w] # None

\* The start failed because the recording it reopens was deleted under it.
RecordingGone(w) == want[w] # None /\ want[w] \notin rows

\* The cleanup is over: an error frame, or a fresh start if the recording had been deleted.
StartFailed(w) ==
  /\ pc[w] = "failed"
  /\ phase[target[w]] = "ended"
  /\ IF RecordingGone(w)
     THEN /\ want' = [want EXCEPT ![w] = None]
          /\ lock' = Released(w)
          /\ NewSession(w, None)
          /\ UNCHANGED <<up, displaced, dropping, sess, detached, hooks, revoked, rows, account,
                         revoking, starts, readFaults, recordingDeletes>>
     ELSE BackToLoop(w) /\ UNCHANGED readFaults

\* The account still exists.
AccountStands == account

\* The account re-check after registering; one that cannot be read keeps the recording.
Recheck(w) ==
  /\ pc[w] = "recheck"
  /\ \/ ReadRaises(w)
     \/ AccountStands /\ BackToLoop(w) /\ UNCHANGED readFaults
     \/ /\ ~AccountStands
        /\ UnregisterAndClose(sess[w])
        /\ revoked' = [revoked EXCEPT ![sess[w]] = TRUE]
        /\ pc' = [pc EXCEPT ![w] = "revoking"]
        /\ UNCHANGED <<up, displaced, dropping, sess, want, target, conv, send, detached, hooks,
                       lock, rows, account, revoking, countVars>>

\* The handler's own revoke is over: every socket bound to the session is closed.
SelfRevoked(w) ==
  /\ pc[w] = "revoking"
  /\ phase[sess[w]] = "ended"
  /\ dropping' = [v \in Sockets |-> dropping[v] \/ v = w \/ v \in hooks[sess[w]]]
  /\ sess' = [sess EXCEPT ![w] = None]
  /\ pc' = [pc EXCEPT ![w] = "gone"]
  /\ UNCHANGED <<up, displaced, want, target, sessionVars, sharedVars, countVars>>

\* session.end.
EndFrame(w) ==
  /\ Listens(w)
  /\ sess[w] # None
  /\ UnregisterAndClose(sess[w])
  /\ pc' = [pc EXCEPT ![w] = "ending"]
  /\ UNCHANGED <<up, displaced, dropping, sess, want, target, conv, send, detached, hooks,
                 revoked, lock, rows, account, revoking, countVars>>

Ended(w) ==
  /\ pc[w] = "ending"
  /\ phase[sess[w]] = "ended"
  /\ sess' = [sess EXCEPT ![w] = None]
  /\ pc' = [pc EXCEPT ![w] = "idle"]
  /\ UNCHANGED <<up, displaced, dropping, want, target, sessionVars, sharedVars, countVars>>

-----------------------------------------------------------------------------
(* Sessions, and what else reaches them.                                    *)

\* _grace_close: no resume came.
GraceLapses(s) ==
  /\ detached[s] /\ phase[s] = "live"
  /\ UnregisterAndClose(s)
  /\ UNCHANGED <<handlerVars, conv, send, detached, hooks, revoked, lock, rows, account, revoking,
                 countVars>>

\* The teardown task ends (Recording).
TeardownEnds(s) ==
  /\ phase[s] = "closing"
  /\ phase' = [phase EXCEPT ![s] = "ended"]
  /\ UNCHANGED <<handlerVars, conv, send, detached, hooks, revoked, sharedVars, countVars>>

\* delete_user up to its await: the account goes, and its registered sessions are unregistered.
DeleteAccount ==
  LET doomed == {s \in Sessions : \E c \in Sessions : active[c] = s} IN
  /\ account
  /\ account' = FALSE
  /\ revoking' = doomed
  /\ active' = [c \in Sessions |-> IF active[c] \in doomed THEN None ELSE active[c]]
  /\ UNCHANGED <<handlerVars, sessionVars, lock, rows, countVars>>

\* revoke(): close first...
RevokeCloses(s) ==
  /\ s \in revoking /\ ~revoked[s]
  /\ revoked' = [revoked EXCEPT ![s] = TRUE]
  /\ phase' = [phase EXCEPT ![s] = IF @ = "live" THEN "closing" ELSE @]
  /\ UNCHANGED <<handlerVars, conv, send, detached, hooks, sharedVars, countVars>>

\* ... then drop every socket bound to it.
RevokeDrops(s) ==
  /\ s \in revoking /\ revoked[s] /\ phase[s] = "ended"
  /\ dropping' = [w \in Sockets |-> dropping[w] \/ w \in hooks[s]]
  /\ revoking' = revoking \ {s}
  /\ UNCHANGED <<pc, up, displaced, sess, want, target, sessionVars, active, lock, rows, account,
                 countVars>>

\* History deletes a recording, live or not.
DeleteRecording(c) ==
  /\ c \in rows
  /\ recordingDeletes < MaxRecordingDeletes
  /\ recordingDeletes' = recordingDeletes + 1
  /\ rows' = rows \ {c}
  /\ UNCHANGED <<handlerVars, sessionVars, active, lock, account, revoking, starts, made, readFaults>>

-----------------------------------------------------------------------------

\* Nobody is connected and no session is left.
Quiet ==
  /\ \A w \in Sockets : ~Running(w)
  /\ \A s \in Sessions : phase[s] \in {"none", "ended"}

Rest == Quiet /\ UNCHANGED vars

Handling(w) == \/ Leave(w) \/ CheckAccount(w) \/ TakeLock(w) \/ ClosedForWarm(w) \/ Rebound(w)
               \/ RebindRaises(w) \/ Hello(w) \/ ReadRow(w) \/ ClosedForCold(w) \/ Started(w)
               \/ StartRaises(w) \/ StartFailed(w) \/ Recheck(w) \/ SelfRevoked(w) \/ Ended(w)
Revoking(s) == RevokeCloses(s) \/ RevokeDrops(s)

Next ==
  \/ \E w \in Sockets : \/ Connect(w) \/ Drop(w) \/ EndFrame(w) \/ Handling(w)
                        \/ \E id \in Known \cup {None} : StartFrame(w, id)
  \/ \E s \in Sessions : GraceLapses(s) \/ TeardownEnds(s) \/ Revoking(s) \/ DeleteRecording(s)
  \/ DeleteAccount
  \/ Rest

\* Handlers and tasks keep running, teardowns end (Recording's TeardownsEnd), a started close
\* brings the transport down and the grace timer fires.  Clients owe nothing.
Fairness ==
  /\ \A w \in Sockets : WF_vars(Handling(w)) /\ WF_vars(dropping[w] /\ Drop(w))
  /\ \A s \in Sessions : WF_vars(GraceLapses(s)) /\ WF_vars(TeardownEnds(s)) /\ WF_vars(Revoking(s))

Spec     == Init /\ [][Next]_vars
FairSpec == Spec /\ Fairness

-----------------------------------------------------------------------------
(* Properties.                                                              *)

\* The sessions recording, but for those delete_user is closing in this turn of the loop.
Recorders == {s \in Sessions : phase[s] \in {"starting", "live"} /\ s \notin revoking}

\* Two sessions never record into one conversation (XERK-1514): the start lock is held from the
\* registry lookup until the new session is registered.
OneRecorder == \A s, t \in Recorders : s # t => conv[s] # conv[t]

\* A live session can always be found, by a resume, a shutdown or a revoke: it is registered, or
\* delete_user has it in hand (XERK-1507).
LiveIsRegistered ==
  \A s \in Sessions : phase[s] = "live" => active[conv[s]] = s \/ s \in revoking

\* A live session always has someone to end it: its grace timer, a revoke, or a running handler
\* it sends to or that is catching up with it (XERK-236).
LiveHasOwner ==
  \A s \in Sessions :
    phase[s] = "live" =>
      \/ detached[s] \/ s \in revoking
      \/ \E w \in Sockets : Running(w) /\ sess[w] = s /\ (send[s] = w \/ pc[w] = "rebind")

\* A handler that would take a frame for a live session, audio or session.end, is the one that
\* session sends to: a displaced socket touches nothing (XERK-1526).
ListenerOwns ==
  \A w \in Sockets :
    Listens(w) /\ sess[w] # None /\ phase[sess[w]] = "live" => send[sess[w]] = w

\* A session a socket has taken over is not parked by the one that lost it: while it waits for a
\* resume, no handler is still bound to it.
ParkedMeansUnbound ==
  \A s \in Sessions :
    detached[s] /\ phase[s] = "live" =>
      \A w \in Sockets : Running(w) /\ sess[w] = s => displaced[w] \/ pc[w] = "closeWarm"

\* One conversation is recorded once, and every live session has exactly one that may feed,
\* park or end it: the socket it sends to, the one catching up with it, or its grace timer.
SessionsOwned == OneRecorder /\ LiveHasOwner /\ ListenerOwns /\ ParkedMeansUnbound

\* Once the account is gone no session of it records on: delete_user closes it, or the handler
\* that was starting it does so at its re-check (XERK-1504).
GoneMeansClosing ==
  ~account /\ readFaults = 0 =>
    \A s \in Sessions :
      phase[s] = "live" =>
        s \in revoking \/ \E w \in Sockets : pc[w] = "recheck" /\ sess[w] = s

\* A revoked session's sockets are closed, the resumed one too, not left for the next frame
\* (XERK-236, XERK-1504).
RevokedIsDropped ==
  \A w \in Sockets :
    (Listens(w) /\ sess[w] # None) =>
      LET s == sess[w] IN
      revoked[s] /\ phase[s] = "ended" /\ s \notin revoking
        /\ (\A v \in Sockets : pc[v] = "revoking" => sess[v] # s) => dropping[w]

\* A deleted account keeps neither a recording nor a socket, because every live session of it
\* can be found.
RevocationSafe == TypeOK /\ LiveIsRegistered /\ GoneMeansClosing /\ RevokedIsDropped

\* Every session.start and session.end is answered: no cycle of start locks, teardowns and
\* displacements holds a handler.
FramesAnswered == \A w \in Sockets : Running(w) /\ pc[w] # "idle" ~> pc[w] \in {"idle", "gone"}

\* A dropped session is resumed or finalized, and a revoked or displaced socket's handler ends.
DroppedIsSettled ==
  /\ \A s \in Sessions : detached[s] ~> ~detached[s] \/ phase[s] = "ended"
  /\ \A w \in Sockets : dropping[w] ~> pc[w] = "gone"

\* No socket and no session is left waiting for ever.
SocketsSettle == FramesAnswered /\ DroppedIsSettled
=============================================================================
