---------------------------- MODULE CaptureClient ----------------------------
(***************************************************************************)
(* The capture client of web and mobile: CaptureSession (captureSession.ts) *)
(* asks for the microphone, builds an ApiClient (ws.ts) per start, and      *)
(* tears both down; the ApiClient keeps one socket, reconnects it, and      *)
(* re-authenticates an OIDC session that the api rejected.                  *)
(*                                                                         *)
(* Each start() has the client that it creates, under the same number.      *)
(***************************************************************************)
EXTENDS Integers

CONSTANTS MaxStarts,  \* bound: calls of start()
          MaxStops    \* bound: calls of stop() in progress at once

ASSUME CaptureAssumption == MaxStarts \in Nat /\ MaxStops \in Nat \ {0}

Calls == 1..MaxStarts

VARIABLES
  running,   \* CaptureState.running
  mic,       \* the microphone is captured
  storedId,  \* a resume id is stored
  current,   \* this.client, 0 for null
  starting,  \* the await each start() is in: "none", "permission", "load", "mic", "done"
  stopping,  \* stop() calls that await the microphone
  socket,    \* a client's socket: "none", "connecting", "open", "ready", "closing"
  pause,     \* what it waits for without one: "none", "timer", "refresh"
  userClosed, fatal, reauthTried,   \* closedByUser, fatal, oidcReauthTried
  oidc,      \* getSessionKind() is "oidc"
  accepts    \* the api accepts the account; once it does not, it never does again

callVars    == <<running, mic, storedId, current, starting, stopping>>
wsVars      == <<socket, pause, userClosed, fatal, reauthTried>>
captureVars == <<callVars, wsVars, oidc, accepts>>

CaptureInit ==
  /\ running = FALSE /\ mic = FALSE /\ storedId \in BOOLEAN /\ current = 0
  /\ starting = [i \in Calls |-> "none"] /\ stopping = 0
  /\ socket = [i \in Calls |-> "none"] /\ pause = [i \in Calls |-> "none"]
  /\ userClosed = [i \in Calls |-> FALSE] /\ fatal = [i \in Calls |-> FALSE]
  /\ reauthTried = [i \in Calls |-> FALSE]
  /\ oidc \in BOOLEAN /\ accepts = TRUE

-----------------------------------------------------------------------------
(* CaptureSession.start() and stop(), from await to await.                  *)

\* start() of a session that runs does nothing.
CallStart(i) ==
  /\ ~running /\ starting[i] = "none" /\ (i > 1 => starting[i - 1] # "none")
  /\ starting' = [starting EXCEPT ![i] = "permission"]
  /\ UNCHANGED <<running, mic, storedId, current, stopping, wsVars, oidc, accepts>>

PermissionAnswered(i) ==
  /\ starting[i] = "permission"
  /\ \E granted \in BOOLEAN : starting' = [starting EXCEPT ![i] = IF granted THEN "load" ELSE "done"]
  /\ UNCHANGED <<running, mic, storedId, current, stopping, wsVars, oidc, accepts>>

IdLoaded(i) ==
  /\ starting[i] = "load" /\ starting' = [starting EXCEPT ![i] = "mic"]
  /\ running' = TRUE /\ current' = i
  /\ UNCHANGED <<mic, storedId, stopping, wsVars, oidc, accepts>>

\* A stop() awaits the microphone; the fatal error of any client of the session calls one.
CallsStop == stopping' = IF stopping < MaxStops THEN stopping + 1 ELSE stopping

\* ApiClient.start: whatever the session did since, the client opens its socket.
OpenClient(i) == /\ socket' = [socket EXCEPT ![i] = "connecting"]
                 /\ userClosed' = [userClosed EXCEPT ![i] = FALSE]
                 /\ fatal' = [fatal EXCEPT ![i] = FALSE]
                 /\ reauthTried' = [reauthTried EXCEPT ![i] = FALSE]
MicAnswered(i) ==
  /\ starting[i] = "mic" /\ starting' = [starting EXCEPT ![i] = "done"]
  /\ \/ mic' = TRUE /\ OpenClient(i) /\ UNCHANGED stopping
     \/ CallsStop /\ UNCHANGED <<mic, socket, userClosed, fatal, reauthTried>>
  /\ UNCHANGED <<running, storedId, current, pause, oidc, accepts>>

\* The user, an unmount, or a change of the server's URL.
CallStop == /\ stopping < MaxStops /\ CallsStop
            /\ UNCHANGED <<running, mic, storedId, current, starting, wsVars, oidc, accepts>>

\* ApiClient.stop
CloseClient(i) ==
  IF i = 0 THEN UNCHANGED <<socket, userClosed>>
  ELSE /\ userClosed' = [userClosed EXCEPT ![i] = TRUE]
       /\ socket' = [socket EXCEPT ![i] = IF @ = "none" THEN @ ELSE "closing"]
StopEnds ==
  /\ stopping > 0 /\ stopping' = stopping - 1
  /\ mic' = FALSE /\ CloseClient(current) /\ current' = 0
  /\ storedId' = FALSE /\ running' = FALSE
  /\ UNCHANGED <<starting, pause, fatal, reauthTried, oidc, accepts>>

-----------------------------------------------------------------------------
(* ApiClient, by socket event.                                              *)

Opened(i) == /\ socket[i] = "connecting" /\ socket' = [socket EXCEPT ![i] = "open"]
             /\ UNCHANGED <<callVars, pause, userClosed, fatal, reauthTried, oidc, accepts>>

\* session.ready: only a session that works earns another silent refresh.
Ready(i) ==
  /\ socket[i] = "open" /\ accepts /\ socket' = [socket EXCEPT ![i] = "ready"]
  /\ reauthTried' = [reauthTried EXCEPT ![i] = FALSE] /\ storedId' = TRUE
  /\ UNCHANGED <<running, mic, current, starting, stopping, pause, userClosed, fatal, oidc, accepts>>

MayReconnect(i) == ~userClosed[i] /\ ~fatal[i]
Drops(i) ==
  /\ socket[i] # "none" /\ socket' = [socket EXCEPT ![i] = "none"]
  /\ pause' = [pause EXCEPT ![i] = IF MayReconnect(i) THEN "timer" ELSE "none"]
  /\ UNCHANGED <<callVars, userClosed, fatal, reauthTried, oidc, accepts>>

\* Mutant: the session is not told of a fatal error of its client.
FatalErrorUnheard(i) == fatal' = [fatal EXCEPT ![i] = TRUE] /\ UNCHANGED stopping
\* onError of a fatal error.
FatalError(i) == fatal' = [fatal EXCEPT ![i] = TRUE] /\ CallsStop

\* Mutant: the rejected socket is not given up before the refresh.
RejectedKeepsSocket(i) ==
  /\ socket[i] \in {"open", "ready", "closing"} /\ UNCHANGED socket
  /\ IF ~userClosed[i] /\ oidc /\ ~reauthTried[i]
     THEN /\ reauthTried' = [reauthTried EXCEPT ![i] = TRUE]
          /\ pause' = [pause EXCEPT ![i] = "refresh"] /\ UNCHANGED <<fatal, stopping>>
     ELSE FatalError(i) /\ UNCHANGED <<reauthTried, pause>>
  /\ UNCHANGED <<running, mic, storedId, current, starting, userClosed, oidc, accepts>>
\* The api closes with 1008: the token, or the account, is no longer good.
Rejected(i) ==
  /\ socket[i] \in {"open", "ready", "closing"} /\ socket' = [socket EXCEPT ![i] = "none"]
  /\ IF ~userClosed[i] /\ oidc /\ ~reauthTried[i]
     THEN /\ reauthTried' = [reauthTried EXCEPT ![i] = TRUE]
          /\ pause' = [pause EXCEPT ![i] = "refresh"] /\ UNCHANGED <<fatal, stopping>>
     ELSE FatalError(i) /\ UNCHANGED <<reauthTried, pause>>
  /\ UNCHANGED <<running, mic, storedId, current, starting, userClosed, oidc, accepts>>

\* The session was resumed elsewhere (4001), or the api reports a fatal error.
EndedByApi(i) ==
  /\ socket[i] \in {"open", "ready"} /\ FatalError(i)
  /\ socket' = [socket EXCEPT ![i] = "none"]
  /\ UNCHANGED <<running, mic, storedId, current, starting, pause, userClosed, reauthTried, oidc, accepts>>

TimerFires(i) ==
  /\ pause[i] = "timer" /\ pause' = [pause EXCEPT ![i] = "none"]
  /\ socket' = [socket EXCEPT ![i] = IF MayReconnect(i) THEN "connecting" ELSE @]
  /\ UNCHANGED <<callVars, userClosed, fatal, reauthTried, oidc, accepts>>

\* tryOidcRefresh came back (OidcRefresh).
Refreshed(i) ==
  /\ pause[i] = "refresh" /\ pause' = [pause EXCEPT ![i] = "none"]
  /\ \/ userClosed[i] /\ UNCHANGED <<socket, fatal, stopping>>
     \/ ~userClosed[i] /\ socket' = [socket EXCEPT ![i] = "connecting"] /\ UNCHANGED <<fatal, stopping>>
     \/ ~userClosed[i] /\ FatalError(i) /\ UNCHANGED socket
  /\ UNCHANGED <<running, mic, storedId, current, starting, userClosed, reauthTried, oidc, accepts>>

ApiRefuses == /\ accepts /\ accepts' = FALSE /\ UNCHANGED <<callVars, wsVars, oidc>>

ClientEvent(i) == Opened(i) \/ Ready(i) \/ Drops(i) \/ Rejected(i) \/ EndedByApi(i) \/ TimerFires(i) \/ Refreshed(i)
StartStep(i)   == PermissionAnswered(i) \/ IdLoaded(i) \/ MicAnswered(i)
CaptureNext == CallStop \/ StopEnds \/ ApiRefuses
               \/ \E i \in Calls : CallStart(i) \/ StartStep(i) \/ ClientEvent(i)

\* Timers fire, refreshes have a timeout, the microphone is released, and a network that drops
\* every connection before it is answered does not do so forever.
CaptureFairness ==
  /\ WF_captureVars(StopEnds)
  /\ \A i \in Calls : /\ WF_captureVars(TimerFires(i)) /\ WF_captureVars(Refreshed(i))
                      /\ SF_captureVars(Opened(i)) /\ SF_captureVars(Rejected(i))
CaptureSpec     == CaptureInit /\ [][CaptureNext]_captureVars
CaptureFairSpec == CaptureSpec /\ CaptureFairness

-----------------------------------------------------------------------------
(* Properties.                                                              *)

CaptureTypeOK ==
  /\ {running, mic, storedId, oidc, accepts} \subseteq BOOLEAN /\ current \in 0..MaxStarts
  /\ starting \in [Calls -> {"none", "permission", "load", "mic", "done"}] /\ stopping \in 0..MaxStops
  /\ socket \in [Calls -> {"none", "connecting", "open", "ready", "closing"}]
  /\ pause \in [Calls -> {"none", "timer", "refresh"}]
  /\ userClosed \in [Calls -> BOOLEAN] /\ fatal \in [Calls -> BOOLEAN] /\ reauthTried \in [Calls -> BOOLEAN]

\* A client never has two sockets, or a reconnect under way besides one: the second would
\* displace the first, and the two would take the session from each other forever (XERK-1526).
OneAttemptEach == \A i \in Calls : pause[i] # "none" => socket[i] = "none"

\* What every state of the client keeps.
CaptureSafe == CaptureTypeOK /\ OneAttemptEach

\* A client whose account the api refuses gives up: neither the backoff nor the silent refresh,
\* which may well succeed against the identity provider, keeps it reconnecting forever.
RefusedGivesUp == \A i \in Calls : (~accepts /\ socket[i] # "none") ~> (fatal[i] \/ userClosed[i])

\* A fatal error of the session's client ends the capture: the microphone never stays open on a
\* session that is gone (XERK-236).
FatalFreesMic == \A i \in Calls : (current = i /\ fatal[i]) ~> ~mic

\* One socket is live at a time, and what ends for good stops both the connection and the
\* microphone.
CaptureEnds == []CaptureSafe /\ RefusedGivesUp /\ FatalFreesMic
=============================================================================
