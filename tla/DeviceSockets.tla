----------------------------- MODULE DeviceSockets -----------------------------
(***************************************************************************)
(* A capture PC's device token, from pairing to its last socket            *)
(* (auth/router.py, the user stores, screen/ws.py, tenir_capture).  A      *)
(* token is minted once and never renewed; /ws/screen checks it at the     *)
(* handshake alone, so revoking it, deleting its user and its expiry each  *)
(* have to reach the sockets that are open.  The client reconnects after   *)
(* any end but one: a close with 1008 means its token is no good.          *)
(***************************************************************************)
EXTENDS Integers, FiniteSets

CONSTANTS
  Devices,      \* tokens of one user, each on a PC of its own
  Conns,        \* connections at a time
  MaxDevices,   \* MAX_DEVICE_TOKENS
  MaxNetFaults  \* bound: connections that fail, and restarts of the api

ASSUME DeviceBounds ==
  /\ MaxDevices \in Nat /\ MaxNetFaults \in Nat /\ IsFiniteSet(Devices)
  /\ {"user", "none"} \cap Devices = {} /\ {"unpaired", "off", "exited"} \cap Conns = {}

VARIABLES
  account,   \* the user's row is there
  tokenRow,  \* device -> its device_tokens row: none, live, or gone (revoked, purged or cascaded)
  aged,      \* devices whose token is past its expires_at
  client,    \* device -> its capture client: unpaired, off (it backs off), exited, or the connection it is on
  conn,      \* connection -> its device, where it is, and whether `closing` is set
  revokers,  \* connections in _revokers and _token_revokers
  telling,   \* revocations that are stored and not yet told: devices, or "user"
  netFaults

deviceVars == <<account, tokenRow, aged, client, conn, revokers, telling, netFaults>>

Free == [dev |-> "none", at |-> "free", closing |-> FALSE]
Served == {"handshake", "accepted", "checking", "open"}

DeviceInit ==
  /\ account = TRUE /\ tokenRow = [d \in Devices |-> "none"] /\ aged = {}
  /\ client = [d \in Devices |-> "unpaired"]
  /\ conn = [c \in Conns |-> Free] /\ revokers = {} /\ telling = {} /\ netFaults = 0

RowLive(d) == tokenRow[d] = "live" /\ d \notin aged

\* create_device_token, with the user's row locked: their dead rows go, and at most MaxDevices stay.
Pair(d) ==
  /\ client[d] = "unpaired" /\ tokenRow[d] = "none" /\ account
  /\ Cardinality({e \in Devices : RowLive(e)}) < MaxDevices
  /\ client' = [client EXCEPT ![d] = "off"]
  /\ tokenRow' = [e \in Devices |-> CASE e = d -> "live"
                                      [] tokenRow[e] = "live" /\ e \in aged -> "gone"
                                      [] OTHER -> tokenRow[e]]
  /\ UNCHANGED <<account, aged, conn, revokers, telling, netFaults>>

Age(d) ==
  /\ tokenRow[d] # "none" /\ d \notin aged /\ aged' = aged \cup {d}
  /\ UNCHANGED <<account, tokenRow, client, conn, revokers, telling, netFaults>>

-----------------------------------------------------------------------------
(* What ends a token: each is stored first and told to the open sockets later *)

\* revoke_device_token: an expired token's row counts, a row that is gone does not.
Revoke(d) ==
  /\ tokenRow[d] = "live" /\ tokenRow' = [tokenRow EXCEPT ![d] = "gone"]
  /\ telling' = telling \cup {d}
  /\ UNCHANGED <<account, aged, client, conn, revokers, netFaults>>

\* delete_user: the rows go with the user's, and the sockets hear of it after the user's recordings ended.
DeleteUser ==
  /\ account /\ account' = FALSE
  /\ tokenRow' = [d \in Devices |-> IF tokenRow[d] = "live" THEN "gone" ELSE tokenRow[d]]
  /\ telling' = telling \cup {"user"}
  /\ UNCHANGED <<aged, client, conn, revokers, netFaults>>

\* revoke_token, revoke_user
Tell(what) ==
  /\ what \in telling /\ telling' = telling \ {what}
  /\ conn' = [c \in Conns |-> IF c \in revokers /\ what \in {"user", conn[c].dev}
                              THEN [conn[c] EXCEPT !.closing = TRUE] ELSE conn[c]]
  /\ UNCHANGED <<account, tokenRow, aged, client, revokers, netFaults>>

-----------------------------------------------------------------------------
(* The socket                                                               *)

Moves(c, to) == conn' = [conn EXCEPT ![c].at = to]

\* Runner.run: the client connects.
Dial(d, c) ==
  /\ client[d] = "off" /\ conn[c].at = "free"
  /\ client' = [client EXCEPT ![d] = c]
  /\ conn' = [conn EXCEPT ![c] = [dev |-> d, at |-> "handshake", closing |-> FALSE]]
  /\ UNCHANGED <<account, tokenRow, aged, revokers, telling, netFaults>>

\* principal_from_live_token: in time, of an account that exists, and with a live row.
Admits(d) == account /\ RowLive(d)

Authenticate(c) ==
  /\ conn[c].at = "handshake"
  /\ Moves(c, IF Admits(conn[c].dev) THEN "accepted" ELSE "closed_1008")
  /\ UNCHANGED <<account, tokenRow, aged, client, revokers, telling, netFaults>>

\* From here on a revocation finds this socket, and its own timer runs to the token's expiry.
Register(c) ==
  /\ conn[c].at = "accepted"
  /\ Moves(c, "checking") /\ revokers' = revokers \cup {c}
  /\ UNCHANGED <<account, tokenRow, aged, client, telling, netFaults>>

\* Mutant: what the handshake found is taken to hold.
AuthorizedBefore(d) == TRUE

\* _still_authorized
StillAuthorized(d) == account /\ RowLive(d)

Recheck(c) ==
  /\ conn[c].at = "checking"
  /\ conn' = [conn EXCEPT ![c].at = "open", ![c].closing = @ \/ ~StillAuthorized(conn[c].dev)]
  /\ UNCHANGED <<account, tokenRow, aged, client, revokers, telling, netFaults>>

\* expire, by the loop's timer
Expire(c) ==
  /\ conn[c].at \in {"checking", "open"} /\ conn[c].dev \in aged /\ ~conn[c].closing
  /\ conn' = [conn EXCEPT ![c].closing = TRUE]
  /\ UNCHANGED <<account, tokenRow, aged, client, revokers, telling, netFaults>>

\* The receive loop sees `closing`; what ends a socket also takes it out of the registries.
CloseRevoked(c) ==
  /\ conn[c].at = "open" /\ conn[c].closing
  /\ Moves(c, "closed_1008") /\ revokers' = revokers \ {c}
  /\ UNCHANGED <<account, tokenRow, aged, client, telling, netFaults>>

\* The network or a read of the store fails: the socket ends with another code, or with none.
SocketFails(c) ==
  /\ netFaults < MaxNetFaults /\ netFaults' = netFaults + 1
  /\ conn[c].at \in Served
  /\ Moves(c, "lost") /\ revokers' = revokers \ {c}
  /\ UNCHANGED <<account, tokenRow, aged, client, telling>>

\* The client is gone and its end may dial again, while the api still serves the socket...
HalfOpen(d) ==
  /\ netFaults < MaxNetFaults /\ netFaults' = netFaults + 1
  /\ client[d] \in Conns /\ client' = [client EXCEPT ![d] = "off"]
  /\ UNCHANGED <<account, tokenRow, aged, conn, revokers, telling>>

\* ...until its pings go unanswered.
Notice(c) ==
  /\ conn[c].at \in Served /\ client[conn[c].dev] # c
  /\ Moves(c, "lost") /\ revokers' = revokers \ {c}
  /\ UNCHANGED <<account, tokenRow, aged, client, telling, netFaults>>

\* A restart ends every socket, and forgets what was still to be told.
RestartApi ==
  /\ netFaults < MaxNetFaults /\ netFaults' = netFaults + 1
  /\ conn' = [c \in Conns |-> IF conn[c].at \in Served THEN [conn[c] EXCEPT !.at = "lost"] ELSE conn[c]]
  /\ revokers' = {} /\ telling' = {}
  /\ UNCHANGED <<account, tokenRow, aged, client>>

\* session, run: 1008 raises TokenRejected, which ends the program; anything else is retried.
ClientSees(c) ==
  /\ conn[c].at \in {"closed_1008", "lost"}
  /\ conn' = [conn EXCEPT ![c] = Free]
  /\ client' = IF client[conn[c].dev] = c
               THEN [client EXCEPT ![conn[c].dev] = IF conn[c].at = "lost" THEN "off" ELSE "exited"]
               ELSE client
  /\ UNCHANGED <<account, tokenRow, aged, revokers, telling, netFaults>>

SocketStep(c) ==
  \/ Authenticate(c) \/ Register(c) \/ Recheck(c) \/ Expire(c) \/ CloseRevoked(c)
  \/ Notice(c) \/ ClientSees(c)

DeviceNext ==
  \/ \E d \in Devices : Pair(d) \/ Age(d) \/ Revoke(d) \/ Tell(d) \/ HalfOpen(d) \/ \E c \in Conns : Dial(d, c)
  \/ \E c \in Conns : SocketStep(c) \/ SocketFails(c)
  \/ DeleteUser \/ Tell("user") \/ RestartApi

\* The handlers, the loop's timers and the client go on; nobody has to pair, revoke or fail.
DeviceFairness ==
  /\ \A c \in Conns : WF_deviceVars(SocketStep(c))
  /\ \A d \in Devices : WF_deviceVars(\E c \in Conns : Dial(d, c))
  /\ \A what \in Devices \cup {"user"} : WF_deviceVars(Tell(what))

DeviceSpec == DeviceInit /\ [][DeviceNext]_deviceVars /\ DeviceFairness

-----------------------------------------------------------------------------

DeviceTypeOK ==
  /\ account \in BOOLEAN /\ tokenRow \in [Devices -> {"none", "live", "gone"}] /\ aged \subseteq Devices
  /\ client \in [Devices -> {"unpaired", "off", "exited"} \cup Conns]
  /\ conn \in [Conns -> [dev : Devices \cup {"none"}, at : Served \cup {"free", "closed_1008", "lost"},
                         closing : BOOLEAN]]
  /\ revokers \subseteq Conns /\ telling \subseteq Devices \cup {"user"} /\ netFaults \in 0..MaxNetFaults

\* An open socket whose token is no good any more is closed, is about to be told, or is past its expiry.
NoneUnheard ==
  \A c \in Conns : conn[c].at = "open" /\ ~conn[c].closing /\ ~Admits(conn[c].dev) =>
    conn[c].dev \in aged \/ telling \cap {conn[c].dev, "user"} # {}

\* The program on the PC, which then has to be paired anew, never exits over a token that is still good.
ExitsRightly == \A d \in Devices : client[d] = "exited" => ~Admits(d)

\* Every socket being served can be closed by a revoke, and the cap on a user's tokens holds.
DevicesKnown ==
  /\ revokers = {c \in Conns : conn[c].at \in {"checking", "open"}}
  /\ Cardinality({d \in Devices : RowLive(d)}) <= MaxDevices

\* A token that was revoked, expired or deleted with its user ends its sockets and its client, and a
\* client whose token is good ends up connected, through drops, half-open sockets and restarts.
DevicesSettle ==
  <>[]\A d \in Devices : client[d] # "unpaired" =>
    IF Admits(d) THEN client[d] \in Conns /\ conn[client[d]].at = "open" /\ ~conn[client[d]].closing
    ELSE client[d] = "exited" /\ \A c \in Conns : conn[c].dev # d

\* A capture PC's sockets never outlive its token unheard, only a bad token ends its client, the cap on
\* a user's tokens holds, and both ends settle: ws.py's registries, recheck and timer with
\* revoke_device_token, delete_user and Runner.run.
DevicesFollowTokens == 
  /\ [](DeviceTypeOK /\ NoneUnheard /\ ExitsRightly /\ DevicesKnown)
  /\ DevicesSettle
=============================================================================
