---------------------------- MODULE SharedSignIn ----------------------------
(***************************************************************************)
(* A sign-in that the tabs of one browser share (client-core: auth.ts,     *)
(* oidc.ts, api.ts).  Token, epoch and OIDC sidecar are in localStorage;   *)
(* each tab has its own requests and its own single-flight refresh, and    *)
(* the identity provider rotates a refresh token each time it is used.     *)
(*                                                                         *)
(* What is made together (an epoch, a token, a refresh token) has the same *)
(* number, and each token its user.  A tab has one request at a time.      *)
(***************************************************************************)
EXTENDS Integers, FiniteSets

CONSTANTS Tabs, Users,
          MaxMinted   \* bound: tokens and epochs made

ASSUME SignInAssumption == MaxMinted \in Nat /\ "none" \notin Users

VARIABLES
  token,     \* the stored access token
  sidecar,   \* the stored refresh token: its presence makes the session an OIDC one
  epoch,     \* the stored sign-in epoch
  minted,
  valid,     \* the refresh tokens that the provider still takes
  refreshed, \* each tab's refreshGeneration and lastRefreshedToken
  request,   \* each tab's request
  exchange,  \* each tab's inFlightRefresh, and what the provider answered
  who        \* history: the user of the latest sign-in, or "none" once it was ended

signInVars == <<token, sidecar, epoch, minted, valid, refreshed, request, exchange, who>>

None       == [user |-> "none", n |-> 0]
NoRequest  == [at |-> "none", sent |-> None, epoch |-> 0, gen |-> 0, check |-> FALSE, user |-> "none"]
NoExchange == [at |-> "none", sent |-> None, answer |-> None]

SignInInit ==
  /\ token = None /\ sidecar = None /\ epoch = 0 /\ minted = 0 /\ valid = {}
  /\ refreshed = [t \in Tabs |-> [gen |-> 0, token |-> None]]
  /\ request = [t \in Tabs |-> NoRequest] /\ exchange = [t \in Tabs |-> NoExchange]
  /\ who = "none"

Make       == minted < MaxMinted /\ minted' = minted + 1
Made(user) == [user |-> user, n |-> minted + 1]

-----------------------------------------------------------------------------
(* Sign-in and sign-out: one synchronous step each.                         *)

\* login(), or completeOidcCallback(): a new epoch, the token, and a sidecar of its own or none.
SignIn(user, oidc) ==
  /\ Make /\ epoch' = minted' /\ token' = Made(user) /\ who' = user
  /\ IF oidc THEN sidecar' = Made(user) /\ valid' = valid \cup {Made(user)}
             ELSE sidecar' = None /\ UNCHANGED valid
  /\ UNCHANGED <<refreshed, request, exchange>>

\* logout(), oidcLogout(), or a callback whose me() failed.
SignOut ==
  /\ token # None /\ Make /\ epoch' = minted'
  /\ token' = None /\ sidecar' = None /\ who' = "none"
  /\ UNCHANGED <<valid, refreshed, request, exchange>>

\* The provider ends a session.
Revoke == \E r \in valid : valid' = valid \ {r}
          /\ UNCHANGED <<token, sidecar, epoch, minted, refreshed, request, exchange, who>>

-----------------------------------------------------------------------------
(* request(): one of the app's, or checkSession's me() at boot.             *)

Sent(t, check) == [at |-> "sent", sent |-> token, epoch |-> epoch, gen |-> refreshed[t].gen,
                   check |-> check, user |-> token.user]
SentAgain(t, with, gen) == [at |-> "retried", sent |-> with, epoch |-> epoch, gen |-> gen,
                            check |-> request[t].check, user |-> request[t].user]

StartRequest(t) ==
  /\ request[t] = NoRequest /\ token # None
  /\ \E check \in BOOLEAN : request' = [request EXCEPT ![t] = Sent(t, check)]
  /\ UNCHANGED <<token, sidecar, epoch, minted, valid, refreshed, exchange, who>>

\* The answer carries a renewed token when the one sent was past half its life.
Answered(t) ==
  /\ request[t].at \in {"sent", "retried"} /\ request' = [request EXCEPT ![t] = NoRequest]
  /\ \/ UNCHANGED <<token, minted>>
     \/ request[t].epoch = epoch /\ Make /\ token' = Made(request[t].sent.user)
  /\ UNCHANGED <<sidecar, epoch, valid, refreshed, exchange, who>>

\* checkSession's compare-and-clear, once the 401 stands; a replaced token is checked, once.
ProvedDead(t) == \/ token = request[t].sent
                 \/ refreshed[t].gen # request[t].gen /\ token = refreshed[t].token
GiveUp(t) ==
  /\ request' = [request EXCEPT ![t] = NoRequest]
  /\ IF request[t].check /\ ProvedDead(t) /\ token # None
     THEN /\ Make /\ epoch' = minted' /\ token' = None
          /\ who' = IF sidecar = None THEN "none" ELSE who
     ELSE UNCHANGED <<token, epoch, minted, who>>

\* A 401: retry after a refresh of this tab's, join or start one, or give up.
SameSignIn(t) == request[t].epoch = epoch
Refused(t) ==
  /\ request[t].at \in {"sent", "retried"}
  /\ IF request[t].at = "retried" \/ ~SameSignIn(t) \/ (refreshed[t].gen = request[t].gen /\ sidecar = None)
     THEN GiveUp(t) /\ UNCHANGED exchange
     ELSE /\ UNCHANGED <<token, epoch, minted, who>>
          /\ IF refreshed[t].gen # request[t].gen
             THEN /\ request' = [request EXCEPT ![t] = SentAgain(t, token, refreshed[t].gen)]
                  /\ UNCHANGED exchange
             ELSE /\ request' = [request EXCEPT ![t].at = "waits"]
                  /\ exchange' = IF exchange[t] # NoExchange THEN exchange
                                 ELSE [exchange EXCEPT ![t] = [at |-> "asked", sent |-> sidecar, answer |-> None]]
  /\ UNCHANGED <<sidecar, valid, refreshed>>

-----------------------------------------------------------------------------
(* exchangeRefreshToken(), and the provider's end of it.                    *)

\* ensureFreshOidcToken, before the token expires.
RefreshEarly(t) ==
  /\ sidecar # None /\ exchange[t] = NoExchange
  /\ exchange' = [exchange EXCEPT ![t] = [at |-> "asked", sent |-> sidecar, answer |-> None]]
  /\ UNCHANGED <<token, sidecar, epoch, minted, valid, refreshed, request, who>>

\* The provider rotates a valid token and rejects a used one.
ProviderHandles(t) ==
  /\ exchange[t].at = "asked"
  /\ LET sent == exchange[t].sent IN
     IF sent \in valid
     THEN /\ Make /\ valid' = (valid \ {sent}) \cup {Made(sent.user)}
          /\ exchange' = [exchange EXCEPT ![t].at = "granted", ![t].answer = Made(sent.user)]
     ELSE /\ exchange' = [exchange EXCEPT ![t].at = "invalid"] /\ UNCHANGED <<minted, valid>>
  /\ UNCHANGED <<token, sidecar, epoch, refreshed, request, who>>

\* The waiting request of the tab goes on once its refresh has ended.
Waits(t) == request[t].at = "waits"
\* Mutant: an exchange is stored whatever happened to the session meanwhile.
UnchangedAssumed(t) == TRUE
Unchanged(t) == sidecar = exchange[t].sent

Stored(t) ==
  /\ exchange[t].at = "granted" /\ Unchanged(t)
  /\ token' = exchange[t].answer /\ sidecar' = exchange[t].answer
  /\ refreshed' = [refreshed EXCEPT ![t] = [gen |-> @.gen + 1, token |-> token']]
  /\ exchange' = [exchange EXCEPT ![t] = NoExchange]
  /\ request' = IF Waits(t) THEN [request EXCEPT ![t] = SentAgain(t, token', refreshed'[t].gen)] ELSE request
  /\ UNCHANGED <<epoch, minted, valid, who>>

\* Rejected, unreachable or timed out, or the session ended meanwhile.
MayClear(t) == exchange[t].at = "invalid" /\ Unchanged(t)
NotStored(t) ==
  /\ exchange[t].at = "invalid" \/ (exchange[t].at = "granted" /\ ~Unchanged(t))
  /\ exchange' = [exchange EXCEPT ![t] = NoExchange]
  /\ sidecar' = IF MayClear(t) THEN None ELSE sidecar
  /\ IF Waits(t) THEN GiveUp(t) ELSE UNCHANGED <<token, epoch, minted, who, request>>
  /\ UNCHANGED <<valid, refreshed>>

\* The provider's answer is lost, after it rotated or before.
ExchangeFails(t) ==
  /\ exchange[t].at \in {"asked", "granted"} /\ exchange' = [exchange EXCEPT ![t] = NoExchange]
  /\ IF Waits(t) THEN GiveUp(t) ELSE UNCHANGED <<token, epoch, minted, who, request>>
  /\ UNCHANGED <<sidecar, valid, refreshed>>

SignInNext ==
  \/ (\E user \in Users, oidc \in BOOLEAN : SignIn(user, oidc)) \/ SignOut \/ Revoke
  \/ \E t \in Tabs : \/ StartRequest(t) \/ Answered(t) \/ Refused(t) \/ RefreshEarly(t)
                     \/ ProviderHandles(t) \/ Stored(t) \/ NotStored(t) \/ ExchangeFails(t)
SignInSpec == SignInInit /\ [][SignInNext]_signInVars

-----------------------------------------------------------------------------
(* Properties.                                                              *)

Tokens == [user : Users \cup {"none"}, n : 0..MaxMinted]
SignInTypeOK ==
  /\ {token, sidecar} \cup valid \subseteq Tokens /\ epoch \in 0..minted /\ minted \in 0..MaxMinted
  /\ refreshed \in [Tabs -> [gen : Nat, token : Tokens]]
  /\ request \in [Tabs -> [at : {"none", "sent", "waits", "retried"}, sent : Tokens, epoch : 0..minted,
                           gen : Nat, check : BOOLEAN, user : Users \cup {"none"}]]
  /\ exchange \in [Tabs -> [at : {"none", "asked", "granted", "invalid"}, sent : Tokens, answer : Tokens]]
  /\ who \in Users \cup {"none"}

\* What is stored belongs to the user who signed in last: no refresh, renewal or retry that was
\* in flight across a sign-in, in whichever tab, brings an ended session back or mixes two
\* (XERK-1591).
StoredIsSignedIn == token.user \in {"none", who} /\ sidecar.user \in {"none", who}

\* A request is only ever repeated as the user who made it.
RetriedAsItself == \A t \in Tabs : request[t].at = "retried" => request[t].sent.user = request[t].user

\* No token acts for another user than the one it was given to.
SignInSafe == SignInTypeOK /\ StoredIsSignedIn /\ RetriedAsItself
=============================================================================
