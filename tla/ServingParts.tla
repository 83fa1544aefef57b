----------------------------- MODULE ServingParts -----------------------------
(***************************************************************************)
(* The parts of the process that serves sessions, of the servers behind it *)
(* and of the clients before it: the database's pools, the provider's      *)
(* signing keys, the pool that parses captions, OCR, speech-to-text, the   *)
(* status page with readiness, a PC's sockets and caption pane, what a     *)
(* client shows, and the app's updates.  They share no state and are       *)
(* explored one after another: `part` says which one moves, the others     *)
(* stay in an initial state.                                               *)
(***************************************************************************)
EXTENDS PoolOpening, PoolBorrow, OidcKeys, FairTurns, OcrReading, SttServer, StatusLights,
        DeviceSockets, CaptionPane, CaptureView, AppUpdates

VARIABLE part

dbVars == <<poolVars, borrowVars, oidcVars>>
screenVars == <<turnVars, ocrVars, deviceVars, paneVars>>
healthVars == <<sttVars, statusVars, readyVars>>
shownVars == <<viewVars, updateVars>>
servingVars == <<dbVars, screenVars, healthVars, shownVars>>

ServingPart == {"opening", "borrows", "oidc", "turns", "ocr", "stt", "status", "ready", "devices",
                "pane", "view", "updates"}

ServingInit ==
  /\ part \in ServingPart
  /\ PoolInit /\ BorrowInit /\ OidcInit /\ TurnsInit /\ OcrInit /\ SttInit /\ StatusInit /\ ReadyInit
  /\ DeviceInit /\ PaneInit /\ ViewInit /\ UpdateInit
  /\ part # "stt" => takes = Optional /\ naming   \* one initial state for the others
  /\ part # "oidc" => published = {CHOOSE k \in Kids : TRUE}

DbNext ==
  \/ part = "opening" /\ PoolNext /\ UNCHANGED <<borrowVars, oidcVars>>
  \/ part = "borrows" /\ BorrowNext /\ UNCHANGED <<poolVars, oidcVars>>
  \/ part = "oidc" /\ OidcNext /\ UNCHANGED <<poolVars, borrowVars>>
ScreenNext ==
  \/ part = "turns" /\ TurnsNext /\ UNCHANGED <<ocrVars, deviceVars, paneVars>>
  \/ part = "ocr" /\ OcrNext /\ UNCHANGED <<turnVars, deviceVars, paneVars>>
  \/ part = "devices" /\ DeviceNext /\ UNCHANGED <<turnVars, ocrVars, paneVars>>
  \/ part = "pane" /\ PaneNext /\ UNCHANGED <<turnVars, ocrVars, deviceVars>>
HealthNext ==
  \/ part = "stt" /\ SttNext /\ UNCHANGED <<statusVars, readyVars>>
  \/ part = "status" /\ StatusNext /\ UNCHANGED <<sttVars, readyVars>>
  \/ part = "ready" /\ ReadyNext /\ UNCHANGED <<sttVars, statusVars>>
ClientNext ==
  \/ part = "view" /\ ViewNext /\ UNCHANGED updateVars
  \/ part = "updates" /\ UpdateNext /\ UNCHANGED viewVars

ServingNext ==
  /\ UNCHANGED part
  /\ \/ DbNext /\ UNCHANGED <<screenVars, healthVars, shownVars>>
     \/ ScreenNext /\ UNCHANGED <<dbVars, healthVars, shownVars>>
     \/ HealthNext /\ UNCHANGED <<dbVars, screenVars, shownVars>>
     \/ ClientNext /\ UNCHANGED <<dbVars, screenVars, healthVars>>

\* Nothing that must happen is enabled in a part's initial state, but for a client's first socket,
\* a sign-in, the clock of the view and the first check for an update: those are asked for only
\* while their part moves.  So the fairness of one part asks nothing of the others.
ServingFairness ==
  /\ PoolFairness /\ BorrowFairness /\ TurnsFairness /\ OcrFairness /\ SttFairness
  /\ StatusFairness /\ ReadyFairness /\ DeviceFairness
  /\ PaneGoesOn /\ WF_paneVars(part = "pane" /\ Connect)
  /\ KeysGoOn /\ SF_oidcVars(part = "oidc" /\ SignsIn)
  /\ WF_viewVars(TimerFires) /\ WF_viewVars(part = "view" /\ ViewElapse)
  /\ UpdatesGoOn /\ WF_updateVars(part = "updates" /\ IntervalCheck)

ServingSpec == /\ ServingInit
               /\ [][ServingNext]_<<part, servingVars>> /\ ServingFairness

-----------------------------------------------------------------------------
\* The database's pools are opened once and lent to a bounded number of callers at a time.
PoolsServe == PoolsOpen /\ BorrowsBounded

\* The provider's keys are refetched neither too often nor too seldom: at most once per thread and
\* interval, and a key that is rotated in is accepted sooner or later.
KeysFollow == [](OidcTypeOK /\ RefetchesBounded) /\ (part = "oidc" => RotationsSeen)

-----------------------------------------------------------------------------
(* Values for TLC that a .cfg cannot write down.                               *)

\* Two pods, one of whose threads boots; the other ones of "p" serve requests.
Thread(pod, of, n) == [process |-> pod, store |-> of, boots |-> n = 0, n |-> n]
Threads == {Thread("p", "conversations", 0), Thread("p", "conversations", 1), Thread("p", "users", 1),
            Thread("q", "conversations", 0)}

Lights == <<"turma", "litellm", "stt", "llm">>
=============================================================================
