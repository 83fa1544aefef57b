------------------------------- MODULE OidcKeys -------------------------------
(***************************************************************************)
(* The signing keys of the identity provider, as an api process caches     *)
(* them (auth/oidc.py: OidcVerifier).  Requests verify their tokens in     *)
(* threads of their own and share the cache without a lock: a token whose  *)
(* key is unknown refetches the provider's key set, at most once in        *)
(* _min_refetch_interval, since unknown keys are anybody's to name.        *)
(*                                                                         *)
(* Time is whether that interval has passed since the last stamp; nobody   *)
(* is held up for as long as that between reading the clock and stamping.  *)
(***************************************************************************)
EXTENDS Naturals, FiniteSets

CONSTANTS
  Verifiers,     \* threads that verify a token
  Kids,          \* ids of keys that tokens name
  MaxRotations,  \* bound: changes of the provider's key set
  MaxKeyOutages  \* bound: outages of the provider

ASSUME OidcConstants == IsFiniteSet(Verifiers) /\ {MaxRotations, MaxKeyOutages} \subseteq Nat

VARIABLES
  published,  \* the key set the provider serves
  providerUp, \* whether the provider answers
  keys,       \* _keys: the ids in the cache
  windowOver, \* whether _min_refetch_interval has passed since _last_refresh
  vat,        \* what each thread does next
  vkid,       \* the key id of its token
  fetched,    \* the key set its fetch brought
  refetches,  \* fetches that a filled cache let begin since the window last opened
  oidcUpsets  \* rotations and outages so far

oidcVars == <<published, providerUp, keys, windowOver, vat, vkid, fetched, refetches, oidcUpsets>>

KeySets == {ks \in SUBSET Kids : ks # {}}

OidcTypeOK ==
  /\ published \in KeySets /\ keys \subseteq Kids
  /\ providerUp \in BOOLEAN /\ windowOver \in BOOLEAN
  /\ vat \in [Verifiers -> {"idle", "missed", "stamp", "fetch", "load", "lookup"}]
  /\ vkid \in [Verifiers -> Kids] /\ fetched \in [Verifiers -> SUBSET Kids]
  /\ refetches \in 0..Cardinality(Verifiers) + 1
  /\ oidcUpsets \in [rotations : 0..MaxRotations, outages : 0..MaxKeyOutages]

OidcInit ==
  /\ published \in KeySets /\ Cardinality(published) = 1
  /\ providerUp = TRUE
  /\ keys = {} /\ windowOver = TRUE
  /\ vat = [v \in Verifiers |-> "idle"]
  /\ vkid = [v \in Verifiers |-> CHOOSE k \in Kids : TRUE]
  /\ fetched = [v \in Verifiers |-> {}]
  /\ refetches = 0
  /\ oidcUpsets = [rotations |-> 0, outages |-> 0]

-----------------------------------------------------------------------------
(* verify() and _key_for_kid(), up to the next place where another thread  *)
(* may come between.                                                       *)

\* A token that names key k comes in; a known key needs no fetch.
AskOidc(v, k) ==
  /\ vat[v] = "idle"
  /\ vkid' = [vkid EXCEPT ![v] = k]
  /\ vat' = [vat EXCEPT ![v] = IF k \in keys THEN "lookup" ELSE "missed"]
  /\ UNCHANGED <<published, providerUp, keys, windowOver, fetched, refetches, oidcUpsets>>

\* Only an empty cache is filled whatever the clock says.
MayRefetch == keys = {} \/ windowOver

CheckWindow(v) ==
  /\ vat[v] = "missed"
  /\ vat' = [vat EXCEPT ![v] = IF MayRefetch THEN "stamp" ELSE "lookup"]
  /\ refetches' = IF MayRefetch /\ keys # {} /\ refetches <= Cardinality(Verifiers)
                  THEN refetches + 1 ELSE refetches
  /\ UNCHANGED <<published, providerUp, keys, windowOver, vkid, fetched, oidcUpsets>>

\* The window counts from before the fetch, so that one that fails counts too.
StampedWhenLoaded == windowOver
Stamped == FALSE

Stamp(v) ==
  /\ vat[v] = "stamp"
  /\ windowOver' = Stamped
  /\ vat' = [vat EXCEPT ![v] = "fetch"]
  /\ UNCHANGED <<published, providerUp, keys, vkid, fetched, refetches, oidcUpsets>>

FetchAnswered(v) ==
  /\ vat[v] = "fetch" /\ providerUp
  /\ fetched' = [fetched EXCEPT ![v] = published]
  /\ vat' = [vat EXCEPT ![v] = "load"]
  /\ UNCHANGED <<published, providerUp, keys, windowOver, vkid, refetches, oidcUpsets>>

\* A fetch that fails rejects the token and leaves the cache alone.
FetchFails(v) ==
  /\ vat[v] = "fetch" /\ ~providerUp
  /\ vat' = [vat EXCEPT ![v] = "idle"]
  /\ UNCHANGED <<published, providerUp, keys, windowOver, vkid, fetched, refetches, oidcUpsets>>

LoadKeys(v) ==
  /\ vat[v] = "load"
  /\ keys' = fetched[v]
  /\ fetched' = [fetched EXCEPT ![v] = {}]
  /\ vat' = [vat EXCEPT ![v] = "lookup"]
  /\ UNCHANGED <<published, providerUp, windowOver, vkid, refetches, oidcUpsets>>

\* The key is taken from the cache as it is by now, the token accepted or rejected.
Judged(v) ==
  /\ vat[v] = "lookup"
  /\ vat' = [vat EXCEPT ![v] = "idle"]
  /\ UNCHANGED <<published, providerUp, keys, windowOver, vkid, fetched, refetches, oidcUpsets>>

-----------------------------------------------------------------------------
(* The clock and the provider.                                             *)

WindowPasses ==
  /\ ~windowOver
  /\ \A v \in Verifiers : vat[v] # "stamp"
  /\ windowOver' = TRUE /\ refetches' = 0
  /\ UNCHANGED <<published, providerUp, keys, vat, vkid, fetched, oidcUpsets>>

\* A new key comes in, and old ones may go.
Rotate ==
  /\ oidcUpsets.rotations < MaxRotations
  /\ \E ks \in KeySets \ {published} : published' = ks
  /\ oidcUpsets' = [oidcUpsets EXCEPT !.rotations = @ + 1]
  /\ UNCHANGED <<providerUp, keys, windowOver, vat, vkid, fetched, refetches>>

ProviderFails ==
  /\ providerUp /\ oidcUpsets.outages < MaxKeyOutages
  /\ providerUp' = FALSE
  /\ oidcUpsets' = [oidcUpsets EXCEPT !.outages = @ + 1]
  /\ UNCHANGED <<published, keys, windowOver, vat, vkid, fetched, refetches>>

ProviderReturns ==
  /\ ~providerUp /\ providerUp' = TRUE
  /\ UNCHANGED <<published, keys, windowOver, vat, vkid, fetched, refetches, oidcUpsets>>

VerifyStep(v) ==
  CheckWindow(v) \/ Stamp(v) \/ FetchAnswered(v) \/ FetchFails(v) \/ LoadKeys(v) \/ Judged(v)

OidcNext ==
  \/ \E v \in Verifiers : VerifyStep(v) \/ \E k \in Kids : AskOidc(v, k)
  \/ WindowPasses \/ Rotate \/ ProviderFails \/ ProviderReturns

\* Threads run, time passes, an outage ends, and users whose key is not known
\* keep signing in.
KeysGoOn ==
  /\ \A v \in Verifiers : WF_oidcVars(VerifyStep(v))
  /\ WF_oidcVars(WindowPasses) /\ WF_oidcVars(ProviderReturns)
SignsIn == \E v \in Verifiers, k \in published \ keys : AskOidc(v, k)
OidcFair == KeysGoOn /\ SF_oidcVars(SignsIn)

OidcSpec == OidcInit /\ [][OidcNext]_oidcVars /\ OidcFair

-----------------------------------------------------------------------------
\* However many unknown keys are named, and whether the provider answers or not, a process that
\* has keys asks for them once per thread and interval at most: the threads that pass the check
\* together, before the first of them has stamped.
RefetchesBounded == refetches <= Cardinality(Verifiers)

\* A rotated-in key is accepted sooner or later without a restart, also when a slow fetch of the
\* old key set ends last and puts that one back.
RotationsSeen == <>[](published \subseteq keys)
=============================================================================
