---------------------------- MODULE EvidenceLookup ----------------------------
(***************************************************************************)
(* The evidence a cue is grounded in (cue/retrieval/live.py:               *)
(* LiveEvidenceRetriever).  A lookup asks three tiers at once and returns  *)
(* what they have by its deadline; the network tiers that miss it go on,   *)
(* and settle into the cache of their session for the next lookup of the   *)
(* topic.  Kiwix, the mirror behind Wikipedia, searches one at a time: all *)
(* sessions share one slot, and who finds it taken does without.           *)
(*                                                                         *)
(* A session looks up one thing at a time (CueScheduler: one call in       *)
(* flight) and closes its retriever at the end of its teardown.            *)
(***************************************************************************)
EXTENDS Naturals, Sequences, FiniteSets

CONSTANTS
  Retrievers,  \* sessions, each with a retriever of its own
  Topics,      \* cache keys of the queries
  Lookups,     \* bound: numbers of the calls of retrieve() that may be going on at once
  CacheMax     \* _CACHE_MAX

ASSUME EvidenceConstants ==
  /\ Retrievers # {} /\ Topics # {} /\ IsFiniteSet(Lookups) /\ Lookups \subseteq Nat
  /\ CacheMax \in Nat \ {0}

VARIABLES
  lookups,    \* each call: its session and topic, where it and its tiers are, and whether network
              \* evidence has come (since its return, once it has returned)
  topicCache, \* _cache of each session, oldest key first: the topic, and whether with any evidence
  searching,  \* _KIWIX_SEARCHING: the slot is taken
  httpOpen,   \* whether a session has an http client
  retired,    \* sessions whose retriever is closed
  caught      \* those that were closed while a lookup waited for its tiers

evidenceVars == <<lookups, topicCache, searching, httpOpen, retired, caught>>

NetworkTiers == {"wikipedia", "searxng"}
TierSteps == {"off", "asked", "search", "leads", "ended"}

LookupRecords ==
  [phase : {"idle", "waiting", "late"}, by : Retrievers, topic : Topics,
   at : [NetworkTiers -> TierSteps],
   got : BOOLEAN]

EvidenceTypeOK ==
  /\ lookups \in [Lookups -> LookupRecords]
  /\ \A s \in Retrievers : Len(topicCache[s]) <= CacheMax
  /\ searching \in BOOLEAN /\ httpOpen \in [Retrievers -> BOOLEAN]
  /\ caught \subseteq retired /\ retired \subseteq Retrievers

NoLookup ==
  [phase |-> "idle", by |-> CHOOSE s \in Retrievers : TRUE, topic |-> CHOOSE t \in Topics : TRUE,
   at |-> [tier \in NetworkTiers |-> "off"], got |-> FALSE]

EvidenceInit ==
  /\ lookups = [l \in Lookups |-> NoLookup]
  /\ topicCache = [s \in Retrievers |-> <<>>]
  /\ searching = FALSE
  /\ httpOpen = [s \in Retrievers |-> FALSE]
  /\ retired = {} /\ caught = {}

Going(l) == lookups[l].phase \in {"waiting", "late"}
BusyTiers(l) == {tier \in NetworkTiers : lookups[l].at[tier] \notin {"off", "ended"}}
CachedFor(s, t) == {i \in DOMAIN topicCache[s] : topicCache[s][i].topic = t}

\* _remember: a known topic keeps its place, a new one may push the oldest out.
Remembered(cache, t, got) ==
  LET entry == [topic |-> t, some |-> got]
      known == {i \in DOMAIN cache : cache[i].topic = t}
      grown == IF known # {} THEN [i \in DOMAIN cache |-> IF i \in known THEN entry ELSE cache[i]]
               ELSE Append(cache, entry)
  IN  IF Len(grown) > CacheMax THEN Tail(grown) ELSE grown

-----------------------------------------------------------------------------
(* retrieve() and _settle_late().                                          *)

\* The network is asked only about a topic nothing is cached for.
BeginLookup(l, s, t) ==
  /\ lookups[l] = NoLookup /\ \A m \in Lookups : m < l => lookups[m] # NoLookup
  /\ s \notin retired
  /\ \A m \in Lookups : ~(lookups[m].by = s /\ lookups[m].phase = "waiting")
  /\ lookups' = [lookups EXCEPT ![l] =
       [@ EXCEPT !.phase = "waiting", !.by = s, !.topic = t,
                 !.at = [tier \in NetworkTiers |-> IF CachedFor(s, t) = {} THEN "asked" ELSE "off"]]]
  /\ httpOpen' = [httpOpen EXCEPT ![s] = @ \/ CachedFor(s, t) = {}]
  /\ UNCHANGED <<topicCache, searching, retired, caught>>

\* All tiers have answered or the deadline is over: what has arrived is used and cached, and a
\* task waits for the rest.  That may be the news alone, which are searched in a thread and
\* never cached.
Return(l, newsLate) ==
  LET r == lookups[l] IN
  /\ r.phase = "waiting"
  /\ lookups' = [lookups EXCEPT
       ![l] = IF BusyTiers(l) = {} /\ ~newsLate THEN NoLookup
              ELSE [@ EXCEPT !.phase = "late", !.got = FALSE]]
  /\ topicCache' = IF ~r.got THEN topicCache
                   ELSE [topicCache EXCEPT ![r.by] = Remembered(@, r.topic, r.got)]
  /\ UNCHANGED <<searching, httpOpen, retired, caught>>

\* Late evidence is cached with what was on time; without any, nothing is.
SettleLate(l) ==
  LET r == lookups[l] IN
  /\ r.phase = "late" /\ BusyTiers(l) = {}
  /\ lookups' = [lookups EXCEPT ![l] = NoLookup]
  /\ topicCache' = IF ~r.got THEN topicCache
                   ELSE [topicCache EXCEPT ![r.by] = Remembered(@, r.topic, r.got)]
  /\ UNCHANGED <<searching, httpOpen, retired, caught>>

-----------------------------------------------------------------------------
(* The tiers.                                                              *)

\* A tier is over, with or without evidence (an empty answer, an error, nothing to search for).
TierEnds(l, tier, got) ==
  lookups' = [lookups EXCEPT ![l].at[tier] = "ended",
                             ![l].got = @ \/ got]

\* SearXNG, and Wikipedia while its live site is up.
SiteAnswers(l, tier, got) ==
  /\ lookups[l].at[tier] = "asked"
  /\ TierEnds(l, tier, got)
  /\ UNCHANGED <<topicCache, searching, httpOpen, retired, caught>>

\* _kiwix_search does not wait for the slot.
SlotSeen == searching

WikipediaDown(l) ==
  /\ lookups[l].at["wikipedia"] = "asked"
  /\ IF SlotSeen
     THEN TierEnds(l, "wikipedia", FALSE) /\ UNCHANGED <<searching, httpOpen>>
     ELSE /\ lookups' = [lookups EXCEPT ![l].at["wikipedia"] = "search"]
          /\ searching' = TRUE
          /\ httpOpen' = [httpOpen EXCEPT ![lookups[l].by] = TRUE]
  /\ UNCHANGED <<topicCache, retired, caught>>

\* The search is answered, fails or times out: the slot is free before the articles are read.
SearchEnds(l, hits) ==
  /\ lookups[l].at["wikipedia"] = "search"
  /\ searching' = FALSE
  /\ lookups' = [lookups EXCEPT ![l].at["wikipedia"] = IF hits THEN "leads" ELSE "ended"]
  /\ httpOpen' = [httpOpen EXCEPT ![lookups[l].by] = @ \/ hits]
  /\ UNCHANGED <<topicCache, retired, caught>>

LeadsRead(l, got) ==
  /\ lookups[l].at["wikipedia"] = "leads"
  /\ TierEnds(l, "wikipedia", got)
  /\ UNCHANGED <<topicCache, searching, httpOpen, retired, caught>>

-----------------------------------------------------------------------------
\* The tasks close() cancels: those that wait for late tiers, and their tiers, which would
\* otherwise outlive a task that is cancelled before it has run.
Cancelled(s) == {l \in Lookups : lookups[l].by = s /\ lookups[l].phase = "late"}

\* A lookup still waiting for its tiers is not known to close(): it goes on, and may need a new
\* client, since the one its tiers use is closed under them.
Retire(s) ==
  /\ s \notin retired
  /\ lookups' = [l \in Lookups |->
       IF l \in Cancelled(s) THEN NoLookup ELSE lookups[l]]
  /\ searching' = (searching /\ \A l \in Cancelled(s) : lookups[l].at["wikipedia"] # "search")
  /\ httpOpen' = [httpOpen EXCEPT ![s] = FALSE]
  /\ retired' = retired \cup {s}
  /\ caught' = IF \E l \in Lookups : lookups[l].by = s /\ lookups[l].phase = "waiting"
               THEN caught \cup {s} ELSE caught
  /\ topicCache' = [topicCache EXCEPT ![s] = <<>>]   \* it goes with its session

LookupStep(l) ==
  \/ SettleLate(l) \/ WikipediaDown(l)
  \/ \E got \in BOOLEAN : \/ Return(l, got) \/ SearchEnds(l, got) \/ LeadsRead(l, got)
                          \/ \E tier \in NetworkTiers : SiteAnswers(l, tier, got)

EvidenceNext ==
  \/ \E l \in Lookups : LookupStep(l) \/ \E s \in Retrievers, t \in Topics : BeginLookup(l, s, t)
  \/ \E s \in Retrievers : Retire(s)

\* Requests time out and tasks run.
EvidenceFair == \A l \in Lookups : WF_evidenceVars(LookupStep(l))

EvidenceSpec == EvidenceInit /\ [][EvidenceNext]_evidenceVars /\ EvidenceFair

-----------------------------------------------------------------------------
\* At most one Kiwix search runs, whichever sessions ask, and the slot is taken exactly as long:
\* through a cancel, too, or no search would ever run again.
SearchesAlone ==
  /\ Cardinality({l \in Lookups : lookups[l].at["wikipedia"] = "search"}) <= 1
  /\ searching = (\E l \in Lookups : lookups[l].at["wikipedia"] = "search")

\* A topic is cached once and only with evidence: an empty answer, cached, would keep the
\* network from being asked about the topic ever again.
CacheIsEarned ==
  \A s \in Retrievers : \A i \in DOMAIN topicCache[s] :
    /\ topicCache[s][i].some
    /\ CachedFor(s, topicCache[s][i].topic) = {i}

\* Of a session that was closed between two lookups nothing runs on, and no client is left open.
RetiredIsQuiet ==
  \A s \in retired \ caught :
    /\ ~httpOpen[s]
    /\ \A l \in Lookups : lookups[l].by = s => ~Going(l) /\ BusyTiers(l) = {}

EvidenceSafe == EvidenceTypeOK /\ SearchesAlone /\ CacheIsEarned /\ RetiredIsQuiet

\* Every lookup returns and every late tier ends, and with them the slot is free.
LookupsEnd == \A l \in Lookups : Going(l) ~> ~Going(l)

\* Lookups share the slot and the cache as they should, and end.
LookupsSettle == []EvidenceSafe /\ LookupsEnd
=============================================================================
