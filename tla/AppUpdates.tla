----------------------------- MODULE AppUpdates -----------------------------
(***************************************************************************)
(* The Android app's offer to update itself (lib/updater.ts, useUpdater,   *)
(* UpdateBanner): it asks GitHub for the newest published build, shows a   *)
(* banner for one that is newer than itself, and downloads and installs it *)
(* when tapped.  Checks and the download run beside each other; a check    *)
(* may move an offer, never a download.                                    *)
(*                                                                         *)
(* The app may go to the background, be killed, or be replaced by the      *)
(* build it installed: a process starts with nothing of the last one's.    *)
(***************************************************************************)
EXTENDS Integers, FiniteSetsExt

CONSTANTS
  MaxVersion,   \* bound: versions of builds are 1..MaxVersion, the app is of 0 at first
  MaxReleases,  \* bound: publications and withdrawals
  MaxFailed,    \* bound: checks that fail
  MaxSpells     \* bound: spells in the background, and relaunches

ASSUME UpdateAssumption == {MaxVersion, MaxReleases, MaxFailed, MaxSpells} \subseteq Nat

VARIABLES
  builds,      \* builds of the recent releases that are neither drafts nor prereleases
  installed,   \* the running build
  banner,      \* the state of useUpdater
  leaving,     \* whether an offer taken back is still sliding out
  offer,       \* pending.current, or 0
  dismissed,   \* dismissed.current, or 0
  lookup,      \* what the check in flight waits for or has found (checking.current)
  sinceCheck,  \* how long ago lastCheckAt is
  fetching,    \* the build that the native module downloads, or 0
  inFront,     \* AppState is "active"
  updateUpsets \* publications, failed checks and spells so far

updateVars == <<builds, installed, banner, leaving, offer, dismissed, lookup, sinceCheck,
                fetching, inFront, updateUpsets>>

Hidden       == [kind |-> "hidden", version |-> 0]
Banner(k, v) == [kind |-> k, version |-> v]
NoLookup     == [at |-> "none", found |-> 0]

Versions == 1..MaxVersion

\* latestApkUpdate: the newest published build, if it is newer than the running one.
Newer(among) == {v \in among : v > installed}
Newest(among) == IF Newer(among) = {} THEN 0 ELSE Max(Newer(among))

UpdateInit ==
  /\ builds = {} /\ installed = 0
  /\ banner = Hidden /\ leaving = FALSE /\ offer = 0 /\ dismissed = 0
  /\ lookup = NoLookup /\ sinceCheck = "long"
  /\ fetching = 0 /\ inFront = TRUE
  /\ updateUpsets = [changes |-> 0, failed |-> 0, spells |-> 0]

Upset(what, max) ==
  updateUpsets[what] < max /\ updateUpsets' = [updateUpsets EXCEPT ![what] = @ + 1]

-----------------------------------------------------------------------------
(* runCheck: triggered often, throttled, silent when it fails.             *)

\* The Live tab's check needs a shorter gap than the others.
MayCheck(gapOver) == lookup = NoLookup /\ sinceCheck \in gapOver
CheckNow ==
  /\ lookup' = [at |-> "asked", found |-> 0] /\ sinceCheck' = "none"
  /\ UNCHANGED <<builds, installed, banner, leaving, offer, dismissed, fetching, inFront, updateUpsets>>
IntervalCheck == inFront /\ MayCheck({"long"}) /\ CheckNow
LiveTabCheck  == inFront /\ MayCheck({"long", "short"}) /\ CheckNow

ReleasesFetched ==
  /\ lookup.at = "asked"
  /\ lookup' = [at |-> "fetched", found |-> Newest(builds)]
  /\ UNCHANGED <<builds, installed, banner, leaving, offer, dismissed, sinceCheck, fetching,
                 inFront, updateUpsets>>

LookupFails ==
  /\ lookup.at = "asked" /\ lookup' = NoLookup /\ Upset("failed", MaxFailed)
  /\ UNCHANGED <<builds, installed, banner, leaving, offer, dismissed, sinceCheck, fetching, inFront>>

\* applyCheckResult.
WantedBuild(v) == v # 0 /\ v # dismissed
FoldedAlways(v) == IF WantedBuild(v) THEN Banner("available", v) ELSE Hidden
Folded(v) ==
  IF banner.kind \notin {"hidden", "available"} THEN banner
  ELSE IF WantedBuild(v) THEN Banner("available", v) ELSE Hidden

\* An offer that is gone from the banner may still be taken up, so it stays pending.
CheckApplied ==
  /\ lookup.at = "fetched" /\ lookup' = NoLookup
  /\ offer' = IF WantedBuild(lookup.found) THEN lookup.found ELSE offer
  /\ banner' = Folded(lookup.found)
  /\ leaving' = ((leaving \/ banner # Hidden) /\ banner' = Hidden)
  /\ UNCHANGED <<builds, installed, dismissed, sinceCheck, fetching, inFront, updateUpsets>>

-----------------------------------------------------------------------------
(* The banner's buttons and the native module.                             *)

\* What slides out is an offer: nothing else is ever taken back.
Offered == banner.kind = "available" \/ leaving

\* act() and start(): "Update", "Install" and "Retry" download the pending build.  There is no
\* button while one is downloading.
Act ==
  /\ Offered \/ banner.kind \in {"installing", "failed"}
  /\ offer # 0
  /\ banner' = Banner("downloading", offer) /\ fetching' = offer /\ leaving' = FALSE
  /\ UNCHANGED <<builds, installed, offer, dismissed, lookup, sinceCheck, inFront, updateUpsets>>

Dismiss ==
  /\ Offered
  /\ dismissed' = IF banner = Hidden THEN dismissed ELSE banner.version
  /\ banner' = Hidden /\ leaving' = TRUE
  /\ UNCHANGED <<builds, installed, offer, lookup, sinceCheck, fetching, inFront, updateUpsets>>

SlidOut ==
  /\ leaving /\ leaving' = FALSE
  /\ UNCHANGED <<builds, installed, banner, offer, dismissed, lookup, sinceCheck, fetching,
                 inFront, updateUpsets>>

\* The build is in the system installer's hands, or it is not for want of a permission or by a
\* failure: the banner says so whatever it showed.
DownloadEnds(k) ==
  /\ fetching # 0
  /\ banner' = Banner(k, fetching) /\ fetching' = 0 /\ leaving' = FALSE
  /\ UNCHANGED <<builds, installed, offer, dismissed, lookup, sinceCheck, inFront, updateUpsets>>

-----------------------------------------------------------------------------
(* GitHub, the phone and time.                                             *)

Publish(v) ==
  /\ v \notin builds /\ Upset("changes", MaxReleases) /\ builds' = builds \cup {v}
  /\ UNCHANGED <<installed, banner, leaving, offer, dismissed, lookup, sinceCheck, fetching, inFront>>
Withdraw(v) ==
  /\ v \in builds /\ Upset("changes", MaxReleases) /\ builds' = builds \ {v}
  /\ UNCHANGED <<installed, banner, leaving, offer, dismissed, lookup, sinceCheck, fetching, inFront>>

TimePasses ==
  /\ sinceCheck # "long"
  /\ sinceCheck' = IF sinceCheck = "none" THEN "short" ELSE "long"
  /\ UNCHANGED <<builds, installed, banner, leaving, offer, dismissed, lookup, fetching, inFront,
                 updateUpsets>>

GoesBack ==
  /\ inFront /\ Upset("spells", MaxSpells) /\ inFront' = FALSE
  /\ UNCHANGED <<builds, installed, banner, leaving, offer, dismissed, lookup, sinceCheck, fetching>>

\* Coming back is a trigger.
ComesBack ==
  /\ ~inFront /\ inFront' = TRUE
  /\ IF MayCheck({"long"})
     THEN lookup' = [at |-> "asked", found |-> 0] /\ sinceCheck' = "none"
     ELSE UNCHANGED <<lookup, sinceCheck>>
  /\ UNCHANGED <<builds, installed, banner, leaving, offer, dismissed, fetching, updateUpsets>>

\* A new process, of the build that was being installed or the same one, checks as it starts.
Relaunch ==
  /\ Upset("spells", MaxSpells)
  /\ installed' \in {installed} \cup (IF banner.kind = "installing" THEN {banner.version} ELSE {})
  /\ banner' = Hidden /\ leaving' = FALSE /\ offer' = 0 /\ dismissed' = 0
  /\ lookup' = [at |-> "asked", found |-> 0] /\ sinceCheck' = "none"
  /\ fetching' = 0 /\ inFront' = TRUE
  /\ UNCHANGED builds

UpdateNext ==
  \/ IntervalCheck \/ LiveTabCheck \/ ReleasesFetched \/ LookupFails \/ CheckApplied
  \/ Act \/ Dismiss \/ SlidOut \/ (\E k \in {"installing", "failed"} : DownloadEnds(k))
  \/ (\E v \in Versions : Publish(v) \/ Withdraw(v))
  \/ TimePasses \/ GoesBack \/ ComesBack \/ Relaunch

\* The timer fires, a fetch ends, and who left the app comes back.
UpdatesGoOn ==
  /\ WF_updateVars(TimePasses) /\ WF_updateVars(ComesBack)
  /\ WF_updateVars(ReleasesFetched \/ LookupFails) /\ WF_updateVars(CheckApplied)
UpdateFairness == UpdatesGoOn /\ WF_updateVars(IntervalCheck)

UpdateSpec == UpdateInit /\ [][UpdateNext]_updateVars /\ UpdateFairness

-----------------------------------------------------------------------------
(* Properties.                                                             *)

UpdateTypeOK ==
  /\ builds \subseteq Versions /\ {installed, offer, dismissed, fetching} \subseteq 0..MaxVersion
  /\ banner \in [kind : {"hidden", "available", "downloading", "installing", "failed"}, version : 0..MaxVersion]
  /\ lookup \in [at : {"none", "asked", "fetched"}, found : 0..MaxVersion]
  /\ leaving \in BOOLEAN /\ inFront \in BOOLEAN /\ sinceCheck \in {"none", "short", "long"}
  /\ updateUpsets \in [changes : 0..MaxReleases, failed : 0..MaxFailed, spells : 0..MaxSpells]

\* What the banner offers is newer than the app, has not just been dismissed, and is what a tap
\* on it downloads, however many checks came in since it was first shown.
OfferIsTaken ==
  /\ banner.kind = "available" =>
       banner.version > installed /\ banner.version # dismissed /\ offer = banner.version
  /\ offer # 0 => offer > installed

\* A download is shown as long as it runs: no check that ends meanwhile hides it, or puts the
\* offer of a newer build in its place, which a tap would download beside it.
DownloadIsShown == fetching # 0 <=> banner = Banner("downloading", fetching) /\ banner # Hidden

UpdateSafe == OfferIsTaken /\ DownloadIsShown

\* A build that stays the newest is offered without a relaunch, however many checks failed.
NewestIsOffered == <>[](Newest(builds) # 0 => banner # Hidden \/ dismissed = Newest(builds))

UpdatesOffered == [](UpdateTypeOK /\ UpdateSafe) /\ NewestIsOffered
=============================================================================
