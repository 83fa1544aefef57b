# Tenir: a TLA+ verification project

Tenir captures conversations. A browser or phone streams audio over a WebSocket to the `api`
service, which transcribes and translates it, raises cues, recognises music, keeps the transcript
in PostgreSQL and the audio in a store, and serves both back as History; a desktop client does the
same for screen meetings by their captions. Most of what can go wrong in it goes wrong *between* two
awaits: a socket dies and another resumes its session, a teardown of minutes runs while the next
sitting already records, a store fails half way, two requests read the same row, the process is
killed. This directory models those parts in TLA+, model-checks them with TLC on small instances,
and proves with TLAPS what can be proved for every instance.

    tlc -config RecordingAudio.cfg Recording        # any run, see section 4
    tlapm RecordingProofs.tla                       # any proof module, see section 6

`PROJECT.json` lists the components, the runs, one mutant per checked property (a plausible bug in
the code that makes TLC find the property violated), the hazards, the theorems, and the source lines
each definition translates. Paths below are relative to `src/`; `api/` stands for `src/api/src/api/`.

## 1. Inventory

The api is one process with one asyncio event loop and a thread pool in which every store call runs.
Code between two awaits is atomic with respect to everything else on the loop; a store call takes
effect at some moment of its await. Requests over the account store run in threads, and several
replicas may share one database: there, each statement is a step of its own.

| component | state | hard behaviour | what makes it correct | module |
|---|---|---|---|---|
| Session lifecycle and finalize (`api/session.py`), audio store, History delete | the row's status, `opened_at`, `audio_key`; the WAV; the buffer and its offset; `_closing`, `_unfinalized`, `_successor` | a teardown overlaps the next sitting; every store call may fail with its outcome unknown; a delete falls between two of them | no teardown closes a row somebody records into; audio lands on its timeline and none is lost; no WAV outlives its row; every close is finalized | `Recording`, `Conversation` |
| Capture sockets, registry, binding (`api/main.py`, `api/registry.py`) | handler locals, `_active`, `_start_locks`, `current_send`, `_disconnects` | any await of a handler is overtaken by another socket, a grace timer or an admin | one recorder per conversation, one owner per session, nothing outlives its account, every frame is answered | `SocketSessions` |
| Stale sweep and restart (`api/persistence/stale.py`) | `_pending`, rows left `live` | a crash anywhere; a retried sweep beside new sessions | orphans are finished, own recordings are not | `StaleSweep` |
| Replay after a resume (`Session.rebind`, the client's reducer) | replay window, capped buffer | no delivery is confirmed; frames are produced during the replay | what a dead socket swallowed comes again, once | `WarmResume` |
| Held transcript writes, late cues (`_store` to `_finalize`) | queue of writes per sitting | an outage against an error of one write; a cue that returns after the teardown | writes stay in order, none after `finish()` | `HeldWrites` |
| Translation run | open run, hold timer, job queue | a final that is decoding when silence ends the run | a run is in order, complete, and over | `TranslationRun` |
| Cue scheduling | floor timer, in-flight flag, recent cues | conditions re-checked after each await | cues do not crowd or repeat; a trigger set aside is taken up | `CueScheduler` |
| Fact checks and evidence (`api/cue/factcheck.py`, `cue/retrieval/live.py`) | read and search slots and a backoff all sessions share; a cache per session | checks and lookups go on after nobody waits for them | a slot is held by one request and given back; only a failing Kiwix is switched off; nothing empty is cached | `FactCheck`, `EvidenceLookup` |
| Music run | current song, end task, last match | a takeover or a late lyric across awaits | the box shows the run's song | `MusicRun` |
| Streaming speech-to-text (`api/stt/streaming.py`) | decode queue, pending partial, results | a decoder slower than speech, blank or failing; a drop or flush at any point | finals neither lost nor out of order; `finalizing` exact | `DecodeWorker`, `Transcriber` |
| Database pools (`api/persistence/postgres.py`) | pools per store, shared verdict, advisory lock; watchdogs | an opening that fails or dies half way; a watchdog firing during a return | schema first and whole; no one else's connection severed; borrows end | `PoolOpening`, `PoolBorrow` |
| Conversation store (`api/persistence/conversations.py`, `postgres.py`) | rows and their items | statements of other calls between the two of a create or reopen | both back ends answer alike | `ConversationStore`, `SqlStore` |
| Accounts and names (`api/auth/`) | user rows, device tokens, login names | replicas boot, sign in, edit and delete at once | the environment's admin stays; device caps; a name signs in its owner | `Accounts`, `Usernames` |
| Provider's signing keys (`api/auth/oidc.py`) | key set, time of the last refetch, without a lock | threads refetch at once; a slow fetch of the older set | refetches are bounded; a new key is accepted in the end | `OidcKeys` |
| Shared sign-in (client core `oidc.ts`, `auth.ts`, `api.ts`) | token, epoch and sidecar in `localStorage` | tabs refresh and sign in at once, answers get lost | no token acts for another user | `SharedSignIn` |
| Capture client (client core `ws.ts`, `captureSession.ts`) | socket, timers, microphone | a late event of an old socket; a refused resume | one live socket; a fatal end stops everything | `CaptureClient` |
| What a client shows (client core `captureSession.ts`) | turns, cue band with its timer and queue, song | re-deliveries, late timers, overlapping starts and stops | a cue is in one place, in order, and leaves the band | `CaptureView` |
| App updates (`mobile/src/lib/updater.ts`, `useUpdater.ts`) | banner, pending and dismissed build, check in flight | a check that ends during a download; relaunches | what is offered is what a tap downloads | `AppUpdates` |
| Screen meetings (`api/screen/meetings.py`, `ws.py`) | trackers, lanes, store rows | feed, sweep, shutdown and revoke of one tracker across store calls | lines are stored once, no meeting stays open | `ScreenMeetings` |
| Caption merger (`api/screen/merge.py`) | known lines and their segments, a held snapshot, folds | repeated times, inserted entries, lines dropped, folded and moved | the store follows the merger; lines are ordered as shown | `CaptionMerge` |
| Caption parsers' pool (`FairPool`) | a queue per user | wake-ups and a call that ends a job race | users take turns, no job is forgotten | `FairTurns` |
| Meeting delivery (`api/screen/turma.py`) | delivery state per row | lost acknowledgements, restarts, deletes | sent means taken; every delivery ends | `MeetingDelivery` |
| A PC's sockets (`api/auth/router.py`, `screen/ws.py`) | registries of tokens and users | a revoke between handshake and registration | no socket outlives its token unheard | `DeviceSockets` |
| Caption pane (`desktop/tenir_capture`, `screen/ws.py`) | the region told, the cadence | window, meeting and socket change independently | the client crops where the api said, on this socket | `CaptionPane` |
| Caption reader (`api/screen/ocr.py`, `ocr/server.py`) | engines, slots | an engine dies in the middle of a frame | every line read whole, in bounded time | `OcrReading` |
| Speech-to-text server (`parakeet-stt/server.py`) | model, negotiated arguments | a build that rejects an argument in mid-traffic | a rejected argument is not run twice | `SttServer` |
| Status, readiness (`api/status.py`, `readiness.py`) | last-good times; one shared probe | a flapping backend; a caller that hangs up | lights are true within their grace; answers are fresh | `StatusLights` |
| Language identification, caption geometry and text similarity, message schemas, configuration, model gateway | none, or per frame | — | heuristics tuned on samples | not modelled |
| Web and the rest of the mobile interface, evaluation scripts, deployment | — | — | — | not modelled |

How they interact:

    client ──/ws──▶ handler ──▶ registry (_active, _start_locks)
                      │  ▲
                      ▼  │ current_send, hooks
                    Session ──▶ row   (PostgreSQL: create/reopen, writes, set_audio_key, finish)
                      │    └──▶ WAV   (audio store: get, put, delete)
                      ├──▶ transcriber ──▶ speech-to-text server
                      └──▶ cues (evidence, fact checks ──▶ Kiwix), translation run, music run
      next sitting ◀── _closing, _unfinalized, _successor, _first_retain
      History delete ──▶ WAV, row, WAV
      admin delete   ──▶ user store, registry, Session.revoke, screen sockets
      boot / loop / start ──▶ stale sweep ──▶ row, audio_key
    capture PC ──/ws/screen──▶ lanes ──▶ tracker ──▶ row ──▶ delivery loop ──▶ hub
                                  └──▶ caption reader, caption parsers' pool

The models cut the system along interfaces, and what one assumes another shows:

* `Recording` assumes that sittings of one id open the row one after another (`MayStart`);
  `SessionsOwned` shows it, since the start lock excludes two starts and a warm session is rebound.
* `SocketSessions` assumes that a begun teardown ends; `TeardownsEnd` shows it.
* `Recording` starts from a row no other process writes; `SweepSafe` shows that the sweep spares it.
* `TranslationRun` is built over `Transcriber`, which `DecodeWorker` implements.
* `HeldWrites` queues items in the order of their places, as `SqlStore` assumes.

## 2. Plan

Done: the modules of section 3, each checked by a run of section 4, and the proofs of section 6. The
proofs cover every state invariant of a run but `MergeSafe`, whose `StoreFollows` is proved, and the
safety half of every property that also states liveness, but for one module's types. Left to prove:
the rest of `MergeSafe` and `SqlIsStore` (see the end of section 6). Left to model: the news search
of the retrieval, translations in the client's view, and the caption merger's `rename()` and its
bound on known lines.

## 3. Modules

### 3.1 A conversation

`Recording` is one conversation over several sittings. `row` is its row: `status`, `token` (the
`opened_at` by which `finish()` knows its own opening, named after the sitting that wrote it) and
`linked` (`audio_key` is set). `wav` is the stored audio as a sequence of chunks, a chunk being
`<<sitting, place>>`, so that a misplaced, doubled or missing one can be told. Each sitting is one
`Session`; `pc` is the await it is in; the other variables are the fields and locals of those names.

| code | actions |
|---|---|
| `start` | `StartFresh`, `StartResume`, `ReadOffset`, `OpenRow`/`OpenFault` (the `_create` thread), `Ready`, `StartFails` |
| `on_audio` | `Hear` |
| `close`, `close_all_sessions` | `Close`, `Shutdown` |
| `_retain_audio_after_prior`, `_persist_audio` | `AwaitPriorRetain`, `RetainNothing`, `RetainRead`, `RetainWrite`, `RetainFault`, `LinkKey`, `LinkFault`, `DropOrphan` |
| `_persist`, `_finalize`, `finish` | `Persist`, `AwaitCreate`, `Finalize`, `Finish`, `FinalizeFault` |
| `_finalize_deferred` | `Retry`, then the same steps |
| `delete_conversation` | `DeleteAudio`, `DeleteRow`, `DeleteFault`, `DeleteAudioAgain` |

A create or reopen that raises may or may not have written the row: both outcomes are explored.
`Conversation` is the abstract specification: the status History shows and the sitting recording, if
any. It is instantiated at the end of `Recording`, which maps `status` to the row's and
`recorder` to the sitting that has opened the row and is not closed; retains, ordering, deferral,
retries and the create thread of an abandoned start must then show nothing, or one of its steps.

`AudioKept` is claimed for one failed call of the audio store alone, or any number of outages of the
database alone (`FaultsSpared`). Two failed retains of one sitting, or both kinds of fault together,
do lose audio and move later audio up: retention is best effort. `NoOrphanAudio`, and of
`SettledRowIsReady` the part about the link, are claimed while the audio store works.
`ReadyMeansNobodyRecording` is claimed until a create or reopen has raised: such a sitting has no
`opened_at`, which is the first finding.

`HeldWrites` has the transcript writes of the same sittings. Each queues its items and stores them
in order off its pump; an outage holds the queue, an error of one write drops that write; a cue that
returns after its sitting closed is handed to the sitting that records on.

### 3.2 Sockets and what they miss

`SocketSessions`: a handler is a socket's coroutine in `ws_endpoint`, `pc` the await it is in,
`sess` its session, `displaced` and `dropping` what another socket's takeover or a revoke sets. A
session has a `phase`, the id it records under, `send` (`current_send`), `detached` (its grace task
is pending), `hooks` (`_disconnects`) and `revoked`. `active` and `lock` are the registry's. The
actions are the handler from one await to the next, and the tasks beside it: grace timer, teardown,
account delete with its revokes, recording delete. Sockets are those of one account, since another
household's id is refused before any of this. `OneRecorder` leaves out a session that `delete_user`
is closing in the same turn of the loop. `GoneMeansClosing` is claimed while no account read has
raised: the re-check that cannot be read counts as alive, deliberately. Once `MaxStarts` sessions
exist no further start is explored.

`WarmResume` is what a client has of a session: `made` are the turns with their times, `recent` and
`buffer` are the replay window and the capped buffer, `replay` the batch a resume is sending, and the
client's dedupe decides what it keeps. A dead socket swallows frames until the ping timeout gives it
up. The length cap of `_recent` is left out; times along it never decrease, so the window is a suffix.

`SharedSignIn` has the tabs of one browser over one `localStorage`; `CaptureClient` a client's
socket, timers and microphone. `CaptureView` is what the client shows: a handler is one action;
times are relative to now, so that a late timer is one whose time is not positive (`Floor`: how late
can matter). `start()` awaits (`opening`), so calls of it and of `stop()` overlap, and a client may
deliver after a stop. `AppUpdates` is the phone app's updater: `lookup` is the check in flight,
`offer` and `dismissed` the refs, `fetching` the native download. In `CaptureClient` a session is
started once in the run: a `stop()` during the microphone's await of `start()` leaves the microphone
open, a known gap of the code.

### 3.3 Parts of one session

`Transcriber` is what a session relies on: turns are decided in the order they were spoken, several
at once if need be, each becoming part of one final or of none, and `finalizing` stays set until the
consumer has handled it. `DecodeWorker` is the worker with its queue, coalescing of a backlog,
partials, blank finals and their retries, the outage with its back-off and budget, flush and a pump
that dies. `TranslationRun` builds on `Transcriber`. `CueScheduler` and `MusicRun` are the attempts
at a cue and the song run with what is checked again after each await.

`FactCheck` is one session's checks of cues, with the read slots and the backoff that all sessions
share; the others hold slots and see Kiwix fail. Time is what is left of a check's budget: Kiwix's
full limit, less, nothing. `wronglyDown` is a history variable: a trip that was no fault of Kiwix.
`EvidenceLookup` has several sessions' retrievers with their caches, the one search slot, and what a
close cancels; which evidence is used, and the local news, are left out.

| code | actions |
|---|---|
| `FactChecker.contradiction`, `_book_path`, `_reference` | `StartCheck`, `NoTitles`, `Propose`, `CatalogAnswers`/`Fails`/`TimesOut`, `TakeSlot`, `NoSlotInTime`, `ReadAnswered`/`Errs`/`TimesOut`, `Judge`, `Verdict` |
| `Session._cue_contradicted` | `ShowUnchecked`, after which the check's thread goes on |
| `retrieve`, `_settle_late`, `close` | `BeginLookup`, `Return`, `SettleLate`, `Retire` |
| `_wikipedia_tier`, `_kiwix_search`, `_searxng_tier` | `SiteAnswers`, `WikipediaDown`, `SearchEnds`, `LeadsRead` |

### 3.4 Stores, accounts, replicas

`ConversationStore` is the store as kept in memory, each call one step; `SqlStore` the database's,
with the second read of a create or reopen on a connection of its own. Search is not modelled, and the
two back ends differ in it (section 8).
Another household's id and equal `first_seen` times are not modelled.

`Accounts` has replicas that seed the environment's admin, sign-ins that resolve an identity by
subject, verified email or a new row, edits, deletes and device tokens, statement by statement.
Names are left out of it: any row that is not the environment's may have the name its admin is to get
(`NameMayClash`). A seeding can therefore end without an admin, given up (`gaveUp`) because the name is
taken or a statement failed for good, and the boot goes on, as in `reconcile_admin` and
`get_user_store`. `EnvAdminStays` claims the admin's row from the first seeding on that ended otherwise
(`done`), and for ever after.
`Usernames` has the names of older releases: padded, of other case, in compatibility forms.
`NameBounds` leaves out old names that differ in case alone beside a racing create: neither index
exists then. `PoolOpening` and `PoolBorrow` are the opening of the pools and the borrowing from them
(its breaker `unreachable`, which only shortens waits, is left out). `StaleSweep` is restart and
sweep: boot, retry loop and starting sessions over rows, WAVs and links, with a crash between any
two steps.

`OidcKeys` has threads that verify tokens over one cached key set, from one read or write of it to
the next: `AskOidc`, `CheckWindow`, `Stamp`, `FetchAnswered` or `FetchFails`, `LoadKeys`, `Judged`.
Time is whether the refetch interval has passed, and nobody is held up that long between reading the
clock and stamping.

### 3.5 Screen meetings and the servers behind

`ScreenMeetings`, `FairTurns`, `MeetingDelivery`, `DeviceSockets` and `CaptionPane` are a PC's
captions from its sockets to the hub; `OcrReading` and `SttServer` the servers; `StatusLights` what
is told about them, by the status page and by `/ready`. In `ScreenMeetings` a lane is the task of
one socket and region, `at` the await it is in, `holder` and `waiters` the tracker's lock, `sweeper`
the idle sweep. The run has one connection of a window at a time and `StoredOnce` is claimed there;
for overlapping ones it needs `LeavesNobody` (sections 6 and 7). `FinalIsOwed` excuses, as
`cutLines`, the lines of a lane that is cancelled right after its feed and of a start whose people
cannot be stored. In `CaptionPane` (`untold`) a meeting whose people could not be stored right after
its row was created is open without its cadence being told, and a frame of a half-open older socket
may take `notify` over. In `SttServer` a rejected call drops every optional argument when the
signature tells nothing, and a failed load leaves `/health` at 503.

In `MeetingDelivery` the hub's answer to a meeting is fixed: taken, none, "not now" (`busy`), or a
refusal for good that a restart re-queues (`barred`) or does not (`refused`, as `_deliver` itself
refuses a meeting it cannot send). The busy meetings are of one org, the rest of which a pass leaves
out after the first such answer, given up or not.

`CaptionMerge` is the merger of one meeting, with the lines carried over from the ended one on the
same window. A snapshot is a list of rows, each a match, misread, glitch, inserted entry, new line
or rewrite, in every order-preserving way (`Snapshots`); `Merges` is `_merge` rule by rule, each of
which may take or leave what it judges by its text: `Walked`, `Folded`, `Reflowed`, `Grown`,
`SaidOn`, `SettledAt`. `Feed` is `feed`, with a snapshot held for its names (`FeedHeld`,
`FeedRenamed`, `FeedBoth`) and the work budget (`FeedRefused`); `FlushMerger` is `flush`.
`storeCopy` is what the tracker stores of the segments it is given. Left out are `rename()`, the
bound on known lines (`_KEEP`), a segment's end, a speaker that is filled in after the line was
finalized, and more than one re-flowed entry in a frame (`_reflow` looks at every block). `MergeSafe` is claimed while the ended meeting's
lines are on top (`OldOnTop`): see section 7.

### 3.6 Suites

Components that share no state are explored one after another in one model: `SessionParts`,
`ServingParts`, `KeptParts` and `EndingParts` extend theirs, `part` says which one moves, the others
stay in an initial state. `MCSocketSessions` adds the symmetry and the constraint of its run; values
that a .cfg cannot write are at the end of the suites. Where two parts promise things of one kind, a
property of the suite is the conjunction of theirs (`CuesAreMade`, `PoolsServe`, `KeysFollow`,
`HealthIsTrue`, `MeetingsReachHub`), each named there.


## 4. Runs and bounds

Each passing run ends with every action of its specification taken, and each property it checks has a
mutant of the code that violates it under the same configuration.

| run | module, configuration | properties | bounds |
|---|---|---|---|
| `recording_audio` | `Recording`, `RecordingAudio` | `TypeOK`, `ReadyMeansNobodyRecording`, `SettledRowIsReady`, `AudioKept` | 3 sittings, 3 chunks; 1 failed create or reopen, 2 failed writes, 1 failed audio-store call |
| `recording_refines` | `Recording`, `RecordingRefines` | `NoOrphanAudio`, `ImplementsConversation`, `TeardownsEnd` | 3 sittings, 1 chunk, 1 failed write, 1 History delete; fair |
| `sockets_owned` | `MCSocketSessions`, `SocketsOwned` | `SessionsOwned`, `RevocationSafe` | 3 symmetric sockets, 3 starts, 1 failed read, 1 recording delete, 1 account delete |
| `sockets_answered` | `SocketSessions`, `SocketsAnswered` | `SocketsSettle` | 2 sockets, 3 starts; fair |
| `session_parts` | `SessionParts` | `DecodeSafe`, `BoxIsRun`, `TranslationSafe`, `CueSafe`, `ImplementsTranscriber`, `RunsEnd`, `CuesAreMade` | 3 cut turns, 3 translated turns and 1 resume, 3 finals, 3 songs; 2 checks at once over 1 read slot, 2 sessions' lookups; fair |
| `serving_parts` | `ServingParts` | `PoolsServe`, `KeysFollow`, `TurnsAreFair`, `FramesAreRead`, `SttServed`, `HealthIsTrue`, `DevicesFollowTokens`, `PaneFollowed`, `CuesTakeTurns`, `UpdatesOffered` | 2 borrowers, connections, users, frames, devices, verifying threads; 3 requests of the model server and of `/ready`; 3 cues with 1 place each in queue and transcript; 3 publications; one or two upsets each; fair |
| `kept_parts` | `KeptParts` | `RecentIsHeld`, `SignInSafe`, `WritesSafe`, `AccountsSafe`, `MergeSafe`, `SqlIsStore`, `ReadyIsFinal`, `LoginsStay` | 2 tabs, users, replicas, requests and sittings; 3 queued writes, 2 failures; 1 change of groups or failed statement of a seeding; a person who is at first a verified admin or an unverified member; an old row of the conversation that is not written; 3 snapshots of 2 rows over 3 lines, one of them carried; symmetric |
| `ending_parts` | `EndingParts` | `SweepSafe`, `StoredIsLinked`, `MeetingsReachHub`, `OrphansHealed`, `CaptureEnds` | 2 recordings, 2 crashes, 2 faults, 3 sittings; 1 caption socket, 3 frames; 2 deliveries; 1 capture; fair |
| `recording_finish_race` | `Recording` | `LiveRowStaysLive`, violated | 3 sittings, 1 failed reopen, 1 failed write |
| `recording_clobbered` | `Recording` | `StoredStays`, violated | 2 sittings, 2 chunks, 1 failed write, 2 failed audio-store calls |
| `music_takeover` | `MusicRun` | `RunCanEnd`, violated | 4 songs |
| `pane_lost` | `CaptionPane`, `CaptionPaneLost` | `PaneLocatedAgain`, violated | 1 meeting, 1 upset, 2 connections |

Why these bounds are enough to mean something:

* **Three sittings** are the smallest number at which a teardown overlaps a successor that is itself
  resumed before the teardown is over: two teardowns and a recording at once, and every pair of them
  with one between. Two chunks can be swapped or doubled; the third tells an append in the wrong
  place from one at the end. For any number of sittings, chunks and faults section 6 proves what the
  invariants say.
* **Three sockets and three starts** allow one to hold a session, one to take it over and one to
  start anew while the first is still in an await. `ThirdIsFaultless` lets the third run only while
  neither the account nor a recording is deleted and no read has failed, which keeps the run within
  minutes; the theorems do not have it.
* **Two of everything else** (tabs, replicas, requests, devices, pool connections): the properties
  of those parts are about one step of one actor between two steps of another. A third request of
  the readiness probe and of the model server is there because a third one finds what the second
  left.
* **Three snapshots of two rows** let a line be stored by one, moved, regrown or folded by the next
  and dropped or renamed by the third; steps of nothing and of two make every deadline of the merger
  pass or not pass between two of them.
* **Two checks over one slot** are what a check that nobody waits for and its successor need to
  meet; two sessions, what a cancelled search and a foreign one.
* **Faults** are budgets of their own, so that a trace holds the ones that matter together: a write
  fails twice where a retry follows, a process crashes twice where the second boot must heal the
  first's half-done work.

A system that has really stopped (every sitting finished, every budget spent, nothing left to end) is
no error: those runs say `CHECK_DEADLOCK FALSE`. `recording_audio`, `recording_refines`, both
recording violations and `sockets_owned` have an action for the idle end state and check deadlock.

## 5. Fairness

Weak fairness is stated per actor and per step, and only of what the process itself will do:

* a store or model call in a thread ends, with success or an error: each has a client timeout or a
  statement timeout, and both outcomes are actions;
* the event loop runs what is ready: the continuation of a handler, teardown, pump or task whose
  await is over, and a timer that has been armed (grace, hold, floor, watchdog, idle sweep, poll);
* threads of a pool that were woken run.

Nothing else is fair. No client has to speak, end or come back, no user or admin to act, no fault to
happen or to stop happening except by its budget (which stands for "outages end"). In `AppUpdates`
the user who left the app comes back, and in `CaptureView` nothing is fair but the clock and a timer
that is due, which fires however late. Strong fairness is used twice: in `CaptureClient`, for a
reconnecting socket that is answered at some time if it tries for ever (the client retries without
end, and a server that refuses every attempt is outside what it promises), and in `OidcKeys`, for
users whose key is published but not known, who go on signing in: nothing else ever refetches the
keys. `sockets_answered` needs every handler's steps to be fair and no client's, `ending_parts` the
sweep loop, the idle sweep, the delivery loop and the client's timers.

## 6. Proofs

Every theorem holds for every value of the constants its module admits. The only assumptions are the
named ASSUMEs on bounds (that they are numbers, that a cap is positive), which TLC evaluates in the
runs. Every INVARIANT of a passing run is proved, of `MergeSafe` the part `StoreFollows`, as are two
PROPERTYs (`ReadyIsFinal`, `LoginsStay`), the steps of both refinements, the action properties in
`CueTiming`, and the safety halves of the other properties of `serving_parts`, of both parts' in
`CuesAreMade` besides `CueTiming` (`ChecksSettle`, `LookupsSettle`), of `CaptureEnds` and of
`MeetingsReachHub`, there but for the types of its meetings.

| theorem | states | of |
|---|---|---|
| `RecordingProofs!TypeCorrect`, `ReadyIsSafe` | `Spec => []TypeOK`, `[]ReadyMeansNobodyRecording` | `Recording` |
| `RecordingProofs!ImplementsSafely` | while no create or reopen has raised, every step of `Recording` is one of `Conversation` or a stutter | `Recording` |
| `RecordingAudioProofs!RowSettles`, `NoOrphanIsLeft`, `AudioIsKept` | `[]SettledRowIsReady`, `[]NoOrphanAudio`, `[]AudioKept` | `Recording` |
| `SocketSessionsProofs!SessionsAreOwned`, `RevocationIsSafe` | `[]SessionsOwned`, `[]RevocationSafe` | `SocketSessions` |
| `EndingProofs!SweepTypes`, `SweepIsSafe`, `AudioIsLinked` | `[]SweepTypeOK`, `[]SweepSafe`, `[]StoredIsLinked` | `StaleSweep` |
| `EndingProofs!OneSocketEach`, `SentWasTaken` | the safety half of `CaptureEnds`; `[]SentIsHeld` of `DeliveryEnds` | `CaptureClient`, `MeetingDelivery` |
| `EndingProofs!NothingIsForgotten`, `OneSocketStoresOnce` | `[]FinalIsOwed` for any sockets, `[]StoredOnce` where there is one: the safety half of `MeetingsEnd` but for its types | `ScreenMeetings` |
| `EndingProofs!LinesAreStoredOnce` | `[]StoredOnce` for any sockets, under `[][LeavesNobody]_meetingVars` | `ScreenMeetings` |
| `KeptProofs!WritesAreSafe`, `ReadyStays` | `[]WritesSafe`; the action property `ReadyIsFinal` | `HeldWrites` |
| `KeptProofs!ResumesAreWhole` | `[]RecentIsHeld` | `WarmResume` |
| `KeptProofs!EmittedIsStored` | `[]StoreFollows`, a part of `MergeSafe` | `CaptionMerge` |
| `AccountsProofs!AccountsAreSafe`, `SignInIsSafe` | `[]AccountsSafe`, `[]SignInSafe` | `Accounts`, `SharedSignIn` |
| `AccountsProofs!LoginsAreKept` | `LoginsStay`, whole: an action property and an invariant | `Usernames` |
| `SessionProofs!DecodesAreSafe`, `RunOwnsBox` | `[]DecodeSafe`, `[]BoxIsRun` | `DecodeWorker`, `MusicRun` |
| `SessionProofs!DecidesInOrder` | every step of `DecodeWorker` is one of `Transcriber` or a stutter (`TranscriberSteps`) | `ImplementsTranscriber` |
| `SessionProofs!TranslationsAreSafe`, `CuesAreSafe` | `[]TranslationSafe`, `[]CueSafe` | `TranslationRun`, `CueScheduler` |
| `SessionProofs!CuesKeepApart` | the action properties `AttemptsAreApart` and `ShownInTheOpen` of `CueTiming` | `CueScheduler` |
| `SessionProofs!ChecksAreFair`, `SearchesAreShared` | the safety halves of `ChecksSettle`, `LookupsSettle` in `CuesAreMade` | `FactCheck`, `EvidenceLookup` |
| `ServingProofs!OpensAreSafe`, `BorrowsAreSafe` | the safety halves of `PoolsOpen`, `BorrowsBounded` | `PoolOpening`, `PoolBorrow` |
| `ServingProofs!TurnsAreTaken`, `FramesAreWhole` | those of `TurnsAreFair`, `FramesAreRead` | `FairTurns`, `OcrReading` |
| `ServingProofs!SttIsServed`, `AnswersAreFresh`, `RedIsEarned` | those of `SttServed`, `ReadyAnswers`, `LightsAreTrue` | `SttServer`, `StatusLights` |
| `ServingProofs!DevicesAreSafe`, `PaneIsTold` | those of `DevicesFollowTokens`, `PaneFollowed` | `DeviceSockets`, `CaptionPane` |
| `ServingProofs!KeysAreSpared`, `CuesAreOrdered`, `OffersAreTaken` | those of `KeysFollow`, `CuesTakeTurns`, `UpdatesOffered` | `OidcKeys`, `CaptureView`, `AppUpdates` |

No invariant below is inductive by itself. What each proof adds is the reason the code is right.

**Ownership of a row** (`OwnershipInv`). `finish()` sets the status, and what keeps it from doing so at
the wrong moment lies elsewhere: a sitting starts only after every earlier one was closed and its
create thread is over (`Sequential`); how far the thread is at each step of a sitting (`StepsInOrder`);
a reopen that found no row means a deleted conversation (`RowKnown`); and, while no create or reopen
has raised, the row's `opened_at` is that of the last sitting to open it (`TokenIsLastOpener`). A
`finish()` that matches therefore belongs to the last opener, and everybody before it is closed. The
premise of the last conjunct is exactly what the first finding violates.

**The refinement.** `Sequential` makes `recorder` well defined. `OpenRow` is a take, a take for nobody
or, on a deleted row, a stutter, for which `Written` and `TokenIsLastOpener` are needed because a
first sitting's create is an upsert. The fairness of `Conversation` stays with TLC.

**Audio.** `ControlInv` says what a teardown relies on at each of its awaits (whom it waits for, that
the one it waits for started earlier). `SettlingInv`: whoever leaves the row live leaves it to
somebody that will finish it, and stored audio without a link is owed one. `AudioInv`: audio that is
not stored yet belongs to a sitting for which every later one waits, so that a retain writes exactly
at the end of the WAV; it counts the failed calls, and is where `FaultsSpared` comes from.

**Sockets.** A start lock is held from the lookup to the registration, an id is in the registry before
it is opened again, a handler bound to a session is hooked and is the one sent to. A second owner of
a session would have to pass one of these, and the two-phase revoke finds each of the three places a
session can be in.

**The sweep.** While a sweep is owed no session has passed its own attempt at it; whoever holds the
lock still owes it. `AudioIsLinked` follows a WAV from its store to its link: the row is open while
one is kept, what was found is listed once, and the listed one is linked or listed again.

**Capture and delivery.** A start that has not got the microphone has touched nothing of its client
(`UntouchedBefore`), so that it cannot open a second socket. A pass that holds an answer "taken" holds
it about a meeting that the hub has (`HeldIfOk`), through deletes, re-queues and restarts.

**Meetings.** A lane works on a tracker under its lock, and every await of it keeps the lock, so
others at that tracker have nothing in their hands (`LockKept`, lemma `Alone`). Hence what a lane
fed is still of the meeting that is open, or of the one it is about to start where the last one
ended (`HandsFit`), and each line counted final can be followed from the merger to the row
(`AllOwed`). That no second meeting gets it is about trackers: whoever has one has the registered
one (`Attached`), and all rows of ended meetings hold lines no later than where the next merger
begins, whether the tracker, a remade one or the carried lines know that (`Past`, `Base`).
`Attached` is what a socket breaks that goes away while it is the one to notify and another's frame
still waits; `LeavesNobody` says that none does, and holds by itself where there is one socket.

**Held writes.** The lanes of the sittings are drained in a chain (`Lanes`, `Drained`, `Chain`), which
keeps each sitting's items in the order it queued them (`InOrder`); a `finish()` comes behind all.

**Resumes.** `ResumeInv` accounts for every turn: held by the client, buffered, in the batch of the
replay, in the window, or older than it. Times along the window do not decrease, so what is cut off
is a prefix.

**Accounts.** A request reads its row in one transaction and acts on it in another. Rows are numbered
and a number is never used again (`Fresh`), what was checked still holds (`InHand`), a replica that
found the admin's row finds it again (`Seeded`). A seeding that is given up promises nothing, and one
that ends otherwise has made the row or found it, which no later step removes.

**Names.** A name is written some statements after it was found free, under an index that may not see
the padding of old names. No row ever becomes padded, so what a check found free of padded keys stays
so (`PadsClear`); a row that a boot has still to strip holds the name that was read, or one written
since whose key nobody else has (`StillRead`). So each write puts a key that no other row has, and
among the rows a name finds the first stays first (`LoginIsFirst`), with the one exception stated.

**Shared sign-in.** No refresh token is stored twice; hence "the sidecar is still what I sent" means
that nobody signed in meanwhile.

**Decoding.** Nothing captions a turn not yet spoken (`TurnsSpoken`), what the worker may have in its
hands (`WorkShape`), and whose a partial is on its whole way (`PartialsOwned`): a blank final may fall
back on the partial shown since that can only be its own turn's. That the worker implements
`Transcriber` needs that the undecided turns form a row, the first of them in its hands and the rest
queued behind (`TurnsInRow`), so that it decides the lowest, and that the finals the transcriber has
not handed over are those among the results, in their order (`FinalTurns`).

**The song run.** A lookup in progress has a run number left to give, a retry was started for a run
that was active (`MusicInv`).

**The translation run.** What is sent, in the worker and queued is one stream (`StreamInOrder`): an
entry that may precede the open run may precede all that run will queue. A run ends by silence only
when nothing spoken under it is still on its way (`BegunAreDecided`).

**Cues.** Every subject shown is remembered and none is shown during a call but its own
(`SubjectsKnown`), so the test before a fact check still holds after it; a turn is missed only once
the floor has lapsed (`MissedLate`).

**Fact checks.** Slots are asked for and held only by reads of checks that are at their reads
(`ReadsInTime`). A session waits for one check at a time, and those that go on without it have no
time left (`WaitedAlone`), so the limit remembered is the waited check's own (`LimitIsOwn`), and a
wait that its budget cut short is not taken for Kiwix's fault. Checks that nobody waits for are left
out: see section 7.

**Lookups.** The one search slot is the one search under way, of whatever session (`SlotIsSearch`); a
number that nobody holds is at rest, and so is a session that was closed between two lookups
(`IdleRests`, `RetiredRests`), so nothing of it settles late; and a topic is cached once (`CacheHolds`).

**The provider's keys.** Threads refetch without a lock. Once the window is over, each refetch counted
in it is one of a thread that asked before and has yet to stamp it (`RefetchesOwned`), so there are at
most as many as threads.

**What a client shows.** A round of the band releases its cue to the transcript and lets the next one
up: it may leave a cue out of the line but never swaps two (`Thins`, lemmas `ReleasesWell`,
`AdvancesWell`), and a new cue joins at the line's end (`PlacesWell`). Turns are held once, so a cue's
turn stays where it is when others come (`TurnsGrow`), and the last turn is behind that of every cue
shown (`CueFollows`).

**The caption merger.** `Keeps` says of a merger half way through a snapshot that a segment it has
changed is among those it will return. Every rule of the merge preserves it, whichever lines it takes
(lemmas `RetextKeeps`, `DropKeeps`, `PlaceAboveKeeps`, ...), hence so do the walk over the rows and the
growths, by induction over the rows (`WalkedKeeps`, `GrownKeeps`), and any order of the rules.

**Updates.** What a check found is newer than the app, what slides out is hidden already, and what is
shown as downloading is being fetched (`UpdateInv`); so the end of another check cannot take its place.

**Pools.** One thread of a process opens at a time, and only without a fresh failure, so a window has
one failure to count; what a pool is cached over was applied when its thread passed the apply. A
watchdog that may still sever watches a borrow that is at work, because disarming takes the lock that
severing holds.

**Turns at the caption pool.** A user with waiting jobs stands once in the line, and who stands
there has jobs (`LineServes`). `PassedInTurn` strengthens what a waiting job promises to its place
in its user's queue: what another user started since, plus its place in that queue, plus one if that
user stands before its own in the line, stays under what waited when it was asked for, and two. Each
turn taken moves one unit between these terms.

**Frames.** The strip that begins last before a line, less the cut edge, holds the line whole, for the
overlap is wider than the line and both edges (`StripsCover`); so does one of the halves of a piece
that held it (`HalvesCover`). Every line is then, at any time, in a piece still to post or in one read
(`CoveredBy`); `posts` is bounded together with what is left to post.

**Servers, lights and probes.** No timer of the status page starts before its component was last
heard (`TimersAreHonest`), except one this pass will stop. A probe of `/ready` that somebody joins has
not ended.

**Tokens and panes.** A token that is not good never is again, only such a one is told of and closed.
What a client will have heard once the messages under way have come is what its socket was told
(`ComesTo`), whatever sockets died in between.

**Only model-checked.** Liveness, since fairness and ENABLED are out of the prover's reach: the
whole of `TeardownsEnd`, `SocketsSettle`, `RunsEnd`, `OrphansHealed`, `HeldIsAttempted` in
`CueTiming`, the fairness of `Conversation` and `Transcriber`, and the eventual halves of the
properties of `serving_parts`, of `CuesAreMade`, `MeetingsReachHub` and `CaptureEnds`. The types in
`MeetingsEnd` and those of `MeetingDelivery` rest on `SelectSeq` and `2 ^ n`, of which the provers
know nothing. Of `MergeSafe` only `StoreFollows` is proved: `InScreenOrder` and `OldUntouched`
follow the places of lines in lists that are filtered, cut and sorted by the same operators.
`SqlIsStore` maps what a query returns, whose contents (a sort by CHOOSE) would need induction over
data. `ImplementsTranscriber` is proved without its fairness, `ImplementsConversation` without its
fairness and up to the first failed create or reopen.

## 7. Findings

Each is a run that is expected to fail; `PROJECT.json` quotes the line of the repository it
contradicts.

* `recording_finish_race`: a sitting whose create or reopen raised finishes its row whatever its
  `opened_at` (`api/session.py`, `_finalize`). Deferred by an outage, that retry may close a row that
  a later sitting has reopened, which the comment above the call rules out.
* `recording_clobbered`: after two failed retains a deferred finalize leaves `_closing` with audio in
  its buffer, so a cold resume and the retry read and write one WAV without waiting for each other;
  the last writer drops what the other stored, which the comment in `_persist_audio` calls clobbering.
* `music_takeover`: a takeover stores the time of the match and then ends the old run, which clears it
  (`_open_music_run`, `_end_music_run`). A song whose own end is unknown then has no hold to end it.
* `pane_lost`: the client forgets the caption region when its window is captured anew and expects the
  api to locate it again (`desktop/tenir_capture/runner.py`); `tell_pane` does not repeat on a socket
  what it told there before.

More came up while modelling and proving; no run of the list shows them:

* `StoredOnce` fails for two overlapping sockets of a window. The newer one, which the tracker
  notifies, closes while a frame of the older waits for the tracker's lock; the sweep finds nobody
  to notify and drops the tracker; the frame goes on with it and starts a meeting that no sweep
  knows of, and the next socket stores the same lines in another, which the comment at
  `api/screen/meetings.py:443` means to exclude. `ending_parts` shows it with `Sockets = {"s1",
  "s2"}`, `Regions = {"caption"}`, `MaxFrames = 4` and `INVARIANT StoredOnce`.
* A start whose people cannot be stored, or that is cancelled there, loses the final lines of its
  first feed: `_start` empties `_unsaved` before `_store` is given them, and the merger does not
  give them again (against the comment at `api/screen/meetings.py:204`).
* An entry that is inserted above a line of the ended meeting takes a start of its own time
  (`api/screen/merge.py`, `_merge`: `_place_above` is skipped for carried lines), and is stored
  after lines of its meeting that the snapshot shows below it, against the order `_place_above` is
  there for. Hence the antecedent of `MergeSafe`. `kept_parts` shows it with `OldLines = 2`,
  `MaxLines = 4` and `INVARIANT InScreenOrder`.
* `CaptionMerger.feed` says that it raises `OverBudget` "having changed nothing": a refused snapshot
  does forget the one that was held for its names.
* A fact check that nobody waits for reads `_last_timeout` of the checker, which the session's next
  check may have set since: a wait cut short by the old check's budget is then taken for a full one,
  and switches Kiwix off for all sessions (`api/cue/factcheck.py`, `_kiwix_failed`).
* A dismissed version "stays hidden until a still-newer one appears"
  (`mobile/src/lib/useUpdater.ts`), but only the last dismissed one is remembered: after a newer
  build was dismissed too and withdrawn, the older one is offered again.
* A shutdown's waits add up to 33 s (3 + 5 + 20 + 5, `api/main.py:248`), where the api's Dockerfile
  (line 103) says that they must stay under 30 s.

## 8. Not modelled

Named at their definitions where a model comes close to them:

* sessions: the shutdown deadline that cancels teardowns in mid-drain; a process that dies between
  storing a WAV and finding its row deleted; an error of `finish()` that is no outage; the length cap
  of `_recent`;
* History: search (the database asks for all terms within one segment and orders by recency, the
  in-memory store for any term, ranked by count), audio ranges, and the read that repairs the link of
  an unlinked recording;
* sockets of other households, refused before any of `SocketSessions`;
* accounts: password and OIDC cryptography; a provider that publishes no keys at all; old names that differ in case
  alone beside a racing create; a padded wide legacy name, which loses its padding and takes its own
  spelling back; a rename to somebody else's name that commits between the strip's read and its UPDATE,
  which writes the stripped old name over it;
* pools: the breaker `unreachable`; the pool's own growing and shrinking;
* screen: the caption-crop path of the OCR server's `read()` (crops of known apps, read without
  splitting or split once); a status pass that raises; window detection, caption geometry, text similarity and speaker heuristics, which are tuned
  on samples and promise nothing exact; a meeting's create that raises after it wrote; the end of every
  meeting at shutdown (`close_all`);
* language identification, message schemas, configuration and model gateway: pure functions, checked
  by the repository's own tests; the web and mobile interfaces but for what `CaptureView` and
  `AppUpdates` have of them, scripts and deployment.
