------------------------------ MODULE MusicRun ------------------------------
(***************************************************************************)
(* The song run of a session (session.py, _music_scan_loop to              *)
(* _end_music_run): one scan loop recognizes the audio window, opens,      *)
(* re-anchors or replaces the run, and a task of its own ends the run when *)
(* the song does.  Both act on the run across the awaits of the other: the *)
(* recognition, the lyric lookup and its retry.                            *)
(*                                                                         *)
(* Positions in a song are left out: what they decide is whether the end   *)
(* of the run is known, that is whether its end task exists.  A frame is   *)
(* sent in program order (the socket keeps it); the client's box follows.  *)
(***************************************************************************)
EXTENDS Integers

CONSTANTS Tracks,
          MaxSongs     \* bound: runs opened

ASSUME MusicAssumption == MaxSongs \in Nat /\ "none" \notin Tracks

VARIABLES
  song,         \* _music_run_id (0: no run is active) and _music_track_key
  songs,        \* runs opened so far: each has its id
  candidate,    \* _music_pending_key: a takeover that one scan saw, or "none"
  lastMatch,    \* _music_last_match_monotonic: "none", "recent" or, past music_hold_ms, "old"
  lyricsOwed,   \* _music_lyrics_pending: the lookup failed and is tried again
  endTask,      \* _music_end_task waits for the end of the song
  scan,         \* where the scan loop awaits, and for which run, track and recognition
  listening,    \* "live", "closed" (close() was called), "down" (the teardown stopped music)
  box           \* history: the song in the client's box, after the frames sent to it

musicVars == <<song, songs, candidate, lastMatch, lyricsOwed, endTask, scan, listening, box>>

NoSong == [id |-> 0, track |-> "none"]
Asleep == [at |-> "sleep", id |-> 0, track |-> "none", timed |-> FALSE]

MusicInit ==
  /\ song = NoSong /\ songs = 0 /\ candidate = "none" /\ lastMatch = "none"
  /\ lyricsOwed = FALSE /\ endTask = FALSE /\ scan = Asleep /\ listening = "live" /\ box = 0

\* The client's reducer: a song takes the box, its own done marker clears it.
SongFrame(id) == box' = id
DoneFrame(id) == box' = IF box = id THEN 0 ELSE box

\* _end_music_run: every trace of the run goes, the time of its last match included.
EndMusicRun ==
  /\ song' = NoSong /\ candidate' = "none" /\ lastMatch' = "none"
  /\ lyricsOwed' = FALSE /\ endTask' = FALSE /\ DoneFrame(song.id)

\* _anchor_song: the end task is set again whenever the end of the song is known, by the
\* duration the recognizer gave or by the last lyric line (_song_end_ms).
Anchor(endKnown) == endTask' = endKnown

-----------------------------------------------------------------------------
(* One scan.                                                                *)

StartScan ==
  /\ listening = "live" /\ scan = Asleep
  /\ scan' = [Asleep EXCEPT !.at = "identify"]
  /\ UNCHANGED <<song, songs, candidate, lastMatch, lyricsOwed, endTask, listening, box>>

\* Nothing recognized (or an error, or a poor match): the hold may end the run.
HoldOver == song.id # 0 /\ lastMatch = "old"

NoMatch ==
  /\ scan.at = "identify" /\ scan' = Asleep
  /\ \/ HoldOver /\ EndMusicRun
     \/ ~HoldOver /\ UNCHANGED <<song, candidate, lastMatch, lyricsOwed, endTask, box>>
  /\ UNCHANGED <<songs, listening>>

\* The locked song again: its lyrics are asked for once more if they are owed.
SameSong(track, timed) ==
  /\ song.id # 0 /\ track = song.track
  /\ lastMatch' = "recent" /\ candidate' = "none"
  /\ IF lyricsOwed
     THEN scan' = [at |-> "retry", id |-> song.id, track |-> track, timed |-> timed] /\ UNCHANGED endTask
     ELSE scan' = Asleep /\ Anchor(endTask)
  /\ UNCHANGED <<song, lyricsOwed, box>>

\* Another track over a locked song is noted, and must be seen twice in a row.
OtherSong(track) ==
  /\ song.id # 0 /\ track \notin {song.track, candidate}
  /\ scan' = Asleep
  /\ \/ HoldOver /\ EndMusicRun
     \/ ~HoldOver /\ candidate' = track /\ UNCHANGED <<song, lastMatch, lyricsOwed, endTask, box>>

\* The first sighting without a run, or the second of a takeover: _open_music_run ends the run
\* there was and looks the lyrics up.
NewSong(track, timed) ==
  /\ songs < MaxSongs
  /\ song.id = 0 \/ (track # song.track /\ track = candidate)
  /\ scan' = [at |-> "lyrics", id |-> 0, track |-> track, timed |-> timed]
  /\ IF song.id # 0 THEN EndMusicRun
     ELSE lastMatch' = "recent" /\ candidate' = "none" /\ UNCHANGED <<song, lyricsOwed, endTask, box>>

Matched ==
  /\ scan.at = "identify"
  /\ \E track \in Tracks, timed \in BOOLEAN :
       SameSong(track, timed) \/ OtherSong(track) \/ NewSong(track, timed)
  /\ UNCHANGED <<songs, listening>>

LyricLookups == {"lines", "none", "failed"}

\* The run opens once its lyrics are known or have failed.
LyricsArrive ==
  /\ scan.at = "lyrics" /\ scan' = Asleep
  /\ \E found \in LyricLookups :
       /\ songs' = songs + 1 /\ song' = [id |-> songs + 1, track |-> scan.track]
       /\ lyricsOwed' = (found = "failed")
       /\ Anchor(scan.timed \/ found = "lines")
       /\ SongFrame(songs + 1)
  /\ UNCHANGED <<candidate, lastMatch, listening>>

\* Mutant: the retry trusts that its run is still the active one.
StillRunsAssumed == TRUE
\* _retry_song_lyrics: the run may have ended during the lookup.
StillRuns == song.id = scan.id
RetryArrives ==
  /\ scan.at = "retry" /\ scan' = Asleep
  /\ \E found \in LyricLookups :
       IF ~StillRuns THEN UNCHANGED <<lyricsOwed, endTask, box>>
       ELSE /\ lyricsOwed' = (found = "failed")
            /\ IF found = "lines" THEN Anchor(TRUE) /\ SongFrame(scan.id)
                                  ELSE Anchor(endTask) /\ UNCHANGED box
  /\ UNCHANGED <<song, songs, candidate, lastMatch, listening>>

-----------------------------------------------------------------------------
(* Time, and the end of the session.                                        *)

HoldPasses == /\ lastMatch = "recent" /\ lastMatch' = "old"
              /\ UNCHANGED <<song, songs, candidate, lyricsOwed, endTask, scan, listening, box>>

\* _song_end_expire.  The run it belongs to is the active one, or it would have been cancelled.
SongEnds == /\ endTask /\ EndMusicRun
            /\ UNCHANGED <<songs, scan, listening>>

\* close() lets the scan in progress go on until the teardown cancels it, seconds later.
MusicClose == /\ listening = "live" /\ listening' = "closed"
              /\ UNCHANGED <<song, songs, candidate, lastMatch, lyricsOwed, endTask, scan, box>>
MusicDown  == /\ listening = "closed" /\ listening' = "down"
              /\ endTask' = FALSE /\ scan' = Asleep
              /\ UNCHANGED <<song, songs, candidate, lastMatch, lyricsOwed, box>>

MusicNext == StartScan \/ NoMatch \/ Matched \/ LyricsArrive \/ RetryArrives
             \/ HoldPasses \/ SongEnds \/ MusicClose \/ MusicDown
MusicSpec == MusicInit /\ [][MusicNext]_musicVars

-----------------------------------------------------------------------------
(* Properties.                                                              *)

MusicTypeOK ==
  /\ song \in [id : 0..MaxSongs, track : Tracks \cup {"none"}] /\ songs \in 0..MaxSongs
  /\ candidate \in Tracks \cup {"none"} /\ lastMatch \in {"none", "recent", "old"}
  /\ lyricsOwed \in BOOLEAN /\ endTask \in BOOLEAN /\ box \in 0..MaxSongs
  /\ scan \in [at : {"sleep", "identify", "lyrics", "retry"}, id : 0..MaxSongs,
               track : Tracks \cup {"none"}, timed : BOOLEAN]
  /\ listening \in {"live", "closed", "down"}

\* The client's box holds exactly the song of the run, whatever ended it and whatever was being
\* looked up then: every announced song is taken back, and no frame of a dead run brings its box
\* back, with an end task that no run would ever cancel (XERK-184, XERK-192).
BoxIsRun == MusicTypeOK /\ box = song.id /\ (endTask => song.id # 0)

\* A run always has something that will end it: the end of the song, or the no-match hold
\* (_song_end_ms: "else None (unknown -- the no-match hold ends the run instead)").
RunCanEnd == song.id # 0 => endTask \/ lastMatch # "none" \/ listening = "down"
=============================================================================
