----------------------------- MODULE WarmResume -----------------------------
(***************************************************************************)
(* What a client has of a session after its socket died (session.py,       *)
(* rebind to detach; the replies of main.py around it; the reducer of      *)
(* captureSession.ts).  No delivery is confirmed: a dead socket swallows    *)
(* frames until it is given up, a detached session buffers them, a resume  *)
(* replays the recent ones and the buffer, and the client drops what it    *)
(* already has.                                                            *)
(*                                                                         *)
(* Finals stand for the frames that are remembered (translations and cues  *)
(* are too), songs and their done markers for those that are not.  Time    *)
(* passes in units that the constants are given in.                        *)
(***************************************************************************)
EXTENDS Integers, Sequences

CONSTANTS Window,      \* _RECENT_WINDOW_S
          PingTimeout, \* a dead socket is given up within this
          Grace,       \* session_resume_grace_seconds
          BufferMax,   \* _DETACHED_BUFFER_MAX
          MaxTime,     \* bound
          MaxMade,     \* bound: finals produced
          MaxPlayed    \* bound: songs

ASSUME ResumeAssumption ==
  /\ {Window, PingTimeout, Grace, MaxTime, MaxMade, MaxPlayed} \subseteq Nat
  /\ BufferMax \in Nat \ {0}

VARIABLES
  now,
  made,       \* when each final was produced: _recent, with all that it held
  song,       \* the live song, or 0
  played,     \* songs so far; the last one is _music_last_run_id
  link,       \* the socket as it is: "up", or "dead" and swallowing frames
  deadSince,
  sendTo,     \* _send: "socket", "buffer" (detached), or a resume that is catching up
  givenUp,    \* _detached_at, or the takeover: the time, and the finals before it
  buffer,     \* _detached_buffer
  replay,     \* frames that rebind took and has not sent
  answers,    \* what main.py still sends after rebind
  dedupe,     \* the client connects with ?dedupe=1
  turns,      \* the client: its segments ...
  shown,      \* ... and the song in its box
  drops,      \* history: sockets that failed each final, up to two
  capped      \* history: finals that the buffer's cap dropped

serverVars == <<made, song, played, sendTo, givenUp, buffer, replay, answers, dedupe>>
clientVars == <<turns, shown>>
resumeVars == <<now, link, deadSince, serverVars, clientVars, drops, capped>>

Final(n)    == [kind |-> "final", n |-> n]
SongOf(n)   == [kind |-> "song", n |-> n]
SongDone(n) == [kind |-> "done", n |-> n]

ResumeInit ==
  /\ now = 0 /\ made = <<>> /\ song = 0 /\ played = 0 /\ link = "up" /\ deadSince = 0
  /\ sendTo = "socket" /\ givenUp = [time |-> 0, finals |-> 0] /\ buffer = <<>> /\ replay = <<>>
  /\ answers = <<>> /\ dedupe \in BOOLEAN /\ turns = <<>> /\ shown = 0
  /\ drops = [n \in 1..MaxMade |-> 0] /\ capped = {}

\* The client's reducer.
Holds(n) == \E i \in DOMAIN turns : turns[i] = n
Receive(m) ==
  /\ turns' = IF m.kind = "final" /\ ~(dedupe /\ Holds(m.n)) THEN Append(turns, m.n) ELSE turns
  /\ shown' = CASE m.kind = "song" -> m.n
                [] m.kind = "done" /\ shown = m.n -> 0
                [] OTHER -> shown

Swallowed(ms) == drops' = [n \in DOMAIN drops |->
                             IF (\E i \in DOMAIN ms : ms[i] = Final(n)) /\ drops[n] < 2
                             THEN drops[n] + 1 ELSE drops[n]]
Write(m) == IF link = "up" THEN Receive(m) /\ UNCHANGED drops
                           ELSE Swallowed(<<m>>) /\ UNCHANGED clientVars

\* Mutant: the buffer of a detached session grows without bound.
BufferSendUncapped(m) == buffer' = Append(buffer, m) /\ UNCHANGED capped
\* _buffer_send, which drops the oldest message of a full buffer.
BufferSend(m) ==
  IF Len(buffer) < BufferMax THEN buffer' = Append(buffer, m) /\ UNCHANGED capped
  ELSE /\ buffer' = Append(Tail(buffer), m)
       /\ capped' = IF Head(buffer).kind = "final" THEN capped \cup {Head(buffer).n} ELSE capped

Send(m) == IF sendTo = "socket" THEN Write(m) /\ UNCHANGED <<buffer, capped>>
                                ELSE BufferSend(m) /\ UNCHANGED <<clientVars, drops>>

-----------------------------------------------------------------------------
(* The session produces.                                                    *)

\* _remember, then the send.
ProduceFinal ==
  /\ Len(made) < MaxMade /\ sendTo # "over"
  /\ made' = Append(made, now) /\ Send(Final(Len(made) + 1))
  /\ UNCHANGED <<now, link, deadSince, song, played, sendTo, givenUp, replay, answers, dedupe>>
SongOpens ==
  /\ song = 0 /\ played < MaxPlayed /\ sendTo # "over"
  /\ song' = played + 1 /\ played' = played + 1 /\ Send(SongOf(played + 1))
  /\ UNCHANGED <<now, link, deadSince, made, sendTo, givenUp, replay, answers, dedupe>>
SongCloses ==
  /\ song # 0 /\ sendTo # "over" /\ song' = 0 /\ Send(SongDone(song))
  /\ UNCHANGED <<now, link, deadSince, made, played, sendTo, givenUp, replay, answers, dedupe>>

-----------------------------------------------------------------------------
(* Sockets die, and are given up: a ping times out, or a send raises.       *)

LinkDies == /\ link = "up" /\ link' = "dead" /\ deadSince' = now
            /\ UNCHANGED <<now, serverVars, clientVars, drops, capped>>

\* detach().  A rebind that raises leaves the batch it had taken behind.
Detach ==
  /\ link = "dead"
  /\ sendTo = "socket" \/ (sendTo = "catchUp" /\ replay # <<>>)
  /\ sendTo' = "buffer" /\ givenUp' = [time |-> now, finals |-> Len(made)]
  /\ replay' = <<>> /\ answers' = <<>> /\ Swallowed(replay)
  /\ UNCHANGED <<now, link, deadSince, made, song, played, buffer, dedupe, clientVars, capped>>

GraceClose ==
  /\ sendTo = "buffer" /\ now - givenUp.time >= Grace /\ sendTo' = "over"
  /\ UNCHANGED <<now, link, deadSince, made, song, played, givenUp, buffer, replay, answers, dedupe,
                 clientVars, drops, capped>>

-----------------------------------------------------------------------------
(* rebind() and the answers of main.py.                                     *)

\* Mutant: the window is counted from the resume, not from when the socket was given up.
RecentFromNow(gave) == {n \in 1..gave.finals : now - Window <= made[n]}
Recent(gave) == {n \in 1..gave.finals : gave.time - Window <= made[n]}
\* What _recent still lists from then: all but the oldest, since times never decrease along it.
Replayed(gave, recent) ==
  LET skipped == CHOOSE k \in 0..gave.finals : recent = (k + 1)..gave.finals
  IN [i \in 1..(gave.finals - skipped) |-> Final(skipped + i)]

\* A new socket: after a detach, or over a dead one that is still open.
Rebind ==
  /\ link = "dead" /\ sendTo \in {"socket", "buffer"} /\ answers = <<>>
  /\ LET gave == IF sendTo = "buffer" THEN givenUp ELSE [time |-> now, finals |-> Len(made)] IN
     /\ givenUp' = gave
     /\ replay' = IF dedupe THEN Replayed(gave, Recent(gave)) ELSE <<>>
  /\ sendTo' = "catchUp" /\ link' = "up" /\ deadSince' = 0
  /\ UNCHANGED <<now, made, song, played, buffer, answers, dedupe, clientVars, drops, capped>>

ReplayFrame ==
  /\ sendTo = "catchUp" /\ replay # <<>>
  /\ Write(Head(replay)) /\ replay' = Tail(replay)
  /\ UNCHANGED <<now, link, deadSince, made, song, played, sendTo, givenUp, buffer, answers, dedupe, capped>>

TakeBuffer ==
  /\ sendTo = "catchUp" /\ replay = <<>> /\ buffer # <<>>
  /\ replay' = buffer /\ buffer' = <<>>
  /\ UNCHANGED <<now, link, deadSince, made, song, played, sendTo, givenUp, answers, dedupe,
                 clientVars, drops, capped>>

\* Caught up: the socket gets new frames again, and first the song that is live.
CaughtUp ==
  /\ sendTo = "catchUp" /\ replay = <<>> /\ buffer = <<>>
  /\ sendTo' = "socket" /\ answers' = <<"ready", "asides">>
  /\ IF song # 0 THEN Write(SongOf(song)) ELSE UNCHANGED <<clientVars, drops>>
  /\ UNCHANGED <<now, link, deadSince, made, song, played, givenUp, buffer, replay, dedupe, capped>>

\* session.ready (a warm one keeps the client's song), then resend_ended_asides.
RepeatsSongDone == song = 0 /\ played # 0
Answer ==
  /\ sendTo = "socket" /\ answers # <<>> /\ answers' = Tail(answers)
  /\ IF Head(answers) = "asides" /\ RepeatsSongDone THEN Write(SongDone(played))
                                                    ELSE UNCHANGED <<clientVars, drops>>
  /\ UNCHANGED <<now, link, deadSince, made, song, played, sendTo, givenUp, buffer, replay, dedupe, capped>>

\* A replay is written to the socket without waiting for the client, so it takes no time.
Tick ==
  /\ now < MaxTime /\ now' = now + 1 /\ sendTo # "catchUp"
  /\ link = "dead" /\ sendTo = "socket" => now - deadSince < PingTimeout
  /\ sendTo = "buffer" => now - givenUp.time < Grace
  /\ UNCHANGED <<link, deadSince, serverVars, clientVars, drops, capped>>

ResumeNext == ProduceFinal \/ SongOpens \/ SongCloses \/ LinkDies \/ Detach \/ GraceClose
              \/ Rebind \/ ReplayFrame \/ TakeBuffer \/ CaughtUp \/ Answer \/ Tick
ResumeSpec == ResumeInit /\ [][ResumeNext]_resumeVars

-----------------------------------------------------------------------------
(* Properties.                                                              *)

Frames == [kind : {"final", "song", "done"}, n : Nat]
ResumeTypeOK ==
  /\ now \in 0..MaxTime /\ made \in Seq(0..MaxTime) /\ Len(made) <= MaxMade
  /\ song \in 0..played /\ played \in 0..MaxPlayed /\ shown \in 0..played
  /\ link \in {"up", "dead"} /\ deadSince \in 0..now
  /\ sendTo \in {"socket", "buffer", "catchUp", "over"}
  /\ givenUp \in [time : 0..now, finals : 0..Len(made)]
  /\ buffer \in Seq(Frames) /\ replay \in Seq(Frames) /\ Len(buffer) <= BufferMax
  /\ answers \in {<<>>, <<"asides">>, <<"ready", "asides">>}
  /\ dedupe \in BOOLEAN /\ turns \in Seq(1..Len(made)) /\ capped \subseteq 1..Len(made)
  /\ drops \in [1..MaxMade -> 0..2]

\* After a resume has caught up, the client has every turn of the Window before the last socket
\* was given up and every turn since, whether it was swallowed, buffered, or caught in a replay
\* that failed; only the buffer's cap may have taken one.  (An old client has no replay of what a
\* dead socket swallowed.)
CaughtUpNow == link = "up" /\ sendTo = "socket"
RecentIsHeld ==
  /\ ResumeTypeOK
  /\ CaughtUpNow => \A n \in DOMAIN made :
    made[n] >= givenUp.time - Window => Holds(n) \/ n \in capped \/ (~dedupe /\ drops[n] > 0)
=============================================================================
