------------------------------ MODULE CaptionPane ------------------------------
(***************************************************************************)
(* What a capture PC sends of one Teams window, and what the api tells it  *)
(* (tenir_capture runner.py and frames.py; screen/ws.py, meetings.py).     *)
(* The client cannot find the caption pane: the api finds it on the full   *)
(* frames and says where it is, once per place and socket, and the client  *)
(* crops there.  The api also says how often to send, by whether the       *)
(* window is in a meeting.  Sockets are numbered; the api may still serve  *)
(* an old one after its client has gone.                                   *)
(***************************************************************************)
EXTENDS Integers, Sequences

CONSTANTS
  MaxLinks,       \* bound: sockets
  MaxPaneUpsets,  \* bound: the pane moves or closes, the window hides, a read or a write fails
  MaxMeetings     \* bound: meetings started

ASSUME PaneBounds ==
  {MaxLinks, MaxPaneUpsets, MaxMeetings} \subseteq Nat /\ MaxLinks > 0

VARIABLES
  titled,     \* exactly one window has the configured title
  pane,       \* where its caption pane is; 0: it has none
  capturing,  \* the client captures it
  region,     \* finder.region: where the client crops; 0: it does not
  plan,       \* WindowPlan: a full frame is due, and had_caption
  override,   \* the window is on the meeting cadence
  link,       \* the client's socket, or 0
  links,      \* sockets made so far
  serving,    \* sockets the api serves
  messages,   \* messages under way to the client
  waits,      \* socket, lane -> the frame that waits or is being read: where its pane was
  cropRead,   \* sockets whose caption lane has read a crop and waits for the tracker
  told,       \* socket -> panes[org_site_key]: what it last told the client
  notify,     \* the socket the window's tracker tells its cadence
  meeting,    \* the tracker has a meeting open
  recut,      \* the capture started anew since the client was last told, on this socket
  untold,     \* the client may be off its cadence: see Note below
  used        \* how much of each bound is used

paneVars == <<titled, pane, capturing, region, plan, override, link, links, serving, messages, waits, cropRead,
              told, notify, meeting, recut, untold, used>>
clientVars == <<capturing, region, plan, override>>
apiVars == <<told, notify, meeting>>

Links == 1..MaxLinks
Panes == 0..2
Kinds == {"full", "caption"}
NoFrame == -1

Use(what) == used' = [used EXCEPT ![what] = @ + 1]

PaneInit ==
  /\ titled = TRUE /\ pane = 1
  /\ capturing = FALSE /\ region = 0 /\ override = FALSE
  /\ plan = [fullDue |-> TRUE, hadCaption |-> FALSE]
  /\ link = 0 /\ links = 0 /\ serving = {} /\ messages = <<>>
  /\ waits = [lane \in Links \X Kinds |-> NoFrame] /\ cropRead = {}
  /\ told = [l \in Links |-> 0] /\ notify = 0 /\ meeting = FALSE
  /\ recut = FALSE /\ untold = FALSE
  /\ used = [upsets |-> 0, meetings |-> 0]

-----------------------------------------------------------------------------
(* The window                                                               *)

PaneMoves ==
  /\ used.upsets < MaxPaneUpsets /\ Use("upsets")
  /\ \E p \in Panes \ {pane} : pane' = p
  /\ UNCHANGED <<titled, clientVars, link, links, serving, messages, waits, cropRead, apiVars, recut, untold>>

\* Another tab in front: its title matches nothing. Or the capture dies and is made again.
Hide ==
  /\ titled /\ used.upsets < MaxPaneUpsets /\ Use("upsets") /\ titled' = FALSE
  /\ UNCHANGED <<pane, clientVars, link, links, serving, messages, waits, cropRead, apiVars, recut, untold>>

ShowAgain ==
  /\ ~titled /\ titled' = TRUE
  /\ UNCHANGED <<pane, clientVars, link, links, serving, messages, waits, cropRead, apiVars, recut, untold, used>>

-----------------------------------------------------------------------------
(* The client                                                               *)

\* refresh with _stop_capture: the plan starts over, and the region is forgotten.
Refresh ==
  /\ link # 0 /\ capturing # titled /\ capturing' = titled
  /\ plan' = [fullDue |-> TRUE, hadCaption |-> FALSE] /\ region' = 0
  /\ recut' = (recut \/ told[link] # 0)
  /\ UNCHANGED <<titled, pane, override, link, links, serving, messages, waits, cropRead, apiVars, untold, used>>

\* crop_pane: somewhere else than at the pane it is not dark, and there is nothing to crop.
Crops == region # 0 /\ region = pane

\* WindowPlan.frames: a full frame when due, and before the first crop after none.
SendFrames ==
  LET full == plan.fullDue \/ (Crops /\ ~plan.hadCaption)
      frames == (IF full THEN {"full"} ELSE {}) \cup (IF Crops THEN {"caption"} ELSE {})
  IN /\ link # 0 /\ capturing /\ frames # {}
     /\ plan' = [fullDue |-> FALSE, hadCaption |-> Crops]
     /\ waits' = [waits EXCEPT ![<<link, "full">>] = IF "full" \in frames THEN pane ELSE @,
                               ![<<link, "caption">>] = IF "caption" \in frames THEN 0 ELSE @]
     /\ waits' # waits \/ plan' # plan
     /\ UNCHANGED <<titled, pane, capturing, region, override, link, links, serving, messages, cropRead, apiVars,
                    recut, untold, used>>

\* No crop to be had: the window sends its periodic full frames alone.
NoCaption ==
  /\ link # 0 /\ capturing /\ ~Crops /\ ~plan.fullDue /\ plan.hadCaption
  /\ plan' = [plan EXCEPT !.hadCaption = FALSE]
  /\ UNCHANGED <<titled, pane, capturing, region, override, link, links, serving, messages, waits, cropRead, apiVars,
                 recut, untold, used>>

\* fullFrameSeconds are over.
FullDue ==
  /\ capturing /\ ~plan.fullDue
  /\ plan' = [plan EXCEPT !.fullDue = TRUE]
  /\ UNCHANGED <<titled, pane, capturing, region, override, link, links, serving, messages, waits, cropRead, apiVars,
                 recut, untold, used>>

\* run, session: a new socket starts without a region and on the default cadence.
Connect ==
  /\ link = 0 /\ links < MaxLinks
  /\ links' = links + 1 /\ link' = links + 1 /\ serving' = serving \cup {links + 1}
  /\ messages' = <<>> /\ region' = 0 /\ override' = FALSE /\ recut' = FALSE /\ untold' = FALSE
  /\ UNCHANGED <<titled, pane, capturing, plan, waits, cropRead, apiVars, used>>

\* The connection is gone for the client...
Drop ==
  /\ link # 0 /\ links < MaxLinks /\ link' = 0 /\ messages' = <<>>
  /\ UNCHANGED <<titled, pane, clientVars, links, serving, waits, cropRead, apiVars, recut, untold, used>>

\* on_message
Hear ==
  /\ link # 0 /\ messages # <<>> /\ messages' = Tail(messages)
  /\ LET m == Head(messages) IN
       CASE m[1] = "cadence" -> override' = m[2] /\ UNCHANGED <<region, recut>>
         [] m[1] = "region"  -> region' = m[2] /\ recut' = FALSE /\ UNCHANGED override
  /\ UNCHANGED <<titled, pane, capturing, plan, link, links, serving, waits, cropRead, apiVars, untold, used>>

-----------------------------------------------------------------------------
(* The api                                                                  *)

\* What is sent on a socket its client has left is lost.
SentOn(l, msgs) == messages' = IF l = link /\ l # 0 THEN messages \o msgs ELSE messages

\* Mutant: whoever the tracker tells, it stops telling.
DetachAny(l) == 0

\* meetings.detach
Detach(l) == IF notify = l THEN 0 ELSE notify

\* ...and for the api, which cancels the socket's lanes.
SocketEnds(l) ==
  /\ l \in serving /\ l # link /\ serving' = serving \ {l}
  /\ waits' = [waits EXCEPT ![<<l, "full">>] = NoFrame, ![<<l, "caption">>] = NoFrame]
  /\ cropRead' = cropRead \ {l}
  /\ notify' = Detach(l) /\ told' = [told EXCEPT ![l] = 0]
  /\ UNCHANGED <<titled, pane, clientVars, link, links, messages, meeting, recut, untold, used>>

Told(l, p) == IF p # told[l] THEN <<<<"region", p>>>> ELSE <<>>

\* The OCR of the newest frame fails; a full frame's pane may have been found all the same.
OcrFails(l, k) ==
  /\ l \in serving /\ waits[<<l, k>>] # NoFrame
  /\ used.upsets < MaxPaneUpsets /\ Use("upsets")
  /\ waits' = [waits EXCEPT ![<<l, k>>] = NoFrame]
  /\ \E found \in IF k = "full" THEN BOOLEAN ELSE {FALSE} :
       IF found THEN SentOn(l, Told(l, waits[<<l, k>>])) /\ told' = [told EXCEPT ![l] = waits[<<l, k>>]]
                ELSE UNCHANGED <<messages, told>>
  /\ UNCHANGED <<titled, pane, clientVars, link, links, serving, cropRead, notify, meeting, recut, untold>>

\* A frame is read: the tracker tells its socket from now on, and at once where it told another before.
\* Note: a late frame of a socket whose client has gone takes the telling away.
Reattached(l) == IF notify # l /\ meeting THEN <<<<"cadence", TRUE>>>> ELSE <<>>
Reattach(l) ==
  /\ notify' = l
  /\ untold' = IF l # link /\ notify = link /\ link # 0 THEN TRUE ELSE untold

\* A full frame: on_full, then tell_pane, unless the heading could not be read.
OnFull(l) ==
  /\ l \in serving /\ waits[<<l, "full">>] # NoFrame
  /\ waits' = [waits EXCEPT ![<<l, "full">>] = NoFrame]
  /\ Reattach(l)
  /\ \/ /\ SentOn(l, Reattached(l) \o Told(l, waits[<<l, "full">>]))
        /\ told' = [told EXCEPT ![l] = waits[<<l, "full">>]] /\ UNCHANGED used
     \/ used.upsets < MaxPaneUpsets /\ Use("upsets") /\ SentOn(l, Reattached(l)) /\ UNCHANGED told
  /\ UNCHANGED <<titled, pane, clientVars, link, links, serving, cropRead, meeting, recut>>

\* A crop, up to the tracker's lock
TakeCrop(l) ==
  /\ l \in serving \ cropRead /\ waits[<<l, "caption">>] # NoFrame
  /\ waits' = [waits EXCEPT ![<<l, "caption">>] = NoFrame] /\ cropRead' = cropRead \cup {l}
  /\ Reattach(l) /\ SentOn(l, Reattached(l))
  /\ UNCHANGED <<titled, pane, clientVars, link, links, serving, told, meeting, recut, used>>

\* on_caption, which starts a meeting where none is open. Note: a meeting whose people could not be
\* stored at its start is open, and its cadence is not told.
OnCaption(l) ==
  /\ l \in cropRead /\ cropRead' = cropRead \ {l}
  /\ \/ meeting /\ UNCHANGED <<meeting, messages, untold, used>>
     \/ /\ ~meeting /\ used.meetings < MaxMeetings /\ Use("meetings") /\ meeting' = TRUE
        /\ SentOn(notify, <<<<"cadence", TRUE>>>>) /\ UNCHANGED untold
     \/ /\ ~meeting /\ used.meetings < MaxMeetings /\ used.upsets < MaxPaneUpsets
        /\ used' = [used EXCEPT !.meetings = @ + 1, !.upsets = @ + 1]
        /\ meeting' = TRUE /\ untold' = TRUE /\ UNCHANGED messages
     \/ ~meeting /\ UNCHANGED <<meeting, messages, untold, used>>
  /\ UNCHANGED <<titled, pane, clientVars, link, links, serving, waits, told, notify, recut>>

\* sweep and end: no captions for a while.
MeetingEnds ==
  /\ meeting /\ meeting' = FALSE /\ SentOn(notify, <<<<"cadence", FALSE>>>>)
  /\ UNCHANGED <<titled, pane, clientVars, link, links, serving, waits, cropRead, told, notify, recut, untold, used>>

CropStep(l) == TakeCrop(l) \/ OnCaption(l)

PaneNext ==
  \/ PaneMoves \/ Hide \/ ShowAgain \/ Refresh \/ SendFrames \/ NoCaption \/ FullDue \/ Connect \/ Drop \/ Hear
  \/ \E l \in Links : SocketEnds(l) \/ OnFull(l) \/ CropStep(l) \/ \E k \in Kinds : OcrFails(l, k)
  \/ MeetingEnds

\* Both programs go on; windows, networks and meetings need not.
PaneGoesOn ==
  /\ WF_paneVars(ShowAgain) /\ WF_paneVars(Refresh) /\ WF_paneVars(SendFrames) /\ WF_paneVars(NoCaption)
  /\ WF_paneVars(FullDue) /\ WF_paneVars(Hear)
  /\ \A l \in Links : WF_paneVars(SocketEnds(l)) /\ WF_paneVars(OnFull(l)) /\ WF_paneVars(CropStep(l))
PaneFairness == PaneGoesOn /\ WF_paneVars(Connect)

PaneSpec == PaneInit /\ [][PaneNext]_paneVars /\ PaneFairness

-----------------------------------------------------------------------------

PaneTypeOK ==
  /\ {titled, capturing, override, meeting, recut, untold} \subseteq BOOLEAN
  /\ pane \in Panes /\ region \in Panes /\ told \in [Links -> Panes]
  /\ link \in 0..MaxLinks /\ links \in 0..MaxLinks /\ notify \in 0..MaxLinks /\ serving \subseteq Links

\* The client crops where the socket's server says the pane is, or forgot it with its capture.
RegionAsTold ==
  link # 0 /\ messages = <<>> => region = told[link] \/ (region = 0 /\ recut)

\* Across meetings, reconnects and sockets that outlive their client, a window whose tracker tells
\* its socket is on the cadence of its meeting.
CadenceFollows ==
  link # 0 /\ messages = <<>> /\ notify = link /\ ~untold => override = meeting

Settled == link # 0 => titled = capturing /\ region = pane

\* The client ends up cropping at the pane, unless its capture started anew on the same socket.
PaneReached == <>[](Settled \/ recut)

\* What the api says of a window reaches its client, and holds for the socket it was said on.
PaneFollowed == [](PaneTypeOK /\ RegionAsTold /\ CadenceFollows) /\ PaneReached

\* As runner.py:137 has it, "a new window: the api locates its pane again".
PaneLocatedAgain == <>[]Settled
=============================================================================
