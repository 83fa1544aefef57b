------------------------------ MODULE OcrReading ------------------------------
(***************************************************************************)
(* Reading a frame's text (screen/ocr.py, and ocr/server.py behind it).    *)
(* The api cuts a frame into overlapping strips and posts one after the    *)
(* other; a strip with more boxes than the service recognises is refused   *)
(* and, while it may, read again in two halves.  The service runs one      *)
(* request per engine, refuses those that wait too long for one, and is    *)
(* restarted by its liveness probe once an engine died.                    *)
(*                                                                         *)
(* Rows of pixels are numbered from 0; a line of text is the rows it       *)
(* covers.  What is dense is left open: it is in the image.                *)
(***************************************************************************)
EXTENDS Integers, Sequences, FiniteSets

CONSTANTS
  Frames,          \* reads, of a frame each
  FrameHeights,    \* heights of frames, in rows
  StripHeight,     \* rows of a strip: STRIP_PIXELS by the width
  StripOverlap,    \* STRIP_OVERLAP
  CutEdge,         \* _EDGE
  MinSplit,        \* MIN_SPLIT_HEIGHT
  MaxSplits,       \* MAX_SPLITS
  Engines,         \* OCR_WORKERS
  MaxEngineDeaths  \* bound: engines that die

ASSUME OcrBounds ==
  /\ {StripHeight, StripOverlap, CutEdge, MinSplit, MaxSplits, MaxEngineDeaths} \subseteq Nat
  /\ FrameHeights \subseteq Nat \ {0} /\ Engines \in Nat \ {0}
  /\ StripHeight >= 2 * StripOverlap   \* strips() sees to it
  /\ StripOverlap % 2 = 0 /\ 2 * CutEdge < StripOverlap /\ MinSplit > StripOverlap

VARIABLES
  tall,       \* frame -> its height
  readingOf,  \* frame -> where its read is: idle, posts, awaits, done or dropped
  toPost,    \* frame -> the pieces still to post, as [top, bottom]
  pieces,     \* frame -> the pieces read, and whether their text was recognised
  splits,     \* frame -> halvings so far
  posts,      \* frame -> requests so far
  request,    \* frame -> its request in the service: none, waits for an engine, or runs on one
  executor,   \* up; broken, an engine died; or gone, a request found that
  deaths

ocrVars == <<tall, readingOf, toPost, pieces, splits, posts, request, executor, deaths>>

Piece(top, bottom) == [top |-> top, bottom |-> bottom]

OcrInit ==
  /\ tall \in [Frames -> FrameHeights]
  /\ readingOf = [f \in Frames |-> "idle"] /\ toPost = [f \in Frames |-> <<>>]
  /\ pieces = [f \in Frames |-> {}]
  /\ splits = [f \in Frames |-> 0] /\ posts = [f \in Frames |-> 0]
  /\ request = [f \in Frames |-> "none"] /\ executor = "up" /\ deaths = 0

-----------------------------------------------------------------------------
(* The client                                                               *)

StepRows == StripHeight - StripOverlap
StripCount(h) == IF h <= StripHeight THEN 1
                 ELSE (h - StripHeight + StepRows - 1) \div StepRows + 1

\* strips()
Strips(h) == [i \in 1..StripCount(h) |->
  Piece((i - 1) * StepRows, IF i = StripCount(h) THEN h ELSE (i - 1) * StepRows + StripHeight)]

\* Mutant: the halves only meet.
HalvesThatMeet(p) == LET mid == (p.top + p.bottom) \div 2
                     IN <<Piece(p.top, mid), Piece(mid, p.bottom)>>

\* halves(): a line on the cut is whole in one of them.
Halves(p) ==
  LET mid == (p.top + p.bottom) \div 2
      half == StripOverlap \div 2
  IN <<Piece(p.top, mid + half), Piece(mid - half, p.bottom)>>

StartRead(f) ==
  /\ readingOf[f] = "idle"
  /\ readingOf' = [readingOf EXCEPT ![f] = "posts"]
  /\ toPost' = [toPost EXCEPT ![f] = Strips(tall[f])]
  /\ UNCHANGED <<tall, pieces, splits, posts, request, executor, deaths>>

\* The next piece is posted; a service without engines answers 503, and the frame is dropped.
Post(f) ==
  /\ readingOf[f] = "posts" /\ toPost[f] # <<>>
  /\ posts' = [posts EXCEPT ![f] = @ + 1]
  /\ IF executor = "gone"
     THEN readingOf' = [readingOf EXCEPT ![f] = "dropped"] /\ UNCHANGED request
     ELSE /\ readingOf' = [readingOf EXCEPT ![f] = "awaits"]
          /\ request' = [request EXCEPT ![f] = "waits"]
  /\ UNCHANGED <<tall, toPost, pieces, splits, executor, deaths>>

ReadEnds(f) ==
  /\ readingOf[f] = "posts" /\ toPost[f] = <<>>
  /\ readingOf' = [readingOf EXCEPT ![f] = "done"]
  /\ UNCHANGED <<tall, toPost, pieces, splits, posts, request, executor, deaths>>

MaySplit(f, p) == p.bottom - p.top > MinSplit /\ splits[f] < MaxSplits

\* A dense piece gives way to its halves, unless it may not be split: then its text is missed.
ClientHas(f, dense) ==
  LET p == Head(toPost[f])
      split == dense /\ MaySplit(f, p)
  IN /\ readingOf' = [readingOf EXCEPT ![f] = "posts"]
     /\ toPost' = [toPost EXCEPT ![f] = IF split THEN Halves(p) \o Tail(@) ELSE Tail(@)]
     /\ splits' = [splits EXCEPT ![f] = IF split THEN @ + 1 ELSE @]
     /\ pieces' = [pieces EXCEPT ![f] = IF split THEN @
                     ELSE @ \cup {[top |-> p.top, bottom |-> p.bottom, missed |-> dense]}]

\* The client waits no longer: the frame is dropped, while its request goes on in the service.
ReadTimesOut(f) ==
  /\ readingOf[f] = "awaits"
  /\ readingOf' = [readingOf EXCEPT ![f] = "dropped"]
  /\ UNCHANGED <<tall, toPost, pieces, splits, posts, request, executor, deaths>>

-----------------------------------------------------------------------------
(* The service                                                              *)

Slots == Engines - Cardinality({f \in Frames : request[f] = "runs"})
ReadFails(f) ==
  /\ request' = [request EXCEPT ![f] = "none"]
  /\ readingOf' = [readingOf EXCEPT ![f] = IF @ = "awaits" THEN "dropped" ELSE @]

TakeSlot(f) ==
  /\ request[f] = "waits" /\ Slots > 0
  /\ request' = [request EXCEPT ![f] = "runs"]
  /\ UNCHANGED <<tall, readingOf, toPost, pieces, splits, posts, executor, deaths>>

\* OCR_BUSY_TIMEOUT_S without a free engine: 503.
AllBusy(f) ==
  /\ request[f] = "waits" /\ Slots = 0 /\ ReadFails(f)
  /\ UNCHANGED <<tall, toPost, pieces, splits, posts, executor, deaths>>

\* The engine's answer; the slot is released.
Recognise(f, dense) ==
  /\ request[f] = "runs" /\ executor = "up"
  /\ request' = [request EXCEPT ![f] = "none"]
  /\ IF readingOf[f] = "awaits" THEN ClientHas(f, dense) ELSE UNCHANGED <<readingOf, toPost, splits, pieces>>
  /\ UNCHANGED <<tall, posts, executor, deaths>>

\* An executor that lost an engine fails every request, and the first to see it lets it go.
FindBroken(f) ==
  /\ request[f] = "runs" /\ executor # "up"
  /\ ReadFails(f) /\ executor' = "gone"
  /\ UNCHANGED <<tall, toPost, pieces, splits, posts, deaths>>

EngineDies ==
  /\ executor = "up" /\ deaths < MaxEngineDeaths
  /\ executor' = "broken" /\ deaths' = deaths + 1
  /\ UNCHANGED <<tall, readingOf, toPost, pieces, splits, posts, request>>

\* /health is 503 for a broken executor as for none: the probe restarts the service, whose
\* requests fail.
Restarted ==
  /\ executor # "up" /\ executor' = "up"
  /\ request' = [f \in Frames |-> "none"]
  /\ readingOf' = [f \in Frames |-> IF readingOf[f] = "awaits" THEN "dropped" ELSE readingOf[f]]
  /\ UNCHANGED <<tall, toPost, pieces, splits, posts, deaths>>

OcrStep(f) == \/ Post(f) \/ ReadEnds(f) \/ TakeSlot(f) \/ AllBusy(f) \/ FindBroken(f)
              \/ \E dense \in BOOLEAN : Recognise(f, dense)

OcrNext == \/ \E f \in Frames : StartRead(f) \/ OcrStep(f) \/ ReadTimesOut(f)
           \/ EngineDies \/ Restarted

OcrFairness == WF_ocrVars(Restarted) /\ \A f \in Frames : WF_ocrVars(OcrStep(f))

-----------------------------------------------------------------------------

\* A line that touches a cut edge of a piece is a fragment, and dropped.
WholeIn(p, f, first, last) ==
  /\ p.top <= first /\ last < p.bottom
  /\ p.top > 0 => first - p.top > CutEdge
  /\ p.bottom < tall[f] => p.bottom - 1 - last >= CutEdge

Lines(f) == {l \in (0..(tall[f] - 1)) \X (0..(tall[f] - 1)) :
               l[1] <= l[2] /\ l[2] - l[1] + 1 < StripOverlap - 2 * CutEdge}

\* No line falls between two pieces: however a frame was cut and halved, each is read whole in
\* one of them, unless the rows it is on were too dense to the last.
LinesWhole ==
  \A f \in Frames : readingOf[f] = "done" =>
    \A l \in Lines(f) : \E p \in pieces[f] :
      IF p.missed THEN p.top <= l[2] /\ l[1] < p.bottom ELSE WholeIn(p, f, l[1], l[2])

\* A frame costs at most two more requests for each halving.
PostsBounded == \A f \in Frames : posts[f] <= StripCount(tall[f]) + 2 * MaxSplits

\* Every read ends, and a service that lost an engine comes back.
ReadsEnd == <>[](executor = "up" /\ \A f \in Frames : readingOf[f] \in {"idle", "done", "dropped"})

\* A frame's text is read, in bounded time.
FramesAreRead == [](LinesWhole /\ PostsBounded) /\ ReadsEnd
=============================================================================
