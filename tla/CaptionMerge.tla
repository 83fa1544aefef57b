----------------------------- MODULE CaptionMerge -----------------------------
(***************************************************************************)
(* The merger of one meeting (screen/merge.py): caption snapshots in, the  *)
(* segments to store out.  What makes two readings the same line (edit     *)
(* distance, shared words, names) is left open: a snapshot's rows are      *)
(* paired with the known lines in every order-preserving way, and a rule   *)
(* that judges texts may take or leave what it judges.  Kept are the order *)
(* of the rules, what each may touch, its deadlines, and what it emits.    *)
(***************************************************************************)
EXTENDS Integers, Sequences, SequencesExt, FiniteSets, FiniteSetsExt

CONSTANTS OldLines,    \* lines of the meeting that ended on this window, still shown
          MaxLines,    \* bound: known lines in all
          MaxShown,    \* bound: rows of a snapshot (_MAX_SHOWN)
          MaxFrames,   \* bound: snapshots
          Steps,       \* how far apart snapshots may be
          Stable,      \* stable_ms
          Fresh,       \* _EXTEND_MS and _REVISE_MS
          Gone,        \* _GONE_MS
          Rehead       \* _REHEAD_MS

VARIABLES known,       \* _lines, oldest first
          line,        \* line -> its _Line
          segment,     \* line -> its Segment
          newLines,    \* new_lines
          nextFirst,   \* _next_first
          folds,       \* _fold_held: lines a rewrite folded into others, dropped a frame later
          last,        \* _last: the last snapshot merged
          pendingFrame, \* a snapshot that only re-reads its names
          ts,          \* the time of the last snapshot
          frames,      \* snapshots so far
          flushed,     \* the meeting ended
          storeCopy    \* line -> what the store holds of its segment

mergeVars == <<known, line, segment, newLines, nextFirst, folds, last, pendingFrame, ts, frames,
               flushed, storeCopy>>

Lines == 1..MaxLines
Old(i) == i <= OldLines            \* _Line.carried
Blank == "blank"
Texts == {"said", "reread"}
NameReadings == {"header", "renamed"}
NoSegment == [text |-> Blank, name |-> "none", start |-> -1]
NoFrame == [ts |-> 0, rows |-> <<>>]   \* rows: the known line each row ended on, or 0
NotHeld == [ts |-> -1, moved |-> {}]

ASSUME MergeBounds ==
  /\ {OldLines, MaxLines, MaxShown, MaxFrames, Stable, Fresh, Gone, Rehead} \subseteq Nat
  /\ OldLines < MaxLines /\ Steps \subseteq Nat

\* Where a line is among the known ones, and whether it still is one.
At(seq, i) == CHOOSE k \in 1..Len(seq) : seq[k] = i
Knows(s, i) == \E k \in 1..Len(s.known) : s.known[k] = i
Between(s, i, j) == {s.known[k] : k \in (At(s.known, i) + 1)..(At(s.known, j) - 1)}

\* A carried line: seen now, too old to extend; its segment is the ended meeting's.
Copy(i) == [first |-> i - OldLines - 1, order |-> i - OldLines - 1, changed |-> -Fresh - 1, seen |-> 0,
            name |-> "header", text |-> "said", final |-> TRUE]
NewLine(first, t) == [first |-> first, order |-> first, changed |-> first, seen |-> t,
                      name |-> "header", text |-> "said", final |-> FALSE]
SegmentOf(l) == [text |-> l.text, name |-> l.name, start |-> l.order]

MergeInit ==
  /\ known = [k \in 1..OldLines |-> k]
  /\ line = [i \in Lines |-> IF Old(i) THEN Copy(i) ELSE NewLine(0, 0)]
  /\ segment = [i \in Lines |-> IF Old(i) THEN SegmentOf(Copy(i)) ELSE NoSegment]
  /\ newLines = 0 /\ nextFirst = 0 /\ folds = {} /\ last = NoFrame /\ pendingFrame = NotHeld
  /\ ts = 0 /\ frames = 0 /\ flushed = FALSE
  /\ storeCopy = [i \in Lines |-> NoSegment]

---------------------------------------------------------------------------
\* The merger while it takes a snapshot: `rows` as for _last, `out` the segments to return.
Merger == [known |-> known, line |-> line, segment |-> segment, new |-> newLines,
           next |-> nextFirst, folds |-> folds, last |-> last, rows |-> <<>>, out |-> {}]

Emit(s, i) == IF s.line[i].final THEN [s EXCEPT !.out = @ \union {i}] ELSE s

\* _finalize: the line gets its segment.
Finalized(s, I) ==
  [s EXCEPT !.line = [i \in Lines |-> IF i \in I THEN [@[i] EXCEPT !.final = TRUE] ELSE @[i]],
            !.segment = [i \in Lines |-> IF i \in I THEN SegmentOf(s.line[i]) ELSE @[i]],
            !.out = @ \union I]

\* _revise, and _update's growth: a line takes a row's text; a stored one is emitted again.
Retext(s, t, i, x) ==
  IF x = s.line[i].text THEN s
  ELSE Emit([s EXCEPT !.line[i].text = x, !.line[i].changed = t,
                      !.segment[i].text = IF s.line[i].final THEN x ELSE @], i)

\* _drop: stale lines are forgotten, stored ones emitted blank.
Drop(s, I) ==
  LET final == {i \in I : s.line[i].final}
  IN [s EXCEPT !.known = SelectSeq(@, LAMBDA i : i \notin I),
               !.segment = [i \in Lines |-> IF i \in final THEN [@[i] EXCEPT !.text = Blank] ELSE @[i]],
               !.out = @ \union final]

---------------------------------------------------------------------------
\* _tail: the known lines a snapshot is aligned against.
TailOf(s, t) == {i \in ToSet(s.known) : t - s.line[i].seen <= Gone}
Place(s, i) == IF i = 0 THEN 0 ELSE At(s.known, i)

\* What a line may then read: only _update's growth touches the ended meeting's lines, and its
\* deadline is over for them.
Readings(s, t, as, i) ==
  IF CASE as = "misread" -> ~Old(i) /\ t - s.line[i].first <= Fresh   \* _grew_over_twin
       [] as = "revised" -> ~Old(i) /\ t - s.line[i].first <= Fresh   \* an older one is only re-read
       [] OTHER -> ~Old(i) \/ t - s.line[i].changed <= Fresh
  THEN Texts ELSE {s.line[i].text}

Row(as, i, x) == [as |-> as, at |-> i, text |-> x]
Read(s, t, as, I) == UNION {{Row(as, i, x) : x \in Readings(s, t, as, i)} : i \in I}

\* _align: rows and known lines pair in order.  Above the last match a row is a match, a misread,
\* a glitch, or an entry that Teams put right under the line before it (_inserted_entry).
AboveRows(s, t, f) ==
  LET under == IF f = <<>> THEN 0 ELSE Max({Place(s, f[k].at) : k \in 1..Len(f)})
      lower == {i \in TailOf(s, t) : At(s.known, i) > under}
      heads == {i \in TailOf(s, t) : /\ At(s.known, i) >= under
                                     /\ Old(i) \/ (f # <<>> /\ f[Len(f)].as = "known" /\ f[Len(f)].at = i)}
  IN Read(s, t, "known", lower) \union Read(s, t, "misread", lower)
       \union {Row("glitch", 0, "said")} \union {Row("entry", i, "said") : i \in heads}

\* _revisions: below it a row is new or rewrites a line of this meeting that no row re-reads.
BelowRows(s, t, f) ==
  LET under == IF f = <<>> THEN 0 ELSE Max({Place(s, f[k].at) : k \in 1..Len(f)})
  IN {Row("new", 0, "said")} \union
     Read(s, t, "revised", {i \in TailOf(s, t) : ~Old(i) /\ At(s.known, i) > under})

\* The snapshots that may come, row by row.
Snapshots(s, t) ==
  LET above[n \in 0..MaxShown] ==
        IF n = 0 THEN {<<>>}
        ELSE UNION {{Append(f, r) : r \in AboveRows(s, t, f)} : f \in above[n - 1]}
      top == {f \in UNION {above[n] : n \in 0..MaxShown} : f = <<>> \/ f[Len(f)].as = "known"}
      more[n \in 0..MaxShown] ==
        IF n = 0 THEN top
        ELSE UNION {{Append(f, r) : r \in BelowRows(s, t, f)} :
                      f \in {g \in more[n - 1] : Len(g) < MaxShown}}
      all == UNION {more[n] : n \in 0..MaxShown}
  IN {f \in all : /\ Len(f) \in 0..MaxShown
                 /\ Cardinality({k \in 1..Len(f) : f[k].as \in {"new", "entry"}})
                      <= MaxLines - OldLines - s.new}

\* _place_above: `i` takes the start of the line at `at`, which moves down with those after it
\* until there is room; stored ones are emitted.
PlaceAbove(s, i, at) ==
  LET from == s.line[s.known[at]].order
      after == SelectSeq(SubSeq(s.known, at, Len(s.known)), LAMBDA j : ~Old(j))
      shift == Max({0} \union {m \in 1..Len(after) :
                                 \A h \in 1..m : s.line[after[h]].order <= from + h - 1})
      moved == {after[h] : h \in 1..shift}
      order == [j \in moved |-> from + At(after, j)]
      final == {j \in moved : s.line[j].final}
  IN [s EXCEPT
        !.line = [j \in Lines |-> IF j = i THEN [@[j] EXCEPT !.order = from]
                                  ELSE IF j \in moved THEN [@[j] EXCEPT !.order = order[j]] ELSE @[j]],
        !.segment = [j \in Lines |-> IF j \in final THEN [@[j] EXCEPT !.start = order[j]] ELSE @[j]],
        !.next = Max({@, from + shift + 1}),
        !.out = @ \union final]

\* Mutant: a line starts when its snapshot was taken.
SnapshotTime(s, t) == t

\* After every line before it, though a clamped clock may repeat a time.
FirstMs(s, t) == Max({t, s.next})

\* A new line: just above the known line that the snapshot shows below it, or at the end.
AddLine(s, t, f, k) ==
  LET i == OldLines + s.new + 1
      first == FirstMs(s, t)
      shownBelow == {h \in (k + 1)..Len(f) : f[h].as \in {"known", "revised"}}
      below == IF shownBelow = {} THEN 0 ELSE f[Min(shownBelow)].at
      at == IF below = 0 THEN Len(s.known) + 1 ELSE At(s.known, below)
      made == [s EXCEPT !.line[i] = NewLine(first, t), !.next = first + 1, !.new = @ + 1]
      placed == IF below = 0 \/ Old(below) THEN made ELSE PlaceAbove(made, i, at)
  IN [placed EXCEPT !.known = InsertAt(@, at, i), !.rows = Append(@, i)]

\* One row of _merge's walk.
TakeRow(s, t, f, k) ==
  LET r == f[k]
      shown == [Retext(s, t, r.at, r.text) EXCEPT !.line[r.at].seen = t, !.rows = Append(@, r.at)]
  IN CASE r.as \in {"known", "revised"} -> shown
       [] r.as = "misread" /\ r.text # s.line[r.at].text -> shown
       [] r.as \in {"new", "entry"} -> AddLine(s, t, f, k)
       [] OTHER -> [s EXCEPT !.rows = Append(@, 0)]

Walked(s, t, f) ==
  LET upTo[k \in 0..Len(f)] == IF k = 0 THEN [s EXCEPT !.rows = <<>>] ELSE TakeRow(upTo[k - 1], t, f, k)
  IN upTo[Len(f)]

\* _claims: lines whose every word a rewrite's rows hold, after the first that they rewrite.
Rewritten(s, t, f) ==
  LET claimed == {At(s.known, f[k].at) : k \in {h \in 1..Len(f) : f[h].as = "revised"}}
  IN IF claimed = {} THEN {}
     ELSE {i \in TailOf(s, t) : ~Old(i) /\ At(s.known, i) > Min(claimed)} \ ToSet(s.rows)

RunIn(run, rows) == \E k \in 0..(Len(rows) - Len(run)) : SubSeq(rows, k + 1, k + Len(run)) = run

\* _merged_below: the bottom row took the words of all the lines that the last frame showed right
\* under it.
MergedBelow(s, t, f) ==
  IF f = <<>> \/ f[Len(f)].as # "known" THEN {}
  ELSE LET bottom == f[Len(f)].at
           below == {i \in TailOf(s, t) : At(s.known, i) > At(s.known, bottom)} \ ToSet(s.rows)
           run == SetToSortSeq(below, LAMBDA i, j : At(s.known, i) < At(s.known, j))
       IN IF s.line[bottom].changed = t /\ RunIn(<<bottom>> \o run, s.last.rows) THEN below ELSE {}

\* Last frame's folds whose line this one does not show are dropped; it may hold folds of its own.
Folded(s, t, f) ==
  LET dropped == Drop(s, {i \in s.folds \intersect ToSet(s.known) : s.line[i].seen # t})
  IN {[dropped EXCEPT !.folds = F] : F \in SUBSET Rewritten(s, t, f) \union {MergedBelow(s, t, f)}}

Span(s, e) == Between(s, e[1], e[2]) \union {e[1], e[2]}

\* Where an entry's lines begin and end: a placed row, and a placed row or, when a row is a
\* glitch, a line that it may stand for (_fill_glitches).  All are this meeting's.
EntryEnds(s, f) ==
  LET placed == ToSet(s.rows) \intersect ToSet(s.known)
      glitch == \E k \in 1..Len(f) : s.rows[k] = 0
  IN {e \in placed \X ToSet(s.known) : /\ At(s.known, e[1]) <= At(s.known, e[2])
                                       /\ e[2] \in placed \/ glitch
                                       /\ \A i \in Span(s, e) : ~Old(i)}

\* Recent lines between them that no row shows may be stale copies of words that moved (_held).
Stale(s, t, e) == {i \in Between(s, e[1], e[2]) \ ToSet(s.rows) : t - s.line[i].first <= Fresh}

Reread(x) == CHOOSE y \in Texts : y # x

\* _reflow: an entry's rows replace the texts of the lines they landed on, and stale lines between
\* them are dropped.  A stored line keeps the time it last changed.
Reworded(s, t, I) ==
  LET final == {i \in I : s.line[i].final}
  IN [s EXCEPT
        !.line = [i \in Lines |-> IF i \in I THEN [@[i] EXCEPT !.text = Reread(@),
                                                               !.changed = IF i \in final THEN @ ELSE t]
                                  ELSE @[i]],
        !.segment = [i \in Lines |-> IF i \in final THEN [@[i] EXCEPT !.text = Reread(s.line[i].text)]
                                     ELSE @[i]],
        !.out = @ \union final]
Reflowed(s, t, f) ==
  {s} \union UNION {UNION {{Drop(Reworded(s, t, I), D) : I \in SUBSET (Span(s, e) \ D)} :
                             D \in SUBSET Stale(s, t, e)} : e \in EntryEnds(s, f)}

\* _grow: a recent stored line, matched or misread, read with words added twice in a row.
MayGrow(s, t, r) ==
  /\ r.as \in {"known", "misread"}
  /\ r.at \in ToSet(s.known) /\ s.line[r.at].final /\ t - s.line[r.at].first <= Fresh

\* _merged_above: how many lines right above it its row may have absorbed, none of them read or
\* added by this snapshot, ...
Absorbed(s, t, f, i) ==
  {n \in 1..(At(s.known, i) - 1) :
     \A k \in (At(s.known, i) - n)..(At(s.known, i) - 1) :
       LET j == s.known[k] IN /\ ~Old(j) /\ t - s.line[j].first <= Fresh
                              /\ j \notin ToSet(s.rows) /\ \A h \in 1..Len(f) : f[h].at # j}

\* ... the first of which takes the text, and the others are dropped with it.
MergeAbove(s, t, i, n) ==
  LET at == At(s.known, i)
      first == s.known[at - n]
  IN Drop(Emit(Retext(s, t, first, Reread(s.line[first].text)), first),
          {s.known[k] : k \in (at - n + 1)..at})

\* _apply_grows
Grown(s, t, f) ==
  LET grow(m, r) == {MergeAbove(m, t, r.at, n) : n \in Absorbed(m, t, f, r.at)}
                    \union (IF Old(r.at) THEN {} ELSE {Retext(m, t, r.at, Reread(m.line[r.at].text))})
      upTo[k \in 0..Len(f)] ==
        IF k = 0 THEN {s}
        ELSE UNION {{m} \union (IF MayGrow(m, t, f[k]) THEN grow(m, f[k]) ELSE {}) : m \in upTo[k - 1]}
  IN upTo[Len(f)]

\* A line is final once another speaker's block follows it.
SaidOn(s, f) ==
  {Finalized(s, I) : I \in SUBSET {i \in ToSet(s.known) : ~s.line[i].final /\
                                     \E k \in 1..(Len(f) - 1) : s.rows[k] = i}}

\* _settle: or once it has not changed for stable_ms.
SettledAt(s, t) ==
  Finalized(s, {i \in ToSet(s.known) : ~s.line[i].final /\ t - s.line[i].changed >= Stable})

\* _merge
Merges(s, t) ==
  LET frame(f) ==
        UNION {UNION {UNION {{SettledAt([z EXCEPT !.last = [ts |-> t, rows |-> z.rows]], t) :
          z \in SaidOn(g, f)} : g \in Grown(r, t, f)} : r \in Reflowed(d, t, f)} :
            d \in Folded(Walked(s, t, f), t, f)}
  IN UNION {frame(f) : f \in Snapshots(s, t)}

---------------------------------------------------------------------------
\* The snapshot re-reads the last one's rows under other names (_reheaded): a row keeps its name,
\* and those that do not are lines of this meeting.
Rereads(t, moved) ==
  /\ t - (IF pendingFrame = NotHeld THEN last.ts ELSE pendingFrame.ts) <= Rehead
  /\ moved # {} /\ \E k \in 1..Len(last.rows) : k \notin moved
  /\ \A k \in moved : last.rows[k] # 0 /\ ~Old(last.rows[k])

\* They take the names that two snapshots in a row read.
Renamed(s, t, moved) ==
  LET I == {s.last.rows[k] : k \in moved}
      other == [n \in NameReadings |-> CHOOSE m \in NameReadings : m # n]
      to == [i \in I |-> other[s.line[i].name]]
      final == {i \in I : s.line[i].final}
  IN [s EXCEPT !.line = [i \in Lines |-> IF i \in I THEN [@[i] EXCEPT !.name = to[i], !.seen = t] ELSE @[i]],
               !.segment = [i \in Lines |-> IF i \in final THEN [@[i] EXCEPT !.name = to[i]] ELSE @[i]],
               !.last.ts = t, !.out = @ \union final]

\* What a snapshot leaves, and what the tracker stores of it.
Leave(s) ==
  /\ known' = s.known /\ line' = s.line /\ segment' = s.segment /\ newLines' = s.new
  /\ nextFirst' = s.next /\ folds' = s.folds /\ last' = s.last
  /\ storeCopy' = [i \in Lines |-> IF i \in s.out THEN s.segment[i] ELSE storeCopy[i]]

Arrives(t) == ~flushed /\ frames < MaxFrames /\ ts' = t /\ frames' = frames + 1 /\ UNCHANGED flushed

\* feed: the snapshot's names wait for the next one to agree, ...
FeedHeld(t) ==
  \E moved \in SUBSET (1..Len(last.rows)) :
    /\ Rereads(t, moved) /\ pendingFrame.moved # moved
    /\ pendingFrame' = [ts |-> t, moved |-> moved]
    /\ Leave(SettledAt(Merger, t))

\* ... which takes them ...
FeedRenamed(t) ==
  /\ pendingFrame # NotHeld /\ Rereads(t, pendingFrame.moved)
  /\ pendingFrame' = NotHeld
  /\ Leave(SettledAt(Renamed(Merger, t, pendingFrame.moved), t))

\* ... or reads the old ones again, so that the names are dropped, or nothing was held ...
FeedMerged(t) ==
  /\ pendingFrame' = NotHeld
  /\ \E s \in Merges(Merger, t) : Leave(s)

\* ... or shows other rows: the held one is merged after all, then this one if the window has
\* work left for it.
FeedBoth(t) ==
  /\ pendingFrame # NotHeld
  /\ pendingFrame' = NotHeld
  /\ \E s \in Merges(Merger, pendingFrame.ts) : Leave(s) \/ \E z \in Merges(s, t) : Leave(z)

\* OverBudget: the window has no work left for this snapshot (MergeBudget).
FeedRefused == pendingFrame' = NotHeld /\ Leave(Merger)

Feed == \E d \in Steps :
  LET t == ts + d IN /\ Arrives(t)
                     /\ \/ FeedHeld(t) \/ FeedRenamed(t) \/ FeedMerged(t)
                        \/ FeedBoth(t) \/ FeedRefused

\* flush: the meeting ended.
FlushMerger ==
  /\ ~flushed /\ flushed' = TRUE
  /\ Leave(Finalized(Merger, {i \in ToSet(known) : ~line[i].final}))
  /\ UNCHANGED <<pendingFrame, ts, frames>>

MergeNext == Feed \/ FlushMerger
MergeSpec == MergeInit /\ [][MergeNext]_mergeVars

---------------------------------------------------------------------------
\* The ended meeting's lines are the oldest known ones.
OldOnTop == SubSeq(known, 1, OldLines) = [k \in 1..OldLines |-> k]

\* Two lines are never ordered alike, and each after the lines shown above it.
InScreenOrder == \A j, k \in 1..Len(known) :
  j < k /\ ~Old(known[j]) /\ ~Old(known[k]) => line[known[j]].order < line[known[k]].order

\* The store holds each final line of this meeting as the merger does, dropped ones blank.
StoreFollows == \A i \in Lines : ~Old(i) => storeCopy[i] = segment[i]

\* Nothing of the ended meeting is emitted.
OldUntouched == \A i \in Lines : Old(i) => storeCopy[i] = NoSegment

MergeSafe == OldOnTop => InScreenOrder /\ StoreFollows /\ OldUntouched
=============================================================================
