------------------------------- MODULE Captions -------------------------------
(***************************************************************************)
(* The captions of one clip: which words of the transcript fall into its   *)
(* window, how they make lines, and which line is on the screen when, with *)
(* which word of it highlighted (postiz_uploader/captions.py).             *)
(*                                                                         *)
(* Times are whole units, as the centiseconds of the subtitle file are.    *)
(* Of a word's text its length and whether it ends a sentence are kept.    *)
(***************************************************************************)
EXTENDS Integers, Sequences, FiniteSets, SequencesExt

CONSTANTS
    Horizon,      \* the latest time a word starts at
    Lengths,      \* how long words last, also backwards
    Texts,        \* what words say: [chars |-> a length, stop |-> a sentence ends]
    MaxHeard,     \* how many words a transcript has at most
    From, To,     \* the window of the clip
    MaxWords,     \* style.max_words
    MaxChars,     \* style.max_chars
    Gap, Hold     \* MAX_GAP_SECONDS and HOLD_SECONDS

ASSUME TimesAssumption == {From, To, Gap, Hold} \subseteq Nat /\ From < To /\ Hold <= Gap
ASSUME TranscriptAssumption == /\ Horizon \in Nat /\ MaxHeard \in Nat
                               /\ Lengths \subseteq Int
                               /\ Texts \subseteq [chars : Nat, stop : BOOLEAN]
ASSUME StyleAssumption == MaxWords \in Nat \ {0} /\ MaxChars \in Nat \ {0}

VARIABLES
    phase,     \* "slice", "group", "time" or "done"
    heard,     \* how many words of the transcript have been looked at
    kept,      \* the words of the clip by start, on its own timeline
    taken,     \* how many of them are in a line
    groups,    \* the lines that are closed
    current,   \* the line being filled
    lines      \* the lines with their times

vars == <<phase, heard, kept, taken, groups, current, lines>>
----------------------------------------------------------------------------
Duration == To - From

\* A transcript is whatever the caller sends: words in no order, that overlap,
\* that are blank or that end before they start.
Words ==
    LET any == {[start |-> s, end |-> s + d, chars |-> t.chars, stop |-> t.stop] :
                   s \in 0..Horizon, d \in Lengths, t \in Texts}
    IN  {w \in any : w.end >= 0}

Init ==
    /\ phase = "slice"
    /\ heard = 0
    /\ kept = << >>
    /\ taken = 0
    /\ groups = << >>
    /\ current = << >>
    /\ lines = << >>

(***************************************************************************)
(* slice_words()                                                           *)
(***************************************************************************)
\* Its midpoint is in the window, both ends of which are in.
InWindow(w) ==
    /\ w.chars > 0
    /\ w.end >= w.start
    /\ 2 * From <= w.start + w.end
    /\ w.start + w.end <= 2 * To

\* Mutant: the times are shifted and not clamped.
ShiftedOnly(w) == [w EXCEPT !.start = @ - From, !.end = @ - From]

Retimed(w) ==
    [w EXCEPT !.start = IF @ > From THEN @ - From ELSE 0,
              !.end = IF @ < To THEN @ - From ELSE Duration]

\* The sort by start is stable.
Sorted(w) ==
    InsertAt(kept, 1 + Cardinality({i \in DOMAIN kept : kept[i].start <= w.start}), w)

Hear ==
    /\ phase = "slice"
    /\ heard < MaxHeard
    /\ heard' = heard + 1
    /\ \E w \in Words : kept' = IF InWindow(w) THEN Sorted(Retimed(w)) ELSE kept
    /\ UNCHANGED <<phase, taken, groups, current, lines>>

AllHeard ==
    /\ phase = "slice"
    /\ phase' = "group"
    /\ UNCHANGED <<heard, kept, taken, groups, current, lines>>

(***************************************************************************)
(* group_lines(): the words into lines.                                    *)
(***************************************************************************)
\* The letters of a line, named by their word and their number in it.
Letters(line) == UNION {{i} \X (1..line[i].chars) : i \in DOMAIN line}

\* The length of a line, with a space between two words.
Chars(line) == Cardinality(Letters(line)) + (Len(line) - 1)

\* Mutant: the spaces of a line are not counted.
BreaksWithoutSpaces(line, w) ==
    \/ Len(line) >= MaxWords
    \/ Cardinality(Letters(line)) + w.chars > MaxChars
    \/ w.start - Last(line).end > Gap
    \/ Last(line).stop

\* A line ends when it is full, before a pause and after a sentence.
Breaks(line, w) ==
    \/ Len(line) >= MaxWords
    \/ Chars(line) + 1 + w.chars > MaxChars
    \/ w.start - Last(line).end > Gap
    \/ Last(line).stop

Group ==
    /\ phase = "group"
    /\ taken < Len(kept)
    /\ LET w == kept[taken + 1] IN
       IF current # << >> /\ Breaks(current, w)
       THEN groups' = Append(groups, current) /\ current' = <<w>>
       ELSE current' = Append(current, w) /\ UNCHANGED groups
    /\ taken' = taken + 1
    /\ UNCHANGED <<phase, heard, kept, lines>>

\* Mutant: the line being filled is dropped.
ClosedOnly == groups

AllGroups == IF current # << >> THEN Append(groups, current) ELSE groups

AllGrouped ==
    /\ phase = "group"
    /\ taken = Len(kept)
    /\ groups' = AllGroups
    /\ current' = << >>
    /\ phase' = "time"
    /\ UNCHANGED <<heard, kept, taken, lines>>

(***************************************************************************)
(* group_lines(): when a line goes.                                        *)
(***************************************************************************)
Least(a, b) == IF a <= b THEN a ELSE b

\* Mutant: the hold does not yield to the next line.
LineEndHeld(i) == Least(Last(groups[i]).end + Hold, Duration)

\* It is held after its last word until the next line starts, but never goes
\* before that word is spoken, and never outlives the clip.
LineEnd(i) ==
    LET spoken == Last(groups[i]).end
        next   == IF i < Len(groups) THEN groups[i + 1][1].start ELSE Duration + Hold
        held   == Least(spoken + Hold, next)
    IN  Least(IF held > spoken THEN held ELSE spoken, Duration)

TimeLine ==
    /\ phase = "time"
    /\ Len(lines) < Len(groups)
    /\ LET i == Len(lines) + 1 IN
       lines' = Append(lines, [words |-> groups[i], start |-> groups[i][1].start,
                               end |-> LineEnd(i)])
    /\ UNCHANGED <<phase, heard, kept, taken, groups, current>>

AllTimed ==
    /\ phase = "time"
    /\ Len(lines) = Len(groups)
    /\ phase' = "done"
    /\ UNCHANGED <<heard, kept, taken, groups, current, lines>>

Done == phase = "done" /\ UNCHANGED vars

Next == Hear \/ AllHeard \/ Group \/ AllGrouped \/ TimeLine \/ AllTimed \/ Done

Spec == Init /\ [][Next]_vars
----------------------------------------------------------------------------
(***************************************************************************)
(* build_ass(): the events.  word is the index of the highlighted word, 0  *)
(* for a style without a highlight colour.                                 *)
(***************************************************************************)
Event(n, from, until, word) == [line |-> n, from |-> from, until |-> until, word |-> word]

\* Mutant: a word is highlighted until it ends.
SpanUntilSpoken(l, i) == l.words[i].end

\* A word is highlighted until the next one of its line starts.
SpanUntil(l, i) == IF i < Len(l.words) THEN l.words[i + 1].start ELSE l.end

Spans(n, highlight) ==
    LET l == lines[n] IN
    IF highlight
    THEN {Event(n, IF i = 1 THEN l.start ELSE l.words[i].start, SpanUntil(l, i), i) :
             i \in DOMAIN l.words}
    ELSE {Event(n, l.start, l.end, 0)}

\* An empty span has no event.
Events(highlight) ==
    {e \in UNION {Spans(n, highlight) : n \in DOMAIN lines} : e.from < e.until}

\* What is on the screen from t to t + 1.
Shown(highlight, t) == {e \in Events(highlight) : e.from <= t /\ t < e.until}

Instants == -From..(To + Horizon)

\* Of a word on the timeline of the clip some instant may be left, or none.
KeptWords ==
    {w \in [start : 0..Duration, end : 0..Duration, chars : Nat \ {0}, stop : BOOLEAN] :
        w.start <= w.end}

TypeOK ==
    /\ phase \in {"slice", "group", "time", "done"}
    /\ heard \in 0..MaxHeard
    /\ kept \in Seq(KeptWords)
    /\ taken \in 0..Len(kept)
    /\ groups \in Seq(Seq(KeptWords))
    /\ current \in Seq(KeptWords)
    /\ lines \in Seq([words : Seq(KeptWords), start : 0..Duration, end : 0..Duration])
    /\ Len(groups) <= taken
    /\ Len(current) <= MaxWords
    /\ Len(lines) <= Len(groups)

\* How many words the first n of some lines have.
Place(ls, n) == Cardinality(UNION {{m} \X DOMAIN ls[m] : m \in 1..n})

\* One after the other, the lines hold the first k words of the clip.
InOrder(ls, k) ==
    /\ \A n \in DOMAIN ls : \A i \in DOMAIN ls[n] : ls[n][i] = kept[Place(ls, n - 1) + i]
    /\ Place(ls, Len(ls)) = k

\* Each word of the window is in one line, in the order they are spoken,
\* whatever the order of the transcript: none is lost at a line break, at the
\* end, or between two ties.
EveryWordOnce ==
    /\ InOrder(Append(groups, current), taken)
    /\ \A i, j \in DOMAIN kept : i < j => kept[i].start <= kept[j].start
    /\ phase = "done" => InOrder([n \in DOMAIN lines |-> lines[n].words], Len(kept))

\* A line fits its limits unless it is a single long word, and no line could
\* have taken the first word of the next one without breaking a limit, hanging
\* over a pause or running two sentences together.
LinesWellBroken ==
    phase = "done" =>
        \A n \in DOMAIN lines :
            LET ws == lines[n].words IN
            /\ Len(ws) <= MaxWords
            /\ Chars(ws) <= MaxChars \/ Len(ws) = 1
            /\ \A i \in 2..Len(ws) : ~ ws[i - 1].stop /\ ws[i].start <= ws[i - 1].end + Gap
            /\ n < Len(lines) =>
                  LET more == Append(ws, lines[n + 1].words[1]) IN
                  \/ Len(more) > MaxWords
                  \/ Chars(more) > MaxChars
                  \/ Last(ws).stop
                  \/ Last(more).start > Last(ws).end + Gap

\* The words are spoken one after the other.
Orderly == \A i, j \in DOMAIN kept : i < j => kept[i].end <= kept[j].start

\* The caption is the speech: while a word is spoken its line, and no other, is
\* on the screen, and with a highlight it is that word that has it.  Several
\* steps could break it: the clamping at both ends of the window, the sort, the
\* hold of the line before, a span that is empty.
HighlightFollowsSpeech ==
    phase = "done" /\ Orderly =>
        \A highlight \in BOOLEAN, n \in DOMAIN lines : \A i \in DOMAIN lines[n].words :
            LET w == lines[n].words[i] IN
            \A t \in w.start..(w.end - 1) :
                LET shown == Shown(highlight, t) IN
                /\ Cardinality(shown) = 1
                /\ \A e \in shown : e.line = n /\ e.word = IF highlight THEN i ELSE 0

\* Captions stay inside the clip and never hang over silence, also when the
\* words overlap: a line is on the screen from one of its words to at most a
\* pause after it, and it has no hole.
NeverOverSilence ==
    phase = "done" =>
        \A highlight \in BOOLEAN, t \in Instants :
            /\ \A e \in Shown(highlight, t) :
                  /\ 0 <= t /\ t < Duration
                  /\ \E i \in DOMAIN lines[e.line].words :
                        LET w == lines[e.line].words[i] IN w.start <= t /\ t < w.end + Gap
            /\ \A n \in DOMAIN lines :
                  (\E e \in Shown(highlight, t) : e.line = n)
                      <=> lines[n].start <= t /\ t < lines[n].end
=============================================================================
