---------------------------- MODULE CaptionsProofs ----------------------------
(***************************************************************************)
(* Proofs about Captions, for transcripts, windows and styles of any size. *)
(***************************************************************************)
EXTENDS Captions, SequenceTheorems, FiniteSetTheorems, TLAPS

\* A line of the clip.
Line == Seq(KeptWords)

(***************************************************************************)
(* Counting.                                                               *)
(***************************************************************************)
LEMMA CountUpTo ==
    ASSUME NEW k \in Nat
    PROVE  IsFiniteSet(1..k) /\ Cardinality(1..k) = k
BY FS_Interval

\* A column of k pairs beside a set that has none of them.
LEMMA ColumnAdded ==
    ASSUME NEW S, IsFiniteSet(S), NEW x, NEW k \in Nat, \A i \in 1..k : <<x, i>> \notin S
    PROVE  /\ IsFiniteSet(S \cup ({x} \X (1..k)))
           /\ Cardinality(S) \in Nat
           /\ Cardinality(S \cup ({x} \X (1..k))) = Cardinality(S) + k
<1> DEFINE C == {x} \X (1..k)
<1>1. IsFiniteSet({x}) /\ Cardinality({x}) = 1 /\ IsFiniteSet(1..k) /\ Cardinality(1..k) = k
  BY FS_Singleton, CountUpTo
<1>2. IsFiniteSet(C) /\ Cardinality(C) = k
  <2>1. IsFiniteSet(C) /\ Cardinality(C) = Cardinality({x}) * Cardinality(1..k)
    BY <1>1, FS_Product
  <2>2. 1 * k = k
    OBVIOUS
  <2>3. QED
    BY <1>1, <2>1, <2>2
<1>3. S \cap C = {}
  OBVIOUS
<1>4. Cardinality(S \cap C) = 0
  BY <1>3, FS_EmptySet
<1>5. /\ IsFiniteSet(S \cup C)
      /\ Cardinality(S \cup C) = Cardinality(S) + Cardinality(C) - Cardinality(S \cap C)
  BY <1>2, FS_Union
<1>6. Cardinality(S) \in Nat
  BY FS_CardinalityType
<1>7. QED
  BY <1>2, <1>4, <1>5, <1>6

\* A set of places with every place before one of its own is an interval.
LEMMA DownwardClosed ==
    ASSUME NEW m \in Nat, NEW D \in SUBSET (1..m),
           \A i \in D : \A k \in 1..m : k < i => k \in D
    PROVE  Cardinality(D) \in 0..m /\ D = 1..Cardinality(D)
<1> DEFINE c == Cardinality(D)
<1>1. IsFiniteSet(D) /\ c \in Nat /\ c <= m
  <2>1. IsFiniteSet(1..m) /\ Cardinality(1..m) = m
    BY CountUpTo
  <2>2. IsFiniteSet(D) /\ Cardinality(D) <= Cardinality(1..m)
    BY <2>1, FS_Subset
  <2>3. Cardinality(D) \in Nat
    BY <2>2, FS_CardinalityType
  <2>4. QED
    BY <2>1, <2>2, <2>3
<1>2. ASSUME NEW i \in D PROVE i \in 1..c
  <2>1. 1..i \subseteq D
    BY <1>2
  <2>2. Cardinality(1..i) <= c
    BY <1>1, <2>1, FS_Subset
  <2>3. i \in Nat /\ Cardinality(1..i) = i
    BY CountUpTo
  <2>4. QED
    BY <1>1, <2>2, <2>3
<1>3. D \in SUBSET (1..c) /\ IsFiniteSet(1..c) /\ Cardinality(1..c) = c
  BY <1>1, <1>2, CountUpTo
<1>4. D = 1..c
  BY <1>3, FS_Subset
<1>5. QED
  BY <1>1, <1>4

(***************************************************************************)
(* Lines and their lengths.                                                *)
(***************************************************************************)
LEMMA AppendWord ==
    ASSUME NEW S, NEW line \in Seq(S), NEW w \in S
    PROVE  /\ Append(line, w) \in Seq(S)
           /\ Len(line) \in Nat /\ DOMAIN line = 1..Len(line)
           /\ Len(Append(line, w)) = Len(line) + 1
           /\ DOMAIN Append(line, w) = 1..(Len(line) + 1)
           /\ \A i \in 1..Len(line) : Append(line, w)[i] = line[i]
           /\ Append(line, w)[Len(line) + 1] = w
BY AppendProperties, LenProperties

\* A word adds its letters and a space.
LEMMA CharsOfAppend ==
    ASSUME NEW line \in Line, NEW w \in KeptWords, IsFiniteSet(Letters(line))
    PROVE  /\ IsFiniteSet(Letters(Append(line, w)))
           /\ Chars(line) \in Int
           /\ Chars(Append(line, w)) = Chars(line) + 1 + w.chars
<1> DEFINE n == Len(line) + 1
           S == Letters(line)
<1>1. w.chars \in Nat
  BY DEF KeptWords
<1>2. /\ Len(line) \in Nat /\ DOMAIN line = 1..Len(line)
      /\ Append(line, w) \in Line
      /\ DOMAIN Append(line, w) = 1..n
      /\ Len(Append(line, w)) = n
      /\ \A i \in 1..Len(line) : Append(line, w)[i] = line[i]
      /\ Append(line, w)[n] = w
  BY AppendWord DEF Line
<1>3. Letters(Append(line, w)) = S \cup ({n} \X (1..w.chars))
  BY <1>2 DEF Letters
<1>4. \A i \in 1..w.chars : <<n, i>> \notin S
  BY <1>2 DEF Letters
<1>5. /\ IsFiniteSet(S \cup ({n} \X (1..w.chars)))
      /\ Cardinality(S) \in Nat
      /\ Cardinality(S \cup ({n} \X (1..w.chars))) = Cardinality(S) + w.chars
  <2> HIDE DEF S, n
  <2>1. IsFiniteSet(S)
    BY DEF S
  <2>2. QED
    BY <1>1, <1>4, <2>1, ColumnAdded
<1>6. /\ IsFiniteSet(Letters(Append(line, w)))
      /\ Cardinality(Letters(Append(line, w))) = Cardinality(S) + w.chars
  BY <1>3, <1>5
<1>7. /\ Chars(line) = Cardinality(S) + (Len(line) - 1)
      /\ Chars(Append(line, w)) = Cardinality(S) + w.chars + ((Len(line) + 1) - 1)
  BY <1>2, <1>6 DEF Chars
<1>8. QED
  BY <1>1, <1>2, <1>5, <1>6, <1>7

LEMMA LettersOfOne ==
    ASSUME NEW w \in KeptWords
    PROVE  IsFiniteSet(Letters(<<w>>))
<1>1. w.chars \in Nat
  BY DEF KeptWords
<1>2. Letters(<<w>>) = {} \cup ({1} \X (1..w.chars))
  BY DEF Letters
<1>3. IsFiniteSet({}) /\ \A i \in 1..w.chars : <<1, i>> \notin {}
  BY FS_EmptySet
<1>4. IsFiniteSet({} \cup ({1} \X (1..w.chars)))
  BY <1>1, <1>3, ColumnAdded
<1>5. QED
  BY <1>2, <1>4

(***************************************************************************)
(* slice_words(): a word on the timeline of the clip, and its place.       *)
(***************************************************************************)
LEMMA DurationTyped == Duration \in Nat /\ From \in Nat /\ To \in Nat /\ Duration = To - From
BY TimesAssumption DEF Duration

\* The shift and the two clamps leave a time span inside the clip.
LEMMA RetimedKept ==
    ASSUME NEW w \in Words, InWindow(w)
    PROVE  Retimed(w) \in KeptWords
<1> DEFINE a == IF w.start > From THEN w.start - From ELSE 0
           b == IF w.end < To THEN w.end - From ELSE Duration
<1>1. w \in [start : Int, end : Int, chars : Nat, stop : BOOLEAN]
  BY TranscriptAssumption DEF Words
<1>2. /\ w.chars \in Nat \ {0} /\ w.stop \in BOOLEAN
      /\ w.start \in Int /\ w.end \in Int
      /\ w.end >= w.start
      /\ 2 * From <= w.start + w.end
      /\ w.start + w.end <= 2 * To
  BY <1>1 DEF InWindow
<1>3. a \in 0..Duration /\ b \in 0..Duration /\ a <= b
  BY <1>2, DurationTyped, TimesAssumption
<1>4. Retimed(w) = [start |-> a, end |-> b, chars |-> w.chars, stop |-> w.stop]
  <2>1. Retimed(w) = [w EXCEPT !.start = a, !.end = b]
    BY <1>1 DEF Retimed
  <2> HIDE DEF a, b
  <2>2. QED
    BY <1>1, <2>1
<1>5. QED
  BY <1>2, <1>3, <1>4 DEF KeptWords

\* A word put at place p of a sequence: those from there on make room.
LEMMA InsertedAt ==
    ASSUME NEW S, NEW s \in Seq(S), NEW e \in S, NEW p \in 1..(Len(s) + 1)
    PROVE  /\ InsertAt(s, p, e) \in Seq(S)
           /\ Len(s) \in Nat
           /\ Len(InsertAt(s, p, e)) = Len(s) + 1
           /\ DOMAIN InsertAt(s, p, e) = 1..(Len(s) + 1)
           /\ \A i \in 1..(Len(s) + 1) :
                 InsertAt(s, p, e)[i] = IF i < p THEN s[i] ELSE IF i = p THEN e ELSE s[i - 1]
<1> DEFINE before == SubSeq(s, 1, p - 1)
           after  == SubSeq(s, p, Len(s))
           start  == before \o <<e>>
<1>1. Len(s) \in Nat /\ p \in Nat /\ p >= 1 /\ p <= Len(s) + 1 /\ \A i \in 1..Len(s) : s[i] \in S
  BY LenProperties
<1>2. /\ before \in Seq(S)
      /\ Len(before) = p - 1
      /\ \A i \in 1..(p - 1) : before[i] = s[i]
  <2>1. 1 \in Int /\ (p - 1) \in Int /\ \A i \in 1..(p - 1) : s[i] \in S
    BY <1>1
  <2>2. /\ before \in Seq(S)
        /\ Len(before) = IF 1 <= p - 1 THEN ((p - 1) - 1) + 1 ELSE 0
        /\ \A i \in 1..(((p - 1) - 1) + 1) : before[i] = s[(1 + i) - 1]
    BY <2>1, SubSeqProperties
  <2>3. QED
    BY <1>1, <2>2
<1>3. /\ after \in Seq(S)
      /\ Len(after) = (Len(s) - p) + 1
      /\ \A i \in 1..((Len(s) - p) + 1) : after[i] = s[(p + i) - 1]
  <2>1. p \in Int /\ Len(s) \in Int /\ \A i \in p..Len(s) : s[i] \in S
    BY <1>1
  <2>2. /\ after \in Seq(S)
        /\ Len(after) = IF p <= Len(s) THEN (Len(s) - p) + 1 ELSE 0
        /\ \A i \in 1..((Len(s) - p) + 1) : after[i] = s[(p + i) - 1]
    BY <2>1, SubSeqProperties
  <2>3. QED
    BY <1>1, <2>2
<1>4. <<e>> \in Seq(S) /\ Len(<<e>>) = 1 /\ <<e>>[1] = e
  OBVIOUS
<1>5. /\ start \in Seq(S)
      /\ Len(start) = p
      /\ \A i \in 1..p : start[i] = IF i < p THEN s[i] ELSE e
  <2>1. /\ start \in Seq(S)
        /\ Len(start) = Len(before) + 1
        /\ \A i \in 1..(Len(before) + 1) :
              start[i] = IF i <= Len(before) THEN before[i] ELSE <<e>>[i - Len(before)]
    BY <1>2, <1>4, ConcatProperties
  <2> HIDE DEF before, start
  <2>2. QED
    BY <1>1, <1>2, <1>4, <2>1
<1>6. /\ start \o after \in Seq(S)
      /\ Len(start \o after) = Len(start) + Len(after)
      /\ \A i \in 1..(Len(start) + Len(after)) :
            (start \o after)[i] = IF i <= Len(start) THEN start[i] ELSE after[i - Len(start)]
  <2>1. start \in Seq(S) /\ after \in Seq(S)
    BY <1>3, <1>5
  <2> HIDE DEF start, after
  <2>2. QED
    BY <2>1, ConcatProperties
<1>7. InsertAt(s, p, e) = start \o after
  BY DEF InsertAt
<1> HIDE DEF before, after, start
<1>8. Len(start \o after) = Len(s) + 1
  BY <1>1, <1>3, <1>5, <1>6
<1>9. ASSUME NEW i \in 1..(Len(s) + 1)
      PROVE  (start \o after)[i] = IF i < p THEN s[i] ELSE IF i = p THEN e ELSE s[i - 1]
  <2>1. i \in 1..(Len(start) + Len(after))
    BY <1>1, <1>3, <1>5
  <2>2. CASE i <= p
    BY <1>1, <1>5, <1>6, <2>1, <2>2
  <2>3. CASE ~ (i <= p)
    <3>1. (i - p) \in 1..((Len(s) - p) + 1) /\ (p + (i - p)) - 1 = i - 1
      BY <1>1, <2>3
    <3>2. (start \o after)[i] = after[i - p]
      BY <1>1, <1>5, <1>6, <2>1, <2>3
    <3>3. after[i - p] = s[i - 1]
      BY <1>3, <3>1
    <3>4. QED
      BY <1>1, <2>3, <3>2, <3>3
  <2>4. QED
    BY <2>2, <2>3
<1>10. DOMAIN (start \o after) = 1..(Len(s) + 1)
  BY <1>6, <1>8, LenProperties
<1>11. QED
  BY <1>1, <1>6, <1>7, <1>8, <1>9, <1>10

\* Words by start.
ByStart(s) == \A i, j \in DOMAIN s : i < j => s[i].start <= s[j].start

\* A word goes behind those that do not start later, and the order stays.
LEMMA SortedStays ==
    ASSUME kept \in Line, ByStart(kept), NEW w \in KeptWords
    PROVE  /\ Sorted(w) \in Line
           /\ Len(Sorted(w)) = Len(kept) + 1
           /\ ByStart(Sorted(w))
<1> DEFINE m == Len(kept)
           D == {i \in DOMAIN kept : kept[i].start <= w.start}
           c == Cardinality(D)
           s == Sorted(w)
<1>1. m \in Nat /\ DOMAIN kept = 1..m /\ \A i \in 1..m : kept[i].start \in Int
  BY LenProperties DEF Line, KeptWords
<1>2. w.start \in Int
  BY DEF KeptWords
<1>3. c \in 0..m /\ D = 1..c
  <2>1. D \in SUBSET (1..m)
    BY <1>1
  <2>2. \A i \in D : \A k \in 1..m : k < i => k \in D
    BY <1>1, <1>2 DEF ByStart
  <2> HIDE DEF D, m
  <2>3. QED
    BY <1>1, <2>1, <2>2, DownwardClosed
<1>4. (1 + c) \in 1..(m + 1)
  <2> HIDE DEF c, m
  <2>1. QED
    BY <1>1, <1>3
<1>5. /\ s \in Line
      /\ Len(s) = m + 1 /\ DOMAIN s = 1..(m + 1)
      /\ \A i \in 1..(m + 1) :
            s[i] = IF i < 1 + c THEN kept[i] ELSE IF i = 1 + c THEN w ELSE kept[i - 1]
  <2> DEFINE p == 1 + c
  <2>1. s = InsertAt(kept, p, w)
    BY DEF Sorted
  <2>2. kept \in Seq(KeptWords)
    BY DEF Line
  <2>3. p \in 1..(Len(kept) + 1)
    BY <1>4
  <2> HIDE DEF p, s
  <2>4. /\ InsertAt(kept, p, w) \in Seq(KeptWords)
        /\ Len(InsertAt(kept, p, w)) = Len(kept) + 1
        /\ DOMAIN InsertAt(kept, p, w) = 1..(Len(kept) + 1)
        /\ \A i \in 1..(Len(kept) + 1) : InsertAt(kept, p, w)[i] =
              IF i < p THEN kept[i] ELSE IF i = p THEN w ELSE kept[i - 1]
    BY <2>2, <2>3, InsertedAt
  <2>5. QED
    BY <2>1, <2>4 DEF Line, p
<1>6. \A i \in 1..c : kept[i].start <= w.start
  BY <1>3
<1>7. \A i \in 1..m : i > c => kept[i].start > w.start
  <2> HIDE DEF c
  <2>1. \A i \in 1..m : i \notin 1..c => i \notin D
    BY <1>3
  <2>2. QED
    BY <1>1, <1>2, <1>3, <2>1
<1> HIDE DEF D, c, s, m
<1>8. ASSUME NEW i \in 1..(m + 1), NEW j \in 1..(m + 1), i < j
      PROVE  s[i].start <= s[j].start
  <2>1. CASE j < 1 + c
    <3>1. s[i] = kept[i] /\ s[j] = kept[j] /\ i \in 1..m /\ j \in 1..m
      BY <1>1, <1>3, <1>5, <1>8, <2>1
    <3>2. QED
      BY <1>1, <1>8, <3>1 DEF ByStart
  <2>2. CASE j = 1 + c
    <3>1. s[i] = kept[i] /\ s[j] = w /\ i \in 1..c
      BY <1>1, <1>3, <1>5, <1>8, <2>2
    <3>2. QED
      BY <1>6, <3>1
  <2>3. CASE j > 1 + c /\ i = 1 + c
    <3>1. s[i] = w /\ s[j] = kept[j - 1] /\ (j - 1) \in 1..m /\ j - 1 > c
      BY <1>1, <1>3, <1>5, <1>8, <2>3
    <3>2. kept[j - 1].start \in Int
      BY <1>1, <3>1
    <3>3. QED
      BY <1>2, <1>7, <3>1, <3>2
  <2>4. CASE j > 1 + c /\ i < 1 + c
    <3>1. s[i] = kept[i] /\ s[j] = kept[j - 1] /\ i \in 1..c /\ i \in 1..m /\ (j - 1) \in 1..m /\ j - 1 > c
      BY <1>1, <1>3, <1>5, <1>8, <2>4
    <3>2. kept[i].start \in Int /\ kept[j - 1].start \in Int
      BY <1>1, <3>1
    <3>3. kept[i].start <= w.start /\ kept[j - 1].start > w.start
      BY <1>6, <1>7, <3>1
    <3>4. QED
      BY <1>2, <3>1, <3>2, <3>3
  <2>5. CASE j > 1 + c /\ i > 1 + c
    <3>1. s[i] = kept[i - 1] /\ s[j] = kept[j - 1] /\ (i - 1) \in 1..m /\ (j - 1) \in 1..m /\ i - 1 < j - 1
      BY <1>1, <1>3, <1>5, <1>8, <2>5
    <3>2. QED
      BY <1>1, <3>1 DEF ByStart
  <2>6. QED
    BY <1>1, <1>3, <2>1, <2>2, <2>3, <2>4, <2>5
<1>9. QED
  BY <1>5, <1>8 DEF ByStart, m, s

(***************************************************************************)
(* The places of the words of some lines in the clip.                      *)
(***************************************************************************)
Cells(ls, n) == UNION {{m} \X DOMAIN ls[m] : m \in 1..n}

LEMMA NoPlace == ASSUME NEW ls PROVE IsFiniteSet(Cells(ls, 0)) /\ Place(ls, 0) = 0
<1>1. Cells(ls, 0) = {}
  BY DEF Cells
<1>2. Place(ls, 0) = Cardinality(Cells(ls, 0))
  BY DEF Place, Cells
<1>3. QED
  BY <1>1, <1>2, FS_EmptySet

\* The cells are finitely many, so they can be counted.
LEMMA CellsFinite ==
    ASSUME NEW n \in Nat, NEW ls, NEW k \in Nat, \A m \in 1..n : DOMAIN ls[m] \subseteq 1..k
    PROVE  IsFiniteSet(Cells(ls, n)) /\ Place(ls, n) \in Nat
<1>1. IsFiniteSet(1..n) /\ IsFiniteSet(1..k)
  BY CountUpTo
<1>2. IsFiniteSet((1..n) \X (1..k))
  BY <1>1, FS_Product
<1>3. Cells(ls, n) \subseteq (1..n) \X (1..k)
  BY DEF Cells
<1>4. IsFiniteSet(Cells(ls, n))
  BY <1>2, <1>3, FS_Subset
<1>5. Cardinality(Cells(ls, n)) \in Nat
  BY <1>4, FS_CardinalityType
<1>6. QED
  BY <1>4, <1>5 DEF Place, Cells

\* A line moves the place by its length.
LEMMA PlaceStep ==
    ASSUME NEW n \in Nat \ {0}, NEW ls, NEW k \in Nat, \A m \in 1..n : DOMAIN ls[m] \subseteq 1..k,
           NEW l \in Nat, DOMAIN ls[n] = 1..l
    PROVE  Place(ls, n - 1) \in Nat /\ Place(ls, n) = Place(ls, n - 1) + l
<1> DEFINE S == Cells(ls, n - 1)
<1>1. (n - 1) \in Nat /\ \A m \in 1..(n - 1) : m \in 1..n
  OBVIOUS
<1>2. IsFiniteSet(S) /\ Place(ls, n - 1) \in Nat
  BY <1>1, CellsFinite
<1>3. \A i \in 1..l : <<n, i>> \notin S
  BY DEF Cells
<1>4. Cells(ls, n) = S \cup ({n} \X (1..l))
  <2>1. 1..n = (1..(n - 1)) \cup {n}
    OBVIOUS
  <2>2. QED
    BY <2>1 DEF Cells
<1>5. Place(ls, n) = Cardinality(Cells(ls, n)) /\ Place(ls, n - 1) = Cardinality(S)
  BY DEF Place, Cells
<1> HIDE DEF S
<1>6. Cardinality(S \cup ({n} \X (1..l))) = Cardinality(S) + l
  BY <1>2, <1>3, ColumnAdded
<1>7. QED
  BY <1>2, <1>4, <1>5, <1>6

\* Later lines have later places.
LEMMA PlaceGrows ==
    ASSUME NEW n \in Nat, NEW m \in Nat, m <= n, NEW ls, NEW k \in Nat,
           \A i \in 1..n : DOMAIN ls[i] \subseteq 1..k
    PROVE  Place(ls, m) \in Nat /\ Place(ls, n) \in Nat /\ Place(ls, m) <= Place(ls, n)
<1>1. IsFiniteSet(Cells(ls, n)) /\ Place(ls, n) \in Nat
  BY CellsFinite
<1>2. Cells(ls, m) \subseteq Cells(ls, n)
  BY DEF Cells
<1>3. IsFiniteSet(Cells(ls, m)) /\ Cardinality(Cells(ls, m)) <= Cardinality(Cells(ls, n))
  BY <1>1, <1>2, FS_Subset
<1>4. Cardinality(Cells(ls, m)) \in Nat
  BY <1>3, FS_CardinalityType
<1>5. QED
  BY <1>1, <1>3, <1>4 DEF Place, Cells

\* What comes after the first n lines does not move them.
LEMMA PlaceSame ==
    ASSUME NEW n \in Nat, NEW ls, NEW more, \A m \in 1..n : more[m] = ls[m]
    PROVE  Place(more, n) = Place(ls, n)
BY DEF Place

\* A line with the next words of the clip behind lines with those before them.
LEMMA LineAdded ==
    ASSUME NEW ls \in Seq(Line), \A n \in DOMAIN ls : Len(ls[n]) <= MaxWords,
           NEW line \in Line, Len(line) <= MaxWords,
           NEW k \in Nat, InOrder(ls, k),
           \A i \in DOMAIN line : line[i] = kept[k + i]
    PROVE  InOrder(Append(ls, line), k + Len(line))
<1> DEFINE m == Len(ls)
           more == Append(ls, line)
<1>1. /\ m \in Nat /\ DOMAIN ls = 1..m
      /\ Len(more) = m + 1 /\ DOMAIN more = 1..(m + 1)
      /\ \A i \in 1..m : more[i] = ls[i] /\ ls[i] \in Line
      /\ more[m + 1] = line
  BY AppendWord, LenProperties
<1>2. MaxWords \in Nat
  BY StyleAssumption
<1>3. Len(line) \in Nat /\ DOMAIN line = 1..Len(line)
  BY LenProperties DEF Line
<1>4. \A i \in 1..(m + 1) : DOMAIN more[i] \subseteq 1..MaxWords
  <2> SUFFICES ASSUME NEW i \in 1..(m + 1) PROVE DOMAIN more[i] \subseteq 1..MaxWords
    OBVIOUS
  <2>1. more[i] \in Line /\ Len(more[i]) <= MaxWords
    BY <1>1
  <2>2. Len(more[i]) \in Nat /\ DOMAIN more[i] = 1..Len(more[i])
    BY <2>1, LenProperties DEF Line
  <2>3. QED
    BY <1>2, <2>1, <2>2
<1> HIDE DEF more, m
<1>5. ASSUME NEW n \in 0..m PROVE Place(more, n) = Place(ls, n)
  <2>1. n \in Nat /\ \A i \in 1..n : more[i] = ls[i]
    BY <1>1
  <2>2. QED
    BY <2>1, PlaceSame
<1>6. Place(more, m) = k
  BY <1>1, <1>5 DEF InOrder, m
<1>7. Place(more, m + 1) = k + Len(line)
  <2>1. /\ (m + 1) \in Nat \ {0} /\ (m + 1) - 1 = m
        /\ DOMAIN more[m + 1] = 1..Len(line)
    BY <1>1, <1>3
  <2>2. Place(more, m + 1) = Place(more, (m + 1) - 1) + Len(line)
    BY <1>2, <1>3, <1>4, <2>1, PlaceStep
  <2>3. QED
    BY <1>6, <2>1, <2>2
<1>8. ASSUME NEW n \in DOMAIN more, NEW i \in DOMAIN more[n]
      PROVE  more[n][i] = kept[Place(more, n - 1) + i]
  <2>1. CASE n \in 1..m
    <3>1. (n - 1) \in 0..m /\ more[n] = ls[n]
      BY <1>1, <2>1
    <3>2. Place(more, n - 1) = Place(ls, n - 1)
      BY <1>5, <3>1
    <3>3. ls[n][i] = kept[Place(ls, n - 1) + i]
      BY <1>1, <1>8, <2>1, <3>1 DEF InOrder
    <3>4. QED
      BY <3>1, <3>2, <3>3
  <2>2. CASE n = m + 1
    <3>1. more[n] = line /\ n - 1 = m
      BY <1>1, <2>2
    <3>2. line[i] = kept[k + i]
      BY <1>8, <3>1
    <3>3. QED
      BY <1>6, <3>1, <3>2
  <2>3. QED
    BY <1>1, <2>1, <2>2
<1>9. QED
  BY <1>1, <1>7, <1>8 DEF InOrder, more

(***************************************************************************)
(* The inductive invariant.                                                *)
(***************************************************************************)
\* What each phase has done.
PhaseInv ==
    /\ phase = "slice" => groups = << >> /\ current = << >> /\ taken = 0
    /\ phase \in {"slice", "group"} => lines = << >>
    /\ phase \in {"time", "done"} => current = << >> /\ taken = Len(kept)
    /\ phase = "done" => Len(lines) = Len(groups)
    /\ current = << >> /\ groups # << >> => phase \in {"time", "done"}
    /\ Len(groups) + Len(current) <= taken

\* The closed lines hold the first words of the clip and the open one the next.
OrderInv ==
    /\ InOrder(groups, taken - Len(current))
    /\ \A i \in DOMAIN current : current[i] = kept[(taken - Len(current)) + i]

\* A line keeps its limits, closed or not.
GoodLine(line) ==
    /\ Len(line) \in 1..MaxWords
    /\ IsFiniteSet(Letters(line))
    /\ Chars(line) <= MaxChars \/ Len(line) = 1
    /\ \A i \in 2..Len(line) :
          ~ line[i - 1].stop /\ line[i].start <= line[i - 1].end + Gap

\* And each was closed because the first word of the next one breaks it.
GroupInv ==
    /\ \A n \in DOMAIN groups : GoodLine(groups[n])
    /\ \A n \in DOMAIN groups : n < Len(groups) => Breaks(groups[n], groups[n + 1][1])
    /\ current # << >> => GoodLine(current)
    /\ current # << >> /\ groups # << >> => Breaks(groups[Len(groups)], current[1])

\* The lines with times are the closed ones.
Timed(n) == [words |-> groups[n], start |-> groups[n][1].start, end |-> LineEnd(n)]
TimeInv == \A n \in DOMAIN lines : lines[n] = Timed(n)

IInv == TypeOK /\ ByStart(kept) /\ PhaseInv /\ OrderInv /\ GroupInv /\ TimeInv

LEMMA WordTyped ==
    ASSUME NEW w \in KeptWords
    PROVE  /\ w.start \in Nat /\ w.end \in Nat /\ w.start <= w.end /\ w.end <= Duration
           /\ w.chars \in Nat /\ w.stop \in BOOLEAN
BY DurationTyped DEF KeptWords

LEMMA LineTyped ==
    ASSUME NEW line \in Line
    PROVE  /\ Len(line) \in Nat /\ DOMAIN line = 1..Len(line)
           /\ \A i \in 1..Len(line) : line[i] \in KeptWords
           /\ line # << >> <=> Len(line) > 0
           /\ Last(line) = line[Len(line)]
BY LenProperties, EmptySeq DEF Line, Last

\* A word alone is a good line, however long it is.
LEMMA GoodSingle ==
    ASSUME NEW w \in KeptWords
    PROVE  <<w>> \in Line /\ Len(<<w>>) = 1 /\ <<w>>[1] = w /\ GoodLine(<<w>>)
<1>1. <<w>> \in Line /\ Len(<<w>>) = 1 /\ <<w>>[1] = w
  BY DEF Line
<1>2. 1 \in 1..MaxWords
  BY StyleAssumption
<1>3. IsFiniteSet(Letters(<<w>>))
  BY LettersOfOne
<1>4. QED
  BY <1>1, <1>2, <1>3 DEF GoodLine

\* A word that does not break a good line makes it longer and leaves it good.
LEMMA GoodExtended ==
    ASSUME NEW line \in Line, GoodLine(line), NEW w \in KeptWords, ~ Breaks(line, w)
    PROVE  GoodLine(Append(line, w))
<1> DEFINE m == Len(line)
           more == Append(line, w)
<1>1. /\ m \in Nat /\ DOMAIN line = 1..m
      /\ Len(more) = m + 1
      /\ \A i \in 1..m : more[i] = line[i]
      /\ more[m + 1] = w
  BY AppendWord DEF Line
<1>2. MaxWords \in Nat /\ MaxChars \in Nat /\ Gap \in Nat
  BY StyleAssumption, TimesAssumption
<1>3. /\ m < MaxWords
      /\ Chars(line) + 1 + w.chars <= MaxChars
      /\ w.start - line[m].end <= Gap
      /\ ~ line[m].stop
  <2>1. m \in 1..MaxWords
    BY DEF GoodLine
  <2>2. Last(line) = line[m] /\ line[m] \in KeptWords
    BY <2>1, LineTyped
  <2>3. Chars(line) \in Int
    BY CharsOfAppend DEF GoodLine
  <2>4. w.start \in Nat /\ w.chars \in Nat /\ line[m].end \in Nat
    BY <2>2, WordTyped
  <2> HIDE DEF m
  <2>5. QED
    BY <1>1, <1>2, <2>1, <2>2, <2>3, <2>4 DEF Breaks, m
<1>4. IsFiniteSet(Letters(more)) /\ Chars(more) = Chars(line) + 1 + w.chars
  BY CharsOfAppend DEF GoodLine
<1>5. ASSUME NEW i \in 2..(m + 1)
      PROVE  ~ more[i - 1].stop /\ more[i].start <= more[i - 1].end + Gap
  <2>1. CASE i = m + 1
    <3>1. m \in 1..m /\ i - 1 = m
      BY <1>1, <2>1
    <3>2. more[i] = w /\ more[i - 1] = line[m] /\ line[m] \in KeptWords
      BY <1>1, <2>1, <3>1, LineTyped
    <3>3. w.start \in Nat /\ line[m].end \in Nat
      BY <3>2, WordTyped
    <3>4. QED
      BY <1>2, <1>3, <3>2, <3>3
  <2>2. CASE i # m + 1
    <3>1. i \in 2..m /\ i \in 1..m /\ (i - 1) \in 1..m
      BY <1>1, <2>2
    <3>2. ~ line[i - 1].stop /\ line[i].start <= line[i - 1].end + Gap
      BY <3>1 DEF GoodLine
    <3>3. QED
      BY <1>1, <3>1, <3>2
  <2>3. QED
    BY <2>1, <2>2
<1> HIDE DEF more, m
<1>6. Len(more) \in 1..MaxWords
  BY <1>1, <1>2, <1>3
<1>7. Chars(more) <= MaxChars
  BY <1>3, <1>4
<1>8. QED
  BY <1>1, <1>4, <1>5, <1>6, <1>7 DEF GoodLine, more

\* A line goes at its last word or up to a hold later, and before the next
\* line where that leaves its last word on the screen.
LEMMA LineEndBounds ==
    ASSUME groups \in Seq(Line), NEW n \in DOMAIN groups,
           \A m \in DOMAIN groups : groups[m] # << >>
    PROVE  /\ LineEnd(n) \in 0..Duration
           /\ Last(groups[n]).end <= LineEnd(n)
           /\ LineEnd(n) <= Last(groups[n]).end + Hold
           /\ n < Len(groups) /\ Last(groups[n]).end <= groups[n + 1][1].start
                 => LineEnd(n) <= groups[n + 1][1].start
<1> DEFINE spoken == Last(groups[n]).end
           next == IF n < Len(groups) THEN groups[n + 1][1].start ELSE Duration + Hold
<1>1. Len(groups) \in Nat /\ DOMAIN groups = 1..Len(groups)
  BY LenProperties
<1>2. groups[n] \in Line /\ groups[n] # << >>
  BY <1>1, LenProperties
<1>3. Last(groups[n]) \in KeptWords
  BY <1>2, LineTyped
<1>4. Duration \in Nat /\ Hold \in Nat
  BY DurationTyped, TimesAssumption
<1>5. spoken \in 0..Duration
  BY <1>3, <1>4, WordTyped
<1>6. next \in Nat
  <2>1. CASE n < Len(groups)
    <3>1. (n + 1) \in DOMAIN groups
      BY <1>1, <2>1
    <3>2. groups[n + 1] \in Line /\ groups[n + 1] # << >>
      BY <1>1, <3>1, LenProperties
    <3>3. groups[n + 1][1] \in KeptWords
      BY <3>2, LineTyped
    <3>4. QED
      BY <2>1, <3>3, WordTyped
  <2>2. QED
    BY <1>4, <2>1
<1>7. LineEnd(n) = Least(IF Least(spoken + Hold, next) > spoken
                         THEN Least(spoken + Hold, next) ELSE spoken, Duration)
  BY DEF LineEnd
<1> DEFINE end == LineEnd(n)
<1>8. n < Len(groups) => next = groups[n + 1][1].start
  OBVIOUS
<1> HIDE DEF spoken, next, end
<1>9. /\ end \in 0..Duration /\ spoken <= end /\ end <= spoken + Hold
      /\ spoken <= next => end <= next
  BY <1>4, <1>5, <1>6, <1>7 DEF Least, end
<1>10. QED
  BY <1>8, <1>9 DEF spoken, end

LEMMA Initially == Init => IInv
<1> SUFFICES ASSUME Init PROVE IInv
  OBVIOUS
<1>1. << >> \in Line /\ << >> \in Seq(Line) /\ Len(<< >>) = 0 /\ DOMAIN << >> = {}
  BY DEF Line
<1>2. TypeOK
  <2>1. 0 \in 0..MaxHeard /\ MaxWords \in Nat
    BY TranscriptAssumption, StyleAssumption
  <2>2. << >> \in Seq([words : Seq(KeptWords), start : 0..Duration, end : 0..Duration])
    OBVIOUS
  <2>3. QED
    BY <1>1, <2>1, <2>2 DEF Init, TypeOK, Line
<1>3. PhaseInv
  BY <1>1 DEF Init, PhaseInv
<1>4. OrderInv
  <2>1. taken - Len(current) = 0
    <3>1. taken = 0 /\ Len(current) = 0
      BY <1>1 DEF Init
    <3>2. QED
      BY <3>1
  <2>2. InOrder(groups, 0)
    BY <1>1, NoPlace DEF Init, InOrder
  <2>3. QED
    BY <1>1, <2>1, <2>2 DEF Init, OrderInv
<1>5. GroupInv
  BY <1>1 DEF Init, GroupInv
<1>6. ByStart(kept) /\ TimeInv
  BY <1>1 DEF Init, ByStart, TimeInv
<1>7. QED
  BY <1>2, <1>3, <1>4, <1>5, <1>6 DEF IInv

\* Before the grouping starts there is nothing to order, to break or to time.
LEMMA HearStep == IInv /\ Hear => IInv'
<1> SUFFICES ASSUME IInv, Hear PROVE IInv'
  OBVIOUS
<1>1. /\ groups = << >> /\ current = << >> /\ taken = 0 /\ lines = << >>
      /\ groups' = << >> /\ current' = << >> /\ taken' = 0 /\ lines' = << >>
      /\ phase = "slice" /\ phase' = "slice"
  BY DEF IInv, PhaseInv, Hear
<1>2. << >> \in Line /\ << >> \in Seq(Line) /\ Len(<< >>) = 0 /\ DOMAIN << >> = {}
  BY DEF Line
<1>3. kept' \in Line /\ ByStart(kept') /\ Len(kept') \in Nat
  <2>1. PICK w \in Words : kept' = IF InWindow(w) THEN Sorted(Retimed(w)) ELSE kept
    BY DEF Hear
  <2>2. kept \in Line /\ ByStart(kept)
    BY DEF IInv, TypeOK, Line
  <2>3. CASE InWindow(w)
    <3>1. Retimed(w) \in KeptWords
      BY <2>3, RetimedKept
    <3>2. Sorted(Retimed(w)) \in Line /\ ByStart(Sorted(Retimed(w)))
      BY <2>2, <3>1, SortedStays
    <3>3. QED
      BY <2>1, <2>3, <3>2, LineTyped
  <2>4. CASE ~ InWindow(w)
    BY <2>1, <2>2, <2>4, LineTyped
  <2>5. QED
    BY <2>3, <2>4
<1>4. TypeOK'
  <2>1. heard' \in 0..MaxHeard
    BY TranscriptAssumption DEF IInv, TypeOK, Hear
  <2>2. << >> \in Seq([words : Seq(KeptWords), start : 0..Duration, end : 0..Duration])
    OBVIOUS
  <2>3. MaxWords \in Nat
    BY StyleAssumption
  <2>4. QED
    BY <1>1, <1>2, <1>3, <2>1, <2>2, <2>3 DEF TypeOK, Line
<1>5. PhaseInv'
  BY <1>1, <1>2 DEF PhaseInv
<1>6. OrderInv'
  <2>1. (taken - Len(current))' = 0
    <3>1. taken' = 0 /\ Len(current') = 0
      BY <1>1, <1>2
    <3>2. QED
      BY <3>1
  <2>2. InOrder(groups, 0)'
    BY <1>1, <1>2, NoPlace DEF InOrder
  <2>3. QED
    BY <1>1, <1>2, <2>1, <2>2 DEF OrderInv
<1>7. GroupInv'
  BY <1>1, <1>2 DEF GroupInv
<1>8. TimeInv'
  BY <1>1, <1>2 DEF TimeInv
<1>9. QED
  BY <1>3, <1>4, <1>5, <1>6, <1>7, <1>8 DEF IInv, ByStart

\* Steps that move nothing but the phase or the lines with times.
LEMMA GroupsKept ==
    ASSUME IInv, UNCHANGED <<kept, taken, groups, current>>
    PROVE  ByStart(kept)' /\ OrderInv' /\ GroupInv' /\ \A n : Timed(n)' = Timed(n)
<1>1. ByStart(kept)' /\ OrderInv' /\ GroupInv'
  BY DEF IInv, ByStart, OrderInv, InOrder, GroupInv
<1>2. \A n : LineEnd(n)' = LineEnd(n)
  BY DEF LineEnd
<1>3. QED
  BY <1>1, <1>2 DEF Timed

LEMMA AllHeardStep == IInv /\ AllHeard => IInv'
<1> SUFFICES ASSUME IInv, AllHeard PROVE IInv'
  OBVIOUS
<1>1. ByStart(kept)' /\ OrderInv' /\ GroupInv' /\ \A n : Timed(n)' = Timed(n)
  BY GroupsKept DEF AllHeard
<1>2. TypeOK'
  BY DEF IInv, TypeOK, AllHeard
<1>3. PhaseInv'
  BY DEF IInv, PhaseInv, AllHeard
<1>4. TimeInv'
  BY <1>1 DEF IInv, TimeInv, AllHeard
<1>5. QED
  BY <1>1, <1>2, <1>3, <1>4 DEF IInv

\* The lines before the open one are typed and short.
LEMMA GroupsTyped ==
    ASSUME IInv
    PROVE  /\ groups \in Seq(Line) /\ current \in Line /\ kept \in Line
           /\ Len(groups) \in Nat /\ DOMAIN groups = 1..Len(groups)
           /\ \A n \in 1..Len(groups) : /\ groups[n] \in Line /\ groups[n] # << >>
                                        /\ Len(groups[n]) \in 1..MaxWords
           /\ taken \in Nat /\ taken <= Len(kept)
           /\ Len(kept) \in Nat /\ DOMAIN kept = 1..Len(kept)
           /\ Len(current) \in Nat /\ Len(current) <= MaxWords
           /\ (taken - Len(current)) \in Nat
<1>1. groups \in Seq(Line) /\ current \in Line /\ kept \in Line
  BY DEF IInv, TypeOK, Line
<1>2. Len(groups) \in Nat /\ DOMAIN groups = 1..Len(groups) /\ \A n \in 1..Len(groups) : groups[n] \in Line
  BY <1>1, LenProperties
<1>3. /\ Len(kept) \in Nat /\ DOMAIN kept = 1..Len(kept)
      /\ Len(current) \in Nat
  BY <1>1, LineTyped
<1>4. taken \in Nat /\ taken <= Len(kept) /\ Len(current) <= MaxWords
  BY <1>3 DEF IInv, TypeOK
<1>5. (taken - Len(current)) \in Nat
  <2>1. Len(groups) + Len(current) <= taken
    BY DEF IInv, PhaseInv
  <2>2. QED
    BY <1>2, <1>3, <1>4, <2>1
<1>6. \A n \in 1..Len(groups) : Len(groups[n]) \in 1..MaxWords
  BY <1>2 DEF IInv, GroupInv, GoodLine
<1>7. \A n \in 1..Len(groups) : groups[n] # << >>
  <2> SUFFICES ASSUME NEW n \in 1..Len(groups) PROVE groups[n] # << >>
    OBVIOUS
  <2>1. Len(groups[n]) > 0 /\ groups[n] \in Line
    BY <1>2, <1>6
  <2>2. QED
    BY <2>1, LineTyped
<1>8. QED
  BY <1>1, <1>2, <1>3, <1>4, <1>5, <1>6, <1>7

\* The closed lines and the open one hold all the words taken so far.
LEMMA TakenInOrder ==
    ASSUME IInv
    PROVE  InOrder(Append(groups, current), taken)
<1>1. InOrder(groups, taken - Len(current))
  BY DEF IInv, OrderInv
<1>2. \A i \in DOMAIN current : current[i] = kept[(taken - Len(current)) + i]
  BY DEF IInv, OrderInv
<1>3. \A n \in DOMAIN groups : Len(groups[n]) <= MaxWords
  BY GroupsTyped, StyleAssumption
<1>4. (taken - Len(current)) \in Nat /\ groups \in Seq(Line) /\ current \in Line /\ Len(current) <= MaxWords
  BY GroupsTyped
<1> DEFINE k == taken - Len(current)
<1>5. k + Len(current) = taken
  BY GroupsTyped
<1> HIDE DEF k
<1>6. k \in Nat /\ InOrder(groups, k) /\ \A i \in DOMAIN current : current[i] = kept[k + i]
  BY <1>1, <1>2, <1>4 DEF k
<1>7. InOrder(Append(groups, current), k + Len(current))
  BY <1>3, <1>4, <1>6, LineAdded
<1>8. QED
  BY <1>5, <1>7

\* Closing the open line keeps what the closed ones have.
LEMMA LineClosed ==
    ASSUME IInv, current # << >>
    PROVE  LET more == Append(groups, current) IN
           /\ more \in Seq(Line)
           /\ Len(more) = Len(groups) + 1 /\ DOMAIN more = 1..Len(more)
           /\ more[Len(more)] = current
           /\ \A n \in DOMAIN more : GoodLine(more[n])
           /\ \A n \in DOMAIN more : n < Len(more) => Breaks(more[n], more[n + 1][1])
           /\ Len(current) >= 1 /\ Len(more) <= taken
<1> DEFINE m == Len(groups)
           more == Append(groups, current)
<1>1. /\ m \in Nat /\ DOMAIN groups = 1..m
      /\ more \in Seq(Line)
      /\ Len(more) = m + 1 /\ DOMAIN more = 1..(m + 1)
      /\ \A i \in 1..m : more[i] = groups[i]
      /\ more[m + 1] = current
  BY GroupsTyped, AppendWord
<1>2. GoodLine(current) /\ \A n \in 1..m : GoodLine(groups[n])
  BY <1>1 DEF IInv, GroupInv
<1>3. /\ \A n \in 1..m : n < m => Breaks(groups[n], groups[n + 1][1])
      /\ m > 0 => Breaks(groups[m], current[1])
  <2>1. m > 0 => groups # << >>
    BY <1>1
  <2>2. QED
    BY <1>1, <2>1 DEF IInv, GroupInv
<1>4. Len(current) >= 1 /\ Len(current) \in Nat /\ taken \in Nat /\ m + Len(current) <= taken
  BY GroupsTyped, LineTyped DEF IInv, PhaseInv
<1> HIDE DEF more, m
<1>5. \A n \in 1..(m + 1) : GoodLine(more[n])
  <2> SUFFICES ASSUME NEW n \in 1..(m + 1) PROVE GoodLine(more[n])
    OBVIOUS
  <2>1. CASE n \in 1..m
    BY <1>1, <1>2, <2>1
  <2>2. CASE n = m + 1
    BY <1>1, <1>2, <2>2
  <2>3. QED
    BY <1>1, <2>1, <2>2
<1>6. \A n \in 1..(m + 1) : n < m + 1 => Breaks(more[n], more[n + 1][1])
  <2> SUFFICES ASSUME NEW n \in 1..(m + 1), n < m + 1 PROVE Breaks(more[n], more[n + 1][1])
    OBVIOUS
  <2>1. CASE n < m
    <3>1. n \in 1..m /\ (n + 1) \in 1..m
      BY <1>1, <2>1
    <3>2. QED
      BY <1>1, <1>3, <2>1, <3>1
  <2>2. CASE n = m
    <3>1. m > 0 /\ n \in 1..m
      BY <1>1, <2>2
    <3>2. more[n] = groups[m] /\ more[n + 1] = current
      BY <1>1, <2>2, <3>1
    <3>3. QED
      BY <1>3, <3>1, <3>2
  <2>3. QED
    BY <1>1, <2>1, <2>2
<1>7. Len(more) <= taken
  BY <1>1, <1>4
<1>8. QED
  BY <1>1, <1>4, <1>5, <1>6, <1>7 DEF more, m

LEMMA GroupStep == IInv /\ Group => IInv'
<1> SUFFICES ASSUME IInv, Group PROVE IInv'
  OBVIOUS
<1> DEFINE w == kept[taken + 1]
<1>1. /\ phase = "group" /\ phase' = "group"
      /\ taken < Len(kept) /\ taken' = taken + 1
      /\ kept' = kept /\ lines' = lines /\ heard' = heard
  BY DEF Group
<1>2. w \in KeptWords /\ taken \in Nat /\ kept \in Line /\ Len(kept) \in Nat
  <2>1. (taken + 1) \in 1..Len(kept)
    BY <1>1, GroupsTyped
  <2>2. QED
    BY <2>1, GroupsTyped, LineTyped
<1>3. lines = << >> /\ lines' = << >> /\ DOMAIN << >> = {}
  BY <1>1 DEF IInv, PhaseInv
<1>4. ByStart(kept)' /\ TimeInv'
  BY <1>1, <1>3 DEF IInv, ByStart, TimeInv
<1>5. /\ heard' \in 0..MaxHeard /\ kept' \in Seq(KeptWords) /\ taken' \in 0..Len(kept')
      /\ lines' \in Seq([words : Seq(KeptWords), start : 0..Duration, end : 0..Duration])
      /\ Len(kept') = Len(kept)
  BY <1>1, <1>2 DEF IInv, TypeOK
<1> HIDE DEF w
<1>6. CASE current # << >> /\ Breaks(current, w)
  <2> DEFINE more == Append(groups, current)
  <2>1. groups' = more /\ current' = <<w>>
    BY <1>6 DEF Group, w
  <2>2. /\ more \in Seq(Line)
        /\ Len(more) = Len(groups) + 1 /\ DOMAIN more = 1..Len(more)
        /\ more[Len(more)] = current
        /\ \A n \in DOMAIN more : GoodLine(more[n])
        /\ \A n \in DOMAIN more : n < Len(more) => Breaks(more[n], more[n + 1][1])
        /\ Len(more) <= taken
    BY <1>6, LineClosed
  <2>3. <<w>> \in Line /\ Len(<<w>>) = 1 /\ <<w>>[1] = w /\ GoodLine(<<w>>) /\ DOMAIN <<w>> = {1}
    BY <1>2, GoodSingle
  <2>4. InOrder(more, taken)
    BY TakenInOrder
  <2> HIDE DEF more
  <2>5. Len(more) \in Nat /\ MaxWords \in Nat /\ MaxWords >= 1
    BY <2>2, LenProperties, StyleAssumption
  <2>6. TypeOK'
    BY <1>1, <1>2, <1>3, <1>5, <2>1, <2>2, <2>3, <2>5 DEF TypeOK, Line
  <2>7. PhaseInv'
    BY <1>1, <1>2, <1>3, <2>1, <2>2, <2>3, <2>5 DEF PhaseInv
  <2>8. OrderInv'
    <3>1. taken' - Len(current') = taken
      BY <1>1, <1>2, <2>1, <2>3
    <3>2. InOrder(groups, taken - Len(current))'
      <4>1. InOrder(groups, taken - Len(current))' <=>
               /\ \A n \in DOMAIN groups' : \A i \in DOMAIN groups'[n] :
                     groups'[n][i] = kept'[Place(groups', n - 1) + i]
               /\ Place(groups', Len(groups')) = taken' - Len(current')
        BY DEF InOrder
      <4>2. QED
        BY <1>1, <2>1, <2>4, <3>1, <4>1 DEF InOrder
    <3>3. ASSUME NEW i \in DOMAIN current'
          PROVE  current'[i] = kept'[(taken' - Len(current')) + i]
      <4>1. i = 1 /\ current'[i] = w
        BY <2>1, <2>3
      <4>2. QED
        BY <1>1, <3>1, <4>1 DEF w
    <3>4. QED
      BY <3>2, <3>3 DEF OrderInv
  <2>9. GroupInv'
    BY <1>6, <2>1, <2>2, <2>3 DEF GroupInv
  <2>10. QED
    BY <1>4, <2>6, <2>7, <2>8, <2>9 DEF IInv
<1>7. CASE ~ (current # << >> /\ Breaks(current, w))
  <2> DEFINE line == Append(current, w)
  <2>1. groups' = groups /\ current' = line
    BY <1>7 DEF Group, w
  <2>2. /\ line \in Line
        /\ Len(current) \in Nat /\ DOMAIN current = 1..Len(current)
        /\ Len(line) = Len(current) + 1 /\ DOMAIN line = 1..(Len(current) + 1)
        /\ \A i \in 1..Len(current) : line[i] = current[i]
        /\ line[Len(current) + 1] = w
    BY <1>2, GroupsTyped, AppendWord DEF Line
  <2> HIDE DEF line
  <2>3. line # << >> /\ GoodLine(line)
    <3>1. line # << >>
      BY <2>2, LineTyped
    <3>2. CASE current = << >>
      <4>1. line = <<w>>
        BY <3>2 DEF line
      <4>2. QED
        BY <1>2, <3>1, <4>1, GoodSingle
    <3>3. CASE current # << >>
      <4>1. GoodLine(current) /\ ~ Breaks(current, w) /\ current \in Line
        BY <1>7, <3>3, GroupsTyped DEF IInv, GroupInv
      <4>2. QED
        BY <1>2, <3>1, <4>1, GoodExtended DEF line
    <3>4. QED
      BY <3>2, <3>3
  <2>4. groups # << >> => current # << >> /\ line[1] = current[1]
    <3>1. groups # << >> => current # << >>
      BY <1>1 DEF IInv, PhaseInv
    <3>2. current # << >> => 1 \in 1..Len(current)
      BY <2>2, GroupsTyped, LineTyped
    <3>3. QED
      BY <2>2, <3>1, <3>2
  <2>5. Len(groups) + Len(current) <= taken /\ Len(groups) \in Nat
    BY GroupsTyped DEF IInv, PhaseInv
  <2>6. TypeOK'
    <3>1. Len(line) \in 1..MaxWords
      BY <2>3 DEF GoodLine
    <3>2. Len(line) <= MaxWords
      BY <3>1, StyleAssumption
    <3>3. Len(groups') <= taken'
      BY <1>1, <1>2, <2>1, <2>2, <2>5
    <3>4. groups' \in Seq(Seq(KeptWords)) /\ current' \in Seq(KeptWords)
      BY <2>1, <2>2, GroupsTyped DEF Line
    <3>5. Len(lines') <= Len(groups')
      BY <1>3, <2>1, <2>5
    <3>6. QED
      BY <1>1, <1>5, <2>1, <3>2, <3>3, <3>4, <3>5 DEF TypeOK
  <2>7. PhaseInv'
    <3>1. Len(groups') + Len(current') <= taken'
      BY <1>1, <1>2, <2>1, <2>2, <2>5
    <3>2. QED
      BY <1>1, <1>3, <2>1, <2>3, <3>1 DEF PhaseInv
  <2>8. OrderInv'
    <3>1. taken' - Len(current') = taken - Len(current)
      BY <1>1, <1>2, <2>1, <2>2
    <3>2. InOrder(groups, taken - Len(current))'
      <4>1. InOrder(groups, taken - Len(current))' <=>
               /\ \A n \in DOMAIN groups' : \A i \in DOMAIN groups'[n] :
                     groups'[n][i] = kept'[Place(groups', n - 1) + i]
               /\ Place(groups', Len(groups')) = taken' - Len(current')
        BY DEF InOrder
      <4>2. InOrder(groups, taken - Len(current))
        BY DEF IInv, OrderInv
      <4>3. QED
        BY <1>1, <2>1, <3>1, <4>1, <4>2 DEF InOrder
    <3>3. ASSUME NEW i \in DOMAIN current'
          PROVE  current'[i] = kept'[(taken' - Len(current')) + i]
      <4>1. CASE i \in 1..Len(current)
        BY <1>1, <2>1, <2>2, <3>1, <4>1 DEF IInv, OrderInv
      <4>2. CASE i = Len(current) + 1
        <5>1. (taken - Len(current)) + i = taken + 1
          BY <1>2, <2>2, <4>2
        <5>2. QED
          BY <1>1, <2>1, <2>2, <3>1, <4>2, <5>1 DEF w
      <4>3. QED
        BY <2>1, <2>2, <4>1, <4>2
    <3>4. QED
      BY <3>2, <3>3 DEF OrderInv
  <2>9. GroupInv'
    BY <2>1, <2>3, <2>4 DEF IInv, GroupInv
  <2>10. QED
    BY <1>4, <2>6, <2>7, <2>8, <2>9 DEF IInv
<1>8. QED
  BY <1>6, <1>7

LEMMA AllGroupedStep == IInv /\ AllGrouped => IInv'
<1> SUFFICES ASSUME IInv, AllGrouped PROVE IInv'
  OBVIOUS
<1>1. /\ phase = "group" /\ phase' = "time"
      /\ taken = Len(kept) /\ taken' = taken
      /\ kept' = kept /\ lines' = lines /\ heard' = heard
      /\ groups' = AllGroups /\ current' = << >>
  BY DEF AllGrouped
<1>2. /\ lines = << >> /\ lines' = << >> /\ DOMAIN << >> = {} /\ Len(<< >>) = 0
      /\ << >> \in Seq(KeptWords)
  BY <1>1 DEF IInv, PhaseInv
<1>3. ByStart(kept)' /\ TimeInv'
  BY <1>1, <1>2 DEF IInv, ByStart, TimeInv
<1>4. /\ groups' \in Seq(Line) /\ Len(groups') <= taken
      /\ \A n \in DOMAIN groups' : GoodLine(groups'[n])
      /\ \A n \in DOMAIN groups' : n < Len(groups') => Breaks(groups'[n], groups'[n + 1][1])
      /\ InOrder(groups', taken)
  <2>1. CASE current # << >>
    <3>1. groups' = Append(groups, current)
      BY <1>1, <2>1 DEF AllGroups
    <3>2. QED
      BY <2>1, <3>1, LineClosed, TakenInOrder
  <2>2. CASE current = << >>
    <3>1. groups' = groups
      BY <1>1, <2>2 DEF AllGroups
    <3>2. Len(current) = 0 /\ taken \in Nat /\ Len(groups) \in Nat
      BY <1>2, <2>2, GroupsTyped
    <3>3. taken - Len(current) = taken
      BY <3>2
    <3>4. Len(groups) <= taken
      BY <3>2 DEF IInv, PhaseInv
    <3>5. InOrder(groups, taken)
      BY <3>3 DEF IInv, OrderInv
    <3>6. QED
      BY <3>1, <3>4, <3>5, GroupsTyped DEF IInv, GroupInv
  <2>3. QED
    BY <2>1, <2>2
<1>5. Len(groups') \in Nat /\ taken \in Nat /\ MaxWords \in Nat
  BY <1>4, GroupsTyped, LenProperties, StyleAssumption
<1>6. TypeOK'
  <2>1. taken' \in 0..Len(kept') /\ kept' \in Seq(KeptWords) /\ heard' \in 0..MaxHeard
    BY <1>1 DEF IInv, TypeOK
  <2>2. lines' \in Seq([words : Seq(KeptWords), start : 0..Duration, end : 0..Duration])
    BY <1>1 DEF IInv, TypeOK
  <2>3. QED
    BY <1>1, <1>2, <1>4, <1>5, <2>1, <2>2 DEF TypeOK, Line
<1>7. PhaseInv'
  <2>1. Len(groups') + Len(current') <= taken'
    BY <1>1, <1>2, <1>4, <1>5
  <2>2. QED
    BY <1>1, <2>1 DEF PhaseInv
<1>8. OrderInv'
  <2>1. taken' - Len(current') = taken
    <3>1. Len(current') = 0 /\ taken' = taken
      BY <1>1, <1>2
    <3>2. QED
      BY <1>5, <3>1
  <2>2. InOrder(groups, taken - Len(current))' <=>
           /\ \A n \in DOMAIN groups' : \A i \in DOMAIN groups'[n] :
                 groups'[n][i] = kept'[Place(groups', n - 1) + i]
           /\ Place(groups', Len(groups')) = taken' - Len(current')
    BY DEF InOrder
  <2>3. InOrder(groups, taken - Len(current))'
    BY <1>1, <1>4, <2>1, <2>2 DEF InOrder
  <2>4. QED
    BY <1>1, <1>2, <2>3 DEF OrderInv
<1>9. GroupInv'
  BY <1>1, <1>4 DEF GroupInv
<1>10. QED
  BY <1>3, <1>6, <1>7, <1>8, <1>9 DEF IInv

LEMMA TimeLineStep == IInv /\ TimeLine => IInv'
<1> SUFFICES ASSUME IInv, TimeLine PROVE IInv'
  OBVIOUS
<1> DEFINE i == Len(lines) + 1
           line == Timed(i)
           LineSet == [words : Seq(KeptWords), start : 0..Duration, end : 0..Duration]
<1>1. /\ phase = "time" /\ phase' = "time"
      /\ Len(lines) < Len(groups)
      /\ lines' = Append(lines, line)
      /\ UNCHANGED <<phase, heard, kept, taken, groups, current>>
  BY DEF TimeLine, Timed
<1>2. ByStart(kept)' /\ OrderInv' /\ GroupInv' /\ \A n : Timed(n)' = Timed(n)
  BY <1>1, GroupsKept
<1>3. lines \in Seq(LineSet) /\ Len(lines) \in Nat /\ DOMAIN lines = 1..Len(lines)
  BY LenProperties DEF IInv, TypeOK
<1>4. i \in DOMAIN groups /\ i \in 1..Len(groups)
  BY <1>1, <1>3, GroupsTyped
<1>5. line \in LineSet
  <2> HIDE DEF i
  <2>1. groups[i] \in Line /\ groups[i] # << >>
    BY <1>4, GroupsTyped
  <2>2. groups[i][1] \in KeptWords
    BY <2>1, LineTyped
  <2>3. groups[i][1].start \in 0..Duration
    BY <2>2 DEF KeptWords
  <2>4. LineEnd(i) \in 0..Duration
    BY <1>4, GroupsTyped, LineEndBounds
  <2>5. QED
    BY <2>1, <2>3, <2>4 DEF Timed, Line
<1> HIDE DEF line, LineSet
<1>6. /\ lines' \in Seq(LineSet)
      /\ Len(lines') = Len(lines) + 1
      /\ DOMAIN lines' = 1..(Len(lines) + 1)
      /\ \A n \in 1..Len(lines) : lines'[n] = lines[n]
      /\ lines'[Len(lines) + 1] = line
  BY <1>1, <1>3, <1>5, AppendWord
<1>7. TypeOK'
  <2>1. Len(lines') <= Len(groups')
    BY <1>1, <1>3, <1>6, GroupsTyped
  <2>2. QED
    BY <1>1, <1>6, <2>1 DEF IInv, TypeOK, LineSet
<1>8. PhaseInv'
  BY <1>1 DEF IInv, PhaseInv
<1>9. TimeInv'
  <2>1. ASSUME NEW n \in DOMAIN lines' PROVE lines'[n] = Timed(n)
    <3>1. CASE n \in 1..Len(lines)
      BY <1>3, <1>6, <3>1 DEF IInv, TimeInv
    <3>2. CASE n = Len(lines) + 1
      BY <1>6, <3>2 DEF line
    <3>3. QED
      BY <1>3, <1>6, <3>1, <3>2
  <2>2. QED
    BY <1>2, <2>1 DEF TimeInv
<1>10. QED
  BY <1>2, <1>7, <1>8, <1>9 DEF IInv

LEMMA AllTimedStep == IInv /\ AllTimed => IInv'
<1> SUFFICES ASSUME IInv, AllTimed PROVE IInv'
  OBVIOUS
<1>1. ByStart(kept)' /\ OrderInv' /\ GroupInv' /\ \A n : Timed(n)' = Timed(n)
  BY GroupsKept DEF AllTimed
<1>2. TypeOK'
  BY DEF IInv, TypeOK, AllTimed
<1>3. PhaseInv'
  BY DEF IInv, PhaseInv, AllTimed
<1>4. TimeInv'
  BY <1>1 DEF IInv, TimeInv, AllTimed
<1>5. QED
  BY <1>1, <1>2, <1>3, <1>4 DEF IInv

LEMMA StandStill == IInv /\ UNCHANGED vars => IInv'
<1> SUFFICES ASSUME IInv, UNCHANGED vars PROVE IInv'
  OBVIOUS
<1>1. ByStart(kept)' /\ OrderInv' /\ GroupInv' /\ \A n : Timed(n)' = Timed(n)
  BY GroupsKept DEF vars
<1>2. TypeOK' /\ PhaseInv'
  BY DEF IInv, TypeOK, PhaseInv, vars
<1>3. TimeInv'
  BY <1>1 DEF IInv, TimeInv, vars
<1>4. QED
  BY <1>1, <1>2, <1>3 DEF IInv

LEMMA InvStep == IInv /\ [Next]_vars => IInv'
BY HearStep, AllHeardStep, GroupStep, AllGroupedStep, TimeLineStep, AllTimedStep, StandStill
   DEF Next, Done

LEMMA InvHolds == Spec => []IInv
<1>1. Init => IInv
  BY Initially
<1>2. IInv /\ [Next]_vars => IInv'
  BY InvStep
<1>3. QED
  BY <1>1, <1>2, PTL DEF Spec

\* Every value is of its kind: the times of the words and of the lines stay
\* inside the clip, whatever the transcript says (slice_words, group_lines).
THEOREM TypeCorrect == Spec => []TypeOK
<1>1. IInv => TypeOK
  BY DEF IInv
<1>2. QED
  BY <1>1, InvHolds, PTL

(***************************************************************************)
(* The lines of the finished captions.                                     *)
(***************************************************************************)
LEMMA DoneLines ==
    ASSUME IInv, phase = "done"
    PROVE  /\ current = << >> /\ taken = Len(kept)
           /\ Len(lines) = Len(groups)
           /\ DOMAIN lines = 1..Len(groups)
           /\ \A n \in 1..Len(groups) : /\ lines[n].words = groups[n]
                                        /\ lines[n].start = groups[n][1].start
                                        /\ lines[n].end = LineEnd(n)
           /\ InOrder(groups, Len(kept))
<1>1. current = << >> /\ taken = Len(kept) /\ Len(lines) = Len(groups)
  BY DEF IInv, PhaseInv
<1>2. DOMAIN lines = 1..Len(groups)
  BY <1>1, LenProperties DEF IInv, TypeOK
<1>3. \A n \in 1..Len(groups) : lines[n] = Timed(n)
  BY <1>2 DEF IInv, TimeInv
<1>4. InOrder(groups, Len(kept))
  <2>1. Len(current) = 0 /\ taken \in Nat
    BY <1>1, GroupsTyped
  <2>2. taken - Len(current) = Len(kept)
    BY <1>1, <2>1
  <2>3. QED
    BY <2>2 DEF IInv, OrderInv
<1>5. QED
  BY <1>1, <1>2, <1>3, <1>4 DEF Timed

LEMMA EachOnce == IInv => EveryWordOnce
<1> SUFFICES ASSUME IInv PROVE EveryWordOnce
  OBVIOUS
<1>1. InOrder(Append(groups, current), taken)
  BY TakenInOrder
<1>2. \A i, j \in DOMAIN kept : i < j => kept[i].start <= kept[j].start
  BY DEF IInv, ByStart
<1>3. ASSUME phase = "done" PROVE InOrder([n \in DOMAIN lines |-> lines[n].words], Len(kept))
  <2>1. groups = [n \in 1..Len(groups) |-> groups[n]]
    BY GroupsTyped, LenProperties
  <2>2. [n \in DOMAIN lines |-> lines[n].words] = groups
    BY <1>3, <2>1, DoneLines
  <2>3. QED
    BY <1>3, <2>2, DoneLines
<1>4. QED
  BY <1>1, <1>2, <1>3 DEF EveryWordOnce

\* No word is lost or repeated, for a transcript of any length and in any
\* order: the lines, one after the other, hold exactly the words of the window
\* in the order they are spoken, also the line that is still open
\* (slice_words, group_lines).
THEOREM NoWordLost == Spec => []EveryWordOnce
BY EachOnce, InvHolds, PTL

LEMMA WellBroken == IInv => LinesWellBroken
<1> SUFFICES ASSUME IInv, phase = "done", NEW n \in DOMAIN lines
             PROVE  LET ws == lines[n].words IN
                    /\ Len(ws) <= MaxWords
                    /\ Chars(ws) <= MaxChars \/ Len(ws) = 1
                    /\ \A i \in 2..Len(ws) : ~ ws[i - 1].stop /\ ws[i].start <= ws[i - 1].end + Gap
                    /\ n < Len(lines) =>
                          LET more == Append(ws, lines[n + 1].words[1]) IN
                          \/ Len(more) > MaxWords
                          \/ Chars(more) > MaxChars
                          \/ Last(ws).stop
                          \/ Last(more).start > Last(ws).end + Gap
  BY DEF LinesWellBroken
<1> DEFINE ws == groups[n]
<1>1. n \in 1..Len(groups) /\ lines[n].words = ws /\ ws \in Line /\ ws # << >> /\ Len(lines) = Len(groups)
  BY DoneLines, GroupsTyped
<1>2. GoodLine(ws) /\ MaxWords \in Nat
  BY <1>1, GroupsTyped, StyleAssumption DEF IInv, GroupInv
<1>3. ASSUME n < Len(lines)
      PROVE  LET more == Append(ws, lines[n + 1].words[1]) IN
             \/ Len(more) > MaxWords
             \/ Chars(more) > MaxChars
             \/ Last(ws).stop
             \/ Last(more).start > Last(ws).end + Gap
  <2> DEFINE w == groups[n + 1][1]
             more == Append(ws, w)
  <2>1. (n + 1) \in 1..Len(groups)
    BY <1>1, <1>3, GroupsTyped
  <2>2. lines[n + 1].words = groups[n + 1] /\ groups[n + 1] \in Line /\ groups[n + 1] # << >>
    BY <2>1, DoneLines, GroupsTyped
  <2>3. w \in KeptWords
    BY <2>2, LineTyped
  <2>4. Breaks(ws, w)
    BY <1>1, <1>3, GroupsTyped DEF IInv, GroupInv
  <2> HIDE DEF w, ws
  <2>5. /\ more \in Line /\ Len(ws) \in Nat /\ Len(more) = Len(ws) + 1
        /\ more[Len(more)] = w
    BY <1>1, <2>3, AppendWord DEF Line
  <2>6. Last(more) = w /\ Last(ws) \in KeptWords
    <3>1. Last(more) = more[Len(more)] /\ Last(ws) = ws[Len(ws)]
      BY <1>1, <2>5, LineTyped
    <3>2. Len(ws) \in 1..Len(ws)
      BY <1>1, LineTyped
    <3>3. ws[Len(ws)] \in KeptWords
      BY <1>1, <3>2, LineTyped
    <3>4. QED
      BY <2>5, <3>1, <3>3
  <2>7. Chars(more) = Chars(ws) + 1 + w.chars /\ Chars(ws) \in Int
    BY <1>1, <1>2, <2>3, CharsOfAppend DEF GoodLine
  <2>8. w.start \in Nat /\ w.chars \in Nat /\ Last(ws).end \in Nat
    BY <2>3, <2>6, WordTyped
  <2>9. MaxWords \in Nat /\ MaxChars \in Nat /\ Gap \in Nat
    BY StyleAssumption, TimesAssumption
  <2> HIDE DEF more
  <2>10. \/ Len(more) > MaxWords
         \/ Chars(more) > MaxChars
         \/ Last(ws).stop
         \/ Last(more).start > Last(ws).end + Gap
    BY <2>4, <2>5, <2>6, <2>7, <2>8, <2>9 DEF Breaks
  <2>11. QED
    BY <2>2, <2>10 DEF more, w, ws
<1>4. QED
  BY <1>1, <1>2, <1>3 DEF GoodLine

\* Lines break exactly where they have to, for every style and every speech:
\* none is over its limits but a single long word, and none stopped short
\* (group_lines).
THEOREM BreaksFair == Spec => []LinesWellBroken
BY WellBroken, InvHolds, PTL

(***************************************************************************)
(* What is on the screen.                                                  *)
(***************************************************************************)
\* When the highlight leaves word i of line n.
Until(n, i) == IF i < Len(groups[n]) THEN groups[n][i + 1].start ELSE LineEnd(n)

LEMMA WordsOfLines ==
    ASSUME IInv, NEW n \in 1..Len(groups)
    PROVE  /\ Len(groups[n]) \in Nat /\ Len(groups[n]) >= 1
           /\ DOMAIN groups[n] = 1..Len(groups[n])
           /\ \A i \in 1..Len(groups[n]) :
                 /\ groups[n][i] \in KeptWords
                 /\ groups[n][i].start \in Nat /\ groups[n][i].end \in Nat
                 /\ groups[n][i].start <= groups[n][i].end
                 /\ groups[n][i].end <= Duration
           /\ Last(groups[n]) = groups[n][Len(groups[n])]
<1>1. groups[n] \in Line /\ groups[n] # << >>
  BY GroupsTyped
<1>2. /\ Len(groups[n]) \in Nat /\ Len(groups[n]) >= 1
      /\ DOMAIN groups[n] = 1..Len(groups[n])
      /\ Last(groups[n]) = groups[n][Len(groups[n])]
      /\ \A i \in 1..Len(groups[n]) : groups[n][i] \in KeptWords
  BY <1>1, LineTyped
<1>3. QED
  BY <1>2, WordTyped

\* A line is up until its last word is over, and a hold longer at most.
LEMMA EndOfLine ==
    ASSUME IInv, NEW n \in 1..Len(groups)
    PROVE  LET spoken == groups[n][Len(groups[n])].end IN
           /\ LineEnd(n) \in Nat /\ LineEnd(n) <= Duration
           /\ spoken <= LineEnd(n) /\ LineEnd(n) <= spoken + Hold
           /\ n < Len(groups) /\ spoken <= groups[n + 1][1].start
                 => LineEnd(n) <= groups[n + 1][1].start
<1>1. groups \in Seq(Line) /\ n \in DOMAIN groups /\ \A m \in DOMAIN groups : groups[m] # << >>
  BY GroupsTyped
<1>2. Last(groups[n]) = groups[n][Len(groups[n])] /\ Duration \in Nat
  BY WordsOfLines, DurationTyped
<1>3. QED
  BY <1>1, <1>2, LineEndBounds

LEMMA UntilTyped ==
    ASSUME IInv, NEW n \in 1..Len(groups), NEW i \in 1..Len(groups[n])
    PROVE  /\ Until(n, i) \in Nat /\ Until(n, i) <= Duration
           /\ Len(groups[n]) \in Nat
           /\ i < Len(groups[n]) => /\ (i + 1) \in 1..Len(groups[n])
                                    /\ Until(n, i) = groups[n][i + 1].start
           /\ ~ (i < Len(groups[n])) => i = Len(groups[n]) /\ Until(n, i) = LineEnd(n)
<1>1. Len(groups[n]) \in Nat /\ Duration \in Nat
  BY WordsOfLines, DurationTyped
<1>2. CASE i < Len(groups[n])
  <2>1. (i + 1) \in 1..Len(groups[n]) /\ Until(n, i) = groups[n][i + 1].start
    BY <1>1, <1>2 DEF Until
  <2>2. /\ groups[n][i + 1].start \in Nat /\ groups[n][i + 1].end \in Nat
        /\ groups[n][i + 1].start <= groups[n][i + 1].end
        /\ groups[n][i + 1].end <= Duration
    BY <2>1, WordsOfLines
  <2>3. QED
    BY <1>1, <1>2, <2>1, <2>2
<1>3. CASE ~ (i < Len(groups[n]))
  <2>1. i = Len(groups[n]) /\ Until(n, i) = LineEnd(n)
    BY <1>1, <1>3 DEF Until
  <2>2. QED
    BY <1>1, <1>3, <2>1, EndOfLine
<1>4. QED
  BY <1>2, <1>3

\* Word i of line n is word number Place(groups, n - 1) + i of the clip.
LEMMA Positions ==
    ASSUME IInv, phase = "done", NEW n \in 1..Len(groups), NEW i \in 1..Len(groups[n])
    PROVE  /\ Place(groups, n - 1) \in Nat /\ Place(groups, n) \in Nat
           /\ (Place(groups, n - 1) + i) \in DOMAIN kept
           /\ Place(groups, n - 1) + i <= Place(groups, n)
           /\ kept[Place(groups, n - 1) + i] = groups[n][i]
           /\ \A m \in 1..Len(groups) : n < m => Place(groups, n) <= Place(groups, m - 1)
<1> DEFINE L == Len(groups)
<1>1. L \in Nat /\ MaxWords \in Nat
  BY GroupsTyped, StyleAssumption
<1>2. \A m \in 1..L : DOMAIN groups[m] \subseteq 1..MaxWords
  <2> SUFFICES ASSUME NEW m \in 1..L PROVE DOMAIN groups[m] \subseteq 1..MaxWords
    OBVIOUS
  <2>1. Len(groups[m]) \in 1..MaxWords /\ DOMAIN groups[m] = 1..Len(groups[m])
    BY GroupsTyped, WordsOfLines
  <2>2. QED
    BY <1>1, <2>1
<1> HIDE DEF L
<1>3. \A m \in 1..L : n < m => Place(groups, n) <= Place(groups, m - 1)
  <2> SUFFICES ASSUME NEW m \in 1..L, n < m PROVE Place(groups, n) <= Place(groups, m - 1)
    OBVIOUS
  <2>1. (m - 1) \in Nat /\ n \in Nat /\ n <= m - 1 /\ \A k \in 1..(m - 1) : k \in 1..L
    BY <1>1 DEF L
  <2>2. \A k \in 1..(m - 1) : DOMAIN groups[k] \subseteq 1..MaxWords
    BY <1>2, <2>1
  <2>3. QED
    BY <1>1, <2>1, <2>2, PlaceGrows
<1>4. /\ Place(groups, n - 1) \in Nat
      /\ Place(groups, n) = Place(groups, n - 1) + Len(groups[n])
  <2>1. n \in Nat \ {0} /\ \A k \in 1..n : k \in 1..L
    BY <1>1 DEF L
  <2>2. \A k \in 1..n : DOMAIN groups[k] \subseteq 1..MaxWords
    BY <1>2, <2>1
  <2>3. Len(groups[n]) \in Nat /\ DOMAIN groups[n] = 1..Len(groups[n])
    BY WordsOfLines
  <2>4. QED
    BY <1>1, <2>1, <2>2, <2>3, PlaceStep
<1>5. Len(groups[n]) \in Nat
  BY WordsOfLines
<1>6. Place(groups, n) \in Nat /\ Place(groups, n) <= Place(groups, L) /\ Place(groups, L) = Len(kept)
  <2>1. Place(groups, L) = Len(kept)
    BY DoneLines DEF InOrder, L
  <2>2. n \in Nat /\ n <= L
    BY <1>1 DEF L
  <2>3. QED
    BY <1>1, <1>2, <2>1, <2>2, PlaceGrows
<1>7. Len(kept) \in Nat /\ DOMAIN kept = 1..Len(kept)
  BY GroupsTyped
<1>8. /\ Place(groups, n - 1) + i <= Place(groups, n)
      /\ (Place(groups, n - 1) + i) \in DOMAIN kept
  BY <1>4, <1>5, <1>6, <1>7
<1>9. kept[Place(groups, n - 1) + i] = groups[n][i]
  <2>1. n \in DOMAIN groups /\ i \in DOMAIN groups[n] /\ InOrder(groups, Len(kept))
    BY DoneLines, GroupsTyped, WordsOfLines
  <2>2. QED
    BY <2>1 DEF InOrder
<1>10. QED
  BY <1>3, <1>4, <1>6, <1>8, <1>9 DEF L

\* In a line the words start in order.
LEMMA StartsInLine ==
    ASSUME IInv, phase = "done", NEW n \in 1..Len(groups),
           NEW i \in 1..Len(groups[n]), NEW j \in 1..Len(groups[n]), i <= j
    PROVE  groups[n][i].start <= groups[n][j].start
<1>1. CASE i = j
  BY <1>1, WordsOfLines
<1>2. CASE i < j
  <2> DEFINE p == Place(groups, n - 1)
  <2>1. /\ p \in Nat /\ (p + i) \in DOMAIN kept /\ (p + j) \in DOMAIN kept
        /\ kept[p + i] = groups[n][i] /\ kept[p + j] = groups[n][j]
    BY Positions
  <2> HIDE DEF p
  <2>2. p + i < p + j
    BY <1>2, <2>1, WordsOfLines
  <2>3. QED
    BY <2>1, <2>2 DEF IInv, ByStart
<1>3. QED
  BY <1>1, <1>2, WordsOfLines

\* When words do not overlap, neither do the words of the lines.
LEMMA SpokenInOrder ==
    ASSUME IInv, phase = "done", Orderly,
           NEW n \in 1..Len(groups), NEW i \in 1..Len(groups[n]),
           NEW m \in 1..Len(groups), NEW j \in 1..Len(groups[m]),
           n < m \/ (n = m /\ i < j)
    PROVE  groups[n][i].end <= groups[m][j].start
<1> DEFINE p == Place(groups, n - 1)
           q == Place(groups, m - 1)
<1>1. /\ p \in Nat /\ (p + i) \in DOMAIN kept /\ kept[p + i] = groups[n][i]
      /\ p + i <= Place(groups, n) /\ Place(groups, n) \in Nat
      /\ n < m => Place(groups, n) <= q
  BY Positions
<1>2. q \in Nat /\ (q + j) \in DOMAIN kept /\ kept[q + j] = groups[m][j]
  BY Positions
<1>3. i \in Nat /\ j \in Nat \ {0}
  BY WordsOfLines
<1>4. n = m => p = q
  OBVIOUS
<1> HIDE DEF p, q
<1>5. p + i < q + j
  BY <1>1, <1>2, <1>3, <1>4
<1>6. QED
  BY <1>1, <1>2, <1>5 DEF Orderly

\* With a highlight, the events are the words.
LEMMA ShownWords ==
    ASSUME IInv, phase = "done", NEW t \in Int, NEW e
    PROVE  e \in Shown(TRUE, t) <=>
              \E n \in 1..Len(groups) : \E i \in 1..Len(groups[n]) :
                 /\ e = Event(n, groups[n][i].start, Until(n, i), i)
                 /\ groups[n][i].start <= t /\ t < Until(n, i)
<1>1. ASSUME NEW n \in 1..Len(groups)
      PROVE  Spans(n, TRUE) = {Event(n, groups[n][i].start, Until(n, i), i) : i \in 1..Len(groups[n])}
  <2>1. /\ lines[n].words = groups[n] /\ lines[n].end = LineEnd(n)
        /\ lines[n].start = groups[n][1].start
        /\ DOMAIN groups[n] = 1..Len(groups[n])
    BY DoneLines, WordsOfLines
  <2>2. \A i \in 1..Len(groups[n]) :
           /\ SpanUntil(lines[n], i) = Until(n, i)
           /\ (IF i = 1 THEN lines[n].start ELSE lines[n].words[i].start) = groups[n][i].start
    BY <2>1 DEF SpanUntil, Until
  <2>3. Spans(n, TRUE) = {Event(n, IF i = 1 THEN lines[n].start ELSE lines[n].words[i].start,
                                SpanUntil(lines[n], i), i) : i \in 1..Len(groups[n])}
    BY <2>1 DEF Spans
  <2>4. QED
    BY <2>2, <2>3, ZenonT(40)
<1>2. \A n \in 1..Len(groups) : \A i \in 1..Len(groups[n]) :
         groups[n][i].start \in Nat /\ Until(n, i) \in Nat
  BY WordsOfLines, UntilTyped
<1>3. DOMAIN lines = 1..Len(groups)
  BY DoneLines
<1>4. e \in Events(TRUE) <=>
         \E n \in 1..Len(groups) : \E i \in 1..Len(groups[n]) :
            e = Event(n, groups[n][i].start, Until(n, i), i) /\ e.from < e.until
  BY <1>1, <1>3 DEF Events
<1>5. \A n, a, b, i : Event(n, a, b, i).from = a /\ Event(n, a, b, i).until = b
  BY DEF Event
<1>6. e \in Shown(TRUE, t) <=> e \in Events(TRUE) /\ e.from <= t /\ t < e.until
  BY DEF Shown
<1>7. ASSUME NEW n \in 1..Len(groups), NEW i \in 1..Len(groups[n]),
             e = Event(n, groups[n][i].start, Until(n, i), i)
      PROVE  /\ e.from = groups[n][i].start /\ e.until = Until(n, i)
             /\ e.from <= t /\ t < e.until => e.from < e.until
  <2>1. e.from = groups[n][i].start /\ e.until = Until(n, i)
    BY <1>5, <1>7
  <2>2. e.from \in Nat /\ e.until \in Nat
    BY <1>2, <2>1
  <2>3. QED
    BY <2>1, <2>2
<1>8. QED
  BY <1>4, <1>6, <1>7

\* Without one, they are the lines.
LEMMA ShownLines ==
    ASSUME IInv, phase = "done", NEW t \in Int, NEW e
    PROVE  e \in Shown(FALSE, t) <=>
              \E n \in 1..Len(groups) :
                 /\ e = Event(n, groups[n][1].start, LineEnd(n), 0)
                 /\ groups[n][1].start <= t /\ t < LineEnd(n)
<1>1. \A n \in 1..Len(groups) : Spans(n, FALSE) = {Event(n, groups[n][1].start, LineEnd(n), 0)}
  BY DoneLines DEF Spans
<1>2. \A n \in 1..Len(groups) : groups[n][1].start \in Nat /\ LineEnd(n) \in Nat
  <2> SUFFICES ASSUME NEW n \in 1..Len(groups)
               PROVE  groups[n][1].start \in Nat /\ LineEnd(n) \in Nat
    OBVIOUS
  <2>1. 1 \in 1..Len(groups[n])
    BY WordsOfLines
  <2>2. QED
    BY <2>1, WordsOfLines, EndOfLine
<1>3. DOMAIN lines = 1..Len(groups)
  BY DoneLines
<1>4. e \in Events(FALSE) <=>
         \E n \in 1..Len(groups) :
            e = Event(n, groups[n][1].start, LineEnd(n), 0) /\ e.from < e.until
  <2>1. e \in Events(FALSE) <=> (\E n \in 1..Len(groups) : e \in Spans(n, FALSE)) /\ e.from < e.until
    BY <1>3 DEF Events
  <2>2. \A n \in 1..Len(groups) :
           e \in Spans(n, FALSE) <=> e = Event(n, groups[n][1].start, LineEnd(n), 0)
    BY <1>1
  <2>3. QED
    BY <2>1, <2>2
<1>5. \A n, a, b, i : Event(n, a, b, i).from = a /\ Event(n, a, b, i).until = b
  BY DEF Event
<1>6. e \in Shown(FALSE, t) <=> e \in Events(FALSE) /\ e.from <= t /\ t < e.until
  BY DEF Shown
<1>7. ASSUME NEW n \in 1..Len(groups), e = Event(n, groups[n][1].start, LineEnd(n), 0)
      PROVE  /\ e.from = groups[n][1].start /\ e.until = LineEnd(n)
             /\ e.from <= t /\ t < e.until => e.from < e.until
  <2>1. e.from = groups[n][1].start /\ e.until = LineEnd(n)
    BY <1>5, <1>7
  <2>2. e.from \in Nat /\ e.until \in Nat
    BY <1>2, <2>1
  <2>3. QED
    BY <2>1, <2>2
<1>8. QED
  BY <1>4, <1>6, <1>7

LEMMA EventParts ==
    ASSUME NEW n, NEW a, NEW b, NEW i
    PROVE  Event(n, a, b, i).line = n /\ Event(n, a, b, i).word = i
BY DEF Event

(***************************************************************************)
(* A line is up all the time from its first word to its end, also when the *)
(* words of the clip overlap.                                              *)
(***************************************************************************)
\* At any time of a line there is a last word that has started.
LEMMA WordAt ==
    ASSUME IInv, phase = "done", NEW n \in 1..Len(groups), NEW t \in Int,
           groups[n][1].start <= t, t < LineEnd(n)
    PROVE  \E i \in 1..Len(groups[n]) : groups[n][i].start <= t /\ t < Until(n, i)
<1> DEFINE ws == groups[n]
           m == Len(ws)
           D == {i \in 1..m : ws[i].start <= t}
           c == Cardinality(D)
<1>1. m \in Nat /\ m >= 1 /\ \A i \in 1..m : ws[i].start \in Nat
  BY WordsOfLines
<1>2. \A i \in D : \A k \in 1..m : k < i => k \in D
  <2> SUFFICES ASSUME NEW i \in D, NEW k \in 1..m, k < i PROVE k \in D
    OBVIOUS
  <2>1. ws[k].start <= ws[i].start
    BY <1>1, StartsInLine
  <2>2. QED
    BY <1>1, <2>1
<1>3. c \in 0..m /\ D = 1..c
  <2>1. D \in SUBSET (1..m)
    OBVIOUS
  <2> HIDE DEF D, m
  <2>2. QED
    BY <1>1, <1>2, <2>1, DownwardClosed
<1>4. 1 \in D
  BY <1>1
<1>5. c \in 1..m /\ ws[c].start <= t
  <2>1. c \in D
    <3> HIDE DEF c, D
    <3>1. QED
      BY <1>1, <1>3, <1>4
  <2>2. QED
    BY <2>1
<1>6. t < Until(n, c)
  <2>1. CASE c < m
    <3>1. (c + 1) \in 1..m /\ (c + 1) \notin D
      <4> HIDE DEF c, D
      <4>1. QED
        BY <1>1, <1>3, <2>1
    <3>2. ~ (ws[c + 1].start <= t) /\ ws[c + 1].start \in Nat
      BY <1>1, <3>1
    <3> HIDE DEF c
    <3>3. Until(n, c) = ws[c + 1].start
      BY <1>5, <2>1, UntilTyped
    <3>4. QED
      BY <3>2, <3>3
  <2>2. CASE ~ (c < m)
    <3> HIDE DEF c
    <3>1. Until(n, c) = LineEnd(n)
      BY <1>5, <2>2, UntilTyped
    <3>2. QED
      BY <3>1
  <2>3. QED
    BY <2>1, <2>2
<1>7. QED
  BY <1>5, <1>6

\* No word of a line is highlighted before it starts or after it ends.
LEMMA WordInLine ==
    ASSUME IInv, phase = "done", NEW n \in 1..Len(groups), NEW i \in 1..Len(groups[n])
    PROVE  groups[n][1].start <= groups[n][i].start /\ Until(n, i) <= LineEnd(n)
<1>1. Len(groups[n]) \in Nat /\ Len(groups[n]) >= 1
  BY WordsOfLines
<1>2. 1 \in 1..Len(groups[n]) /\ 1 <= i
  BY <1>1
<1>3. groups[n][1].start <= groups[n][i].start
  BY <1>2, StartsInLine
<1>4. LineEnd(n) \in Nat /\ groups[n][Len(groups[n])].end <= LineEnd(n)
  BY EndOfLine
<1>5. CASE i < Len(groups[n])
  <2> DEFINE last == Len(groups[n])
  <2>1. (i + 1) \in 1..last /\ last \in 1..last /\ i + 1 <= last /\ Until(n, i) = groups[n][i + 1].start
    BY <1>1, <1>5, UntilTyped
  <2>2. groups[n][i + 1].start <= groups[n][last].start
    BY <2>1, StartsInLine
  <2>3. /\ groups[n][i + 1].start \in Nat /\ groups[n][last].start \in Nat
        /\ groups[n][last].end \in Nat /\ groups[n][last].start <= groups[n][last].end
    BY <2>1, WordsOfLines
  <2> HIDE DEF last
  <2>4. groups[n][last].end <= LineEnd(n)
    BY <1>4 DEF last
  <2>5. QED
    BY <1>3, <1>4, <2>1, <2>2, <2>3, <2>4
<1>6. CASE ~ (i < Len(groups[n]))
  <2>1. Until(n, i) = LineEnd(n)
    BY <1>6, UntilTyped
  <2>2. QED
    BY <1>3, <1>4, <2>1
<1>7. QED
  BY <1>5, <1>6

\* With or without a highlight a line is up from its start to its end.
LEMMA LineShown ==
    ASSUME IInv, phase = "done", NEW highlight \in BOOLEAN, NEW t \in Int, NEW n \in 1..Len(groups)
    PROVE  (\E e \in Shown(highlight, t) : e.line = n)
              <=> groups[n][1].start <= t /\ t < LineEnd(n)
<1>1. 1 \in 1..Len(groups[n]) /\ groups[n][1].start \in Nat /\ LineEnd(n) \in Nat
  <2>1. 1 \in 1..Len(groups[n])
    BY WordsOfLines
  <2>2. QED
    BY <2>1, WordsOfLines, EndOfLine
<1>2. CASE highlight = TRUE
  <2>1. ASSUME NEW e \in Shown(TRUE, t), e.line = n
        PROVE  groups[n][1].start <= t /\ t < LineEnd(n)
    <3>1. PICK m \in 1..Len(groups) : \E i \in 1..Len(groups[m]) :
                 /\ e = Event(m, groups[m][i].start, Until(m, i), i)
                 /\ groups[m][i].start <= t /\ t < Until(m, i)
      BY ShownWords
    <3>2. PICK i \in 1..Len(groups[m]) :
                 /\ e = Event(m, groups[m][i].start, Until(m, i), i)
                 /\ groups[m][i].start <= t /\ t < Until(m, i)
      BY <3>1
    <3>3. m = n
      BY <2>1, <3>2, EventParts
    <3>4. groups[n][1].start <= groups[n][i].start /\ Until(n, i) <= LineEnd(n)
      BY <3>3, WordInLine
    <3>5. groups[n][i].start \in Nat /\ Until(n, i) \in Nat
      BY <3>3, WordsOfLines, UntilTyped
    <3>6. QED
      BY <1>1, <3>2, <3>3, <3>4, <3>5
  <2>2. ASSUME groups[n][1].start <= t, t < LineEnd(n)
        PROVE  \E e \in Shown(TRUE, t) : e.line = n
    <3>1. PICK i \in 1..Len(groups[n]) : groups[n][i].start <= t /\ t < Until(n, i)
      BY <2>2, WordAt
    <3> DEFINE e == Event(n, groups[n][i].start, Until(n, i), i)
    <3>2. e \in Shown(TRUE, t)
      BY <3>1, ShownWords
    <3>3. e.line = n
      BY EventParts
    <3>4. QED
      BY <3>2, <3>3
  <2>3. QED
    BY <1>2, <2>1, <2>2
<1>3. CASE highlight = FALSE
  <2>1. ASSUME NEW e \in Shown(FALSE, t), e.line = n
        PROVE  groups[n][1].start <= t /\ t < LineEnd(n)
    <3>1. PICK m \in 1..Len(groups) :
                 /\ e = Event(m, groups[m][1].start, LineEnd(m), 0)
                 /\ groups[m][1].start <= t /\ t < LineEnd(m)
      BY ShownLines
    <3>2. m = n
      BY <2>1, <3>1, EventParts
    <3>3. QED
      BY <3>1, <3>2
  <2>2. ASSUME groups[n][1].start <= t, t < LineEnd(n)
        PROVE  \E e \in Shown(FALSE, t) : e.line = n
    <3> DEFINE e == Event(n, groups[n][1].start, LineEnd(n), 0)
    <3>1. e \in Shown(FALSE, t)
      BY <2>2, ShownLines
    <3>2. e.line = n
      BY EventParts
    <3>3. QED
      BY <3>1, <3>2
  <2>3. QED
    BY <1>3, <2>1, <2>2
<1>4. QED
  BY <1>2, <1>3

LEMMA ShownOfLine ==
    ASSUME IInv, phase = "done", NEW highlight \in BOOLEAN, NEW t \in Int,
           NEW e \in Shown(highlight, t)
    PROVE  e.line \in 1..Len(groups)
<1>1. CASE highlight = TRUE
  <2>1. e \in Shown(TRUE, t)
    BY <1>1
  <2>2. \E n \in 1..Len(groups) : \E i \in 1..Len(groups[n]) :
           e = Event(n, groups[n][i].start, Until(n, i), i)
    BY <2>1, ShownWords
  <2>3. QED
    BY <2>2, EventParts
<1>2. CASE highlight = FALSE
  <2>1. e \in Shown(FALSE, t)
    BY <1>2
  <2>2. \E n \in 1..Len(groups) : e = Event(n, groups[n][1].start, LineEnd(n), 0)
    BY <2>1, ShownLines
  <2>3. QED
    BY <2>2, EventParts
<1>3. QED
  BY <1>1, <1>2

LEMMA NoSilence == IInv => NeverOverSilence
<1> SUFFICES ASSUME IInv, phase = "done", NEW highlight \in BOOLEAN, NEW t \in Instants
             PROVE  /\ \A e \in Shown(highlight, t) :
                          /\ 0 <= t /\ t < Duration
                          /\ \E i \in DOMAIN lines[e.line].words :
                                LET w == lines[e.line].words[i] IN
                                w.start <= t /\ t < w.end + Gap
                    /\ \A n \in DOMAIN lines :
                          (\E e \in Shown(highlight, t) : e.line = n)
                              <=> lines[n].start <= t /\ t < lines[n].end
  BY DEF NeverOverSilence
<1>1. t \in Int /\ Duration \in Nat /\ Gap \in Nat /\ Hold \in Nat /\ Hold <= Gap
  BY TimesAssumption, TranscriptAssumption, DurationTyped DEF Instants
<1>2. ASSUME NEW e \in Shown(highlight, t)
      PROVE  /\ 0 <= t /\ t < Duration
             /\ \E i \in DOMAIN lines[e.line].words :
                   LET w == lines[e.line].words[i] IN w.start <= t /\ t < w.end + Gap
  <2> DEFINE n == e.line
  <2>1. n \in 1..Len(groups)
    BY <1>1, ShownOfLine
  <2>2. lines[n].words = groups[n]
    BY <2>1, DoneLines
  <2>3. \E d \in Shown(highlight, t) : d.line = n
    OBVIOUS
  <2> HIDE DEF n
  <2>4. groups[n][1].start <= t /\ t < LineEnd(n)
    BY <1>1, <2>1, <2>3, LineShown
  <2>5. PICK i \in 1..Len(groups[n]) : groups[n][i].start <= t /\ t < Until(n, i)
    BY <1>1, <2>1, <2>4, WordAt
  <2>6. /\ groups[n][i].start \in Nat /\ groups[n][i].end \in Nat
        /\ Until(n, i) \in Nat /\ Until(n, i) <= Duration
        /\ DOMAIN groups[n] = 1..Len(groups[n]) /\ Len(groups[n]) \in Nat
    BY <2>1, <2>5, WordsOfLines, UntilTyped
  <2>7. Until(n, i) <= groups[n][i].end + Gap
    <3>1. CASE i < Len(groups[n])
      <4>1. (i + 1) \in 2..Len(groups[n]) /\ (i + 1) - 1 = i
        BY <2>6, <3>1
      <4>2. GoodLine(groups[n])
        BY <2>1, GroupsTyped DEF IInv, GroupInv
      <4>3. groups[n][i + 1].start <= groups[n][(i + 1) - 1].end + Gap
        BY <4>1, <4>2 DEF GoodLine
      <4>4. Until(n, i) = groups[n][i + 1].start
        BY <2>1, <3>1, UntilTyped
      <4>5. QED
        BY <4>1, <4>3, <4>4
    <3>2. CASE ~ (i < Len(groups[n]))
      <4>1. i = Len(groups[n]) /\ Until(n, i) = LineEnd(n)
        BY <2>1, <3>2, UntilTyped
      <4>2. LineEnd(n) <= groups[n][i].end + Hold
        BY <2>1, <4>1, EndOfLine
      <4>3. QED
        BY <1>1, <2>6, <4>1, <4>2
    <3>3. QED
      BY <3>1, <3>2
  <2>8. 0 <= t /\ t < Duration /\ t < groups[n][i].end + Gap
    BY <1>1, <2>5, <2>6, <2>7
  <2>9. QED
    BY <2>2, <2>5, <2>6, <2>8 DEF n
<1>3. ASSUME NEW n \in DOMAIN lines
      PROVE  (\E e \in Shown(highlight, t) : e.line = n)
                 <=> lines[n].start <= t /\ t < lines[n].end
  <2>1. n \in 1..Len(groups) /\ lines[n].start = groups[n][1].start /\ lines[n].end = LineEnd(n)
    BY DoneLines
  <2>2. QED
    BY <1>1, <2>1, LineShown
<1>4. QED
  BY <1>2, <1>3

\* Captions never hang over silence or outside the clip and never flicker,
\* for any speech, overlapping or not (MAX_GAP_SECONDS and HOLD_SECONDS,
\* group_lines, build_ass).
THEOREM NoCaptionOverSilence == Spec => []NeverOverSilence
BY NoSilence, InvHolds, PTL

(***************************************************************************)
(* While a word is spoken, its line is up and no other.                    *)
(***************************************************************************)
LEMMA OthersAreOver ==
    ASSUME IInv, phase = "done", Orderly,
           NEW n \in 1..Len(groups), NEW i \in 1..Len(groups[n]),
           NEW t \in Int, groups[n][i].start <= t, t < groups[n][i].end,
           NEW m \in 1..Len(groups), groups[m][1].start <= t, t < LineEnd(m)
    PROVE  m = n
<1>1. /\ Len(groups) \in Nat
      /\ 1 \in 1..Len(groups[m]) /\ Len(groups[m]) \in 1..Len(groups[m])
      /\ groups[n][i].start \in Nat /\ groups[n][i].end \in Nat
      /\ groups[m][1].start \in Nat /\ LineEnd(m) \in Nat
  <2>1. 1 \in 1..Len(groups[m]) /\ Len(groups[m]) \in 1..Len(groups[m])
    BY WordsOfLines
  <2>2. QED
    BY <2>1, GroupsTyped, WordsOfLines, EndOfLine
<1>2. CASE m > n
  <2>1. groups[n][i].end <= groups[m][1].start
    BY <1>1, <1>2, SpokenInOrder
  <2>2. QED
    BY <1>1, <2>1
<1>3. CASE m < n
  <2> DEFINE k == m + 1
  <2>1. m < Len(groups) /\ k \in 1..Len(groups) /\ m < k /\ k <= n
    BY <1>1, <1>3
  <2> HIDE DEF k
  <2>2. 1 \in 1..Len(groups[k]) /\ groups[k][1].start \in Nat
    <3>1. 1 \in 1..Len(groups[k])
      BY <2>1, WordsOfLines
    <3>2. QED
      BY <2>1, <3>1, WordsOfLines
  <2>3. groups[m][Len(groups[m])].end <= groups[k][1].start
    BY <1>1, <2>1, <2>2, SpokenInOrder
  <2>4. LineEnd(m) <= groups[k][1].start
    BY <2>1, <2>3, EndOfLine DEF k
  <2>5. groups[k][1].start <= groups[n][i].start
    <3>1. CASE k = n
      BY <2>2, <3>1, WordInLine
    <3>2. CASE k < n
      <4>1. groups[k][1].end <= groups[n][i].start
        BY <2>1, <2>2, <3>2, SpokenInOrder
      <4>2. groups[k][1].start <= groups[k][1].end /\ groups[k][1].end \in Nat
        BY <2>1, <2>2, WordsOfLines
      <4>3. QED
        BY <1>1, <2>2, <4>1, <4>2, SMTT(20)
    <3>3. QED
      BY <2>1, <3>1, <3>2
  <2>6. QED
    BY <1>1, <2>2, <2>4, <2>5, SMTT(20)
<1>4. QED
  BY <1>2, <1>3

LEMMA OneShown ==
    ASSUME IInv, phase = "done", Orderly, NEW highlight \in BOOLEAN,
           NEW n \in 1..Len(groups), NEW i \in 1..Len(groups[n]),
           NEW t \in Int, groups[n][i].start <= t, t < groups[n][i].end
    PROVE  \E e : /\ Shown(highlight, t) = {e}
                  /\ e.line = n /\ e.word = IF highlight THEN i ELSE 0
<1>1. /\ groups[n][i].start \in Nat /\ groups[n][i].end \in Nat
      /\ groups[n][1].start \in Nat
      /\ Until(n, i) \in Nat /\ LineEnd(n) \in Nat
      /\ Len(groups[n]) \in Nat
  <2>1. 1 \in 1..Len(groups[n])
    BY WordsOfLines
  <2>2. QED
    BY <2>1, WordsOfLines, UntilTyped, EndOfLine
<1>2. groups[n][1].start <= t
  <2>1. groups[n][1].start <= groups[n][i].start
    BY WordInLine
  <2>2. QED
    BY <1>1, <2>1
<1>3. t < Until(n, i)
  <2>1. groups[n][i].end <= Until(n, i)
    <3>1. CASE i < Len(groups[n])
      <4>1. (i + 1) \in 1..Len(groups[n]) /\ i < i + 1 /\ Until(n, i) = groups[n][i + 1].start
        BY <3>1, UntilTyped
      <4>2. QED
        BY <4>1, SpokenInOrder
    <3>2. CASE ~ (i < Len(groups[n]))
      <4>1. i = Len(groups[n]) /\ Until(n, i) = LineEnd(n)
        BY <3>2, UntilTyped
      <4>2. QED
        BY <4>1, EndOfLine
    <3>3. QED
      BY <3>1, <3>2
  <2>2. QED
    BY <1>1, <2>1
<1>4. t < LineEnd(n)
  <2>1. Until(n, i) <= LineEnd(n)
    BY WordInLine
  <2>2. QED
    BY <1>1, <1>3, <2>1
<1>5. CASE highlight = TRUE
  <2> DEFINE e == Event(n, groups[n][i].start, Until(n, i), i)
  <2>1. e \in Shown(TRUE, t)
    BY <1>3, ShownWords
  <2>2. ASSUME NEW d \in Shown(TRUE, t) PROVE d = e
    <3>1. PICK m \in 1..Len(groups) : \E j \in 1..Len(groups[m]) :
                 /\ d = Event(m, groups[m][j].start, Until(m, j), j)
                 /\ groups[m][j].start <= t /\ t < Until(m, j)
      BY ShownWords
    <3>2. PICK j \in 1..Len(groups[m]) :
                 /\ d = Event(m, groups[m][j].start, Until(m, j), j)
                 /\ groups[m][j].start <= t /\ t < Until(m, j)
      BY <3>1
    <3>3. m = n
      <4>1. d.line = m
        BY <3>2, EventParts
      <4>2. groups[m][1].start <= t /\ t < LineEnd(m)
        BY <4>1, LineShown
      <4>3. QED
        BY <4>2, OthersAreOver
    <3>4. j \in 1..Len(groups[n]) /\ groups[n][j].start <= t /\ t < Until(n, j)
      BY <3>2, <3>3
    <3>5. groups[n][j].start \in Nat /\ Until(n, j) \in Nat
      BY <3>4, WordsOfLines, UntilTyped
    <3>6. CASE j > i
      <4>1. groups[n][i].end <= groups[n][j].start
        BY <3>4, <3>6, SpokenInOrder
      <4>2. QED
        BY <1>1, <3>4, <3>5, <4>1, SMTT(20)
    <3>7. CASE j < i
      <4>1. (j + 1) \in 1..Len(groups[n]) /\ j + 1 <= i /\ Until(n, j) = groups[n][j + 1].start
        <5>1. j < Len(groups[n]) /\ j + 1 <= i
          BY <1>1, <3>4, <3>7
        <5>2. QED
          BY <3>4, <5>1, UntilTyped
      <4>2. groups[n][j + 1].start <= groups[n][i].start
        BY <4>1, StartsInLine
      <4>3. QED
        BY <1>1, <3>4, <3>5, <4>1, <4>2, SMTT(20)
    <3>8. CASE j = i
      BY <3>2, <3>3, <3>8
    <3>9. QED
      BY <1>1, <3>4, <3>6, <3>7, <3>8
  <2>3. Shown(TRUE, t) = {e}
    BY <2>1, <2>2
  <2>4. e.line = n /\ e.word = i
    BY EventParts
  <2>5. QED
    BY <1>5, <2>3, <2>4
<1>6. CASE highlight = FALSE
  <2> DEFINE e == Event(n, groups[n][1].start, LineEnd(n), 0)
  <2>1. e \in Shown(FALSE, t)
    BY <1>2, <1>4, ShownLines
  <2>2. ASSUME NEW d \in Shown(FALSE, t) PROVE d = e
    <3>1. PICK m \in 1..Len(groups) :
                 /\ d = Event(m, groups[m][1].start, LineEnd(m), 0)
                 /\ groups[m][1].start <= t /\ t < LineEnd(m)
      BY ShownLines
    <3>2. m = n
      BY <3>1, OthersAreOver
    <3>3. QED
      BY <3>1, <3>2
  <2>3. Shown(FALSE, t) = {e}
    BY <2>1, <2>2
  <2>4. e.line = n /\ e.word = 0
    BY EventParts
  <2>5. QED
    BY <1>6, <2>3, <2>4
<1>7. QED
  BY <1>5, <1>6

LEMMA SpeechFollowed == IInv => HighlightFollowsSpeech
<1> SUFFICES ASSUME IInv, phase = "done", Orderly, NEW highlight \in BOOLEAN, NEW n \in DOMAIN lines,
                    NEW i \in DOMAIN lines[n].words,
                    NEW t \in (lines[n].words[i].start)..(lines[n].words[i].end - 1)
             PROVE  LET shown == Shown(highlight, t) IN
                    /\ Cardinality(shown) = 1
                    /\ \A e \in shown : e.line = n /\ e.word = IF highlight THEN i ELSE 0
  BY DEF HighlightFollowsSpeech
<1>1. n \in 1..Len(groups) /\ lines[n].words = groups[n]
  BY DoneLines
<1>2. i \in 1..Len(groups[n])
  BY <1>1, WordsOfLines
<1>3. /\ groups[n][i].start \in Nat /\ groups[n][i].end \in Nat
      /\ t \in (groups[n][i].start)..(groups[n][i].end - 1)
  BY <1>1, <1>2, WordsOfLines
<1>4. t \in Int /\ groups[n][i].start <= t /\ t < groups[n][i].end
  BY <1>3
<1>5. PICK e : /\ Shown(highlight, t) = {e}
               /\ e.line = n /\ e.word = IF highlight THEN i ELSE 0
  BY <1>1, <1>2, <1>4, OneShown
<1>6. Cardinality({e}) = 1
  BY FS_Singleton
<1>7. QED
  BY <1>5, <1>6

\* The caption is the speech: of words that do not overlap, the one that is
\* spoken is on the screen, in its line and highlighted, and no other line is,
\* for every window, style and length of clip (slice_words, group_lines,
\* build_ass).
THEOREM CaptionIsSpeech == Spec => []HighlightFollowsSpeech
BY SpeechFollowed, InvHolds, PTL
===============================================================================
