--------------------------- MODULE ChunkingProofs ---------------------------
(***************************************************************************)
(* Splitting any text, with any limits and any tokenizer.                  *)
(***************************************************************************)
EXTENDS Chunking, FiniteSetTheorems, TLAPS

-----------------------------------------------------------------------------
\* A set of offsets has a last and a first element

LEMMA LastExists ==
  ASSUME NEW n \in Nat, NEW S \in SUBSET (0 .. n), S # {}
  PROVE  \E x \in S : \A y \in S : y <= x
<1> DEFINE Above(x) == {y \in S : y > x}
           Aboves   == {Above(x) : x \in S}
<1>1. IsFiniteSet(S)
  <2>1. IsFiniteSet(0 .. n)
    BY FS_Interval
  <2> QED
    BY <2>1, FS_Subset
<1>2. IsWellFoundedOn(StrictSubsetOrdering(S), SUBSET S)
  BY <1>1, FS_StrictSubsetOrderingWellFounded, FS_FiniteSubsetsOfFinite
<1>3. Aboves \subseteq SUBSET S /\ Aboves # {}
  OBVIOUS
<1>4. PICK A \in Aboves : \A B \in Aboves : <<B, A>> \notin StrictSubsetOrdering(S)
  <2> HIDE DEF Aboves
  <2> QED
    BY <1>2, <1>3, WFMin, Zenon
<1>5. PICK x \in S : A = Above(x)
  BY <1>4
<1>6. ASSUME NEW y \in S, y > x PROVE FALSE
  <2>0. \A z \in S : z \in Int
    OBVIOUS
  <2>1. Above(y) \subseteq A
    <3>1. \A z \in S : z > y => z > x
      BY <1>6, <2>0
    <3> HIDE DEF Aboves
    <3> QED
      BY <1>5, <3>1
  <2>2. y \in A /\ y \notin Above(y)
    <3>1. ~ (y > y)
      BY <2>0
    <3> QED
      BY <1>5, <1>6, <3>1
  <2>3. <<Above(y), A>> \in StrictSubsetOrdering(S)
    BY <2>1, <2>2, <1>3, <1>4 DEF StrictSubsetOrdering
  <2> QED
    BY <2>3, <1>4
<1> QED
  BY <1>6

LEMMA FirstExists ==
  ASSUME NEW n \in Nat, NEW S \in SUBSET (0 .. n), S # {}
  PROVE  \E x \in S : \A y \in S : x <= y
<1> DEFINE T == {n - x : x \in S}
<1>1. T \in SUBSET (0 .. n) /\ T # {}
  <2>1. \A x \in S : n - x \in 0 .. n
    OBVIOUS
  <2> QED
    BY <2>1
<1>2. PICK t \in T : \A u \in T : u <= t
  <2> HIDE DEF T
  <2> QED
    BY <1>1, LastExists
<1>3. PICK x \in S : t = n - x
  BY <1>2
<1>4. ASSUME NEW y \in S PROVE x <= y
  <2>1. n - y \in T
    OBVIOUS
  <2>2. n - y <= n - x
    BY <2>1, <1>2, <1>3
  <2>3. x \in 0 .. n /\ y \in 0 .. n
    OBVIOUS
  <2> QED
    BY <2>2, <2>3
<1> QED
  BY <1>4

LEMMA LastOfIsLast ==
  ASSUME NEW n \in Nat, NEW S \in SUBSET (0 .. n), S # {}
  PROVE  LastOf(S) \in S /\ \A y \in S : y <= LastOf(S)
BY LastExists DEF LastOf

LEMMA FirstOfIsFirst ==
  ASSUME NEW n \in Nat, NEW S \in SUBSET (0 .. n), S # {}
  PROVE  FirstOf(S) \in S /\ \A y \in S : FirstOf(S) <= y
BY FirstExists DEF FirstOf

-----------------------------------------------------------------------------
\* Windows

\* Separators end inside their window.
LEMMA SeparatorsAreInside ==
  ASSUME NEW s \in Nat, NEW l \in Nat, NEW i \in 1 .. 4
  PROVE  Separators(i, s, l) \subseteq s + 1 .. l
<1>1. /\ SentenceEnds(s, l) \subseteq s + 1 .. l
      /\ ParagraphEnds(s, l) \subseteq s + 1 .. l
      /\ LineEnds(s, l) \subseteq s + 1 .. l
      /\ SpaceEnds(s, l) \subseteq s + 1 .. l
  BY DEF SentenceEnds, ParagraphEnds, LineEnds, SpaceEnds
<1>2. i = 1 \/ i = 2 \/ i = 3 \/ i = 4
  OBVIOUS
<1> QED
  BY <1>1, <1>2 DEF Separators

\* A structured window ends past its start and not past its limit.
LEMMA PreferredEndIsInside ==
  ASSUME NEW s \in Nat, NEW l \in Nat, s < l
  PROVE  PreferredEnd(s, l) \in s + 1 .. l
<1> DEFINE above == {h \in SectionStarts : h <= l}
           fits  == {i \in 1 .. 4 : UsableEnds(i, s, l) # {}}
<1>1. SectionStarts \subseteq Nat
  BY DEF SectionStarts, Headings
<1>2. above # {} => LastOf(above) \in 0 .. l
  <2>1. \A h \in Nat : h <= l => h \in 0 .. l
    OBVIOUS
  <2>2. above \in SUBSET (0 .. l)
    BY <1>1, <2>1
  <2> HIDE DEF above
  <2> QED
    BY <2>2, LastOfIsLast
<1>3. fits # {} => FirstOf(fits) \in fits
  <2>1. fits \in SUBSET (0 .. 4)
    OBVIOUS
  <2> HIDE DEF fits
  <2> QED
    BY <2>1, FirstOfIsFirst
<1>4. \A i \in fits : LastOf(UsableEnds(i, s, l)) \in s + 1 .. l
  <2> TAKE i \in fits
  <2>1. UsableEnds(i, s, l) \subseteq s + 1 .. l
    BY SeparatorsAreInside DEF UsableEnds
  <2>2. UsableEnds(i, s, l) \in SUBSET (0 .. l) /\ UsableEnds(i, s, l) # {}
    BY <2>1
  <2> QED
    BY <2>1, <2>2, LastOfIsLast
<1> HIDE DEF fits
<1>5. fits # {} => LastOf(UsableEnds(FirstOf(fits), s, l)) \in s + 1 .. l
  BY <1>3, <1>4
<1> USE DEF fits
<1> QED
  BY <1>2, <1>5 DEF PreferredEnd

\* The next window starts past the start of this one and not past its end.
LEMMA NextStartIsInside ==
  ASSUME NEW s \in Nat, NEW e \in Nat, s < e, options \in Options
  PROVE  NextStart(s, e) \in s + 1 .. e
<1> DEFINE floor == Greatest(s + 1, e - options.overlap)
           fits  == {i \in 1 .. 4 : OverlapStarts(i, floor, e) # {}}
<1>1. floor \in Nat /\ floor >= s + 1
  BY DEF Options, Greatest
<1>2. fits # {} => FirstOf(fits) \in fits
  <2>1. fits \in SUBSET (0 .. 4)
    OBVIOUS
  <2> HIDE DEF fits
  <2> QED
    BY <2>1, FirstOfIsFirst
<1>3. \A i \in fits : FirstOf(OverlapStarts(i, floor, e)) \in s + 1 .. e
  <2> TAKE i \in fits
  <2>1. OverlapStarts(i, floor, e) \subseteq s + 1 .. e
    <3> HIDE DEF floor
    <3>1. Separators(i, floor, e) \subseteq floor + 1 .. e
      BY <1>1, SeparatorsAreInside
    <3> QED
      BY <1>1, <3>1 DEF OverlapStarts
  <2>2. OverlapStarts(i, floor, e) \in SUBSET (0 .. e) /\ OverlapStarts(i, floor, e) # {}
    BY <2>1
  <2> QED
    BY <2>1, <2>2, FirstOfIsFirst
<1> HIDE DEF fits
<1>4. fits # {} => FirstOf(OverlapStarts(FirstOf(fits), floor, e)) \in s + 1 .. e
  BY <1>2, <1>3
<1> USE DEF fits
<1>5. CASE \/ options.overlap = 0 \/ e \in SectionStarts \/ fits = {}
           \/ \E h \in SectionStarts : floor <= h /\ h < e
  BY <1>5 DEF NextStart
<1>6. CASE ~(\/ options.overlap = 0 \/ e \in SectionStarts \/ fits = {}
             \/ \E h \in SectionStarts : floor <= h /\ h < e)
  <2>1. NextStart(s, e) = FirstOf(OverlapStarts(FirstOf(fits), floor, e))
    BY <1>6 DEF NextStart
  <2> QED
    BY <2>1, <1>4, <1>6
<1> QED
  BY <1>5, <1>6

-----------------------------------------------------------------------------
\* The inductive invariant

\* What each chunk of cs must be, and what all of them must cover.
FitsSize(s, e) ==
  /\ e - s <= MaxCharacters
  /\ IF options.strategy = "tokens" THEN Tokens(s, e) <= options.size
     ELSE e - s <= options.size

Fit(cs) ==
  \A i \in 1 .. Len(cs) :
    ~Blank(cs[i].start, cs[i].end) /\ FitsSize(cs[i].start, cs[i].end)

Covered(cs, n) ==
  \A o \in 0 .. Size - 1 :
    o < n /\ ~IsBlank(o) => \E i \in 1 .. Len(cs) : cs[i].start <= o /\ o < cs[i].end

\* The text before the next window is covered by chunks that fit.
Core ==
  /\ text \in Seq(Kinds)
  /\ options \in Options
  /\ phase \in {"idle", "window", "farthest", "overlap", "done"} \union Failures
  /\ phase # "fruitless"
  /\ position \in 0 .. Size
  /\ chunks \in Seq(Spans)
  /\ Fit(chunks)
  /\ Covered(chunks, position)
  /\ phase = "idle" => position = 0 /\ chunks = <<>>
  /\ Splitting => position < Size /\ ~Blank(0, Size)
  /\ phase = "done" => Covered(chunks, Size)

\* A window holds at most one chunk; fixed windows lie at multiples of the step.
Counting ==
  /\ windows \in 0 .. Size
  /\ windows <= MaxChunks
  /\ Len(chunks) <= MaxChunks
  /\ options.strategy = "tokens" => windows = 0
  /\ options.strategy # "tokens" => Len(chunks) <= windows
  /\ Splitting => windows <= position
  /\ phase = "idle" => windows = 0
  /\ phase = "window" /\ options.strategy = "characters" =>
       /\ position = windows * Step
       /\ windows > 0 => position - Step + options.size < Size
       /\ ChunkCount(Step) <= MaxChunks

\* A binary search keeps to the text and only remembers what fits.
Searching ==
  /\ search \in [low : 0 .. Size + 1, high : 0 .. Size, best : 0 .. Size, end : 0 .. Size]
  /\ phase \in {"farthest", "overlap"} => options.strategy = "tokens"
  /\ phase = "farthest" =>
       /\ Len(chunks) < MaxChunks
       /\ position < search.low
       /\ position <= search.high
       /\ search.high <= position + MaxCharacters
       /\ position <= search.best
       /\ search.best <= position + MaxCharacters
       /\ search.best # position => Tokens(position, search.best) <= options.size
  /\ phase = "overlap" =>
       /\ position < search.low
       /\ position <= search.high
       /\ search.high <= search.end
       /\ position < search.best
       /\ search.best <= search.end
       /\ search.end < Size
       /\ Covered(chunks, search.end)

SplitInv == Core /\ Counting /\ Searching

LEMMA TextIsSequence ==
  ASSUME text \in Seq(Kinds)
  PROVE  text \in Seq(Kinds) /\ Size \in Nat
BY DEF Size

\* Emitting a window covers it, and keeps a chunk only when it has text.
LEMMA EmittedIsSound ==
  ASSUME text \in Seq(Kinds), chunks \in Seq(Spans), Fit(chunks),
         NEW s \in Nat, NEW e \in Nat, s < e, e <= Size,
         Covered(chunks, s), FitsSize(s, e)
  PROVE  /\ Emitted(s, e) \in Seq(Spans)
         /\ Fit(Emitted(s, e))
         /\ Covered(Emitted(s, e), e)
         /\ Len(Emitted(s, e)) <= Len(chunks) + 1
         /\ e = Size /\ ~Blank(0, Size) => Emitted(s, e) # <<>>
<1> USE TextIsSequence
<1>1. CASE Blank(s, e)
  <2>1. Emitted(s, e) = chunks
    BY <1>1 DEF Emitted
  <2>2. Covered(chunks, e)
    BY <1>1 DEF Covered, Blank
  <2>3. e = Size /\ ~Blank(0, Size) => chunks # <<>>
    BY <2>2 DEF Covered, Blank
  <2> QED
    BY <2>1, <2>2, <2>3
<1>2. CASE ~Blank(s, e)
  <2> DEFINE span == [start |-> s, end |-> e]
  <2>1. Emitted(s, e) = Append(chunks, span)
    BY <1>2 DEF Emitted
  <2>2. span \in Spans
    BY DEF Spans
  <2>3. /\ Append(chunks, span) \in Seq(Spans)
        /\ Len(Append(chunks, span)) = Len(chunks) + 1
        /\ \A i \in 1 .. Len(chunks) : Append(chunks, span)[i] = chunks[i]
        /\ Append(chunks, span)[Len(chunks) + 1] = span
    BY <2>2
  <2>4. Fit(Append(chunks, span))
    <3> HIDE DEF span
    <3>1. span.start = s /\ span.end = e
      BY DEF span
    <3> QED
      BY <1>2, <2>3, <3>1 DEF Fit
  <2>5. Covered(Append(chunks, span), e)
    <3> SUFFICES ASSUME NEW o \in 0 .. Size - 1, o < e, ~IsBlank(o)
                 PROVE  \E i \in 1 .. Len(Append(chunks, span)) :
                          /\ Append(chunks, span)[i].start <= o
                          /\ o < Append(chunks, span)[i].end
      BY DEF Covered
    <3>1. CASE o < s
      BY <3>1, <2>3 DEF Covered
    <3>2. CASE s <= o
      <4>1. span.start <= o /\ o < span.end
        BY <3>2
      <4> HIDE DEF span
      <4> QED
        BY <4>1, <2>3
    <3> QED
      BY <3>1, <3>2
  <2> QED
    BY <2>1, <2>3, <2>4, <2>5
<1> QED
  BY <1>1, <1>2
-----------------------------------------------------------------------------
\* The end of a window: it is covered, and the next one begins inside the text.
LEMMA AdvanceKeepsCore ==
  ASSUME Core, Splitting, NEW e \in Nat, NEW next \in Nat,
         position < e, e <= Size, FitsSize(position, e),
         e # Size => position < next /\ next <= e,
         Advance(e, next)
  PROVE  /\ Core'
         /\ Len(chunks') <= Len(chunks) + 1
         /\ \/ phase' = "window" /\ position' = next /\ e # Size
            \/ phase' = "done" /\ position' = position
<1> DEFINE spans == Emitted(position, e)
<1>1. /\ spans \in Seq(Spans)
      /\ Fit(spans)
      /\ Covered(spans, e)
      /\ Len(spans) <= Len(chunks) + 1
      /\ e = Size => spans # <<>>
  BY TextIsSequence, EmittedIsSound DEF Core
<1>2. /\ text' = text /\ options' = options /\ chunks' = spans
      /\ Size' = Size /\ Spans' = Spans /\ Blank(0, Size)' = Blank(0, Size)
  BY DEF Advance, Size, Spans, Blank, IsBlank
<1> HIDE DEF spans
<1>3. Fit(chunks)'
  BY <1>1, <1>2 DEF Fit, FitsSize, Tokens, Blank, IsBlank
<1>4. \A o \in 0 .. Size - 1 :
        o < e /\ ~IsBlank(o) =>
          \E i \in 1 .. Len(chunks') : chunks'[i].start <= o /\ o < chunks'[i].end
  BY <1>1, <1>2 DEF Covered
<1>5. position \in 0 .. Size /\ Size \in Nat /\ ~Blank(0, Size)
  BY TextIsSequence DEF Core
<1>6. CASE e # Size
  <2>1. phase' = "window" /\ position' = next
    BY <1>6 DEF Advance
  <2>2. Covered(chunks, position)'
    BY <1>2, <1>4, <1>5, <1>6, <2>1 DEF Covered, IsBlank
  <2>3. position' \in 0 .. Size' /\ position' < Size'
    BY <1>2, <1>5, <1>6, <2>1
  <2> QED
    BY <1>1, <1>2, <1>3, <1>5, <1>6, <2>1, <2>2, <2>3 DEF Core, Splitting
<1>7. CASE e = Size
  <2>1. phase' = "done" /\ position' = position
    BY <1>1, <1>2, <1>5, <1>7 DEF Advance
  <2>2. \A o \in 0 .. Size - 1 : IsBlank(o)' = IsBlank(o)
    BY <1>2 DEF IsBlank
  <2>3. Covered(chunks, Size)'
    BY <1>2, <1>4, <1>5, <1>7, <2>2 DEF Covered
  <2>4. Covered(chunks, position)'
    BY <1>2, <1>5, <2>1, <2>3 DEF Covered
  <2> QED
    BY <1>1, <1>2, <1>3, <1>5, <1>7, <2>1, <2>3, <2>4 DEF Core, Splitting
<1> QED
  BY <1>6, <1>7

\* The limit, blank text and an oversized character end a splitting as it is.
LEMMA EndSplitKeepsInv ==
  ASSUME SplitInv, NEW outcome \in {"blank", "limit", "oversized"}, EndSplit(outcome)
  PROVE  SplitInv'
<1>1. UNCHANGED <<text, options, position, windows, search, chunks>> /\ phase' = outcome
  BY DEF EndSplit
<1>2. Core'
  BY <1>1 DEF SplitInv, Core, Splitting, Failures, Fit, FitsSize, Covered, Tokens, Blank,
              IsBlank, Size, Spans
<1>3. Counting'
  BY <1>1 DEF SplitInv, Counting, Splitting, Size
<1>4. Searching'
  BY <1>1 DEF SplitInv, Searching, Size
<1> QED
  BY <1>2, <1>3, <1>4 DEF SplitInv
-----------------------------------------------------------------------------
\* Rounding up counts every window that begins before the last.
LEMMA CeilingCounts ==
  ASSUME NEW d \in Nat, NEW s \in Nat \ {0}, NEW k \in Nat, k * s - s < d
  PROVE  k <= (d + s - 1) \div s
<1> DEFINE q == (d + s - 1) \div s
<1>1. q \in Nat /\ d + s - 1 < s * (q + 1)
  OBVIOUS
<1> HIDE DEF q
<1>2. k * s < (q + 1) * s
  <2>1. k * s \in Nat /\ s * (q + 1) = (q + 1) * s
    BY <1>1
  <2> QED
    BY <1>1, <2>1
<1>3. k < q + 1
  <2> SUFFICES ASSUME k >= q + 1 PROVE FALSE
    BY <1>1
  <2>1. PICK j \in Nat : k = (q + 1) + j
    <3>1. k - (q + 1) \in Nat
      BY <1>1
    <3> QED
      BY <1>1, <3>1
  <2>2. k * s = (q + 1) * s + j * s
    BY <1>1, <2>1
  <2>3. j * s >= 0 /\ (q + 1) * s \in Nat
    BY <1>1
  <2> QED
    BY <1>2, <2>2, <2>3
<1> QED
  BY <1>1, <1>3 DEF q

\* A fixed splitting that was let through never takes too many windows.
LEMMA EstimateSuffices ==
  ASSUME SplitInv, phase = "window", options.strategy = "characters"
  PROVE  windows < MaxChunks
<1>1. /\ Size \in Nat /\ windows \in Nat
      /\ position = windows * Step
      /\ windows > 0 => position - Step + options.size < Size
      /\ ChunkCount(Step) <= MaxChunks
  BY TextIsSequence DEF SplitInv, Core, Counting
<1>2. options.size \in Nat /\ Step \in Nat \ {0} /\ Step <= options.size
  BY DEF SplitInv, Core, Options, Step
<1>3. CASE windows = 0
  BY <1>3, LimitsAssumption
<1>4. CASE windows > 0 /\ Size <= options.size
  <2>1. windows * Step - Step >= 0
    <3>1. windows * Step - Step = (windows - 1) * Step /\ windows - 1 \in Nat
      BY <1>1, <1>2, <1>4
    <3> QED
      BY <1>2, <3>1
  <2> QED
    BY <1>1, <1>2, <1>4, <2>1
<1>5. CASE windows > 0 /\ Size > options.size
  <2> DEFINE d == Size - options.size
  <2>1. d \in Nat /\ windows * Step - Step < d
    BY <1>1, <1>2, <1>5
  <2>2. windows <= (d + Step - 1) \div Step
    <3> HIDE DEF d
    <3> QED
      BY <1>1, <1>2, <2>1, CeilingCounts
  <2>3. ChunkCount(Step) = 1 + (d + Step - 1) \div Step
    BY <1>1, <1>2, <1>5 DEF ChunkCount
  <2>4. (d + Step - 1) \div Step \in Int
    BY <1>2, <2>1
  <2> QED
    BY <1>1, <2>2, <2>3, <2>4, LimitsAssumption
<1>6. windows \in Nat /\ Size \in Nat /\ options.size \in Nat
  BY <1>1, <1>2
<1> QED
  BY <1>3, <1>4, <1>5, <1>6

LEMMA BeginKeepsInv ==
  ASSUME SplitInv, Begin
  PROVE  SplitInv'
<1>1. CASE EndSplit("blank")
  BY <1>1, EndSplitKeepsInv
<1>2. CASE EndSplit("limit")
  BY <1>2, EndSplitKeepsInv
<1>3. CASE /\ EndSplit("window") /\ ~Blank(0, Size)
           /\ options.strategy = "characters" => ChunkCount(Step) <= MaxChunks
  <2>1. UNCHANGED <<text, options, position, windows, search, chunks>> /\ phase' = "window"
    BY <1>3 DEF EndSplit
  <2>2. phase = "idle" /\ Size \in Nat /\ Size > 0
    BY <1>3, TextIsSequence DEF Begin, SplitInv, Core, Blank
  <2>3. Core'
    BY <1>3, <2>1, <2>2 DEF SplitInv, Core, Splitting, Failures, Fit, FitsSize, Covered, Tokens,
                            Blank, IsBlank, Size, Spans
  <2>4. Step \in Nat
    BY DEF SplitInv, Core, Options, Step
  <2>5. ChunkCount(Step) \in Int /\ ChunkCount(Step)' = ChunkCount(Step)
    BY <2>1, <2>2 DEF ChunkCount, Step, Size, SplitInv, Core, Options
  <2>6. options'.strategy = "characters" => (ChunkCount(Step) <= MaxChunks)'
    BY <1>3, <2>1, <2>5
  <2>7. Counting'
    BY <1>3, <2>1, <2>2, <2>4, <2>6 DEF SplitInv, Core, Counting, Splitting, Size, Step
  <2>8. Searching'
    BY <2>1 DEF SplitInv, Searching, Size
  <2> QED
    BY <2>3, <2>7, <2>8 DEF SplitInv
<1>4. options.strategy = "characters" => ChunkCount(Step) \in Int
  <2>1. Size \in Nat /\ options \in Options
    BY TextIsSequence DEF SplitInv, Core
  <2> QED
    BY <2>1 DEF ChunkCount, Options, Step
<1> QED
  <2>1. CASE options.strategy = "characters" /\ ChunkCount(Step) > MaxChunks
    BY <1>1, <1>2, <2>1 DEF Begin
  <2>2. CASE ~(options.strategy = "characters" /\ ChunkCount(Step) > MaxChunks)
    <3>1. options.strategy = "characters" => ChunkCount(Step) <= MaxChunks
      BY <1>4, <2>2, LimitsAssumption
    <3> QED
      BY <1>1, <1>3, <2>2, <3>1 DEF Begin
  <2> QED
    BY <2>1, <2>2
-----------------------------------------------------------------------------
LEMMA FixedWindowKeepsInv ==
  ASSUME SplitInv, FixedWindow
  PROVE  SplitInv'
<1> DEFINE e    == Least(position + options.size, Size)
           next == position + Step
<1>1. /\ phase = "window" /\ Splitting /\ options.strategy = "characters"
      /\ windows' = windows + 1 /\ search' = search
      /\ Advance(e, next)
  BY DEF FixedWindow, Splitting
<1>2. /\ options.size \in Nat /\ options.size <= MaxCharacters
      /\ Step \in Nat \ {0} /\ Step <= options.size
  BY <1>1 DEF SplitInv, Core, Options, Step
<1>3. Core /\ Size \in Nat /\ position \in Nat /\ position < Size
  BY <1>1, TextIsSequence DEF SplitInv, Core
<1>4. /\ e \in Nat /\ position < e /\ e <= Size /\ e - position <= options.size
      /\ e # Size => e = position + options.size
  BY <1>2, <1>3 DEF Least
<1>5. FitsSize(position, e)
  BY <1>1, <1>2, <1>3, <1>4, LimitsAssumption DEF FitsSize
<1>6. next \in Nat /\ (e # Size => position < next /\ next <= e)
  BY <1>2, <1>3, <1>4
<1>7. UNCHANGED <<text, options>> /\ windows < MaxChunks
  BY <1>1, EstimateSuffices DEF Advance
<1> HIDE DEF e, next
<1>8. /\ Core'
      /\ Len(chunks') <= Len(chunks) + 1
      /\ \/ phase' = "window" /\ position' = next /\ e # Size
         \/ phase' = "done" /\ position' = position
  BY <1>1, <1>3, <1>4, <1>5, <1>6, AdvanceKeepsCore
<1>9. Counting'
  <2>1. /\ windows \in Nat /\ windows <= position /\ Len(chunks) <= windows
        /\ position = windows * Step /\ ChunkCount(Step) <= MaxChunks
    BY <1>1 DEF SplitInv, Counting
  <2>2. Len(chunks') \in Nat /\ Len(chunks) \in Nat
    BY <1>3, <1>8 DEF Core
  <2>3. Size' = Size /\ Step' = Step /\ ChunkCount(Step)' = ChunkCount(Step)
    BY <1>7 DEF Size, Step, ChunkCount
  <2>4. /\ windows' \in 0 .. Size' /\ windows' <= MaxChunks /\ Len(chunks') <= MaxChunks
        /\ Len(chunks') <= windows'
    BY <1>1, <1>3, <1>7, <1>8, <2>1, <2>2, <2>3, LimitsAssumption
  <2>5. phase' = "window" => windows' <= position' /\ position' = windows' * Step
    <3>1. (windows + 1) * Step = windows * Step + Step
      BY <1>2, <2>1
    <3> QED
      BY <1>1, <1>2, <1>3, <1>8, <2>1, <3>1 DEF next
  <2>6. phase' = "window" => position' - Step + options.size < Size
    BY <1>2, <1>3, <1>4, <1>8 DEF next
  <2> QED
    BY <1>1, <1>7, <1>8, <2>1, <2>3, <2>4, <2>5, <2>6 DEF Counting, Splitting
<1>10. Searching'
  BY <1>1, <1>7, <1>8 DEF SplitInv, Searching, Size
<1> QED
  BY <1>8, <1>9, <1>10 DEF SplitInv

LEMMA StructuredWindowKeepsInv ==
  ASSUME SplitInv, StructuredWindow
  PROVE  SplitInv'
<1> DEFINE limit == Least(Size, position + options.size)
           e     == IF limit = Size THEN Size ELSE PreferredEnd(position, limit)
           next  == NextStart(position, e)
<1>1. /\ phase = "window" /\ Splitting /\ options.strategy \in Structured
      /\ windows < MaxChunks /\ windows' = windows + 1 /\ search' = search
      /\ Advance(e, next)
  BY DEF StructuredWindow, Splitting
<1>2. /\ options.size \in Nat \ {0} /\ options.size <= MaxCharacters
      /\ options.strategy # "tokens" /\ options.strategy # "characters"
      /\ options \in Options
  BY <1>1 DEF SplitInv, Core, Options, Structured
<1>3. Core /\ Size \in Nat /\ position \in Nat /\ position < Size
  BY <1>1, TextIsSequence DEF SplitInv, Core
<1>4. /\ limit \in Nat /\ position < limit /\ limit <= Size
      /\ limit - position <= options.size
  BY <1>2, <1>3 DEF Least
<1>5. e \in position + 1 .. limit
  <2> HIDE DEF limit
  <2>1. PreferredEnd(position, limit) \in position + 1 .. limit
    BY <1>3, <1>4, PreferredEndIsInside
  <2> QED
    BY <1>3, <1>4, <2>1
<1> HIDE DEF limit, e
<1>6. e \in Nat /\ position < e /\ e <= Size /\ e - position <= options.size
  BY <1>3, <1>4, <1>5, <1>2
<1>7. FitsSize(position, e)
  BY <1>2, <1>3, <1>6, LimitsAssumption DEF FitsSize
<1>8. next \in position + 1 .. e
  BY <1>2, <1>3, <1>6, NextStartIsInside
<1> HIDE DEF next
<1>9. next \in Nat /\ position < next /\ next <= e
  BY <1>3, <1>6, <1>8
<1>10. /\ Core'
       /\ Len(chunks') <= Len(chunks) + 1
       /\ \/ phase' = "window" /\ position' = next /\ e # Size
          \/ phase' = "done" /\ position' = position
  BY <1>1, <1>3, <1>6, <1>7, <1>9, AdvanceKeepsCore
<1>11. UNCHANGED <<text, options>>
  BY <1>1 DEF Advance
<1>12. Counting'
  <2>1. windows \in Nat /\ windows <= position /\ Len(chunks) <= windows
    BY <1>1, <1>2 DEF SplitInv, Counting
  <2>2. Len(chunks') \in Nat /\ Len(chunks) \in Nat
    BY <1>3, <1>10 DEF Core
  <2>3. Size' = Size
    BY <1>11 DEF Size
  <2>4. /\ windows' \in 0 .. Size' /\ windows' <= MaxChunks /\ Len(chunks') <= MaxChunks
        /\ Len(chunks') <= windows'
    BY <1>1, <1>3, <1>10, <2>1, <2>2, <2>3, LimitsAssumption
  <2>5. phase' = "window" => windows' <= position'
    BY <1>1, <1>3, <1>9, <1>10, <2>1
  <2> QED
    BY <1>2, <1>10, <1>11, <2>4, <2>5 DEF Counting, Splitting
<1>13. Searching'
  BY <1>1, <1>10, <1>11 DEF SplitInv, Searching, Size
<1> QED
  BY <1>10, <1>12, <1>13 DEF SplitInv
-----------------------------------------------------------------------------
LEMMA TokenWindowKeepsInv ==
  ASSUME SplitInv, TokenWindow
  PROVE  SplitInv'
<1>1. /\ phase = "window" /\ phase' = "farthest" /\ options.strategy = "tokens"
      /\ Len(chunks) < MaxChunks
      /\ UNCHANGED <<text, options, position, windows, chunks>>
  BY DEF TokenWindow
<1>2. Core /\ Size \in Nat /\ position \in Nat /\ position < Size
  BY <1>1, TextIsSequence DEF SplitInv, Core, Splitting
<1>3. Core'
  BY <1>1, <1>2 DEF Core, Splitting, Failures, Fit, FitsSize, Covered, Tokens, Blank,
                    IsBlank, Size, Spans
<1>4. Counting'
  BY <1>1 DEF SplitInv, Counting, Splitting, Size
<1>5. Searching'
  <2>1. /\ search' = [low  |-> position + 1,
                      high |-> Least(Size, position + MaxCharacters),
                      best |-> position, end |-> position]
        /\ Size' = Size
    BY <1>1 DEF TokenWindow, Size
  <2> QED
    BY <1>1, <1>2, <2>1, LimitsAssumption DEF Searching, Least
<1> QED
  BY <1>3, <1>4, <1>5 DEF SplitInv

\* The middle of a binary search lies between its bounds.
LEMMA MiddleIsInside ==
  ASSUME Searching, Size \in Nat, search.low <= search.high
  PROVE  Middle \in Nat /\ search.low <= Middle /\ Middle <= search.high
BY DEF Searching, Middle

LEMMA ProbeEndKeepsInv ==
  ASSUME SplitInv, ProbeEnd
  PROVE  SplitInv'
<1>1. /\ phase = "farthest" /\ options.strategy = "tokens"
      /\ UNCHANGED <<text, options, phase, position, windows, chunks>>
  BY DEF ProbeEnd, SplitInv, Searching
<1>2. /\ Core /\ Searching /\ Size \in Nat /\ position \in Nat
      /\ search.low <= search.high
  BY TextIsSequence DEF ProbeEnd, SplitInv, Core
<1>3. Middle \in Nat /\ search.low <= Middle /\ Middle <= search.high
  BY <1>2, MiddleIsInside
<1>4. Core'
  BY <1>1, <1>2 DEF Core, Splitting, Failures, Fit, FitsSize, Covered, Tokens, Blank,
                    IsBlank, Size, Spans
<1>5. Counting'
  BY <1>1 DEF SplitInv, Counting, Splitting, Size
<1>6. Searching'
  <2>1. Size' = Size /\ \A e : Tokens(position, e)' = Tokens(position, e)
    BY <1>1 DEF Size, Tokens
  <2>2. CASE Tokens(position, Middle) <= options.size
    <3>1. search' = [search EXCEPT !.best = Middle, !.low = Middle + 1]
      BY <2>2 DEF ProbeEnd
    <3>2. (Tokens(position, search.best) <= options.size)'
      BY <1>1, <1>2, <2>2, <3>1 DEF Tokens, Searching
    <3>3. /\ Len(chunks) < MaxChunks /\ position < search.low /\ position <= search.high
          /\ search.high <= position + MaxCharacters /\ search \in [low : 0 .. Size + 1,
               high : 0 .. Size, best : 0 .. Size, end : 0 .. Size]
      BY <1>1, <1>2 DEF Searching
    <3>4. /\ Middle \in 0 .. Size /\ Middle + 1 \in 0 .. Size + 1
          /\ position < Middle + 1 /\ position <= Middle /\ Middle <= position + MaxCharacters
      BY <1>2, <1>3, <3>3, LimitsAssumption
    <3>5. /\ search' \in [low : 0 .. Size + 1, high : 0 .. Size, best : 0 .. Size, end : 0 .. Size]
          /\ search'.low = Middle + 1 /\ search'.best = Middle
          /\ search'.high = search.high
      BY <3>1, <3>3, <3>4
    <3> QED
      BY <1>1, <2>1, <3>2, <3>3, <3>4, <3>5 DEF Searching
  <2>3. CASE ~(Tokens(position, Middle) <= options.size)
    <3>1. search' = [search EXCEPT !.high = Middle - 1]
      BY <2>3 DEF ProbeEnd
    <3>2. (Tokens(position, search.best))' = Tokens(position, search.best)
      BY <1>1, <1>2, <3>1 DEF Tokens, Searching
    <3>3. /\ Len(chunks) < MaxChunks /\ position < search.low /\ position <= search.high
          /\ search.high <= position + MaxCharacters /\ search \in [low : 0 .. Size + 1,
               high : 0 .. Size, best : 0 .. Size, end : 0 .. Size]
          /\ position <= search.best /\ search.best <= position + MaxCharacters
          /\ search.best # position => Tokens(position, search.best) <= options.size
      BY <1>1, <1>2 DEF Searching
    <3>4. /\ Middle - 1 \in 0 .. Size /\ position <= Middle - 1
          /\ Middle - 1 <= position + MaxCharacters
      BY <1>2, <1>3, <3>3, LimitsAssumption
    <3>5. /\ search' \in [low : 0 .. Size + 1, high : 0 .. Size, best : 0 .. Size, end : 0 .. Size]
          /\ search'.high = Middle - 1 /\ search'.low = search.low
          /\ search'.best = search.best
      BY <3>1, <3>3, <3>4
    <3> QED
      BY <1>1, <2>1, <3>2, <3>3, <3>4, <3>5 DEF Searching
  <2> QED
    BY <2>2, <2>3
<1> QED
  BY <1>4, <1>5, <1>6 DEF SplitInv

\* What the search for the farthest end has found is a window that fits.
LEMMA BestFits ==
  ASSUME SplitInv, phase = "farthest", search.best # position
  PROVE  /\ search.best \in Nat /\ position \in Nat /\ Size \in Nat
         /\ position < search.best /\ search.best <= Size
         /\ FitsSize(position, search.best)
<1>1. Size \in Nat /\ position \in Nat
  BY TextIsSequence DEF SplitInv, Core
<1>2. /\ search.best \in 0 .. Size /\ position <= search.best
      /\ search.best <= position + MaxCharacters
      /\ Tokens(position, search.best) <= options.size
      /\ options.strategy = "tokens"
  BY DEF SplitInv, Searching
<1> QED
  BY <1>1, <1>2, LimitsAssumption DEF FitsSize

LEMMA EndFoundKeepsInv ==
  ASSUME SplitInv, EndFound
  PROVE  SplitInv'
<1> DEFINE e == search.best
<1>1. /\ phase = "farthest" /\ Splitting /\ e # position /\ Advance(e, e)
      /\ UNCHANGED <<windows, search>>
  BY DEF EndFound, Splitting
<1>2. /\ e \in Nat /\ position \in Nat /\ Size \in Nat /\ position < e /\ e <= Size
      /\ FitsSize(position, e) /\ Core
  BY <1>1, BestFits DEF SplitInv
<1> HIDE DEF e
<1>3. /\ Core'
      /\ Len(chunks') <= Len(chunks) + 1
      /\ \/ phase' = "window" /\ position' = e /\ e # Size
         \/ phase' = "done" /\ position' = position
  BY <1>1, <1>2, AdvanceKeepsCore
<1>4. UNCHANGED <<text, options>>
  BY <1>1 DEF Advance
<1>5. /\ options.strategy = "tokens" /\ Len(chunks) < MaxChunks /\ windows = 0
  BY <1>1 DEF SplitInv, Searching, Counting
<1>6. Counting'
  <2>1. Len(chunks') \in Nat /\ Len(chunks) \in Nat /\ position' \in Nat
    BY <1>2, <1>3 DEF Core
  <2>2. Size' = Size
    BY <1>4 DEF Size
  <2> QED
    BY <1>1, <1>2, <1>3, <1>4, <1>5, <2>1, <2>2, LimitsAssumption DEF Counting
<1>7. Searching'
  BY <1>1, <1>3, <1>4 DEF SplitInv, Searching, Size
<1> QED
  BY <1>3, <1>6, <1>7 DEF SplitInv

LEMMA SearchOverlapKeepsInv ==
  ASSUME SplitInv, SearchOverlap
  PROVE  SplitInv'
<1> DEFINE e     == search.best
           spans == Emitted(position, e)
<1>1. /\ phase = "farthest" /\ phase' = "overlap" /\ e # position /\ e # Size
      /\ chunks' = spans
      /\ search' = [low |-> position + 1, high |-> e, best |-> e, end |-> e]
      /\ UNCHANGED <<text, options, position, windows>>
  BY DEF SearchOverlap
<1>2. /\ e \in Nat /\ position \in Nat /\ Size \in Nat /\ position < e /\ e <= Size
      /\ FitsSize(position, e) /\ Core
  BY <1>1, BestFits DEF SplitInv
<1>3. /\ spans \in Seq(Spans) /\ Fit(spans) /\ Covered(spans, e)
      /\ Len(spans) <= Len(chunks) + 1
  <2> HIDE DEF e
  <2> QED
    BY <1>2, EmittedIsSound DEF Core
<1> HIDE DEF e, spans
<1>4. Size' = Size /\ Spans' = Spans
  BY <1>1 DEF Size, Spans
<1>5. Fit(chunks)'
  BY <1>1, <1>3 DEF Fit, FitsSize, Tokens, Blank, IsBlank
<1>6. Covered(chunks, position)' /\ Covered(chunks, search.end)'
  <2>1. search'.end = e
    BY <1>1
  <2> QED
    BY <1>1, <1>2, <1>3, <1>4, <2>1 DEF Covered, IsBlank
<1>7. Core'
  BY <1>1, <1>2, <1>3, <1>4, <1>5, <1>6 DEF Core, Splitting, Blank, IsBlank
<1>8. options.strategy = "tokens" /\ Len(chunks) < MaxChunks /\ windows = 0
  BY <1>1 DEF SplitInv, Searching, Counting
<1>9. Counting'
  <2>1. Len(chunks') \in Nat /\ Len(chunks) \in Nat
    BY <1>2, <1>7 DEF Core
  <2> QED
    BY <1>1, <1>2, <1>3, <1>4, <1>8, <2>1, LimitsAssumption DEF Counting
<1>10. Searching'
  BY <1>1, <1>2, <1>4, <1>6, <1>8 DEF Searching
<1> QED
  BY <1>7, <1>9, <1>10 DEF SplitInv

LEMMA ProbeOverlapKeepsInv ==
  ASSUME SplitInv, ProbeOverlap
  PROVE  SplitInv'
<1>1. /\ phase = "overlap" /\ options.strategy = "tokens"
      /\ UNCHANGED <<text, options, phase, position, windows, chunks>>
  BY DEF ProbeOverlap, SplitInv, Searching
<1>2. /\ Core /\ Searching /\ Size \in Nat /\ position \in Nat
      /\ search.low <= search.high
  BY TextIsSequence DEF ProbeOverlap, SplitInv, Core
<1>3. Middle \in Nat /\ search.low <= Middle /\ Middle <= search.high
  BY <1>2, MiddleIsInside
<1>4. Core'
  BY <1>1, <1>2 DEF Core, Splitting, Failures, Fit, FitsSize, Covered, Tokens, Blank,
                    IsBlank, Size, Spans
<1>5. Counting'
  BY <1>1 DEF SplitInv, Counting, Splitting, Size
<1>6. Searching'
  <2>1. /\ Size' = Size
        /\ \/ search' = [search EXCEPT !.best = Middle, !.high = Middle - 1]
           \/ search' = [search EXCEPT !.low = Middle + 1]
    BY <1>1 DEF ProbeOverlap, Size
  <2>2. search'.end = search.end
    BY <1>2, <2>1 DEF Searching
  <2>3. Covered(chunks, search.end)'
    BY <1>1, <1>2, <2>1, <2>2 DEF Searching, Covered, IsBlank
  <2>4. /\ search \in [low : 0 .. Size + 1, high : 0 .. Size, best : 0 .. Size, end : 0 .. Size]
        /\ position < search.low /\ position <= search.high /\ search.high <= search.end
        /\ position < search.best /\ search.best <= search.end /\ search.end < Size
    BY <1>1, <1>2 DEF Searching
  <2>5. /\ Middle \in 0 .. Size /\ Middle + 1 \in 0 .. Size + 1 /\ Middle - 1 \in 0 .. Size
        /\ position < Middle /\ Middle <= search.end
        /\ position <= Middle - 1 /\ Middle - 1 <= search.end /\ position < Middle + 1
    BY <1>2, <1>3, <2>4
  <2>6. CASE search' = [search EXCEPT !.best = Middle, !.high = Middle - 1]
    <3>1. /\ search' \in [low : 0 .. Size + 1, high : 0 .. Size, best : 0 .. Size, end : 0 .. Size]
          /\ search'.high = Middle - 1 /\ search'.low = search.low
          /\ search'.best = Middle /\ search'.end = search.end
      BY <2>4, <2>5, <2>6
    <3> QED
      BY <1>1, <2>1, <2>3, <2>4, <2>5, <3>1 DEF Searching
  <2>7. CASE search' = [search EXCEPT !.low = Middle + 1]
    <3>1. /\ search' \in [low : 0 .. Size + 1, high : 0 .. Size, best : 0 .. Size, end : 0 .. Size]
          /\ search'.high = search.high /\ search'.low = Middle + 1
          /\ search'.best = search.best /\ search'.end = search.end
      BY <2>4, <2>5, <2>7
    <3> QED
      BY <1>1, <2>1, <2>3, <2>4, <2>5, <3>1 DEF Searching
  <2> QED
    BY <2>1, <2>6, <2>7
<1> QED
  BY <1>4, <1>5, <1>6 DEF SplitInv

LEMMA OverlapFoundKeepsInv ==
  ASSUME SplitInv, OverlapFound
  PROVE  SplitInv'
<1>1. /\ phase = "overlap" /\ phase' = "window" /\ options.strategy = "tokens"
      /\ UNCHANGED <<text, options, windows, search, chunks>>
  BY DEF OverlapFound, SplitInv, Searching
<1>2. /\ Core /\ Searching /\ Size \in Nat /\ position \in Nat /\ ~Blank(0, Size)
  BY <1>1, TextIsSequence DEF SplitInv, Core, Splitting
<1>3. /\ search.best \in Nat /\ search.end \in Nat /\ position < search.best
      /\ search.best <= search.end /\ search.end < Size /\ Covered(chunks, search.end)
  BY <1>1, <1>2 DEF Searching
<1>4. position' = search.best
  BY <1>3 DEF OverlapFound
<1>5. Covered(chunks, position)'
  BY <1>1, <1>2, <1>3, <1>4 DEF Covered, IsBlank, Size
<1>6. /\ Fit(chunks)' /\ Size' = Size /\ Spans' = Spans /\ ~Blank(0, Size)'
      /\ position' \in 0 .. Size' /\ position' < Size'
  BY <1>1, <1>2, <1>3, <1>4 DEF Core, Fit, FitsSize, Tokens, Blank, IsBlank, Size, Spans
<1>7. Core'
  BY <1>1, <1>2, <1>5, <1>6 DEF Core, Splitting
<1>8. Counting'
  BY <1>1, <1>2, <1>3, <1>4, <1>6 DEF SplitInv, Counting
<1>9. Searching'
  BY <1>1, <1>2, <1>6 DEF Searching
<1> QED
  BY <1>7, <1>8, <1>9 DEF SplitInv
-----------------------------------------------------------------------------
\* SplitInv is inductive.
LEMMA SplitStarts == SplitInit => SplitInv
<1> SUFFICES ASSUME SplitInit PROVE SplitInv
  OBVIOUS
<1>1. text \in Seq(Kinds) /\ Size \in Nat /\ chunks = <<>> /\ phase = "idle" /\ position = 0
  BY TextsAssumption, TextIsSequence DEF SplitInit
<1>2. Core
  BY <1>1 DEF SplitInit, Core, Splitting, Failures, Fit, Covered
<1>3. Counting /\ Searching
  BY <1>1, LimitsAssumption DEF SplitInit, Counting, Searching, Splitting
<1> QED
  BY <1>2, <1>3 DEF SplitInv

LEMMA SplitSteps == SplitInv /\ [Split]_splitVars => SplitInv'
<1> SUFFICES ASSUME SplitInv, [Split]_splitVars PROVE SplitInv'
  OBVIOUS
<1>1. CASE UNCHANGED splitVars
  <2>1. UNCHANGED <<text, options, phase, position, windows, search, chunks>>
    BY <1>1 DEF splitVars
  <2>2. Core'
    BY <2>1 DEF SplitInv, Core, Splitting, Failures, Fit, FitsSize, Covered, Tokens, Blank,
                IsBlank, Size, Spans
  <2>3. Counting'
    BY <2>1 DEF SplitInv, Counting, Splitting, Size, Step, ChunkCount
  <2>4. Searching'
    BY <2>1 DEF SplitInv, Searching, Tokens, Covered, IsBlank, Size
  <2> QED
    BY <2>2, <2>3, <2>4 DEF SplitInv
<1>2. CASE StructuredLimit \/ TokenLimit \/ Oversized
  BY <1>2, EndSplitKeepsInv DEF StructuredLimit, TokenLimit, Oversized
<1> QED
  BY <1>1, <1>2, BeginKeepsInv, FixedWindowKeepsInv, StructuredWindowKeepsInv,
     TokenWindowKeepsInv, ProbeEndKeepsInv, EndFoundKeepsInv, SearchOverlapKeepsInv,
     ProbeOverlapKeepsInv, OverlapFoundKeepsInv DEF Split

\* SplitInv holds in every reachable state.
THEOREM SplitInvariance == SplitSpec => []SplitInv
  BY SplitStarts, SplitSteps, PTL DEF SplitSpec

\* What the invariant says of the splitting.
LEMMA SplitIsSound == SplitInv => SplitTypeOK /\ Lossless /\ ChunksFit
<1> SUFFICES ASSUME SplitInv PROVE SplitTypeOK /\ Lossless /\ ChunksFit
  OBVIOUS
<1>1. SplitTypeOK
  BY TextIsSequence DEF SplitInv, Core, Counting, Searching, SplitTypeOK
<1>2. Lossless
  BY DEF SplitInv, Core, Lossless, Covered
<1>3. Len(chunks) <= MaxChunks /\ Fit(chunks)
  BY DEF SplitInv, Counting, Core
<1> QED
  BY <1>1, <1>2, <1>3 DEF ChunksFit, Fit, FitsSize

\* Spans lie in the text, for any text and any limits.
THEOREM SplitTypes == SplitSpec => []SplitTypeOK
  BY SplitInvariance, SplitIsSound, PTL

\* No strategy loses text, whatever the text, the limits and the tokenizer.
THEOREM SplitLosesNothing == SplitSpec => []Lossless
  BY SplitInvariance, SplitIsSound, PTL

\* Every chunk fits and there are never too many, whatever the tokenizer counts.
THEOREM SplitFits == SplitSpec => []ChunksFit
  BY SplitInvariance, SplitIsSound, PTL

-----------------------------------------------------------------------------
\* Progress

LEMMA WindowAdvances ==
  ASSUME SplitInv, FixedWindow \/ StructuredWindow \/ EndFound, phase' = "window"
  PROVE  position' > position
<1>1. CASE FixedWindow
  <2>1. Step \in Nat \ {0} /\ position \in Nat
    BY <1>1, TextIsSequence DEF FixedWindow, SplitInv, Core, Options, Step
  <2>2. position' = position + Step
    BY <1>1 DEF FixedWindow, Advance
  <2> QED
    BY <2>1, <2>2
<1>2. CASE StructuredWindow
  <2> DEFINE limit == Least(Size, position + options.size)
             e     == IF limit = Size THEN Size ELSE PreferredEnd(position, limit)
  <2>1. /\ options.size \in Nat \ {0} /\ options \in Options
        /\ position \in Nat /\ Size \in Nat /\ position < Size
    BY <1>2, TextIsSequence, LimitsAssumption
       DEF StructuredWindow, Splitting, SplitInv, Core, Options
  <2>2. limit \in Nat /\ position < limit
    BY <2>1 DEF Least
  <2>3. PreferredEnd(position, limit) \in position + 1 .. limit
    <3> HIDE DEF limit
    <3> QED
      BY <2>1, <2>2, PreferredEndIsInside
  <2>4. e \in Nat /\ position < e
    BY <2>1, <2>2, <2>3
  <2>5. position' = NextStart(position, e)
    BY <1>2 DEF StructuredWindow, Advance
  <2> HIDE DEF e
  <2>6. NextStart(position, e) \in position + 1 .. e
    BY <2>1, <2>4, NextStartIsInside
  <2> QED
    BY <2>1, <2>4, <2>5, <2>6
<1>3. CASE EndFound
  <2>1. position' = search.best /\ phase = "farthest" /\ search.best # position
    BY <1>3 DEF EndFound, Advance
  <2> QED
    BY <2>1, BestFits
<1> QED
  BY <1>1, <1>2, <1>3

LEMMA ProbeNarrows ==
  ASSUME SplitInv, ProbeEnd \/ ProbeOverlap
  PROVE  search'.high - search'.low < search.high - search.low
<1>1. Searching /\ Size \in Nat /\ search.low <= search.high
  BY TextIsSequence DEF ProbeEnd, ProbeOverlap, SplitInv, Core
<1>2. Middle \in Nat /\ search.low <= Middle /\ Middle <= search.high
  BY <1>1, MiddleIsInside
<1>3. \/ search' = [search EXCEPT !.best = Middle, !.low = Middle + 1]
      \/ search' = [search EXCEPT !.best = Middle, !.high = Middle - 1]
      \/ search' = [search EXCEPT !.low = Middle + 1]
      \/ search' = [search EXCEPT !.high = Middle - 1]
  BY DEF ProbeEnd, ProbeOverlap
<1>4. /\ search.low \in Int /\ search.high \in Int
      /\ search \in [low : 0 .. Size + 1, high : 0 .. Size, best : 0 .. Size, end : 0 .. Size]
  BY <1>1 DEF Searching
<1>5. \/ search'.low = Middle + 1 /\ search'.high = search.high
      \/ search'.low = search.low /\ search'.high = Middle - 1
  BY <1>3, <1>4
<1> QED
  BY <1>2, <1>4, <1>5

\* Every turn moves on in the text and every probe narrows its search.
Progress ==
  /\ phase = "window" /\ phase' = "window" => position' > position
  /\ phase = "overlap" /\ phase' = "window" => position' > position
  /\ phase = "farthest" /\ phase' = "window" => position' > position
  /\ phase = phase' /\ phase \in {"farthest", "overlap"} =>
       search'.high - search'.low < search.high - search.low

LEMMA SplitProgresses ==
  ASSUME SplitInv, Split
  PROVE  Progress
<1> USE DEF Progress
<1>1. CASE FixedWindow \/ StructuredWindow \/ EndFound
  BY <1>1, WindowAdvances DEF FixedWindow, StructuredWindow, EndFound, Advance
<1>2. CASE ProbeEnd \/ ProbeOverlap
  BY <1>2, ProbeNarrows DEF ProbeEnd, ProbeOverlap
<1>3. CASE OverlapFound
  <2>1. position < search.best /\ phase = "overlap" /\ phase' = "window"
    BY <1>3 DEF OverlapFound, SplitInv, Searching
  <2>2. position' = search.best /\ position \in Int /\ search.best \in Int
    BY <1>3, <2>1, TextIsSequence DEF OverlapFound, SplitInv, Core, Searching
  <2> QED
    BY <2>1, <2>2
<1>4. CASE Begin \/ TokenWindow \/ SearchOverlap
  BY <1>4 DEF Begin, TokenWindow, SearchOverlap, EndSplit
<1>5. CASE StructuredLimit \/ TokenLimit \/ Oversized
  BY <1>5 DEF StructuredLimit, TokenLimit, Oversized, EndSplit
<1> QED
  BY <1>1, <1>2, <1>3, <1>4, <1>5 DEF Split

\* Splitting ends: every turn moves on in the text and every probe narrows its
\* search, for any tokenizer and any headings.
THEOREM SplitAdvances == SplitSpec => AlwaysAdvances
<1>1. SplitInv /\ [Split]_splitVars => [Progress]_splitVars
  BY SplitProgresses
<1> QED
  BY <1>1, SplitInvariance, PTL DEF SplitSpec, AlwaysAdvances, Progress

-----------------------------------------------------------------------------
\* The estimate

\* Rounding up counts no window that is not needed.
LEMMA CeilingIsTight ==
  ASSUME NEW d \in Nat, NEW s \in Nat \ {0}, NEW k \in Nat, k <= (d + s - 1) \div s
  PROVE  (k - 1) * s < d
<1> DEFINE q == (d + s - 1) \div s
<1>1. q \in Nat /\ s * q <= d + s - 1
  OBVIOUS
<1> HIDE DEF q
<1>2. PICK j \in Nat : q = k + j
  <2>1. q - k \in Nat
    BY <1>1 DEF q
  <2> QED
    BY <1>1, <2>1
<1>3. s * q = k * s + j * s /\ j * s >= 0 /\ k * s \in Nat
  BY <1>2
<1>4. (k - 1) * s = k * s - s
  OBVIOUS
<1> QED
  BY <1>1, <1>3, <1>4

\* A fixed splitting is refused for the estimate alone.
Refused ==
  phase = "limit" /\ options.strategy = "characters" => ChunkCount(Step) > MaxChunks

LEMMA RefusedSteps == SplitInv /\ Refused /\ [Split]_splitVars => Refused'
<1> SUFFICES ASSUME SplitInv, Refused, [Split]_splitVars,
                    phase' = "limit", options'.strategy = "characters"
             PROVE  (ChunkCount(Step) > MaxChunks)'
  BY DEF Refused
<1>1. CASE UNCHANGED splitVars
  BY <1>1 DEF splitVars, Refused, ChunkCount, Step, Size
<1>2. CASE Begin
  BY <1>2 DEF Begin, EndSplit, ChunkCount, Step, Size, SplitInv, Core, Options
<1>3. CASE StructuredLimit \/ TokenLimit \/ Oversized
  BY <1>3 DEF StructuredLimit, TokenLimit, Oversized, EndSplit, Structured, SplitInv,
              Searching
<1>4. CASE \/ FixedWindow \/ StructuredWindow \/ EndFound \/ TokenWindow \/ ProbeEnd
           \/ SearchOverlap \/ ProbeOverlap \/ OverlapFound
  BY <1>4 DEF FixedWindow, StructuredWindow, EndFound, Advance, TokenWindow, ProbeEnd,
              SearchOverlap, ProbeOverlap, OverlapFound
<1> QED
  BY <1>1, <1>2, <1>3, <1>4 DEF Split

LEMMA RefusedIsExact == SplitInv /\ Refused => EstimateIsExact
<1> SUFFICES ASSUME SplitInv, Refused, options.strategy = "characters"
             PROVE  /\ phase = "limit" => Size > options.size + (MaxChunks - 1) * Step
                    /\ windows <= MaxChunks
  BY DEF EstimateIsExact
<1>1. /\ Size \in Nat /\ options.size \in Nat /\ Step \in Nat \ {0}
      /\ windows <= MaxChunks
  BY TextIsSequence DEF SplitInv, Core, Counting, Options, Step
<1>2. ASSUME phase = "limit" PROVE Size > options.size + (MaxChunks - 1) * Step
  <2> DEFINE d == Size - options.size
  <2>1. ChunkCount(Step) > MaxChunks
    BY <1>2 DEF Refused
  <2>2. Size > options.size
    BY <1>1, <2>1, LimitsAssumption DEF ChunkCount
  <2>3. ChunkCount(Step) = 1 + (d + Step - 1) \div Step
    BY <1>1, <2>2 DEF ChunkCount
  <2>4. d \in Nat /\ (d + Step - 1) \div Step \in Int
    BY <1>1, <2>2
  <2>5. MaxChunks \in Nat /\ MaxChunks <= (d + Step - 1) \div Step
    BY <2>1, <2>3, <2>4, LimitsAssumption
  <2>6. (MaxChunks - 1) * Step < d
    <3> HIDE DEF d
    <3> QED
      BY <1>1, <2>4, <2>5, CeilingIsTight
  <2>7. (MaxChunks - 1) * Step \in Int
    BY <1>1, <2>5
  <2> QED
    BY <1>1, <2>6, <2>7
<1> QED
  BY <1>1, <1>2

\* The estimate refuses a text exactly when it would take too many windows.
THEOREM SplitEstimateIsExact == SplitSpec => []EstimateIsExact
<1>1. SplitInit => Refused
  BY DEF SplitInit, Refused
<1> QED
  BY <1>1, RefusedSteps, RefusedIsExact, SplitInvariance, PTL DEF SplitSpec
-----------------------------------------------------------------------------
\* The overlap

\* An excerpt that fits the overlap still fits when it is cut at its beginning:
\* not every tokenizer is like that.
Gentle ==
  options.strategy = "tokens" =>
    \A s, r, e \in 0 .. Size :
      s <= r /\ r <= e /\ Tokens(s, e) <= options.overlap => Tokens(r, e) <= options.overlap

\* A chunk that ends at e and one that begins at p share no more than allowed.
Shares(p, e) ==
  p < e =>
    /\ IF options.strategy = "tokens" THEN Tokens(p, e) <= options.overlap
       ELSE e - p <= options.overlap
    /\ ~ \E h \in SectionStarts : p <= h /\ h < e

\* Where a window that begins at p ends, unless it is measured in tokens.
WindowEnd(p) ==
  LET limit == Least(Size, p + options.size)
  IN  IF limit = Size \/ options.strategy = "characters" THEN limit ELSE PreferredEnd(p, limit)

Latest == chunks[Len(chunks)]

\* The latest chunk began before p and may be followed by one that begins there.
Behind(p) == Latest.start < p /\ Shares(p, Latest.end)

\* The windows in between may have been blank: what was shared only shrinks.
Overlapped ==
  /\ OverlapIsBounded
  /\ chunks # <<>> /\ phase \in {"window", "farthest"} => Behind(position)
  /\ chunks # <<>> /\ phase = "window" /\ options.strategy # "tokens" =>
       Latest.end <= WindowEnd(position)
  /\ phase = "overlap" =>
       /\ Shares(search.best, search.end)
       /\ chunks # <<>> =>
            \/ Latest.start = position /\ Latest.end = search.end
            \/ Behind(position)

OverlapInv == Gentle => Overlapped

\* Paragraph breaks count line breaks back to the last text, wherever the window
\* begins before it.
LEMMA ParagraphsAgree ==
  ASSUME NEW s \in Nat, NEW p \in Nat, s <= p, NEW x \in Nat, ~Blank(p, x)
  PROVE  {b \in s .. x - 2 : text[b + 1] = "line" /\ Blank(b, x)}
           = {b \in p .. x - 2 : text[b + 1] = "line" /\ Blank(b, x)}
<1>1. ASSUME NEW b \in s .. x - 2, Blank(b, x)
      PROVE  b \in p .. x - 2
  <2>1. CASE p <= b
    BY <2>1
  <2>2. CASE b < p
    BY <1>1, <2>2 DEF Blank
  <2> QED
    BY <2>1, <2>2
<1>2. \A b \in p .. x - 2 : b \in s .. x - 2
  OBVIOUS
<1> QED
  BY <1>1, <1>2

\* A separator that a later and longer window finds before l, window (s, l) has.
LEMMA FoundBefore ==
  ASSUME NEW s \in Nat, NEW l \in Nat, NEW p \in Nat, NEW m \in Nat, s <= p, l <= m,
         NEW i \in 1 .. 4, NEW x \in UsableEnds(i, p, m), x < l
  PROVE  x \in UsableEnds(i, s, l)
<1>1. x \in Separators(i, p, m) /\ ~Blank(p, x) /\ Separators(i, p, m) \subseteq p + 1 .. m
  BY SeparatorsAreInside DEF UsableEnds
<1>2. x \in Nat /\ p < x /\ x <= m
  BY <1>1
<1>3. x \in s + 1 .. l /\ x < m /\ ~Blank(s, x)
  BY <1>1, <1>2 DEF Blank
<1>4. ASSUME x \in SentenceEnds(p, m) PROVE x \in SentenceEnds(s, l)
  BY <1>2, <1>3, <1>4 DEF SentenceEnds
<1>5. ASSUME x \in ParagraphEnds(p, m) PROVE x \in ParagraphEnds(s, l)
  <2> DEFINE before == {b \in s .. x - 2 : text[b + 1] = "line" /\ Blank(b, x)}
             above  == {b \in p .. x - 2 : text[b + 1] = "line" /\ Blank(b, x)}
  <2>1. x \in p + 2 .. m /\ text[x] = "line" /\ Cardinality(above) % 2 = 1
    BY <1>5 DEF ParagraphEnds
  <2>2. before = above
    BY <1>1, <1>2, ParagraphsAgree
  <2>3. x \in s + 2 .. l
    BY <1>2, <1>3, <2>1
  <2>4. Cardinality(before) % 2 = 1
    <3> HIDE DEF before, above
    <3> QED
      BY <2>1, <2>2
  <2> QED
    BY <2>1, <2>3, <2>4 DEF ParagraphEnds
<1>6. ASSUME x \in LineEnds(p, m) PROVE x \in LineEnds(s, l)
  BY <1>2, <1>3, <1>6 DEF LineEnds
<1>7. ASSUME x \in SpaceEnds(p, m) PROVE x \in SpaceEnds(s, l)
  BY <1>2, <1>3, <1>7 DEF SpaceEnds
<1>8. i = 1 \/ i = 2 \/ i = 3 \/ i = 4
  OBVIOUS
<1>9. x \in Separators(i, s, l)
  BY <1>1, <1>4, <1>5, <1>6, <1>7, <1>8 DEF Separators
<1> QED
  BY <1>3, <1>9 DEF UsableEnds

\* A run of characters of one sort that begins at x goes on up to an end.
LEMMA RunEnds ==
  ASSUME NEW x \in Nat, NEW m \in Nat, x <= m, NEW sort, text[x] \in sort
  PROVE  \E y \in x .. m : /\ \A o \in x .. y : text[o] \in sort
                           /\ y = m \/ text[y + 1] \notin sort
<1> DEFINE run == {y \in x .. m : \A o \in x .. y : text[o] \in sort}
<1>1. x \in run
  <2>1. \A o \in x .. x : o = x
    OBVIOUS
  <2> QED
    BY <2>1
<1>2. run \in SUBSET (0 .. m)
  OBVIOUS
<1>3. PICK y \in run : \A z \in run : z <= y
  <2> HIDE DEF run
  <2> QED
    BY <1>1, <1>2, LastExists
<1>4. y \in x .. m /\ \A o \in x .. y : text[o] \in sort
  BY <1>3
<1>5. ASSUME y # m, text[y + 1] \in sort PROVE FALSE
  <2>1. y + 1 \in x .. m /\ ~(y + 1 <= y)
    BY <1>4, <1>5
  <2>2. \A o \in x .. y + 1 : o \in x .. y \/ o = y + 1
    BY <1>4
  <2>3. y + 1 \in run
    BY <1>4, <1>5, <2>1, <2>2
  <2> QED
    BY <1>3, <2>1, <2>3
<1> QED
  BY <1>4, <1>5

\* A separator of window (s, l) is one of a later and longer window, or is cut
\* by l in a run of blanks that goes on, unless only blanks are left before it.
LEMMA FoundAgain ==
  ASSUME NEW s \in Nat, NEW l \in Nat, NEW p \in Nat, NEW m \in Nat, s <= p, l <= m,
         NEW i \in 1 .. 4, NEW x \in Separators(i, s, l), ~Blank(p, x)
  PROVE  \E y \in UsableEnds(i, p, m) : x <= y
<1>1. x \in s + 1 .. l
  BY SeparatorsAreInside
<1>2. x \in Nat /\ s < x /\ x <= l /\ p < x /\ x <= m
  <2>1. x \in Nat /\ s < x /\ x <= l
    BY <1>1
  <2> QED
    BY <2>1 DEF Blank
<1>3. ASSUME NEW y \in Nat, x <= y, y <= m
      PROVE  ~Blank(p, y)
  BY <1>2, <1>3 DEF Blank
<1>4. ASSUME x \in SentenceEnds(s, l)
      PROVE  \E y \in SentenceEnds(p, m) : x <= y /\ y <= m /\ y \in Nat
  <2>1. PICK b \in s .. x - 2 : /\ text[b + 1] \in {"stop", "query"} /\ ~Abbreviation(b)
                                /\ Blank(b + 1, x)
    BY <1>4 DEF SentenceEnds
  <2>2. b \in Nat /\ p <= b /\ b <= x - 2
    BY <1>2, <2>1 DEF Blank
  <2>3. text[x] \in {"space", "line"}
    <3>1. x - 1 \in b + 1 .. x - 1 /\ (x - 1) + 1 = x
      BY <1>2, <2>2
    <3> QED
      BY <2>1, <3>1 DEF Blank, IsBlank
  <2>4. PICK y \in x .. m : /\ \A o \in x .. y : text[o] \in {"space", "line"}
                            /\ y = m \/ text[y + 1] \notin {"space", "line"}
    BY <1>2, <2>3, RunEnds
  <2>5. Blank(b + 1, y)
    <3>1. ASSUME NEW o \in b + 1 .. y - 1 PROVE IsBlank(o)
      <4>1. CASE o < x
        BY <1>2, <2>1, <2>2, <4>1 DEF Blank
      <4>2. CASE x <= o
        <5>1. o + 1 \in x .. y
          BY <1>2, <2>2, <4>2
        <5> QED
          BY <2>4, <5>1 DEF IsBlank
      <4> QED
        BY <1>2, <2>2, <4>1, <4>2
    <3> QED
      BY <3>1 DEF Blank
  <2>6. y \in p + 2 .. m /\ b \in p .. y - 2 /\ y \in Nat /\ x <= y
    BY <1>2, <2>2, <2>4
  <2>7. y = m \/ ~IsBlank(y)
    BY <2>4 DEF IsBlank
  <2> QED
    BY <2>1, <2>5, <2>6, <2>7 DEF SentenceEnds
<1>5. ASSUME x \in ParagraphEnds(s, l)
      PROVE  x \in ParagraphEnds(p, m)
  <2> DEFINE above == {b \in p .. x - 2 : text[b + 1] = "line" /\ Blank(b, x)}
  <2>1. text[x] = "line" /\ Cardinality(above) % 2 = 1
    <3> DEFINE before == {b \in s .. x - 2 : text[b + 1] = "line" /\ Blank(b, x)}
    <3>1. text[x] = "line" /\ Cardinality(before) % 2 = 1
      BY <1>5 DEF ParagraphEnds
    <3>2. before = above
      BY <1>2, ParagraphsAgree
    <3> HIDE DEF before, above
    <3> QED
      BY <3>1, <3>2
  <2>2. above # {}
    <3>1. Cardinality({}) = 0
      BY FS_EmptySet
    <3> QED
      BY <2>1, <3>1
  <2>3. x \in p + 2 .. m
    BY <1>2, <2>2
  <2> QED
    BY <2>1, <2>3 DEF ParagraphEnds
<1>6. ASSUME x \in LineEnds(s, l)
      PROVE  x \in LineEnds(p, m)
  BY <1>2, <1>6 DEF LineEnds
<1>7. ASSUME x \in SpaceEnds(s, l)
      PROVE  \E y \in SpaceEnds(p, m) : x <= y /\ y <= m /\ y \in Nat
  <2>1. text[x] \in {"space"}
    BY <1>7 DEF SpaceEnds
  <2>2. PICK y \in x .. m : /\ \A o \in x .. y : text[o] \in {"space"}
                            /\ y = m \/ text[y + 1] \notin {"space"}
    BY <1>2, <2>1, RunEnds
  <2>3. y \in p + 1 .. m /\ y \in Nat /\ x <= y /\ y \in x .. y
    BY <1>2, <2>2
  <2> QED
    BY <2>2, <2>3 DEF SpaceEnds
<1>8. i = 1 \/ i = 2 \/ i = 3 \/ i = 4
  OBVIOUS
<1>9. \E y \in Separators(i, p, m) : x <= y /\ y <= m /\ y \in Nat
  <2>1. x <= x /\ x <= m /\ x \in Nat
    BY <1>2
  <2> QED
    BY <1>4, <1>5, <1>6, <1>7, <1>8, <2>1 DEF Separators
<1> QED
  BY <1>3, <1>9 DEF UsableEnds

\* A window that begins in the overlap of another ends no earlier.
LEMMA PreferredEndsGrow ==
  ASSUME text \in Seq(Kinds), options \in Options,
         NEW s \in Nat, NEW l \in Nat, NEW e \in Nat, NEW p \in Nat, NEW m \in Nat,
         s < p, p < e, e <= l, l <= m, p < m, s < l,
         PreferredEnd(s, l) = e, NextStart(s, e) = p
  PROVE  e <= PreferredEnd(p, m)
<1> DEFINE above == {h \in SectionStarts : h <= l}
           fits  == {i \in 1 .. 4 : UsableEnds(i, s, l) # {}}
           next  == {h \in SectionStarts : h <= m}
           finds == {i \in 1 .. 4 : UsableEnds(i, p, m) # {}}
           floor == Greatest(s + 1, e - options.overlap)
<1>1. /\ e \notin SectionStarts
      /\ ~ \E h \in SectionStarts : floor <= h /\ h < e
      /\ floor <= p
  <2> DEFINE starts == {i \in 1 .. 4 : OverlapStarts(i, floor, e) # {}}
  <2>1. /\ options.overlap # 0 /\ e \notin SectionStarts /\ starts # {}
        /\ ~ \E h \in SectionStarts : floor <= h /\ h < e
        /\ p = FirstOf(OverlapStarts(FirstOf(starts), floor, e))
    BY DEF NextStart
  <2>2. floor \in Nat
    BY DEF Greatest, Options
  <2>3. FirstOf(starts) \in starts
    <3>1. starts \in SUBSET (0 .. 4)
      OBVIOUS
    <3> HIDE DEF starts
    <3> QED
      BY <2>1, <3>1, FirstOfIsFirst
  <2> HIDE DEF floor
  <2>4. /\ FirstOf(starts) \in 1 .. 4
        /\ OverlapStarts(FirstOf(starts), floor, e) # {}
    BY <2>3
  <2> DEFINE k == FirstOf(starts)
  <2> HIDE DEF k
  <2>5. k \in 1 .. 4 /\ OverlapStarts(k, floor, e) # {} /\ p = FirstOf(OverlapStarts(k, floor, e))
    BY <2>1, <2>4 DEF k
  <2>6. OverlapStarts(k, floor, e) \subseteq floor + 1 .. e
    BY <2>2, <2>5, SeparatorsAreInside DEF OverlapStarts
  <2>7. OverlapStarts(k, floor, e) \in SUBSET (0 .. e)
    BY <2>2, <2>6
  <2>8. p \in OverlapStarts(k, floor, e)
    BY <2>5, <2>7, FirstOfIsFirst
  <2>9. floor <= p
    BY <2>2, <2>6, <2>8
  <2> QED
    BY <2>1, <2>9
<1>3. CASE next # {} /\ LastOf(next) > p /\ ~Blank(p, LastOf(next))
  <2>1. SectionStarts \subseteq Nat
    BY DEF SectionStarts, Headings
  <2>2. LastOf(next) \in next
    <3>1. \A h \in Nat : h <= m => h \in 0 .. m
      OBVIOUS
    <3>2. next \in SUBSET (0 .. m)
      BY <2>1, <3>1
    <3> HIDE DEF next
    <3> QED
      BY <1>3, <3>2, LastOfIsLast
  <2>3. PreferredEnd(p, m) = LastOf(next)
    BY <1>3 DEF PreferredEnd
  <2> DEFINE h == LastOf(next)
  <2> HIDE DEF h
  <2>4. h \in SectionStarts /\ h > p /\ h \in Nat
    BY <1>3, <2>1, <2>2 DEF h
  <2>5. floor <= h
    <3>1. floor \in Int
      BY DEF Greatest, Options
    <3> HIDE DEF floor
    <3> QED
      BY <1>1, <2>4, <3>1
  <2>6. ~(h < e)
    BY <1>1, <2>4, <2>5
  <2> QED
    BY <2>3, <2>4, <2>6 DEF h
<1>4. CASE ~(next # {} /\ LastOf(next) > p /\ ~Blank(p, LastOf(next))) /\ finds = {}
  <2>1. PreferredEnd(p, m) = m
    BY <1>4 DEF PreferredEnd
  <2> QED
    BY <2>1
<1>5. CASE ~(next # {} /\ LastOf(next) > p /\ ~Blank(p, LastOf(next))) /\ finds # {}
  <2> DEFINE k == FirstOf(finds)
             x == LastOf(UsableEnds(k, p, m))
  <2>1. PreferredEnd(p, m) = x
    BY <1>5 DEF PreferredEnd
  <2>2. k \in finds /\ \A i \in finds : k <= i
    <3>1. finds \in SUBSET (0 .. 4)
      OBVIOUS
    <3> HIDE DEF finds
    <3> QED
      BY <1>5, <3>1, FirstOfIsFirst
  <2> HIDE DEF k
  <2>3. k \in 1 .. 4 /\ UsableEnds(k, p, m) # {}
    BY <2>2
  <2>4. /\ x \in UsableEnds(k, p, m) /\ \A y \in UsableEnds(k, p, m) : y <= x
        /\ x \in p + 1 .. m
    <3>1. UsableEnds(k, p, m) \subseteq p + 1 .. m
      BY <2>3, SeparatorsAreInside DEF UsableEnds
    <3>2. UsableEnds(k, p, m) \in SUBSET (0 .. m)
      BY <3>1
    <3> QED
      BY <2>3, <3>1, <3>2, LastOfIsLast
  <2> HIDE DEF x
  <2>5. ASSUME x < e PROVE FALSE
    <3>1. x \in UsableEnds(k, s, l)
      BY <2>3, <2>4, <2>5, FoundBefore
    <3>2. k \in fits
      BY <2>3, <3>1
    <3>3. ~Blank(p, e)
      <4>1. ~Blank(p, x)
        BY <2>4 DEF UsableEnds
      <4> QED
        BY <2>4, <2>5, <4>1 DEF Blank
    <3>4. ~(above # {} /\ LastOf(above) > s /\ ~Blank(s, LastOf(above)))
      <4>1. SUFFICES ASSUME above # {}, LastOf(above) > s, ~Blank(s, LastOf(above))
                     PROVE  FALSE
        OBVIOUS
      <4>2. e = LastOf(above)
        BY <4>1 DEF PreferredEnd
      <4>3. \A h \in Nat : h <= l => h \in 0 .. l
        OBVIOUS
      <4>4. above \in SUBSET (0 .. l)
        BY <4>3 DEF SectionStarts, Headings
      <4>5. LastOf(above) \in above
        <5> HIDE DEF above
        <5> QED
          BY <4>1, <4>4, LastOfIsLast
      <4> QED
        BY <1>1, <4>2, <4>5
    <3> DEFINE i == FirstOf(fits)
    <3>5. e = LastOf(UsableEnds(i, s, l))
      BY <3>2, <3>4 DEF PreferredEnd
    <3>6. i \in fits
      <4>1. fits \in SUBSET (0 .. 4) /\ fits # {}
        BY <3>2
      <4> HIDE DEF fits
      <4> QED
        BY <4>1, FirstOfIsFirst
    <3>7. i \in 1 .. 4 /\ UsableEnds(i, s, l) # {} /\ i <= k
      <4>1. \A j \in fits : i <= j
        <5>1. fits \in SUBSET (0 .. 4) /\ fits # {}
          BY <3>2
        <5> HIDE DEF fits
        <5> QED
          BY <5>1, FirstOfIsFirst
      <4> HIDE DEF i
      <4> QED
        BY <3>2, <3>6, <4>1
    <3> HIDE DEF i
    <3>8. e \in UsableEnds(i, s, l)
      <4>1. UsableEnds(i, s, l) \subseteq s + 1 .. l
        BY <3>7, SeparatorsAreInside DEF UsableEnds
      <4>2. UsableEnds(i, s, l) \in SUBSET (0 .. l)
        BY <4>1
      <4> QED
        BY <3>5, <3>7, <4>2, LastOfIsLast
    <3>9. PICK y \in UsableEnds(i, p, m) : e <= y
      <4>1. e \in Separators(i, s, l)
        BY <3>8 DEF UsableEnds
      <4> QED
        BY <3>3, <3>7, <4>1, FoundAgain
    <3>10. i \in finds
      BY <3>7, <3>9
    <3>11. i = k
      BY <2>2, <2>3, <3>7, <3>10
    <3>12. y <= x /\ y \in Nat
      <4>1. UsableEnds(i, p, m) \subseteq p + 1 .. m
        BY <3>7, SeparatorsAreInside DEF UsableEnds
      <4> QED
        BY <2>4, <3>9, <3>11, <4>1
    <3> QED
      BY <2>4, <2>5, <3>9, <3>12
  <2> QED
    BY <2>1, <2>4, <2>5
<1> QED
  BY <1>3, <1>4, <1>5

LEMMA EndsGrow ==
  ASSUME text \in Seq(Kinds), options \in Options, options.strategy \in Structured,
         NEW s \in Nat, s < Size, NEW e, e = WindowEnd(s), e # Size
  PROVE  e <= WindowEnd(NextStart(s, e))
<1>1. /\ Size \in Nat /\ options.size \in Nat \ {0} /\ options.strategy # "characters"
  BY TextIsSequence DEF Options, Structured
<1>2. PICK l \in Nat : l = Least(Size, s + options.size) /\ s < l /\ l <= Size
                       /\ (l = Size \/ l = s + options.size)
  BY <1>1 DEF Least
<1>3. e = PreferredEnd(s, l) /\ l # Size
  BY <1>1, <1>2 DEF WindowEnd
<1>4. e \in s + 1 .. l
  BY <1>2, <1>3, PreferredEndIsInside
<1>5. e \in Nat /\ s < e /\ e <= l
  BY <1>2, <1>4
<1>6. PICK p \in Nat : p = NextStart(s, e) /\ s < p /\ p <= e
  <2>1. NextStart(s, e) \in s + 1 .. e
    BY <1>5, NextStartIsInside
  <2> QED
    BY <1>5, <2>1
<1>7. PICK m \in Nat : m = Least(Size, p + options.size) /\ p < m /\ l <= m /\ m <= Size
  BY <1>1, <1>2, <1>3, <1>5, <1>6 DEF Least
<1>8. WindowEnd(p) = IF m = Size THEN m ELSE PreferredEnd(p, m)
  BY <1>1, <1>7 DEF WindowEnd
<1>9. PreferredEnd(p, m) \in p + 1 .. m
  BY <1>7, PreferredEndIsInside
<1>10. CASE p < e
  <2>1. e <= PreferredEnd(p, m)
    BY <1>2, <1>3, <1>5, <1>6, <1>7, <1>10, PreferredEndsGrow
  <2> QED
    BY <1>5, <1>6, <1>7, <1>8, <2>1
<1>11. CASE p = e
  BY <1>5, <1>6, <1>7, <1>8, <1>9, <1>11
<1> QED
  BY <1>5, <1>6, <1>10, <1>11

\* What a window may share with the next: never more than was asked for.
LEMMA NextStartShares ==
  ASSUME options \in Options, NEW s \in Nat, NEW e \in Nat, s < e,
         options.strategy # "tokens"
  PROVE  Shares(NextStart(s, e), e)
<1> DEFINE floor  == Greatest(s + 1, e - options.overlap)
           starts == {i \in 1 .. 4 : OverlapStarts(i, floor, e) # {}}
           p      == NextStart(s, e)
<1>1. floor \in Nat /\ e - options.overlap <= floor /\ options.overlap \in Nat
  BY DEF Greatest, Options
<1>2. CASE p = e
  BY <1>2 DEF Shares
<1>3. CASE p # e
  <2>1. /\ ~ \E h \in SectionStarts : floor <= h /\ h < e
        /\ starts # {} /\ p = FirstOf(OverlapStarts(FirstOf(starts), floor, e))
    BY <1>3 DEF NextStart
  <2>2. FirstOf(starts) \in starts
    <3>1. starts \in SUBSET (0 .. 4)
      OBVIOUS
    <3> HIDE DEF starts
    <3> QED
      BY <2>1, <3>1, FirstOfIsFirst
  <2> DEFINE k == FirstOf(starts)
  <2> HIDE DEF floor
  <2>3. k \in 1 .. 4 /\ OverlapStarts(k, floor, e) # {} /\ p = FirstOf(OverlapStarts(k, floor, e))
    BY <2>1, <2>2
  <2> HIDE DEF k, p
  <2>4. OverlapStarts(k, floor, e) \subseteq floor + 1 .. e
    BY <1>1, <2>3, SeparatorsAreInside DEF OverlapStarts
  <2>5. OverlapStarts(k, floor, e) \in SUBSET (0 .. e)
    BY <1>1, <2>4
  <2>6. p \in OverlapStarts(k, floor, e)
    BY <2>3, <2>5, FirstOfIsFirst
  <2>7. p \in Nat /\ floor <= p /\ e - p <= options.overlap
    BY <1>1, <2>4, <2>6
  <2>8. ~ \E h \in SectionStarts : p <= h /\ h < e
    <3>1. \A h \in SectionStarts : h \in Nat
      BY DEF SectionStarts, Headings
    <3>2. ~ \E h \in SectionStarts : floor <= h /\ h < e
      BY <2>1
    <3>3. \A h \in Nat : p <= h => floor <= h
      BY <1>1, <2>7
    <3> QED
      BY <3>1, <3>2, <3>3
  <2>9. Shares(p, e)
    BY <2>7, <2>8 DEF Shares
  <2> QED
    BY <2>9 DEF p
<1> QED
  BY <1>2, <1>3

\* What may be shared only shrinks when the next window begins later.
LEMMA SharesLess ==
  ASSUME Gentle, options \in Options, NEW p \in 0 .. Size, NEW r \in 0 .. Size, NEW e \in 0 .. Size,
         p <= r, Shares(p, e), Size \in Nat
  PROVE  Shares(r, e)
<1> SUFFICES ASSUME r < e PROVE Shares(r, e)
  BY DEF Shares
<1>1. options.overlap \in Nat
  BY DEF Options
<1>2. p < e
  OBVIOUS
<1>3. ~ \E h \in SectionStarts : r <= h /\ h < e
  <2>1. \A h \in SectionStarts : h \in Nat
    BY DEF SectionStarts, Headings
  <2> QED
    BY <1>2, <2>1 DEF Shares
<1>4. CASE options.strategy = "tokens"
  <2>1. Tokens(r, e) <= options.overlap
    BY <1>2, <1>4 DEF Gentle, Shares
  <2> QED
    BY <1>3, <1>4, <2>1 DEF Shares
<1>5. CASE options.strategy # "tokens"
  BY <1>1, <1>2, <1>3, <1>5 DEF Shares
<1> QED
  BY <1>4, <1>5

\* What a chunk leaves open to the next is a matter of the text and the options.
LEMMA SharesIsStable ==
  ASSUME UNCHANGED <<text, options>>
  PROVE  /\ Size' = Size /\ SectionStarts' = SectionStarts /\ Gentle' = Gentle
         /\ \A p, e : Shares(p, e)' = Shares(p, e)
         /\ \A p : WindowEnd(p)' = WindowEnd(p)
         /\ \A s, e : Blank(s, e)' = Blank(s, e)
<1>1. Size' = Size /\ \A s, e : Blank(s, e)' = Blank(s, e)
  BY DEF Size, Blank, IsBlank
<1>2. SectionStarts' = SectionStarts
  BY DEF SectionStarts, Headings, Size
<1>3. Gentle' = Gentle
  BY <1>1 DEF Gentle, Tokens
<1>4. \A p, e : Shares(p, e)' = Shares(p, e)
  BY <1>2 DEF Shares, Tokens
<1>5. \A p : WindowEnd(p)' = WindowEnd(p)
  BY <1>1, <1>2 DEF WindowEnd, PreferredEnd, UsableEnds, Separators, SentenceEnds, ParagraphEnds,
                    LineEnds, SpaceEnds, Abbreviation, Blank, IsBlank
<1> QED
  BY <1>1, <1>2, <1>3, <1>4, <1>5

\* A window behind the latest chunk keeps the overlap bounded, blank or not.
LEMMA EmittedKeepsOverlap ==
  ASSUME OverlapIsBounded, chunks \in Seq(Spans), options \in Options, UNCHANGED <<text, options>>,
         NEW s \in Nat, NEW e \in Nat, s < e, e <= Size, Size \in Nat,
         chunks # <<>> => Behind(s),
         chunks # <<>> /\ options.strategy # "tokens" => Latest.end <= e,
         chunks' = Emitted(s, e)
  PROVE  /\ OverlapIsBounded'
         /\ \/ Blank(s, e) /\ chunks' = chunks
            \/ chunks' # <<>> /\ Latest'.start = s /\ Latest'.end = e
<1>1. \A c, d : /\ (SharesAtMost(c, d))' <=> c.start < d.start /\ Shares(d.start, c.end)
                /\ SharesAtMost(c, d) <=> c.start < d.start /\ Shares(d.start, c.end)
  <2>1. SectionStarts' = SectionStarts
    BY SharesIsStable
  <2> QED
    BY <2>1 DEF SharesAtMost, Shares, Tokens
<1>2. CASE Blank(s, e)
  <2>1. chunks' = chunks
    BY <1>2 DEF Emitted
  <2>2. OverlapIsBounded'
    BY <1>1, <2>1 DEF OverlapIsBounded
  <2> QED
    BY <1>2, <2>1, <2>2
<1>3. CASE ~Blank(s, e)
  <2> DEFINE span == [start |-> s, end |-> e]
             n    == Len(chunks)
  <2>1. chunks' = Append(chunks, span) /\ span \in Spans /\ span.start = s /\ span.end = e
    BY <1>3 DEF Emitted, Spans
  <2> HIDE DEF span
  <2>2. /\ Len(chunks') = n + 1 /\ n \in Nat /\ chunks'[n + 1] = span /\ chunks' # <<>>
        /\ \A i \in 1 .. n : chunks'[i] = chunks[i]
    BY <2>1
  <2>3. Latest' = span
    BY <2>2 DEF Latest
  <2>4. ASSUME NEW i \in 1 .. Len(chunks') - 1
        PROVE  /\ (SharesAtMost(chunks[i], chunks[i + 1]))'
               /\ options'.strategy # "tokens" => chunks'[i].end <= chunks'[i + 1].end
    <3>1. CASE i < n
      <4>1. i \in 1 .. n - 1 /\ chunks'[i] = chunks[i] /\ chunks'[i + 1] = chunks[i + 1]
        BY <2>2, <3>1
      <4>2. /\ SharesAtMost(chunks[i], chunks[i + 1])
            /\ options.strategy # "tokens" => chunks[i].end <= chunks[i + 1].end
        BY <4>1 DEF OverlapIsBounded
      <4> HIDE DEF n
      <4> QED
        BY <1>1, <4>1, <4>2
    <3>2. CASE i = n
      <4>1. chunks # <<>> /\ chunks'[i] = Latest /\ chunks'[i + 1] = span
        BY <2>2, <3>2 DEF Latest
      <4>2. Latest.start < s /\ Shares(s, Latest.end)
        BY <4>1 DEF Behind
      <4> HIDE DEF n
      <4> QED
        BY <1>1, <2>1, <4>1, <4>2
    <3> QED
      BY <2>2, <3>1, <3>2
  <2>5. OverlapIsBounded'
    BY <2>4 DEF OverlapIsBounded
  <2> QED
    BY <2>1, <2>2, <2>3, <2>5
<1> QED
  BY <1>2, <1>3

\* The end of a window: the next one is behind its chunk, or behind the latest
\* when the window was blank.
LEMMA AdvanceKeepsOverlap ==
  ASSUME SplitInv, Gentle, Overlapped, phase \in {"window", "farthest"},
         NEW e \in Nat, NEW next \in Nat, position < e, e <= Size, Advance(e, next),
         options.strategy # "tokens" => phase = "window" /\ e = WindowEnd(position),
         e # Size => /\ position < next /\ next <= e /\ Shares(next, e)
                     /\ options.strategy # "tokens" => e <= WindowEnd(next)
  PROVE  Overlapped'
<1>1. /\ chunks \in Seq(Spans) /\ options \in Options /\ Size \in Nat /\ position \in Nat
  BY TextIsSequence DEF SplitInv, Core
<1>2. /\ UNCHANGED <<text, options>> /\ chunks' = Emitted(position, e)
      /\ \/ phase' = "window" /\ position' = next /\ e # Size
         \/ phase' \in {"done", "fruitless"}
  BY DEF Advance
<1>3. /\ chunks # <<>> => Behind(position)
      /\ chunks # <<>> /\ options.strategy # "tokens" => Latest.end <= e
  BY DEF Overlapped
<1>4. /\ OverlapIsBounded'
      /\ \/ Blank(position, e) /\ chunks' = chunks
         \/ chunks' # <<>> /\ Latest'.start = position /\ Latest'.end = e
  BY <1>1, <1>2, <1>3, EmittedKeepsOverlap DEF Overlapped
<1>5. CASE phase' \in {"done", "fruitless"}
  BY <1>4, <1>5 DEF Overlapped
<1>6. CASE phase' = "window" /\ position' = next /\ e # Size
  <2>1. /\ \A p, x : Shares(p, x)' = Shares(p, x)
        /\ \A p : WindowEnd(p)' = WindowEnd(p)
    BY <1>2, SharesIsStable
  <2>2. ASSUME chunks' # <<>>
        PROVE  /\ Latest'.start < next /\ Shares(next, Latest'.end)
               /\ options.strategy # "tokens" => Latest'.end <= WindowEnd(next)
    <3>1. CASE chunks' # <<>> /\ Latest'.start = position /\ Latest'.end = e
      BY <1>6, <3>1
    <3>2. CASE chunks' = chunks
      <4>1. Latest' = Latest /\ chunks # <<>>
        BY <2>2, <3>2 DEF Latest
      <4>2. /\ Latest.start < position /\ Shares(position, Latest.end)
            /\ options.strategy # "tokens" => Latest.end <= e
        BY <1>3, <4>1 DEF Behind
      <4>3. Latest \in Spans
        BY <1>1, <4>1 DEF Latest
      <4>4. Latest.start \in 0 .. Size /\ Latest.end \in 0 .. Size
        BY <4>3 DEF Spans
      <4>5. position \in 0 .. Size /\ next \in 0 .. Size /\ position <= next
        BY <1>1, <1>6
      <4> DEFINE x == Latest.end
      <4> HIDE DEF x
      <4>6. x \in 0 .. Size /\ Shares(position, x)
        BY <4>2, <4>4 DEF x
      <4>7. Shares(next, x)
        BY <1>1, <4>5, <4>6, SharesLess
      <4>8. Latest.start < next
        BY <1>1, <1>6, <4>2, <4>4
      <4>9. options.strategy # "tokens" => Latest.end <= WindowEnd(next)
        <5> SUFFICES ASSUME options.strategy # "tokens" PROVE Latest.end <= WindowEnd(next)
          OBVIOUS
        <5>1. e <= WindowEnd(next) /\ Latest.end <= e
          BY <1>6, <4>2
        <5>2. WindowEnd(next) \in Int
          <6>1. WindowEnd(next) \in next + 1 .. Size \/ WindowEnd(next) = Size
            <7>1. options.size \in Nat \ {0}
              BY <1>1 DEF Options
            <7>2. PICK l \in Nat : l = Least(Size, next + options.size) /\ l <= Size
                                   /\ (next < Size => next < l)
              BY <1>1, <7>1 DEF Least
            <7>3. next < Size => PreferredEnd(next, l) \in next + 1 .. l
              BY <7>2, PreferredEndIsInside
            <7>4. next < Size
              BY <1>1, <1>6
            <7> QED
              BY <1>1, <7>2, <7>3, <7>4 DEF WindowEnd
          <6> QED
            BY <1>1, <6>1
        <5> QED
          BY <4>4, <5>1, <5>2
      <4> QED
        BY <4>1, <4>7, <4>8, <4>9 DEF x
    <3> QED
      BY <1>4, <2>2, <3>1, <3>2
  <2>3. chunks' # <<>> => Behind(position)'
    BY <1>6, <2>1, <2>2 DEF Behind
  <2>4. chunks' # <<>> /\ options'.strategy # "tokens" => Latest'.end <= WindowEnd(position)'
    BY <1>2, <1>6, <2>1, <2>2
  <2> QED
    BY <1>4, <1>6, <2>3, <2>4 DEF Overlapped
<1> QED
  BY <1>2, <1>5, <1>6

LEMMA FixedWindowKeepsOverlap ==
  ASSUME SplitInv, Gentle, Overlapped, FixedWindow
  PROVE  Overlapped'
<1> DEFINE e    == Least(position + options.size, Size)
           next == position + Step
<1>1. phase = "window" /\ options.strategy = "characters" /\ Advance(e, next)
  BY DEF FixedWindow
<1>2. /\ options \in Options /\ Size \in Nat /\ position \in Nat /\ position < Size
  BY <1>1, TextIsSequence DEF SplitInv, Core, Splitting
<1>3. /\ options.size \in Nat /\ options.overlap \in Nat /\ options.overlap < options.size
      /\ Step = options.size - options.overlap
  BY <1>2 DEF Options, Step
<1>4. /\ e \in Nat /\ position < e /\ e <= Size /\ next \in Nat
      /\ e = Least(Size, position + options.size)
      /\ e # Size => /\ e = position + options.size
                     /\ position < next /\ next <= e /\ e - next <= options.overlap
                     /\ e <= Least(Size, next + options.size)
  BY <1>2, <1>3 DEF Least
<1>5. SectionStarts = {} /\ \A p : WindowEnd(p) = Least(Size, p + options.size)
  BY <1>1 DEF SectionStarts, WindowEnd
<1>6. e # Size => Shares(next, e) /\ e <= WindowEnd(next)
  BY <1>1, <1>4, <1>5 DEF Shares
<1>7. e = WindowEnd(position)
  BY <1>4, <1>5
<1> HIDE DEF e, next
<1> QED
  BY <1>1, <1>4, <1>6, <1>7, AdvanceKeepsOverlap

LEMMA StructuredWindowKeepsOverlap ==
  ASSUME SplitInv, Gentle, Overlapped, StructuredWindow
  PROVE  Overlapped'
<1> DEFINE e    == WindowEnd(position)
           next == NextStart(position, e)
<1>1. /\ phase = "window" /\ options.strategy \in Structured
      /\ options.strategy # "tokens" /\ options.strategy # "characters"
  BY DEF StructuredWindow, Structured
<1>2. Advance(e, next)
  <2>1. e = LET limit == Least(Size, position + options.size)
            IN  IF limit = Size THEN Size ELSE PreferredEnd(position, limit)
    BY <1>1 DEF WindowEnd
  <2> QED
    BY <2>1 DEF StructuredWindow
<1>3. /\ options \in Options /\ text \in Seq(Kinds)
      /\ Size \in Nat /\ position \in Nat /\ position < Size
  BY <1>1, TextIsSequence DEF SplitInv, Core, Splitting
<1>4. e \in Nat /\ position < e /\ e <= Size
  <2>1. options.size \in Nat \ {0}
    BY <1>3 DEF Options
  <2>2. PICK l \in Nat : l = Least(Size, position + options.size) /\ l <= Size /\ position < l
    BY <1>3, <2>1 DEF Least
  <2>3. PreferredEnd(position, l) \in position + 1 .. l
    BY <1>3, <2>2, PreferredEndIsInside
  <2>4. e = Size \/ e = PreferredEnd(position, l)
    BY <1>1, <2>2 DEF WindowEnd
  <2> HIDE DEF e
  <2> QED
    BY <1>3, <2>2, <2>3, <2>4
<1>5. e # Size => e <= WindowEnd(next)
  <2> SUFFICES ASSUME e # Size PROVE e <= WindowEnd(next)
    OBVIOUS
  <2>1. PICK x : x = WindowEnd(position)
    OBVIOUS
  <2>2. x <= WindowEnd(NextStart(position, x))
    BY <1>1, <1>3, <2>1, EndsGrow
  <2> QED
    BY <2>1, <2>2
<1> HIDE DEF e
<1>6. next \in Nat /\ position < next /\ next <= e
  <2>1. next \in position + 1 .. e
    BY <1>3, <1>4, NextStartIsInside
  <2> HIDE DEF next
  <2> QED
    BY <1>3, <1>4, <2>1
<1>7. Shares(next, e)
  BY <1>1, <1>3, <1>4, NextStartShares
<1> HIDE DEF next
<1> QED
  BY <1>1, <1>2, <1>4, <1>5, <1>6, <1>7, AdvanceKeepsOverlap DEF e

\* The steps of the token chunker.
LEMMA EndFoundKeepsOverlap ==
  ASSUME SplitInv, Gentle, Overlapped, EndFound
  PROVE  Overlapped'
<1> DEFINE e == search.best
<1>1. /\ phase = "farthest" /\ e # position /\ Advance(e, e) /\ options.strategy = "tokens"
  BY DEF EndFound, SplitInv, Searching
<1>2. e \in Nat /\ position < e /\ e <= Size
  BY <1>1, BestFits
<1> HIDE DEF e
<1>3. Shares(e, e)
  BY <1>2 DEF Shares
<1> QED
  BY <1>1, <1>2, <1>3, AdvanceKeepsOverlap

LEMMA SearchOverlapKeepsOverlap ==
  ASSUME SplitInv, Gentle, Overlapped, SearchOverlap
  PROVE  Overlapped'
<1> DEFINE e == search.best
<1>1. /\ phase = "farthest" /\ phase' = "overlap" /\ e # position /\ options.strategy = "tokens"
      /\ chunks' = Emitted(position, e)
      /\ search' = [low |-> position + 1, high |-> e, best |-> e, end |-> e]
      /\ UNCHANGED <<text, options, position>>
  BY DEF SearchOverlap, SplitInv, Searching
<1>2. /\ e \in Nat /\ position \in Nat /\ Size \in Nat /\ position < e /\ e <= Size
  BY <1>1, BestFits
<1>3. search'.best = e /\ search'.end = e
  BY <1>1
<1> HIDE DEF e
<1>4. chunks \in Seq(Spans) /\ options \in Options
  BY DEF SplitInv, Core
<1>5. chunks # <<>> => Behind(position)
  BY <1>1 DEF Overlapped
<1>6. /\ OverlapIsBounded'
      /\ \/ chunks' = chunks
         \/ chunks' # <<>> /\ Latest'.start = position /\ Latest'.end = e
  BY <1>1, <1>2, <1>4, <1>5, EmittedKeepsOverlap DEF Overlapped
<1>7. Shares(search.best, search.end)'
  BY <1>2, <1>3 DEF Shares
<1>8. chunks' = chunks => (chunks' # <<>> => Behind(position)')
  <2>1. \A p, x : Shares(p, x)' = Shares(p, x)
    BY <1>1, SharesIsStable
  <2> QED
    BY <1>1, <1>5, <2>1 DEF Behind, Latest
<1>9. chunks' # <<>> => \/ Latest'.start = position' /\ Latest'.end = search'.end
                        \/ Behind(position)'
  BY <1>1, <1>3, <1>6, <1>8
<1> QED
  BY <1>1, <1>6, <1>7, <1>9 DEF Overlapped

LEMMA ProbeOverlapKeepsOverlap ==
  ASSUME SplitInv, Overlapped, ProbeOverlap
  PROVE  Overlapped'
<1>1. /\ phase = "overlap" /\ options.strategy = "tokens"
      /\ UNCHANGED <<text, options, phase, position, chunks>>
      /\ search \in [low : 0 .. Size + 1, high : 0 .. Size, best : 0 .. Size, end : 0 .. Size]
  BY DEF ProbeOverlap, SplitInv, Searching
<1>2. \A p, x : Shares(p, x)' = Shares(p, x)
  BY <1>1, SharesIsStable
<1> DEFINE m == Middle
           x == search.end
           b == search.best
<1>3. /\ search'.end = x
      /\ search'.best = b \/ (search'.best = m /\ Tokens(m, x) <= options.overlap)
  <2>1. CASE Tokens(m, x) <= options.overlap
    <3>1. search' = [search EXCEPT !.best = m, !.high = m - 1]
      BY <2>1 DEF ProbeOverlap
    <3> HIDE DEF m
    <3> QED
      BY <1>1, <2>1, <3>1
  <2>2. CASE ~(Tokens(m, x) <= options.overlap)
    <3>1. search' = [search EXCEPT !.low = m + 1]
      BY <2>2 DEF ProbeOverlap
    <3> HIDE DEF m
    <3> QED
      BY <1>1, <3>1
  <2> QED
    BY <2>1, <2>2
<1>4. Shares(b, x)
  BY <1>1 DEF Overlapped
<1>5. Tokens(m, x) <= options.overlap => Shares(m, x)
  <2>1. SectionStarts = {}
    BY <1>1 DEF SectionStarts
  <2> HIDE DEF m, x
  <2> QED
    BY <1>1, <2>1 DEF Shares
<1>6. Shares(search'.best, x)
  <2> HIDE DEF m, x, b
  <2> QED
    BY <1>3, <1>4, <1>5
<1>7. Shares(search.best, search.end)'
  BY <1>2, <1>3, <1>6
<1>8. OverlapIsBounded' /\ (chunks # <<>> => Behind(position)' = Behind(position)) /\ Latest' = Latest
  <2>1. SectionStarts' = SectionStarts
    BY <1>1, SharesIsStable
  <2> QED
    BY <1>1, <1>2, <2>1 DEF Overlapped, OverlapIsBounded, SharesAtMost, Tokens, Behind, Latest
<1>9. chunks # <<>> => \/ Latest.start = position /\ Latest.end = search.end
                       \/ Behind(position)
  BY <1>1 DEF Overlapped
<1>10. chunks' # <<>> => \/ Latest'.start = position' /\ Latest'.end = search'.end
                         \/ Behind(position)'
  BY <1>1, <1>3, <1>8, <1>9
<1> QED
  BY <1>1, <1>7, <1>8, <1>10 DEF Overlapped

LEMMA OverlapFoundKeepsOverlap ==
  ASSUME SplitInv, Gentle, Overlapped, OverlapFound
  PROVE  Overlapped'
<1>1. /\ phase = "overlap" /\ phase' = "window" /\ options.strategy = "tokens"
      /\ UNCHANGED <<text, options, search, chunks>>
  BY DEF OverlapFound, SplitInv, Searching
<1>2. /\ chunks \in Seq(Spans) /\ options \in Options /\ Size \in Nat
      /\ position \in 0 .. Size
  BY TextIsSequence DEF SplitInv, Core
<1>3. /\ search.best \in 0 .. Size /\ position < search.best
  BY <1>1 DEF SplitInv, Searching
<1>4. position' = search.best
  BY <1>3 DEF OverlapFound
<1>5. SectionStarts' = SectionStarts /\ \A p, x : Shares(p, x)' = Shares(p, x)
  BY <1>1, SharesIsStable
<1>6. OverlapIsBounded' /\ Latest' = Latest
  BY <1>1, <1>5 DEF Overlapped, OverlapIsBounded, SharesAtMost, Tokens, Latest
<1>7. ASSUME chunks # <<>>
      PROVE  Latest.start < search.best /\ Shares(search.best, Latest.end)
  <2>1. CASE Latest.start = position /\ Latest.end = search.end
    BY <1>1, <1>3, <2>1 DEF Overlapped
  <2>2. CASE Behind(position)
    <3>1. Latest \in Spans
      BY <1>2, <1>7 DEF Latest
    <3> DEFINE x == Latest.end
               b == search.best
    <3>2. Latest.start \in 0 .. Size /\ x \in 0 .. Size /\ Latest.start < position
          /\ Shares(position, x)
      BY <2>2, <3>1 DEF Spans, Behind
    <3>3. b \in 0 .. Size /\ position <= b
      BY <1>2, <1>3
    <3> HIDE DEF x, b
    <3>4. Shares(b, x)
      BY <1>2, <3>2, <3>3, SharesLess
    <3> QED
      BY <1>2, <1>3, <3>2, <3>4 DEF x, b
  <2> QED
    BY <1>1, <1>7, <2>1, <2>2 DEF Overlapped
<1>8. chunks' # <<>> => Behind(position)'
  BY <1>1, <1>4, <1>5, <1>6, <1>7 DEF Behind
<1> QED
  BY <1>1, <1>6, <1>8 DEF Overlapped

\* Every other step leaves the chunks alone, and the next window where it is.
LEMMA OtherStepsKeepOverlap ==
  ASSUME Overlapped, UNCHANGED <<text, options, position, chunks>>,
         \/ phase' \notin {"window", "farthest", "overlap"}
         \/ phase' = "farthest" /\ phase \in {"window", "farthest"}
         \/ phase' = "window" /\ phase = "idle" /\ chunks = <<>>
         \/ phase' = phase /\ search' = search
  PROVE  Overlapped'
<1>1. /\ SectionStarts' = SectionStarts /\ \A p, x : Shares(p, x)' = Shares(p, x)
      /\ \A p : WindowEnd(p)' = WindowEnd(p)
  BY SharesIsStable
<1>2. OverlapIsBounded' /\ Latest' = Latest
  BY <1>1 DEF Overlapped, OverlapIsBounded, SharesAtMost, Tokens, Latest
<1>3. Behind(position)' = Behind(position) /\ WindowEnd(position)' = WindowEnd(position)
  BY <1>1, <1>2 DEF Behind
<1>4. Shares(search.best, search.end)' = Shares(search'.best, search'.end)
  BY <1>1
<1> QED
  BY <1>2, <1>3, <1>4 DEF Overlapped

LEMMA OverlapBegins == SplitInit => OverlapInv
BY DEF SplitInit, OverlapInv, Overlapped, OverlapIsBounded

LEMMA OverlapSteps == SplitInv /\ OverlapInv /\ [Split]_splitVars => OverlapInv'
<1> SUFFICES ASSUME SplitInv, OverlapInv, [Split]_splitVars, Gentle' PROVE Overlapped'
  BY DEF OverlapInv
<1>1. UNCHANGED <<text, options>>
  BY DEF Split, splitVars, Begin, EndSplit, Advance, FixedWindow, StructuredWindow,
         StructuredLimit, TokenWindow, TokenLimit, ProbeEnd, Oversized, EndFound,
         SearchOverlap, ProbeOverlap, OverlapFound
<1>2. Gentle /\ Overlapped
  <2>1. Gentle' = Gentle
    BY <1>1, SharesIsStable
  <2> QED
    BY <2>1 DEF OverlapInv
<1>3. CASE UNCHANGED splitVars
  BY <1>2, <1>3, OtherStepsKeepOverlap DEF splitVars
<1>4. CASE Begin
  <2>1. chunks = <<>> /\ phase = "idle" /\ UNCHANGED <<text, options, position, chunks>>
        /\ phase' \in {"blank", "limit", "window"}
    BY <1>4 DEF Begin, EndSplit, SplitInv, Core
  <2> QED
    BY <1>2, <2>1, OtherStepsKeepOverlap
<1>5. CASE StructuredLimit \/ TokenLimit \/ Oversized
  <2>1. UNCHANGED <<text, options, position, chunks>> /\ phase' \in {"limit", "oversized"}
    BY <1>5 DEF StructuredLimit, TokenLimit, Oversized, EndSplit
  <2> QED
    BY <1>2, <2>1, OtherStepsKeepOverlap
<1>6. CASE TokenWindow \/ ProbeEnd
  <2>1. UNCHANGED <<text, options, position, chunks>> /\ phase' = "farthest"
        /\ phase \in {"window", "farthest"}
    BY <1>6 DEF TokenWindow, ProbeEnd
  <2> QED
    BY <1>2, <2>1, OtherStepsKeepOverlap
<1> QED
  BY <1>2, <1>3, <1>4, <1>5, <1>6, FixedWindowKeepsOverlap, StructuredWindowKeepsOverlap,
     EndFoundKeepsOverlap, SearchOverlapKeepsOverlap, ProbeOverlapKeepsOverlap,
     OverlapFoundKeepsOverlap DEF Split

\* Two neighbours share at most the overlap that was asked for, and no section:
\* whatever the text for the strategies that measure characters, and with a
\* gentle tokenizer for the one that measures tokens.
THEOREM SplitOverlapIsBounded == SplitSpec => [](Gentle => OverlapIsBounded)
<1>1. SplitInv /\ OverlapInv => (Gentle => OverlapIsBounded)
  BY DEF OverlapInv, Overlapped
<1> QED
  BY <1>1, OverlapBegins, OverlapSteps, SplitInvariance, PTL DEF SplitSpec
=============================================================================
