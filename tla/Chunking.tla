------------------------------ MODULE Chunking ------------------------------
(***************************************************************************)
(* Splitting one text into chunks, by each of the five strategies.         *)
(*                                                                         *)
(* A text is a sequence of kinds of characters; offsets count the          *)
(* characters before a place, so excerpt (s, e) is text[s+1 .. e].         *)
(*   "word"   a character of a word       "wide"   one of several tokens   *)
(*   "stop"   a full stop                 "query"  ! or ?                  *)
(*   "space"  a blank or a tab            "line"   a line break            *)
(*   "hash"   # marks and their blank     "fence"  a code fence            *)
(* A word of one character stands for initials and abbreviations alike.    *)
(* One action is one turn of a loop, of a chunker or of a binary search.   *)
(***************************************************************************)
EXTENDS Integers, Sequences, FiniteSets

CONSTANTS
  Texts,            \* the texts there are
  MaxCharacters,    \* MAX_CHUNK_SIZE_CHARACTERS
  MaxTokens,        \* MAX_CHUNK_SIZE_TOKENS
  MaxChunks,        \* MAX_CHUNKS_PER_DOCUMENT
  TokenCount(_)     \* tokens of an excerpt

Kinds == {"word", "wide", "stop", "query", "space", "line", "hash", "fence"}

ASSUME LimitsAssumption ==
  /\ MaxCharacters \in Nat \ {0}
  /\ MaxTokens \in Nat \ {0}
  /\ MaxChunks \in Nat \ {0}

ASSUME TextsAssumption == Texts \subseteq Seq(Kinds)

\* Nothing else is assumed: a longer excerpt may have fewer tokens.
ASSUME TokensAssumption ==
  \A t \in Texts : \A s, e \in 0 .. Len(t) : TokenCount(SubSeq(t, s + 1, e)) \in Nat

VARIABLES
  text,       \* the text being split
  options,    \* DocumentChunkOptions
  phase,      \* where the chunker is, or how it ended
  position,   \* where the next window begins
  windows,    \* windows so far
  search,     \* low, high, best of a binary search, and the end it found
  chunks      \* the spans emitted so far

splitVars == <<text, options, phase, position, windows, search, chunks>>

Structured == {"recursive", "markdown", "sentences"}

Strategies == {"characters", "tokens"} \union Structured

\* DocumentChunkOptions.__post_init__ and the chunkers' own validation.
Options ==
  {o \in [strategy : Strategies,
          size     : 1 .. MaxCharacters \union 1 .. MaxTokens,
          overlap  : 0 .. MaxCharacters \union 0 .. MaxTokens] :
    /\ o.size <= (IF o.strategy = "tokens" THEN MaxTokens ELSE MaxCharacters)
    /\ o.overlap < o.size}

Failures == {"blank", "limit", "oversized", "fruitless"}

Size == Len(text)

Least(a, b) == IF a < b THEN a ELSE b
Greatest(a, b) == IF a < b THEN b ELSE a
LastOf(S) == CHOOSE x \in S : \A y \in S : y <= x
FirstOf(S) == CHOOSE x \in S : \A y \in S : x <= y

\* Whether the character after offset o is one that strip() removes.
IsBlank(o) == text[o + 1] \in {"space", "line"}

Blank(s, e) == \A o \in s .. e - 1 : IsBlank(o)

Tokens(s, e) == TokenCount(SubSeq(text, s + 1, e))

-----------------------------------------------------------------------------
\* Headings and separators

\* Heading marks that begin a line, up to three blanks aside, outside fences.
Headings ==
  {h \in 0 .. Size - 1 :
    /\ h = 0 \/ text[h] = "line"
    /\ \E o \in h .. Least(h + 3, Size - 1) :
         text[o + 1] = "hash" /\ \A b \in h .. o - 1 : text[b + 1] = "space"
    /\ Cardinality({f \in 0 .. h - 1 : text[f + 1] = "fence"
                                       /\ (f = 0 \/ text[f] = "line")}) % 2 = 0}

SectionStarts == IF options.strategy = "markdown" THEN Headings ELSE {}

\* The last word before the full stop at p is a single letter.
Abbreviation(p) ==
  /\ text[p + 1] = "stop"
  /\ \E w \in 0 .. p - 1 :
       /\ text[w + 1] = "word"
       /\ Blank(w + 1, p)
       /\ w = 0 \/ IsBlank(w - 1)

\* Where the matches of the patterns end in the window (s, l).  A match is cut
\* by the window; paragraph breaks are taken from the left, two lines each.
SentenceEnds(s, l) ==
  {e \in s + 2 .. l :
    \E b \in s .. e - 2 :
      /\ text[b + 1] \in {"stop", "query"}
      /\ ~Abbreviation(b)
      /\ Blank(b + 1, e)
      /\ e = l \/ ~IsBlank(e)}

ParagraphEnds(s, l) ==
  {e \in s + 2 .. l :
    /\ text[e] = "line"
    /\ LET above == {b \in s .. e - 2 : text[b + 1] = "line" /\ Blank(b, e)}
       IN  Cardinality(above) % 2 = 1}

LineEnds(s, l) == {e \in s + 1 .. l : text[e] = "line"}

SpaceEnds(s, l) ==
  {e \in s + 1 .. l : text[e] = "space" /\ (e = l \/ text[e + 1] # "space")}

\* The patterns in the order in which the strategies try them.
Separators(i, s, l) ==
  CASE i = 1 -> IF options.strategy = "sentences" THEN SentenceEnds(s, l)
                ELSE ParagraphEnds(s, l)
    [] i = 2 -> IF options.strategy = "sentences" THEN ParagraphEnds(s, l)
                ELSE SentenceEnds(s, l)
    [] i = 3 -> LineEnds(s, l)
    [] i = 4 -> SpaceEnds(s, l)

\* _last_separator: a match counts once some text precedes its end.
UsableEnds(i, s, l) == {e \in Separators(i, s, l) : ~Blank(s, e)}

\* _first_overlap_separator
OverlapStarts(i, floor, e) == {b \in Separators(i, floor, e) : b < e}

PreferredEnd(s, l) ==
  LET above == {h \in SectionStarts : h <= l}
      fits  == {i \in 1 .. 4 : UsableEnds(i, s, l) # {}}
  IN  IF above # {} /\ LastOf(above) > s /\ ~Blank(s, LastOf(above))
      THEN LastOf(above)
      ELSE IF fits # {} THEN LastOf(UsableEnds(FirstOf(fits), s, l)) ELSE l

NextStartAcrossHeadings(s, e) ==
  LET floor == Greatest(s + 1, e - options.overlap)
      fits  == {i \in 1 .. 4 : OverlapStarts(i, floor, e) # {}}
  IN  IF options.overlap = 0 \/ fits = {} THEN e
      ELSE FirstOf(OverlapStarts(FirstOf(fits), floor, e))

NextStartUnfloored(s, e) ==
  LET floor == Greatest(0, e - options.overlap)
      fits  == {i \in 1 .. 4 : OverlapStarts(i, floor, e) # {}}
  IN  IF options.overlap = 0 \/ e \in SectionStarts \/ fits = {} THEN e
      ELSE FirstOf(OverlapStarts(FirstOf(fits), floor, e))

NextStart(s, e) ==
  LET floor == Greatest(s + 1, e - options.overlap)
      fits  == {i \in 1 .. 4 : OverlapStarts(i, floor, e) # {}}
  IN  IF \/ options.overlap = 0
         \/ e \in SectionStarts
         \/ fits = {}
         \/ \E h \in SectionStarts : floor <= h /\ h < e
      THEN e
      ELSE FirstOf(OverlapStarts(FirstOf(fits), floor, e))

-----------------------------------------------------------------------------
\* The chunkers

EmittedUnlessIndented(s, e) ==
  IF IsBlank(s) THEN chunks ELSE Append(chunks, [start |-> s, end |-> e])

\* A window is kept unless it is blank; it is cut exactly as it stands.
Emitted(s, e) == IF Blank(s, e) THEN chunks ELSE Append(chunks, [start |-> s, end |-> e])

SplitInit ==
  /\ text \in Texts
  /\ options \in Options
  /\ phase = "idle"
  /\ position = 0
  /\ windows = 0
  /\ search = [low |-> 0, high |-> 0, best |-> 0, end |-> 0]
  /\ chunks = <<>>

EndSplit(outcome) ==
  /\ phase' = outcome
  /\ UNCHANGED <<text, options, position, windows, search, chunks>>

\* _chunk_count: the windows that a fixed splitting will take.
ChunkCountFloored(step) ==
  IF Size <= options.size THEN 1 ELSE 1 + (Size - options.size) \div step

ChunkCount(step) ==
  IF Size <= options.size THEN 1 ELSE 1 + (Size - options.size + step - 1) \div step

Step == options.size - options.overlap

Begin ==
  /\ phase = "idle"
  /\ \/ Blank(0, Size) /\ EndSplit("blank")
     \/ /\ ~Blank(0, Size)
        /\ IF options.strategy = "characters" /\ ChunkCount(Step) > MaxChunks
           THEN EndSplit("limit")
           ELSE EndSplit("window")

\* The excerpt from position to e is emitted; the next window begins at next,
\* unless the text is exhausted.
Advance(e, next) ==
  LET spans == Emitted(position, e) IN
    /\ chunks' = spans
    /\ IF e = Size
       THEN /\ phase' = IF spans = <<>> THEN "fruitless" ELSE "done"
            /\ UNCHANGED position
       ELSE /\ phase' = "window"
            /\ position' = next
    /\ UNCHANGED <<text, options>>

FixedWindow ==
  /\ phase = "window"
  /\ options.strategy = "characters"
  /\ windows' = windows + 1
  /\ Advance(Least(position + options.size, Size), position + Step)
  /\ UNCHANGED search

StructuredWindow ==
  /\ phase = "window"
  /\ options.strategy \in Structured
  /\ windows < MaxChunks
  /\ windows' = windows + 1
  /\ LET limit == Least(Size, position + options.size)
         end   == IF limit = Size THEN Size ELSE PreferredEnd(position, limit)
     IN  Advance(end, NextStart(position, end))
  /\ UNCHANGED search

StructuredLimit ==
  /\ phase = "window"
  /\ options.strategy \in Structured
  /\ windows = MaxChunks
  /\ EndSplit("limit")

TokenLimit ==
  /\ phase = "window"
  /\ options.strategy = "tokens"
  /\ Len(chunks) >= MaxChunks
  /\ EndSplit("limit")

TokenWindowUncapped ==
  /\ phase = "window"
  /\ options.strategy = "tokens"
  /\ Len(chunks) < MaxChunks
  /\ search' = [low |-> position + 1, high |-> Size, best |-> position, end |-> position]
  /\ phase' = "farthest"
  /\ UNCHANGED <<text, options, position, windows, chunks>>

\* _farthest_end starts its binary search.
TokenWindow ==
  /\ phase = "window"
  /\ options.strategy = "tokens"
  /\ Len(chunks) < MaxChunks
  /\ search' = [low  |-> position + 1,
                high |-> Least(Size, position + MaxCharacters),
                best |-> position,
                end  |-> position]
  /\ phase' = "farthest"
  /\ UNCHANGED <<text, options, position, windows, chunks>>

Middle == (search.low + search.high) \div 2

\* _farthest_end: the midpoint fits or it does not.
ProbeEndUnbounded ==
  /\ phase = "farthest"
  /\ search.low <= search.high
  /\ search' = IF Tokens(position, Middle) <= options.size
               THEN [search EXCEPT !.best = Middle, !.low = Middle + 1]
               ELSE [search EXCEPT !.best = Middle, !.high = Middle - 1]
  /\ UNCHANGED <<text, options, phase, position, windows, chunks>>

ProbeEnd ==
  /\ phase = "farthest"
  /\ search.low <= search.high
  /\ search' = IF Tokens(position, Middle) <= options.size
               THEN [search EXCEPT !.best = Middle, !.low = Middle + 1]
               ELSE [search EXCEPT !.high = Middle - 1]
  /\ UNCHANGED <<text, options, phase, position, windows, chunks>>

\* Not even one character fits.
Oversized ==
  /\ phase = "farthest"
  /\ search.low > search.high
  /\ search.best = position
  /\ EndSplit("oversized")

\* The window ends at the best end found.
EndFound ==
  /\ phase = "farthest"
  /\ search.low > search.high
  /\ search.best # position
  /\ options.overlap = 0 \/ search.best = Size
  /\ Advance(search.best, search.best)
  /\ UNCHANGED <<windows, search>>

\* ... and _overlap_start searches for the next start.
SearchOverlap ==
  /\ phase = "farthest"
  /\ search.low > search.high
  /\ search.best # position
  /\ options.overlap # 0 /\ search.best # Size
  /\ chunks' = Emitted(position, search.best)
  /\ search' = [low  |-> position + 1,
                high |-> search.best,
                best |-> search.best,
                end  |-> search.best]
  /\ phase' = "overlap"
  /\ UNCHANGED <<text, options, position, windows>>

ProbeOverlap ==
  /\ phase = "overlap"
  /\ search.low <= search.high
  /\ search' = IF Tokens(Middle, search.end) <= options.overlap
               THEN [search EXCEPT !.best = Middle, !.high = Middle - 1]
               ELSE [search EXCEPT !.low = Middle + 1]
  /\ UNCHANGED <<text, options, phase, position, windows, chunks>>

OverlapFound ==
  /\ phase = "overlap"
  /\ search.low > search.high
  /\ position' = IF search.best > position THEN search.best ELSE search.end
  /\ phase' = "window"
  /\ UNCHANGED <<text, options, windows, search, chunks>>

Split ==
  \/ Begin
  \/ FixedWindow
  \/ StructuredWindow \/ StructuredLimit
  \/ TokenWindow \/ TokenLimit \/ ProbeEnd \/ Oversized \/ EndFound
  \/ SearchOverlap \/ ProbeOverlap \/ OverlapFound

SplitSpec == SplitInit /\ [][Split]_splitVars

-----------------------------------------------------------------------------

Splitting == phase \in {"window", "farthest", "overlap"}

Spans == {c \in [start : 0 .. Size, end : 0 .. Size] : c.start < c.end}

\* Spans lie in the text, and no more are kept than the limit allows.
SplitTypeOK ==
  /\ text \in Seq(Kinds)
  /\ options \in Options
  /\ phase \in {"idle", "window", "farthest", "overlap", "done"} \union Failures
  /\ position \in 0 .. Size
  /\ windows \in 0 .. Size
  /\ search \in [low : 0 .. Size + 1, high : 0 .. Size, best : 0 .. Size, end : 0 .. Size]
  /\ chunks \in Seq(Spans)

\* No text is lost: every character that is not blank and lies before the next
\* window, or anywhere once the chunker is done, is in a chunk.  So a text that
\* is not blank never ends without a chunk (structured.py:153, fixed.py:60,
\* token_aware.py:106), whatever the tokenizer counts.
Lossless ==
  LET split == IF phase = "done" THEN Size ELSE position IN
    /\ phase # "fruitless"
    /\ \A o \in 0 .. Size - 1 :
         o < split /\ ~IsBlank(o) => \E i \in 1 .. Len(chunks) :
                                       chunks[i].start <= o /\ o < chunks[i].end

\* Each chunk has text and keeps to the size asked for, in characters or in
\* tokens, and to the limits that the chunk service checks again.
ChunksFit ==
  /\ Len(chunks) <= MaxChunks
  /\ \A i \in 1 .. Len(chunks) :
       LET c == chunks[i] IN
         /\ ~Blank(c.start, c.end)
         /\ c.end - c.start <= MaxCharacters
         /\ IF options.strategy = "tokens"
            THEN Tokens(c.start, c.end) <= options.size
            ELSE c.end - c.start <= options.size

SharesAtMost(c, d) ==
  /\ c.start < d.start
  /\ d.start < c.end =>
       /\ IF options.strategy = "tokens" THEN Tokens(d.start, c.end) <= options.overlap
          ELSE c.end - d.start <= options.overlap
       /\ ~ \E h \in SectionStarts : d.start <= h /\ h < c.end

\* Two neighbours share at most the overlap asked for, and never the start of a
\* Markdown section; and a chunk ends no earlier than the one before it, which
\* the test of the structured modes asserts (test_structured_chunking.py:148).
\* It may end at the same place, a tail that the overlap repeats as a chunk of
\* its own; and token windows may even fall back, where longer text has fewer
\* tokens.
OverlapIsBounded ==
  \A i \in 1 .. Len(chunks) - 1 :
    /\ SharesAtMost(chunks[i], chunks[i + 1])
    /\ options.strategy # "tokens" => chunks[i].end <= chunks[i + 1].end

\* The number of windows that fixed splitting computes beforehand is exact: a
\* text is refused only when it has too many, and never found out halfway.
EstimateIsExact ==
  options.strategy = "characters" =>
    /\ phase = "limit" => Size > options.size + (MaxChunks - 1) * Step
    /\ windows <= MaxChunks

\* Every turn of a chunker advances in the text, and every probe of a binary
\* search narrows it: splitting ends.
AlwaysAdvances ==
  [][/\ phase = "window" /\ phase' = "window" => position' > position
     /\ phase = "overlap" /\ phase' = "window" => position' > position
     /\ phase = "farthest" /\ phase' = "window" => position' > position
     /\ phase = phase' /\ phase \in {"farthest", "overlap"} =>
          search'.high - search'.low < search.high - search.low]_splitVars
=============================================================================
