------------------------- MODULE DocumentIngestion -------------------------
(***************************************************************************)
(* Processing one document up to its chunk set: the stored bytes are read  *)
(* while uploads go on and are compensated, parsed, split, given the pages *)
(* they come from, and validated for staging.  What becomes of a staged    *)
(* set is the subject of ChunkVersions.                                    *)
(*                                                                         *)
(* A PDF is a sequence of pages, each with the text that pypdf extracts    *)
(* and the text that OCR would detect.                                     *)
(***************************************************************************)
EXTENDS DocumentUpload, Chunking

CONSTANTS
  Pdfs,           \* PDF documents
  MaxPages,       \* MAX_PDF_PAGES
  MaxExtracted,   \* MAX_EXTRACTED_TEXT_CHARACTERS
  MaxOcrPages     \* SPUREL_PDF_OCR_MAX_PAGES

ASSUME PdfsAssumption ==
  Pdfs \subseteq Seq([extracted : Seq(Kinds), detected : Seq(Kinds)])

VARIABLES
  stage,      \* progress of the processing request
  document,   \* the document it is about
  pdf,        \* the parsed PDF, empty for a text
  page,       \* pages read so far
  allowance,  \* pages that may still be given to OCR, or Disabled
  spans,      \* ParsedPageSpan: where each page is in the text
  staged      \* the chunk set handed to replace_for_document

parsing == <<pdf, page, allowance, spans>>

ingestionVars == <<vars, splitVars, stage, document, parsing, staged>>

Disabled == -1

IngestionInit ==
  /\ Init
  /\ text = <<>>
  /\ options \in Options
  /\ phase = "idle" /\ position = 0 /\ windows = 0 /\ chunks = <<>>
  /\ search = [low |-> 0, high |-> 0, best |-> 0, end |-> 0]
  /\ stage = "idle"
  /\ document \in Uploads
  /\ pdf = <<>> /\ page = 0 /\ allowance = Disabled /\ spans = <<>>
  /\ staged = <<>>

Upload == Next /\ UNCHANGED <<splitVars, stage, document, parsing, staged>>

EndIngestion(outcome) ==
  /\ stage' = outcome
  /\ UNCHANGED <<vars, splitVars, document, parsing, staged>>

\* The chunker is built, which needs a tokenizer for "tokens", and the row is
\* found; without a row the request is answered 404.
Process ==
  /\ stage = "idle"
  /\ row[document]
  /\ \/ EndIngestion("content")
     \/ options.strategy = "tokens" /\ EndIngestion("config")

-----------------------------------------------------------------------------
\* DocumentIngestionService.ingest, once the row is read

BlankText(t) == \A i \in 1 .. Len(t) : t[i] \in {"space", "line"}

\* The object is gone, cannot be read, or has not the size its row declares:
\* the last never happens to a document that is registered (NeverTruncated).
Unavailable == stage = "content" /\ EndIngestion("unavailable")

Readable ==
  /\ stage = "content"
  /\ blob[document] # Absent
  /\ blob[document] = declared[document]

\* Not UTF-8, blank, with control characters; encrypted, unreadable, too long.
Unparsable == Readable /\ EndIngestion("unparsable")

\* TextDocumentParser.parse
ParseText ==
  /\ Readable
  /\ \E t \in Texts : ~BlankText(t) /\ text' = t
  /\ stage' = "chunking"
  /\ UNCHANGED <<vars, options, phase, position, windows, search, chunks,
                 document, parsing, staged>>

\* PdfDocumentParser.parse up to its loop; OCR is enabled or it is not.
OpenPdf ==
  /\ Readable
  /\ \E p \in Pdfs : Len(p) <= MaxPages /\ pdf' = p
  /\ allowance' \in {Disabled, MaxOcrPages}
  /\ stage' = "pages"
  /\ UNCHANGED <<vars, splitVars, document, page, spans, staged>>

\* A page without text goes to OCR when it is enabled.
NeedsOcr == allowance # Disabled /\ BlankText(pdf[page + 1].extracted)

PageText == IF NeedsOcr THEN pdf[page + 1].detected ELSE pdf[page + 1].extracted

\* The characters extracted so far; the joins do not count.
Extracted == IF spans = <<>> THEN 0 ELSE Len(text) - 2 * (Len(spans) - 1)

ReadPage ==
  LET cursor == IF spans = <<>> THEN 0 ELSE Len(text) + 2 IN
    /\ stage = "pages"
    /\ page < Len(pdf)
    /\ NeedsOcr => allowance > 0
    /\ Extracted + Len(PageText) <= MaxExtracted
    /\ page' = page + 1
    /\ allowance' = IF NeedsOcr THEN allowance - 1 ELSE allowance
    /\ IF PageText = <<>> THEN UNCHANGED <<text, spans>>
       ELSE /\ text' = (IF spans = <<>> THEN <<>> ELSE text \o <<"line", "line">>) \o PageText
            /\ spans' = Append(spans,
                 [page  |-> page + 1,
                  start |-> cursor,
                  end   |-> cursor + Len(PageText),
                  ocr   |-> NeedsOcr /\ ~BlankText(PageText)])
    /\ UNCHANGED <<vars, options, phase, position, windows, search, chunks,
                   stage, document, pdf, staged>>

\* Too many pages for OCR, too much text, or an external program that fails.
RefusePage ==
  /\ stage = "pages"
  /\ page < Len(pdf)
  /\ NeedsOcr \/ Extracted + Len(PageText) > MaxExtracted
  /\ EndIngestion("unparsable")

\* The span of a page in the stripped text of n characters.
ShiftedNowhere(span, leading, n) ==
  [span EXCEPT !.end = Least(n, @)]

Shifted(span, leading, n) ==
  [span EXCEPT !.start = Greatest(0, @ - leading), !.end = Least(n, @ - leading)]

\* The spans that are not empty, in their order: the j-th has j - 1 before it.
NotEmpty(located) ==
  LET kept == {i \in DOMAIN located : located[i].start < located[i].end}
  IN  [j \in 1 .. Cardinality(kept) |->
         located[CHOOSE i \in kept : Cardinality({k \in kept : k < i}) = j - 1]]

ClosePdf ==
  /\ stage = "pages"
  /\ page = Len(pdf)
  /\ IF BlankText(text) THEN EndIngestion("unparsable")
     ELSE LET letters  == {o \in 0 .. Len(text) - 1 : ~IsBlank(o)}
              leading  == FirstOf(letters)
              stripped == SubSeq(text, leading + 1, LastOf(letters) + 1)
              moved    == [i \in 1 .. Len(spans) |-> Shifted(spans[i], leading, Len(stripped))]
          IN  /\ text' = stripped
              /\ spans' = NotEmpty(moved)
              /\ stage' = "chunking"
              /\ UNCHANGED <<vars, options, phase, position, windows, search, chunks,
                             document, pdf, page, allowance, staged>>

-----------------------------------------------------------------------------
\* The chunk pipeline

Chunk ==
  /\ stage = "chunking"
  /\ Split
  /\ UNCHANGED <<vars, stage, document, parsing, staged>>

\* _apply_pdf_page_spans: page 0 is no page.
Annotated(c) ==
  LET covered == {i \in 1 .. Len(spans) : spans[i].start < c.end /\ spans[i].end > c.start}
      numbers == {spans[i].page : i \in covered}
  IN  [start |-> c.start,
       end   |-> c.end,
       first |-> IF covered = {} THEN 0 ELSE FirstOf(numbers),
       last  |-> IF covered = {} THEN 0 ELSE LastOf(numbers),
       ocr   |-> \E i \in covered : spans[i].ocr]

\* _validate_chunk_set; the index of a chunk is its place in the sequence.
ValidChunkSet(set) ==
  /\ Len(set) \in 1 .. MaxChunks
  /\ \A i \in 1 .. Len(set) :
       LET c == set[i] IN
         /\ 0 <= c.start /\ c.start < c.end
         /\ c.end - c.start <= MaxCharacters
         /\ (c.first = 0) = (c.last = 0)
         /\ c.first <= c.last
         /\ c.ocr => c.first # 0

Stage ==
  /\ stage = "chunking"
  /\ phase = "done"
  /\ LET set == [i \in 1 .. Len(chunks) |-> Annotated(chunks[i])]
     IN  IF ValidChunkSet(set)
         THEN stage' = "staged" /\ staged' = set
         ELSE stage' = "invalid" /\ UNCHANGED staged
  /\ UNCHANGED <<vars, splitVars, document, parsing>>

Unsplittable ==
  /\ stage = "chunking"
  /\ phase \in Failures
  /\ EndIngestion("unsplittable")

IngestionNext ==
  \/ Upload
  \/ Process
  \/ Unavailable \/ Unparsable \/ ParseText
  \/ OpenPdf \/ ReadPage \/ RefusePage \/ ClosePdf
  \/ Chunk \/ Stage \/ Unsplittable

IngestionSpec == IngestionInit /\ [][IngestionNext]_ingestionVars

-----------------------------------------------------------------------------

\* Whatever the strategy and the document, the chunk service never refuses a
\* set that a chunker produced (chunk_service.py:94).
SetsAreValid == stage # "invalid"

\* The text t from s to e is the source but for blanks at its ends.
Quotes(t, s, e, source) ==
  \/ (\A o \in s .. e - 1 : t[o + 1] \in {"space", "line"}) /\ BlankText(source)
  \/ \E k \in 0 .. Len(source) - (e - s) :
       /\ \A o \in s .. e - 1 : t[o + 1] = source[k + (o - s) + 1]
       /\ \A j \in 1 .. Len(source) :
            j <= k \/ k + (e - s) < j => source[j] \in {"space", "line"}

\* The text that the page of a span had, recognised or extracted.
SourceOf(pages, span) ==
  IF span.ocr THEN pages[span.page].detected ELSE pages[span.page].extracted

\* The pages a staged chunk names are those its text comes from: each page's
\* span is the text of that page, every letter of a chunk stands on a page in
\* its range, both ends of the range lend it characters, and it counts as
\* recognised exactly if one of its pages was.
ProvenanceIsExact ==
  stage = "staged" /\ pdf # <<>> =>
    /\ \A i \in 1 .. Len(spans) :
         Quotes(text, spans[i].start, spans[i].end, SourceOf(pdf, spans[i]))
    /\ \A i \in 1 .. Len(staged) :
         LET c      == staged[i]
             lent   == {s \in 1 .. Len(spans) : \E o \in c.start .. c.end - 1 :
                          spans[s].start <= o /\ o < spans[s].end}
         IN  /\ \A o \in c.start .. c.end - 1 :
                  ~IsBlank(o) => \E s \in lent : spans[s].start <= o /\ o < spans[s].end
             /\ \A s \in lent : c.first <= spans[s].page /\ spans[s].page <= c.last
             /\ \E s \in lent : spans[s].page = c.first
             /\ \E s \in lent : spans[s].page = c.last
             /\ c.ocr = \E s \in lent : spans[s].ocr
=============================================================================
