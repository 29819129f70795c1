---------------------- MODULE DocumentIngestionProofs ----------------------
(***************************************************************************)
(* Uploads of any number of documents while one of them is ingested, for   *)
(* any texts, PDFs, limits and tokenizer.                                  *)
(***************************************************************************)
EXTENDS DocumentIngestion, ChunkingProofs

-----------------------------------------------------------------------------
\* Uploads

\* What holds of one upload at each stage: nothing is stored or registered
\* before the file is whole, and only a matching object is registered.
Honest(u) ==
  /\ up[u] \in {"idle", "writing", "failed"} => ~row[u] /\ blob[u] = Absent
  /\ up[u] = "writing" => temporary[u] \in 0 .. MaxSize
  /\ up[u] = "stored" => ~row[u]
  /\ up[u] = "created" => row[u] /\ blob[u] = declared[u]
  /\ up[u] = "rejected" => blob[u] = Absent
  /\ row[u] => blob[u] \in {Absent, declared[u]}

UploadInv == TypeOK /\ \A u \in Uploads : Honest(u)

UploadStep(u) ==
  \/ Open(u) \/ Write(u) \/ WriteTooLarge(u) \/ WriteFails(u)
  \/ Replace(u) \/ CancelPut(u) \/ Mismatch(u)
  \/ Register(u) \/ RegisterFails(u) \/ CancelRegister(u)
  \/ Cleanup(u) \/ CleanupFails(u) \/ Crash(u)

\* Each step keeps the types; a published file is one of a legal size.
LEMMA StepKeepsTypes ==
  ASSUME UploadInv, NEW u \in Uploads, UploadStep(u)
  PROVE  TypeOK'
<1> USE SizeAssumption DEF TypeOK, Sizes, Absent, Outcomes, End
<1>1. CASE Open(u)           BY <1>1 DEF UploadInv, Open
<1>2. CASE Write(u)
  <2>1. temporary[u] \in 0 .. MaxSize
    BY <1>2 DEF UploadInv, Honest, Write
  <2>2. temporary[u] + 1 \in 0 .. MaxSize
    BY <1>2, <2>1 DEF Write
  <2> QED
    BY <1>2, <2>2 DEF UploadInv, Write
<1>3. CASE WriteTooLarge(u)  BY <1>3 DEF UploadInv, WriteTooLarge, RemoveTemporary
<1>4. CASE WriteFails(u)     BY <1>4 DEF UploadInv, WriteFails, RemoveTemporary
<1>5. CASE Replace(u)
  <2>1. temporary[u] \in 1 .. MaxSize
    BY <1>5 DEF UploadInv, Honest, Replace
  <2> QED
    BY <1>5, <2>1 DEF UploadInv, Replace
<1>6. CASE CancelPut(u)
  <2>1. temporary[u] = length[u] => temporary[u] \in 1 .. MaxSize
    BY <1>6 DEF UploadInv, Honest, CancelPut
  <2> QED
    BY <1>6, <2>1 DEF UploadInv, CancelPut, RemoveTemporary
<1>7. CASE Mismatch(u)       BY <1>7 DEF UploadInv, Mismatch
<1>8. CASE Register(u)       BY <1>8 DEF UploadInv, Register
<1>9. CASE RegisterFails(u)  BY <1>9 DEF UploadInv, RegisterFails
<1>10. CASE CancelRegister(u) BY <1>10 DEF UploadInv, CancelRegister
<1>11. CASE Cleanup(u)       BY <1>11 DEF UploadInv, Cleanup
<1>12. CASE CleanupFails(u)  BY <1>12 DEF UploadInv, CleanupFails
<1>13. CASE Crash(u)         BY <1>13 DEF UploadInv, Crash
<1> QED
  BY <1>1, <1>2, <1>3, <1>4, <1>5, <1>6, <1>7, <1>8, <1>9, <1>10, <1>11,
     <1>12, <1>13 DEF UploadStep

\* An upload touches only its own files and row.
LEMMA StepIsLocal ==
  ASSUME TypeOK, NEW u \in Uploads, UploadStep(u), NEW v \in Uploads, v # u, Honest(v)
  PROVE  Honest(v)'
<1>1. /\ up'[v] = up[v] /\ temporary'[v] = temporary[v]
      /\ blob'[v] = blob[v] /\ row'[v] = row[v] /\ declared' = declared
  BY DEF TypeOK, UploadStep, Open, Write, WriteTooLarge, WriteFails, Replace, CancelPut,
         Mismatch, Register, RegisterFails, CancelRegister, Cleanup, CleanupFails,
         Crash, End, RemoveTemporary
<1> QED
  BY <1>1 DEF Honest

\* Each step keeps its own upload honest.
LEMMA StepIsHonest ==
  ASSUME UploadInv, NEW u \in Uploads, UploadStep(u)
  PROVE  Honest(u)'
<1>1. TypeOK /\ Honest(u)
  BY DEF UploadInv
<1> USE <1>1, SizeAssumption DEF TypeOK, Sizes, Absent, Outcomes, End, Honest
<1>2. CASE Open(u)           BY <1>2 DEF Open
<1>3. CASE Write(u)
  <2>1. temporary[u] + 1 \in 0 .. MaxSize
    BY <1>3 DEF Write
  <2> QED
    BY <1>3, <2>1 DEF Write
<1>4. CASE WriteTooLarge(u)  BY <1>4 DEF WriteTooLarge, RemoveTemporary
<1>5. CASE WriteFails(u)     BY <1>5 DEF WriteFails, RemoveTemporary
<1>6. CASE Replace(u)        BY <1>6 DEF Replace
<1>7. CASE CancelPut(u)      BY <1>7 DEF CancelPut, RemoveTemporary
<1>8. CASE Mismatch(u)       BY <1>8 DEF Mismatch
<1>9. CASE Register(u)       BY <1>9 DEF Register, SizeMatches
<1>10. CASE RegisterFails(u) BY <1>10 DEF RegisterFails, SizeMatches
<1>11. CASE CancelRegister(u) BY <1>11 DEF CancelRegister, SizeMatches
<1>12. CASE Cleanup(u)       BY <1>12 DEF Cleanup
<1>13. CASE CleanupFails(u)  BY <1>13 DEF CleanupFails
<1>14. CASE Crash(u)         BY <1>14 DEF Crash
<1> QED
  BY <1>2, <1>3, <1>4, <1>5, <1>6, <1>7, <1>8, <1>9, <1>10, <1>11,
     <1>12, <1>13, <1>14 DEF UploadStep

\* UploadInv is inductive.
LEMMA UploadStarts == Init => UploadInv
  BY SizeAssumption DEF Init, UploadInv, TypeOK, Honest, Sizes, Absent, Outcomes

LEMMA UploadSteps == UploadInv /\ [Next]_vars => UploadInv'
<1> SUFFICES ASSUME UploadInv, [Next]_vars PROVE UploadInv'
  OBVIOUS
<1>1. CASE UNCHANGED vars
  BY <1>1 DEF UploadInv, TypeOK, Honest, vars
<1>2. ASSUME NEW u \in Uploads, UploadStep(u) PROVE UploadInv'
  <2>1. TypeOK'
    BY <1>2, StepKeepsTypes
  <2>2. Honest(u)'
    BY <1>2, StepIsHonest
  <2>3. ASSUME NEW v \in Uploads, v # u PROVE Honest(v)'
    BY <1>2, <2>3, StepIsLocal DEF UploadInv
  <2> QED
    BY <2>1, <2>2, <2>3 DEF UploadInv
<1> QED
  BY <1>1, <1>2 DEF Next, UploadStep

LEMMA UploadIsTrue == UploadInv => TypeOK /\ NeverTruncated /\ AnswerIsTrue
  BY DEF UploadInv, Honest, NeverTruncated, AnswerIsTrue

\* UploadInv holds in every reachable state.
THEOREM UploadInvariance == Spec => []UploadInv
  BY UploadStarts, UploadSteps, PTL DEF Spec

\* No file exceeds the maximal document, for any number of uploads.
THEOREM UploadTypes == Spec => []TypeOK
  BY UploadIsTrue, UploadInvariance, PTL

\* A registered document holds all its bytes or none, however the upload ended.
THEOREM UploadNeverTruncated == Spec => []NeverTruncated
  BY UploadIsTrue, UploadInvariance, PTL

\* What the client of an upload is told is true.
THEOREM UploadAnswersTruly == Spec => []AnswerIsTrue
  BY UploadIsTrue, UploadInvariance, PTL

-----------------------------------------------------------------------------
\* Ingestion: the inductive invariant

PageSpans == [page : 1 .. Len(pdf), start : 0 .. Size, end : 0 .. Size, ocr : BOOLEAN]

\* Each span is the text of its page, and every letter of a PDF is in a span.
Located ==
  /\ pdf \in Seq([extracted : Seq(Kinds), detected : Seq(Kinds)])
  /\ page \in 0 .. Len(pdf)
  /\ spans \in Seq(PageSpans)
  /\ \A i \in 1 .. Len(spans) :
       /\ spans[i].start < spans[i].end
       /\ Quotes(text, spans[i].start, spans[i].end, SourceOf(pdf, spans[i]))
  /\ pdf # <<>> => \A o \in 0 .. Size - 1 :
       ~IsBlank(o) => \E i \in 1 .. Len(spans) : spans[i].start <= o /\ o < spans[i].end

\* Splitting begins with a text that is not blank, and only then.
Staging ==
  /\ stage # "invalid"
  /\ stage \in {"idle", "content"} => text = <<>> /\ pdf = <<>> /\ spans = <<>> /\ page = 0
  /\ stage \notin {"chunking", "staged", "unsplittable"} =>
       /\ phase = "idle"
       /\ search = [low |-> 0, high |-> 0, best |-> 0, end |-> 0]
  /\ stage = "chunking" => ~Blank(0, Size)
  /\ stage = "staged" => staged = [i \in 1 .. Len(chunks) |-> Annotated(chunks[i])]

IngestionInv ==
  /\ UploadInv
  /\ SplitInv
  /\ Refused
  /\ Located
  /\ Staging
-----------------------------------------------------------------------------
\* Parsing and splitting apart

\* Splitting leaves the text as it is.
LEMMA SplitKeepsText == Split => UNCHANGED <<text, options>>
  BY DEF Split, Begin, FixedWindow, StructuredWindow, StructuredLimit, TokenWindow, TokenLimit,
         ProbeEnd, Oversized, EndFound, SearchOverlap, ProbeOverlap, OverlapFound, EndSplit,
         Advance

\* The text may be anything as long as splitting has not begun.
LEMMA TextIsFree ==
  ASSUME SplitInv, text' \in Seq(Kinds),
         phase = "idle", search = [low |-> 0, high |-> 0, best |-> 0, end |-> 0],
         UNCHANGED <<options, phase, position, windows, search, chunks>>
  PROVE  SplitInv' /\ Refused'
<1>1. Size' \in Nat
  BY DEF Size
<1>2. /\ chunks' = <<>> /\ position' = 0 /\ windows' = 0 /\ phase' = "idle"
      /\ options' \in Options
      /\ search' = [low |-> 0, high |-> 0, best |-> 0, end |-> 0]
  BY DEF SplitInv, Core, Counting
<1>3. Core'
  <2>1. chunks' \in Seq(Spans') /\ position' \in 0 .. Size' /\ text' \in Seq(Kinds)
    BY <1>1, <1>2
  <2>2. Fit(chunks)' /\ Covered(chunks, position)'
    BY <1>2 DEF Fit, Covered
  <2> QED
    BY <1>2, <2>1, <2>2 DEF Core, Splitting
<1>4. Counting'
  BY <1>1, <1>2, LimitsAssumption DEF Counting, Splitting
<1>5. Searching'
  <2> DEFINE n == Size'
  <2>0. n \in Nat
    BY <1>1
  <2> HIDE DEF n
  <2>1. 0 \in 0 .. n + 1 /\ 0 \in 0 .. n
    BY <2>0
  <2> USE DEF n
  <2>2. search' \in [low : 0 .. Size' + 1, high : 0 .. Size', best : 0 .. Size', end : 0 .. Size']
    BY <1>2, <2>1
  <2>3. phase' # "farthest" /\ phase' # "overlap"
    BY <1>2
  <2> QED
    BY <2>2, <2>3 DEF Searching
<1>6. Refused'
  BY <1>2 DEF Refused
<1> QED
  BY <1>3, <1>4, <1>5, <1>6 DEF SplitInv

\* Steps that leave the text and the pages alone leave the spans right.
LEMMA LocatedIsStable ==
  ASSUME Located, UNCHANGED <<text, pdf, spans>>, page' \in 0 .. Len(pdf)
  PROVE  Located'
<1>1. Size' = Size /\ PageSpans' = PageSpans
  BY DEF Size, PageSpans
<1>2. \A o : IsBlank(o)' = IsBlank(o)
  BY DEF IsBlank
<1> QED
  BY <1>1, <1>2 DEF Located
\* A quotation stays one when its excerpt does.
LEMMA QuotesStay ==
  ASSUME NEW t, NEW u, NEW s \in Nat, NEW e \in Nat, NEW source, Quotes(t, s, e, source),
         \A o \in s .. e - 1 : u[o + 1] = t[o + 1]
  PROVE  Quotes(u, s, e, source)
<1>1. CASE (\A o \in s .. e - 1 : t[o + 1] \in {"space", "line"}) /\ BlankText(source)
  BY <1>1 DEF Quotes
<1>2. CASE \E k \in 0 .. Len(source) - (e - s) :
             /\ \A o \in s .. e - 1 : t[o + 1] = source[k + (o - s) + 1]
             /\ \A j \in 1 .. Len(source) :
                  j <= k \/ k + (e - s) < j => source[j] \in {"space", "line"}
  BY <1>2 DEF Quotes
<1> QED
  BY <1>1, <1>2 DEF Quotes

\* Sequences: what is appended, and what they hold.
LEMMA Appended ==
  ASSUME NEW S, NEW g \in Seq(S), NEW t \in Seq(S)
  PROVE  /\ g \o t \in Seq(S) /\ Len(g \o t) = Len(g) + Len(t)
         /\ \A o \in 0 .. Len(g) - 1 : (g \o t)[o + 1] = g[o + 1]
         /\ \A o \in Len(g) .. Len(g) + Len(t) - 1 : (g \o t)[o + 1] = t[o - Len(g) + 1]
OBVIOUS

LEMMA HeldIn ==
  ASSUME NEW S, NEW T, NEW q \in Seq(S), \A i \in 1 .. Len(q) : q[i] \in T
  PROVE  q \in Seq(T)
OBVIOUS

\* A page that is appended is quoted from its first character on.
LEMMA QuotesAppended ==
  ASSUME NEW S, NEW g \in Seq(S), NEW source \in Seq(S)
  PROVE  Quotes(g \o source, Len(g), Len(g) + Len(source), source)
<1> DEFINE s == Len(g)
           e == Len(g) + Len(source)
<1>1. s \in Nat /\ e \in Nat /\ e - s = Len(source) /\ Len(source) \in Nat
  OBVIOUS
<1>2. 0 \in 0 .. Len(source) - (e - s)
  BY <1>1
<1>3. \A o \in s .. e - 1 : (g \o source)[o + 1] = source[0 + (o - s) + 1]
  OBVIOUS
<1>4. \A j \in 1 .. Len(source) :
        j <= 0 \/ 0 + (e - s) < j => source[j] \in {"space", "line"}
  BY <1>1
<1> QED
  BY <1>2, <1>3, <1>4 DEF Quotes

LEMMA MemberOf ==
  ASSUME NEW S, NEW q \in Seq(S), NEW i \in 1 .. Len(q)
  PROVE  q[i] \in S
OBVIOUS

\* The pages of a PDF, and what OCR is given.
LEMMA PageTextIsText ==
  ASSUME Located, page < Len(pdf)
  PROVE  /\ PageText \in Seq(Kinds)
         /\ page + 1 \in 1 .. Len(pdf)
         /\ Len(pdf) \in Nat
         /\ pdf # <<>>
         /\ NeedsOcr \in BOOLEAN
<1>0. pdf \in Seq([extracted : Seq(Kinds), detected : Seq(Kinds)]) /\ page \in 0 .. Len(pdf)
  BY DEF Located
<1>1. Len(pdf) \in Nat /\ page + 1 \in 1 .. Len(pdf)
  BY <1>0
<1>2. pdf[page + 1] \in [extracted : Seq(Kinds), detected : Seq(Kinds)]
  BY <1>0, <1>1, MemberOf
<1>3. pdf[page + 1].extracted \in Seq(Kinds) /\ pdf[page + 1].detected \in Seq(Kinds)
  BY <1>2
<1> QED
  BY <1>1, <1>3 DEF PageText, NeedsOcr

\* A page that is read is added with its span; the spans before it stay.
LEMMA ReadPageKeepsLocated ==
  ASSUME Located, text \in Seq(Kinds), ReadPage
  PROVE  Located' /\ text' \in Seq(Kinds)
<1> DEFINE glue  == IF spans = <<>> THEN <<>> ELSE text \o <<"line", "line">>
           fresh == [page  |-> page + 1,
                     start |-> Len(glue),
                     end   |-> Len(glue) + Len(PageText),
                     ocr   |-> NeedsOcr /\ ~BlankText(PageText)]
<1>1. /\ page < Len(pdf) /\ page' = page + 1 /\ pdf' = pdf
      /\ page \in 0 .. Len(pdf)
      /\ spans \in Seq(PageSpans)
      /\ pdf \in Seq([extracted : Seq(Kinds), detected : Seq(Kinds)])
  BY DEF ReadPage, Located
<1>2. /\ PageText \in Seq(Kinds) /\ page + 1 \in 1 .. Len(pdf) /\ pdf # <<>>
      /\ NeedsOcr \in BOOLEAN
  BY <1>1, PageTextIsText
<1>3. /\ glue \in Seq(Kinds)
      /\ Len(glue) = IF spans = <<>> THEN 0 ELSE Len(text) + 2
  <2>1. <<"line", "line">> \in Seq(Kinds) /\ <<>> \in Seq(Kinds)
    BY DEF Kinds
  <2> QED
    BY <2>1
<1>4. CASE PageText = <<>>
  <2>1. UNCHANGED <<text, spans>>
    BY <1>4 DEF ReadPage
  <2>2. page' \in 0 .. Len(pdf)
    BY <1>1, <1>2
  <2> QED
    BY <1>1, <2>1, <2>2, LocatedIsStable
<1>5. CASE PageText # <<>>
  <2>1. text' = glue \o PageText /\ spans' = Append(spans, fresh)
    BY <1>3, <1>5 DEF ReadPage
  <2>2. PICK n \in Nat : n = Len(glue)
    BY <1>3
  <2>3. PICK t \in Seq(Kinds) : t = PageText /\ t # <<>> /\ Len(t) \in Nat \ {0}
    BY <1>2, <1>5
  <2>4. /\ text' \in Seq(Kinds) /\ Len(text') = n + Len(t)
        /\ \A o \in 0 .. n - 1 : text'[o + 1] = glue[o + 1]
        /\ \A o \in n .. n + Len(t) - 1 : text'[o + 1] = t[o - n + 1]
    <3> HIDE DEF glue
    <3>1. text' = glue \o t
      BY <2>1, <2>3
    <3> QED
      BY <1>3, <2>2, <3>1, Appended
  <2>5. Quotes(text', n, n + Len(t), t)
    <3>1. Quotes(glue \o PageText, Len(glue), Len(glue) + Len(PageText), PageText)
      BY <1>2, <1>3, QuotesAppended
    <3> QED
      BY <2>1, <2>2, <2>3, <3>1
  <2>6. Quotes(text', n, n + Len(t), SourceOf(pdf, fresh))
    <3>1. CASE NeedsOcr /\ BlankText(PageText)
      <4>1. BlankText(t) /\ BlankText(pdf[page + 1].extracted)
        BY <2>3, <3>1 DEF NeedsOcr
      <4>2. \A o \in n .. n + Len(t) - 1 : text'[o + 1] = t[o - n + 1]
        BY <2>4
      <4>3. \A o \in n .. n + Len(t) - 1 : o - n + 1 \in 1 .. Len(t)
        BY <2>2, <2>3
      <4>4. \A o \in n .. n + Len(t) - 1 : text'[o + 1] \in {"space", "line"}
        BY <4>1, <4>2, <4>3 DEF BlankText
      <4>5. SourceOf(pdf, fresh) = pdf[page + 1].extracted
        BY <3>1 DEF SourceOf
      <4> QED
        BY <4>1, <4>4, <4>5 DEF Quotes
    <3>2. CASE ~(NeedsOcr /\ BlankText(PageText))
      <4>1. SourceOf(pdf, fresh) = t
        BY <2>3, <3>2 DEF SourceOf, PageText
      <4> QED
        BY <2>5, <4>1
    <3> QED
      BY <3>1, <3>2
  <2> DEFINE Room == [page : 1 .. Len(pdf'), start : 0 .. Len(text'), end : 0 .. Len(text'),
                      ocr : BOOLEAN]
  <2>7. /\ fresh \in Room
        /\ fresh.start = n /\ fresh.end = n + Len(t) /\ fresh.start < fresh.end
    <3>1. n \in 0 .. Len(text') /\ n + Len(t) \in 0 .. Len(text') /\ n < n + Len(t)
      BY <2>2, <2>3, <2>4
    <3>2. page + 1 \in 1 .. Len(pdf')
      BY <1>1, <1>2
    <3>3. (NeedsOcr /\ ~BlankText(PageText)) \in BOOLEAN
      OBVIOUS
    <3> QED
      BY <2>2, <2>3, <3>1, <3>2, <3>3
  <2>8. ASSUME NEW i \in 1 .. Len(spans)
        PROVE  /\ spans[i] \in Room
               /\ spans[i].start < spans[i].end
               /\ Quotes(text', spans[i].start, spans[i].end, SourceOf(pdf, spans[i]))
               /\ \A o \in 0 .. Len(text) - 1 : text'[o + 1] = text[o + 1]
    <3>1. spans # <<>> /\ glue = text \o <<"line", "line">> /\ n = Len(text) + 2
      BY <1>1, <1>3, <2>2
    <3>2. \A o \in 0 .. Len(text) - 1 : text'[o + 1] = text[o + 1]
      <4>1. <<"line", "line">> \in Seq(Kinds) /\ Len(<<"line", "line">>) = 2
        BY DEF Kinds
      <4>2. \A o \in 0 .. Len(text) - 1 : glue[o + 1] = text[o + 1]
        BY <3>1, <4>1, Appended
      <4>3. \A o \in 0 .. Len(text) - 1 : o \in 0 .. n - 1
        BY <3>1
      <4> QED
        BY <2>4, <4>2, <4>3
    <3>3. spans[i] \in PageSpans
      BY <1>1
    <3>4. /\ spans[i].start \in 0 .. Len(text) /\ spans[i].end \in 0 .. Len(text)
          /\ spans[i].start < spans[i].end
          /\ Quotes(text, spans[i].start, spans[i].end, SourceOf(pdf, spans[i]))
      BY <3>3 DEF Located, PageSpans, Size
    <3>5. spans[i] \in Room
      <4>1. \A k \in 0 .. Len(text) : k \in 0 .. Len(text')
        BY <2>3, <2>4, <3>1
      <4> QED
        BY <1>1, <3>3, <4>1 DEF PageSpans, Size
    <3>6. \A o \in spans[i].start .. spans[i].end - 1 : text'[o + 1] = text[o + 1]
      BY <3>2, <3>4
    <3>7. Quotes(text', spans[i].start, spans[i].end, SourceOf(pdf, spans[i]))
      <4>1. spans[i].start \in Nat /\ spans[i].end \in Nat
        BY <3>4
      <4> QED
        BY <3>4, <3>6, <4>1, QuotesStay
    <3> QED
      BY <3>2, <3>4, <3>5, <3>7
  <2> HIDE DEF fresh, Room
  <2>9. /\ Len(spans') = Len(spans) + 1
        /\ \A i \in 1 .. Len(spans) : spans'[i] = spans[i]
        /\ spans'[Len(spans) + 1] = fresh
        /\ Len(spans) \in Nat
    BY <1>1, <2>1
  <2>10. spans' \in Seq(Room)
    <3>1. \A i \in 1 .. Len(spans) : spans[i] \in Room
      BY <2>8
    <3>2. spans \in Seq(Room)
      BY <1>1, <3>1, HeldIn
    <3> QED
      BY <2>1, <2>7, <3>2
  <2>11. ASSUME NEW i \in 1 .. Len(spans')
         PROVE  /\ spans'[i].start < spans'[i].end
                /\ Quotes(text', spans'[i].start, spans'[i].end, SourceOf(pdf', spans'[i]))
    <3>1. CASE i = Len(spans) + 1
      BY <1>1, <2>6, <2>7, <2>9, <3>1
    <3>2. CASE i # Len(spans) + 1
      <4>1. i \in 1 .. Len(spans)
        BY <2>9, <3>2
      <4> QED
        BY <1>1, <2>8, <2>9, <4>1
    <3> QED
      BY <3>1, <3>2
  <2>12. ASSUME NEW o \in 0 .. Len(text') - 1, text'[o + 1] \notin {"space", "line"}
         PROVE  \E i \in 1 .. Len(spans') : spans'[i].start <= o /\ o < spans'[i].end
    <3>1. CASE n <= o
      <4>1. fresh.start <= o /\ o < fresh.end
        BY <2>2, <2>3, <2>4, <2>7, <3>1
      <4>2. Len(spans) + 1 \in 1 .. Len(spans')
        BY <2>9
      <4> QED
        BY <2>9, <4>1, <4>2
    <3>2. CASE o < n
      <4>1. spans # <<>> /\ n = Len(text) + 2 /\ glue = text \o <<"line", "line">>
        BY <1>3, <2>2, <3>2
      <4>2. 1 \in 1 .. Len(spans)
        BY <1>1, <4>1
      <4>3. o \in 0 .. n - 1 /\ text'[o + 1] = glue[o + 1]
        BY <2>2, <2>4, <3>2
      <4>4. Len(text) <= o => glue[o + 1] = "line"
        <5>1. <<"line", "line">> \in Seq(Kinds) /\ Len(<<"line", "line">>) = 2
          BY DEF Kinds
        <5>2. Len(text) <= o => o - Len(text) = 0 \/ o - Len(text) = 1
          BY <4>1, <4>3
        <5>3. Len(text) <= o => glue[o + 1] = <<"line", "line">>[o - Len(text) + 1]
          BY <4>1, <4>3, <5>1, Appended
        <5> QED
          BY <5>2, <5>3
      <4>5. o \in 0 .. Len(text) - 1
        <5>1. ~(Len(text) <= o)
          BY <4>3, <4>4, <2>12
        <5>2. Len(text) \in Nat
          OBVIOUS
        <5> QED
          BY <5>1, <5>2
      <4>6. text'[o + 1] = text[o + 1]
        BY <2>8, <4>2, <4>5
      <4>7. o \in 0 .. Size - 1 /\ ~IsBlank(o)
        BY <2>12, <4>5, <4>6 DEF Size, IsBlank
      <4>8. PICK i \in 1 .. Len(spans) : spans[i].start <= o /\ o < spans[i].end
        BY <1>2, <4>7 DEF Located
      <4>9. i \in 1 .. Len(spans') /\ spans'[i] = spans[i]
        BY <2>9
      <4> QED
        BY <4>8, <4>9
    <3> QED
      BY <2>2, <3>1, <3>2
  <2>13. page' \in 0 .. Len(pdf')
    BY <1>1, <1>2
  <2> USE DEF Room
  <2>14. PageSpans' = Room /\ Size' = Len(text')
    BY DEF PageSpans, Size
  <2> HIDE DEF Room
  <2> QED
    BY <1>1, <2>4, <2>10, <2>11, <2>12, <2>13, <2>14 DEF Located, IsBlank
<1> QED
  BY <1>4, <1>5

-----------------------------------------------------------------------------
\* Stripping the joined pages

\* NotEmpty keeps exactly the spans that are not empty.
LEMMA NotEmptyKeeps ==
  ASSUME NEW S, NEW q \in Seq(S)
  PROVE  /\ NotEmpty(q) \in Seq(S)
         /\ \A j \in 1 .. Len(NotEmpty(q)) :
              \E i \in 1 .. Len(q) : NotEmpty(q)[j] = q[i] /\ q[i].start < q[i].end
         /\ \A i \in 1 .. Len(q) : q[i].start < q[i].end =>
              \E j \in 1 .. Len(NotEmpty(q)) : NotEmpty(q)[j] = q[i]
<1> DEFINE kept     == {i \in 1 .. Len(q) : q[i].start < q[i].end}
           below(i) == {k \in kept : k < i}
           n        == Cardinality(kept)
           place    == [i \in kept |-> Cardinality(below(i))]
<1>1. IsFiniteSet(kept) /\ n \in Nat
  <2>1. IsFiniteSet(1 .. Len(q))
    BY FS_Interval
  <2> QED
    BY <2>1, FS_Subset, FS_CardinalityType
<1>2. ASSUME NEW i \in kept
      PROVE  IsFiniteSet(below(i)) /\ Cardinality(below(i)) \in 0 .. n - 1
  <2>1. below(i) \in SUBSET kept /\ i \notin below(i)
    <3>1. ~(i < i)
      OBVIOUS
    <3> HIDE DEF kept
    <3> QED
      BY <3>1
  <2> HIDE DEF below, kept
  <2>2. /\ IsFiniteSet(below(i)) /\ Cardinality(below(i)) <= n
        /\ Cardinality(below(i)) = n => below(i) = kept
    BY <1>1, <2>1, FS_Subset
  <2>3. Cardinality(below(i)) \in Nat /\ Cardinality(below(i)) # n
    BY <2>1, <2>2, FS_CardinalityType
  <2> QED
    BY <1>1, <2>2, <2>3
<1>3. ASSUME NEW i \in kept, NEW j \in kept, i < j
      PROVE  Cardinality(below(i)) # Cardinality(below(j))
  <2>1. below(i) \in SUBSET below(j) /\ i \in below(j) /\ i \notin below(i)
    <3>1. \A k \in kept : k \in Int
      OBVIOUS
    <3>2. \A k \in kept : k < i => k < j
      BY <1>3, <3>1
    <3>3. ~(i < i)
      BY <3>1
    <3> HIDE DEF kept
    <3> QED
      BY <1>3, <3>2, <3>3
  <2> HIDE DEF below, kept
  <2>2. Cardinality(below(i)) = Cardinality(below(j)) => below(i) = below(j)
    BY <1>2, <2>1, FS_Subset
  <2> QED
    BY <2>1, <2>2
<1>4. place \in Injection(kept, 0 .. n - 1)
  <2>1. \A i, j \in kept : i < j \/ j < i \/ i = j
    OBVIOUS
  <2> HIDE DEF below, kept, n
  <2>2. place \in [kept -> 0 .. n - 1]
    BY <1>2
  <2>3. \A i, j \in kept : place[i] = place[j] => i = j
    BY <1>3, <2>1
  <2> QED
    BY <2>2, <2>3 DEF Injection, IsInjective
<1>5. \A j \in 1 .. n : \E i \in kept : Cardinality(below(i)) = j - 1
  <2>1. IsFiniteSet(0 .. n - 1) /\ Cardinality(0 .. n - 1) = n
    <3> HIDE DEF n
    <3> QED
      BY <1>1, FS_Interval
  <2> HIDE DEF below, kept
  <2>2. place \in Surjection(kept, 0 .. n - 1)
    <3> HIDE DEF place, n
    <3> QED
      BY <1>1, <1>4, <2>1, FS_Injection DEF n
  <2>3. \A k \in 0 .. n - 1 : \E i \in kept : place[i] = k
    <3> HIDE DEF place
    <3> QED
      BY <2>2 DEF Surjection
  <2>4. \A j \in 1 .. n : j - 1 \in 0 .. n - 1
    BY <1>1
  <2> QED
    BY <2>3, <2>4
<1> DEFINE Chosen(j) == CHOOSE i \in kept : Cardinality(below(i)) = j - 1
<1>6. ASSUME NEW j \in 1 .. n
      PROVE  Chosen(j) \in kept /\ Cardinality(below(Chosen(j))) = j - 1
  <2> HIDE DEF below, kept
  <2> QED
    BY <1>5
<1>7. NotEmpty(q) = [j \in 1 .. n |-> q[Chosen(j)]]
  <2>1. DOMAIN q = 1 .. Len(q)
    OBVIOUS
  <2> QED
    BY <2>1 DEF NotEmpty
<1> HIDE DEF Chosen
<1>8. NotEmpty(q) \in Seq(S) /\ Len(NotEmpty(q)) = n
  <2>1. \A j \in 1 .. n : q[Chosen(j)] \in S
    <3>1. \A j \in 1 .. n : Chosen(j) \in 1 .. Len(q)
      BY <1>6
    <3> HIDE DEF n
    <3> QED
      BY <3>1, MemberOf
  <2> HIDE DEF n
  <2> QED
    BY <1>1, <1>7, <2>1
<1>9. ASSUME NEW j \in 1 .. n
      PROVE  \E i \in 1 .. Len(q) : NotEmpty(q)[j] = q[i] /\ q[i].start < q[i].end
  <2>1. Chosen(j) \in 1 .. Len(q) /\ q[Chosen(j)].start < q[Chosen(j)].end
    BY <1>6
  <2>2. NotEmpty(q)[j] = q[Chosen(j)]
    <3> HIDE DEF n
    <3> QED
      BY <1>7
  <2> QED
    BY <2>1, <2>2
<1>10. ASSUME NEW i \in 1 .. Len(q), q[i].start < q[i].end
       PROVE  \E j \in 1 .. n : NotEmpty(q)[j] = q[i]
  <2>1. i \in kept
    BY <1>10
  <2> HIDE DEF kept, below
  <2>2. PICK j \in 1 .. n : j - 1 = Cardinality(below(i))
    <3>1. Cardinality(below(i)) + 1 \in 1 .. n /\ Cardinality(below(i)) \in Nat
      <4> HIDE DEF n
      <4> QED
        BY <1>1, <1>2, <2>1
    <3> QED
      BY <3>1
  <2>3. place[Chosen(j)] = place[i] /\ Chosen(j) \in kept
    BY <1>6, <2>1, <2>2
  <2>4. Chosen(j) = i
    <3> HIDE DEF place
    <3> QED
      BY <1>4, <2>1, <2>3 DEF Injection, IsInjective
  <2> HIDE DEF n
  <2> QED
    BY <1>7, <2>4
<1> HIDE DEF n
<1> QED
  BY <1>8, <1>9, <1>10

\* What is left of a quotation between the first and the last letter is one.
LEMMA QuotesCut ==
  ASSUME NEW t, NEW u, NEW s \in Nat, NEW e \in Nat, s < e, NEW source \in Seq(Kinds),
         Quotes(t, s, e, source),
         NEW lead \in Nat, NEW n \in Nat,
         \A o \in 0 .. n - 1 : u[o + 1] = t[o + lead + 1],
         \A o \in s .. e - 1 : o < lead \/ lead + n <= o => t[o + 1] \in {"space", "line"},
         Greatest(0, s - lead) < Least(n, e - lead)
  PROVE  Quotes(u, Greatest(0, s - lead), Least(n, e - lead), source)
<1> DEFINE a == Greatest(0, s - lead)
           b == Least(n, e - lead)
<1>1. /\ a \in Nat /\ b \in Nat /\ a < b /\ b <= n /\ b + lead <= e /\ s <= a + lead
      /\ a + lead = s \/ a + lead = lead
      /\ b + lead = e \/ b + lead = lead + n
  BY DEF Greatest, Least
<1> HIDE DEF a, b
<1>2. \A o \in a .. b - 1 : u[o + 1] = t[o + lead + 1] /\ o + lead \in s .. e - 1
  BY <1>1
<1>3. CASE (\A o \in s .. e - 1 : t[o + 1] \in {"space", "line"}) /\ BlankText(source)
  <2>1. \A o \in a .. b - 1 : u[o + 1] \in {"space", "line"}
    BY <1>2, <1>3
  <2> QED
    BY <1>3, <2>1 DEF Quotes, a, b
<1>4. CASE \E k \in 0 .. Len(source) - (e - s) :
             /\ \A o \in s .. e - 1 : t[o + 1] = source[k + (o - s) + 1]
             /\ \A j \in 1 .. Len(source) :
                  j <= k \/ k + (e - s) < j => source[j] \in {"space", "line"}
  <2>1. PICK k \in 0 .. Len(source) - (e - s) :
             /\ \A o \in s .. e - 1 : t[o + 1] = source[k + (o - s) + 1]
             /\ \A j \in 1 .. Len(source) :
                  j <= k \/ k + (e - s) < j => source[j] \in {"space", "line"}
    BY <1>4
  <2> DEFINE m == k + (a + lead - s)
  <2>2. Len(source) \in Nat /\ m \in 0 .. Len(source) - (b - a)
    BY <1>1
  <2>3. ASSUME NEW o \in a .. b - 1
        PROVE  u[o + 1] = source[m + (o - a) + 1]
    <3>1. u[o + 1] = source[k + (o + lead - s) + 1]
      <4> DEFINE p == o + lead
      <4>1. u[o + 1] = t[p + 1] /\ p \in s .. e - 1
        BY <1>2
      <4> HIDE DEF p
      <4>2. t[p + 1] = source[k + (p - s) + 1]
        BY <2>1, <4>1
      <4> QED
        BY <4>1, <4>2 DEF p
    <3>2. k + (o + lead - s) + 1 = m + (o - a) + 1
      BY <1>1
    <3> QED
      BY <3>1, <3>2
  <2>4. ASSUME NEW j \in 1 .. Len(source), j <= m \/ m + (b - a) < j
        PROVE  source[j] \in {"space", "line"}
    <3>1. CASE j <= k \/ k + (e - s) < j
      BY <2>1, <3>1
    <3>2. CASE ~(j <= k \/ k + (e - s) < j)
      <4> DEFINE o == j - k - 1 + s
      <4>1. o \in s .. e - 1 /\ k + (o - s) + 1 = j
        BY <2>2, <3>2
      <4>2. o < lead \/ lead + n <= o
        BY <1>1, <2>2, <2>4, <3>2
      <4> HIDE DEF o
      <4>3. t[o + 1] = source[j] /\ t[o + 1] \in {"space", "line"}
        BY <2>1, <4>1, <4>2
      <4> QED
        BY <4>3
    <3> QED
      BY <3>1, <3>2
  <2> HIDE DEF m
  <2> QED
    BY <2>2, <2>3, <2>4 DEF Quotes, a, b
<1> QED
  BY <1>3, <1>4 DEF Quotes

\* The part of a span that lies between the first letter and the last.
LEMMA Clipped ==
  ASSUME NEW s \in Nat, NEW e \in Nat, NEW lead \in Nat, NEW n \in Nat
  PROVE  LET a == Greatest(0, s - lead)
             b == Least(n, e - lead)
         IN  /\ a < b => a \in 0 .. n /\ b \in 0 .. n
             /\ \A o \in 0 .. n - 1 : s <= o + lead /\ o + lead < e => a <= o /\ o < b /\ a < b
BY DEF Greatest, Least

LEMMA ShiftedIs ==
  ASSUME NEW P, NEW span \in [page : P, start : Int, end : Int, ocr : BOOLEAN],
         NEW lead \in Int, NEW n \in Int
  PROVE  Shifted(span, lead, n) = [page  |-> span.page,
                                   start |-> Greatest(0, span.start - lead),
                                   end   |-> Least(n, span.end - lead),
                                   ocr   |-> span.ocr]
<1> DEFINE a == Greatest(0, span.start - lead)
           b == Least(n, span.end - lead)
<1>1. Shifted(span, lead, n) = [span EXCEPT !.start = a, !.end = b]
  BY DEF Shifted
<1> HIDE DEF a, b
<1>2. Shifted(span, lead, n) = [page |-> span.page, start |-> a, end |-> b, ocr |-> span.ocr]
  BY <1>1
<1> QED
  BY <1>2 DEF a, b

\* The stripped text begins and ends with a letter; the spans move with it.
LEMMA ClosePdfKeepsLocated ==
  ASSUME Located, text \in Seq(Kinds), ClosePdf, ~BlankText(text)
  PROVE  Located' /\ text' \in Seq(Kinds) /\ ~Blank(0, Size)'
<1> DEFINE letters == {o \in 0 .. Len(text) - 1 : ~IsBlank(o)}
           lead    == FirstOf(letters)
           last    == LastOf(letters)
           n       == last - lead + 1
           moved   == [i \in 1 .. Len(spans) |-> Shifted(spans[i], lead, n)]
           P       == 1 .. Len(pdf)
<1>1. Len(text) \in Nat
  OBVIOUS
<1>2. letters \in SUBSET (0 .. Len(text)) /\ letters # {}
  <2>1. PICK i \in 1 .. Len(text) : text[i] \notin {"space", "line"}
    BY DEF BlankText
  <2>2. i - 1 \in 0 .. Len(text) - 1 /\ (i - 1) + 1 = i
    BY <1>1
  <2>3. i - 1 \in letters
    BY <2>1, <2>2 DEF IsBlank
  <2>4. \A o \in 0 .. Len(text) - 1 : o \in 0 .. Len(text)
    BY <1>1
  <2> QED
    BY <2>3, <2>4
<1>3. /\ lead \in letters /\ last \in letters
      /\ \A o \in letters : lead <= o /\ o <= last
  <2> HIDE DEF letters
  <2> QED
    BY <1>1, <1>2, FirstOfIsFirst, LastOfIsLast
<1> HIDE DEF lead, last
<1>4. /\ lead \in Nat /\ last \in Nat /\ lead <= last /\ last < Len(text)
      /\ n \in Nat \ {0} /\ lead + n = last + 1
      /\ ~IsBlank(lead)
      /\ \A o \in 0 .. Len(text) - 1 : o < lead \/ lead + n <= o => IsBlank(o)
  BY <1>1, <1>3
<1>5. /\ text' = SubSeq(text, lead + 1, last + 1)
      /\ Len(SubSeq(text, lead + 1, last + 1)) = n
  <2>1. text' = SubSeq(text, lead + 1, last + 1)
    BY DEF ClosePdf, lead, last
  <2>2. Len(SubSeq(text, lead + 1, last + 1)) = last - lead + 1
    <3>1. lead + 1 \in 1 .. Len(text) + 1 /\ last + 1 \in lead .. Len(text)
      BY <1>1, <1>4
    <3> HIDE DEF n
    <3> QED
      BY <1>4, <3>1
  <2> QED
    BY <2>1, <2>2
<1>6. spans' = NotEmpty(moved) /\ pdf' = pdf /\ page' = page
  BY <1>5 DEF ClosePdf, lead, last
<1> HIDE DEF n
<1>7. /\ text' \in Seq(Kinds) /\ Len(text') = n
      /\ \A o \in 0 .. n - 1 : text'[o + 1] = text[o + lead + 1]
  <2>1. lead + 1 \in 1 .. Len(text) /\ last + 1 \in 1 .. Len(text) /\ (last + 1) - (lead + 1) + 1 = n
    BY <1>1, <1>4
  <2>2. text' \in Seq(Kinds)
    <3>1. SubSeq(text, lead + 1, last + 1) \in Seq(Kinds)
      BY <2>1
    <3> QED
      BY <1>5, <3>1
  <2>3. ASSUME NEW o \in 0 .. n - 1
        PROVE  text'[o + 1] = text[o + lead + 1]
    <3>1. o + 1 \in 1 .. n
      BY <1>4
    <3>2. SubSeq(text, lead + 1, last + 1)[o + 1] = text[(lead + 1) + (o + 1) - 1]
      BY <2>1, <3>1
    <3>3. (lead + 1) + (o + 1) - 1 = o + lead + 1
      BY <1>4
    <3> QED
      BY <1>5, <3>2, <3>3
  <2> QED
    BY <1>5, <2>2, <2>3
<1>8. spans \in Seq(PageSpans) /\ Len(spans) \in Nat
  BY DEF Located
<1>9. ASSUME NEW i \in 1 .. Len(spans)
      PROVE  /\ moved[i] = Shifted(spans[i], lead, n)
             /\ moved[i] \in [page : P, start : Int, end : Int, ocr : BOOLEAN]
             /\ moved[i].page = spans[i].page /\ moved[i].ocr = spans[i].ocr
             /\ moved[i].start = Greatest(0, spans[i].start - lead)
             /\ moved[i].end = Least(n, spans[i].end - lead)
             /\ spans[i].start \in Nat /\ spans[i].end \in Nat
             /\ spans[i].start < spans[i].end /\ spans[i].end <= Len(text)
             /\ spans[i].page \in P
  <2>1. spans[i] \in [page : P, start : 0 .. Len(text), end : 0 .. Len(text), ocr : BOOLEAN]
    <3>1. spans[i] \in PageSpans
      BY <1>8
    <3> QED
      BY <3>1 DEF PageSpans, Size
  <2>2. spans[i].start < spans[i].end
    BY DEF Located
  <2> HIDE DEF P
  <2>3. moved[i] = Shifted(spans[i], lead, n)
    OBVIOUS
  <2>4. n \in Nat /\ lead \in Nat
    BY <1>4
  <2> HIDE DEF moved
  <2>5. /\ moved[i] \in [page : P, start : Int, end : Int, ocr : BOOLEAN]
        /\ moved[i].page = spans[i].page /\ moved[i].ocr = spans[i].ocr
        /\ moved[i].start = Greatest(0, spans[i].start - lead)
        /\ moved[i].end = Least(n, spans[i].end - lead)
    <3> DEFINE a == Greatest(0, spans[i].start - lead)
               b == Least(n, spans[i].end - lead)
    <3>1. spans[i] \in [page : P, start : Int, end : Int, ocr : BOOLEAN]
      BY <1>1, <2>1
    <3>2. moved[i] = [page |-> spans[i].page, start |-> a, end |-> b, ocr |-> spans[i].ocr]
      <4>1. lead \in Int /\ n \in Int
        BY <2>4
      <4> DEFINE span == spans[i]
      <4>2. span \in [page : P, start : Int, end : Int, ocr : BOOLEAN]
        BY <3>1
      <4> HIDE DEF lead, n, span
      <4>3. Shifted(span, lead, n) = [page  |-> span.page,
                                      start |-> Greatest(0, span.start - lead),
                                      end   |-> Least(n, span.end - lead),
                                      ocr   |-> span.ocr]
        BY <4>1, <4>2, ShiftedIs, Zenon
      <4> QED
        BY <2>3, <4>3, Zenon DEF span
    <3>3. a \in Int /\ b \in Int /\ spans[i].page \in P /\ spans[i].ocr \in BOOLEAN
      BY <2>4, <3>1 DEF Greatest, Least
    <3> HIDE DEF a, b
    <3> QED
      BY <3>2, <3>3 DEF a, b
  <2>6. /\ spans[i].start \in Nat /\ spans[i].end \in Nat
        /\ spans[i].end <= Len(text) /\ spans[i].page \in P
    BY <1>1, <2>1
  <2> QED
    BY <2>2, <2>3, <2>5, <2>6
<1>10. moved \in Seq([page : P, start : Int, end : Int, ocr : BOOLEAN]) /\ Len(moved) = Len(spans)
  <2>1. \A i \in 1 .. Len(spans) :
          Shifted(spans[i], lead, n) \in [page : P, start : Int, end : Int, ocr : BOOLEAN]
    BY <1>9
  <2> HIDE DEF P
  <2> QED
    BY <1>8, <2>1
<1> HIDE DEF moved
<1>11. ASSUME NEW j \in 1 .. Len(spans')
       PROVE  /\ spans'[j] \in [page : P, start : 0 .. n, end : 0 .. n, ocr : BOOLEAN]
              /\ spans'[j].start < spans'[j].end
              /\ Quotes(text', spans'[j].start, spans'[j].end, SourceOf(pdf, spans'[j]))
  <2>1. PICK i \in 1 .. Len(spans) : spans'[j] = moved[i] /\ moved[i].start < moved[i].end
    <3> HIDE DEF P
    <3> QED
      BY <1>6, <1>10, NotEmptyKeeps
  <2>2. moved[i].start \in 0 .. n /\ moved[i].end \in 0 .. n
    <3>1. /\ spans[i].start \in Nat /\ spans[i].end \in Nat
          /\ moved[i].start = Greatest(0, spans[i].start - lead)
          /\ moved[i].end = Least(n, spans[i].end - lead)
      BY <1>9
    <3>2. n \in Nat /\ lead \in Nat
      BY <1>4
    <3>3. LET a == Greatest(0, spans[i].start - lead)
              b == Least(n, spans[i].end - lead)
          IN  a < b => a \in 0 .. n /\ b \in 0 .. n
      BY <3>1, <3>2, Clipped
    <3> QED
      BY <2>1, <3>1, <3>3
  <2>3. moved[i] \in [page : P, start : 0 .. n, end : 0 .. n, ocr : BOOLEAN]
    <3>1. moved[i] \in [page : P, start : Int, end : Int, ocr : BOOLEAN]
      BY <1>9
    <3> HIDE DEF P
    <3> QED
      BY <2>2, <3>1
  <2>4. SourceOf(pdf, moved[i]) = SourceOf(pdf, spans[i])
    BY <1>9 DEF SourceOf
  <2>5. SourceOf(pdf, spans[i]) \in Seq(Kinds)
    <3>1. pdf \in Seq([extracted : Seq(Kinds), detected : Seq(Kinds)])
      BY DEF Located
    <3>2. pdf[spans[i].page] \in [extracted : Seq(Kinds), detected : Seq(Kinds)]
      BY <1>9, <3>1, MemberOf
    <3>3. /\ pdf[spans[i].page].extracted \in Seq(Kinds)
          /\ pdf[spans[i].page].detected \in Seq(Kinds)
      BY <3>2
    <3> QED
      BY <3>3 DEF SourceOf
  <2>6. Quotes(text, spans[i].start, spans[i].end, SourceOf(pdf, spans[i]))
    BY DEF Located
  <2>7. \A o \in spans[i].start .. spans[i].end - 1 :
          o < lead \/ lead + n <= o => text[o + 1] \in {"space", "line"}
    <3>1. \A o \in spans[i].start .. spans[i].end - 1 : o \in 0 .. Len(text) - 1
      BY <1>1, <1>9
    <3> QED
      BY <1>4, <3>1 DEF IsBlank
  <2>8. Quotes(text', Greatest(0, spans[i].start - lead), Least(n, spans[i].end - lead),
               SourceOf(pdf, spans[i]))
    <3>1. /\ spans[i].start \in Nat /\ spans[i].end \in Nat /\ spans[i].start < spans[i].end
          /\ Greatest(0, spans[i].start - lead) < Least(n, spans[i].end - lead)
      BY <1>9, <2>1
    <3>2. n \in Nat /\ lead \in Nat
      BY <1>4
    <3>3. \A o \in 0 .. n - 1 : text'[o + 1] = text[o + lead + 1]
      BY <1>7
    <3> QED
      BY <2>5, <2>6, <2>7, <3>1, <3>2, <3>3, QuotesCut
  <2> QED
    BY <1>9, <2>1, <2>3, <2>4, <2>8
<1>12. spans' \in Seq([page : P, start : 0 .. n, end : 0 .. n, ocr : BOOLEAN])
  <2>1. spans' \in Seq([page : P, start : Int, end : Int, ocr : BOOLEAN])
    <3> HIDE DEF P
    <3> QED
      BY <1>6, <1>10, NotEmptyKeeps
  <2>2. \A j \in 1 .. Len(spans') :
          spans'[j] \in [page : P, start : 0 .. n, end : 0 .. n, ocr : BOOLEAN]
    BY <1>11
  <2> HIDE DEF P
  <2> QED
    BY <2>1, <2>2, HeldIn
<1>13. ASSUME pdf # <<>>, NEW o \in 0 .. n - 1, text'[o + 1] \notin {"space", "line"}
       PROVE  \E j \in 1 .. Len(spans') : spans'[j].start <= o /\ o < spans'[j].end
  <2>1. /\ o + lead \in 0 .. Size - 1 /\ o + lead \in Nat /\ o \in Nat /\ o < n
        /\ text[(o + lead) + 1] \notin {"space", "line"}
    BY <1>1, <1>4, <1>7, <1>13 DEF Size
  <2>2. PICK i \in 1 .. Len(spans) : spans[i].start <= o + lead /\ o + lead < spans[i].end
    <3> DEFINE p == o + lead
    <3>1. p \in 0 .. Size - 1 /\ ~IsBlank(p)
      BY <2>1 DEF IsBlank
    <3> HIDE DEF p
    <3>2. \E i \in 1 .. Len(spans) : spans[i].start <= p /\ p < spans[i].end
      BY <1>13, <3>1 DEF Located
    <3> QED
      BY <3>2 DEF p
  <2>3. moved[i].start <= o /\ o < moved[i].end /\ moved[i].start < moved[i].end
    <3>1. /\ spans[i].start \in Nat /\ spans[i].end \in Nat
          /\ moved[i].start = Greatest(0, spans[i].start - lead)
          /\ moved[i].end = Least(n, spans[i].end - lead)
      BY <1>9
    <3>2. n \in Nat /\ lead \in Nat
      BY <1>4
    <3>3. LET a == Greatest(0, spans[i].start - lead)
              b == Least(n, spans[i].end - lead)
          IN  spans[i].start <= o + lead /\ o + lead < spans[i].end => a <= o /\ o < b /\ a < b
      BY <3>1, <3>2, Clipped
    <3> QED
      BY <2>2, <3>1, <3>3
  <2>4. PICK j \in 1 .. Len(spans') : spans'[j] = moved[i]
    <3> HIDE DEF P
    <3> QED
      BY <1>6, <1>10, <2>3, NotEmptyKeeps
  <2> QED
    BY <2>3, <2>4
<1>14. Size' = n /\ PageSpans' = [page : P, start : 0 .. n, end : 0 .. n, ocr : BOOLEAN]
  BY <1>6, <1>7 DEF Size, PageSpans
<1> HIDE DEF P
<1>15. Located'
  <2>1. /\ pdf \in Seq([extracted : Seq(Kinds), detected : Seq(Kinds)])
        /\ page \in 0 .. Len(pdf)
    BY DEF Located
  <2> QED
    BY <1>6, <1>11, <1>12, <1>13, <1>14, <2>1 DEF Located, IsBlank
<1>16. ~Blank(0, Size)'
  <2>1. 0 \in 0 .. n - 1 /\ 0 + 1 = 1 /\ 0 + lead + 1 = lead + 1
    BY <1>4
  <2>2. text'[0 + 1] \notin {"space", "line"}
    BY <1>4, <1>7, <2>1 DEF IsBlank
  <2> QED
    BY <1>14, <2>1, <2>2 DEF Blank, IsBlank
<1> QED
  BY <1>7, <1>15, <1>16

-----------------------------------------------------------------------------
\* Staging

\* The spans that share a character with a chunk.
Overlapping(c) == {i \in 1 .. Len(spans) : spans[i].start < c.end /\ spans[i].end > c.start}

PageNumbers(c) == {spans[i].page : i \in Overlapping(c)}

\* A chunk is given the first and the last page of those it shares text with.
LEMMA AnnotatedIs ==
  ASSUME Located, NEW c
  PROVE  /\ Annotated(c).start = c.start
         /\ Annotated(c).end = c.end
         /\ Annotated(c).ocr = (\E i \in Overlapping(c) : spans[i].ocr)
         /\ Overlapping(c) = {} => Annotated(c).first = 0 /\ Annotated(c).last = 0
         /\ Overlapping(c) # {} =>
              /\ Annotated(c).first \in PageNumbers(c) /\ Annotated(c).last \in PageNumbers(c)
              /\ \A p \in PageNumbers(c) : Annotated(c).first <= p /\ p <= Annotated(c).last
         /\ PageNumbers(c) \subseteq 1 .. Len(pdf) /\ Len(pdf) \in Nat
<1> DEFINE ocr == \E i \in Overlapping(c) : spans[i].ocr
<1>1. Annotated(c) = [start |-> c.start,
                      end   |-> c.end,
                      first |-> IF Overlapping(c) = {} THEN 0 ELSE FirstOf(PageNumbers(c)),
                      last  |-> IF Overlapping(c) = {} THEN 0 ELSE LastOf(PageNumbers(c)),
                      ocr   |-> ocr]
  BY DEF Annotated, Overlapping, PageNumbers
<1>2. Len(pdf) \in Nat
  <2>1. pdf \in Seq([extracted : Seq(Kinds), detected : Seq(Kinds)])
    BY DEF Located
  <2> QED
    BY <2>1
<1>3. PageNumbers(c) \subseteq 1 .. Len(pdf)
  <2>1. spans \in Seq(PageSpans)
    BY DEF Located
  <2>2. \A i \in 1 .. Len(spans) : spans[i].page \in 1 .. Len(pdf)
    <3>1. \A i \in 1 .. Len(spans) : spans[i] \in PageSpans
      BY <2>1, MemberOf
    <3> QED
      BY <3>1 DEF PageSpans
  <2> QED
    BY <2>2 DEF PageNumbers, Overlapping
<1>4. ASSUME Overlapping(c) # {}
      PROVE  /\ FirstOf(PageNumbers(c)) \in PageNumbers(c)
             /\ LastOf(PageNumbers(c)) \in PageNumbers(c)
             /\ \A p \in PageNumbers(c) : FirstOf(PageNumbers(c)) <= p /\ p <= LastOf(PageNumbers(c))
  <2>1. PageNumbers(c) \in SUBSET (0 .. Len(pdf)) /\ PageNumbers(c) # {}
    <3>1. PageNumbers(c) # {}
      BY <1>4 DEF PageNumbers
    <3>2. \A p \in 1 .. Len(pdf) : p \in 0 .. Len(pdf)
      BY <1>2
    <3> QED
      BY <1>3, <3>1, <3>2
  <2> QED
    BY <1>2, <2>1, FirstOfIsFirst, LastOfIsLast
<1> HIDE DEF ocr
<1>5. /\ Annotated(c).start = c.start /\ Annotated(c).end = c.end
      /\ Annotated(c).first = IF Overlapping(c) = {} THEN 0 ELSE FirstOf(PageNumbers(c))
      /\ Annotated(c).last = IF Overlapping(c) = {} THEN 0 ELSE LastOf(PageNumbers(c))
      /\ Annotated(c).ocr = ocr
  BY <1>1
<1> QED
  BY <1>2, <1>3, <1>4, <1>5 DEF ocr

\* What a chunker leaves of a text that is not blank is a valid chunk set.
LEMMA ChunksAreValid ==
  ASSUME Located, SplitInv, phase = "done", ~Blank(0, Size)
  PROVE  ValidChunkSet([i \in 1 .. Len(chunks) |-> Annotated(chunks[i])])
<1> DEFINE set == [i \in 1 .. Len(chunks) |-> Annotated(chunks[i])]
<1>1. chunks \in Seq(Spans) /\ Len(chunks) \in Nat /\ Size \in Nat /\ ChunksFit /\ Covered(chunks, Size)
  BY SplitIsSound, TextIsSequence DEF SplitInv, Core
<1>2. Len(chunks) \in 1 .. MaxChunks
  <2>1. PICK o \in 0 .. Size - 1 : ~IsBlank(o)
    BY DEF Blank
  <2>2. o < Size
    BY <1>1, <2>1
  <2>3. PICK i \in 1 .. Len(chunks) : chunks[i].start <= o /\ o < chunks[i].end
    BY <1>1, <2>1, <2>2 DEF Covered
  <2> QED
    BY <1>1, <2>3, LimitsAssumption DEF ChunksFit
<1>3. Len(set) = Len(chunks)
  BY <1>1
<1>4. ASSUME NEW i \in 1 .. Len(set)
      PROVE  LET c == set[i] IN
               /\ 0 <= c.start /\ c.start < c.end
               /\ c.end - c.start <= MaxCharacters
               /\ (c.first = 0) = (c.last = 0)
               /\ c.first <= c.last
               /\ c.ocr => c.first # 0
  <2> DEFINE c == Annotated(chunks[i])
  <2>1. i \in 1 .. Len(chunks) /\ set[i] = c
    BY <1>3
  <2>2. chunks[i] \in Spans
    BY <1>1, <2>1, MemberOf
  <2>3. 0 <= chunks[i].start /\ chunks[i].start < chunks[i].end
    BY <1>1, <2>2 DEF Spans
  <2>4. chunks[i].end - chunks[i].start <= MaxCharacters
    BY <1>1, <2>1 DEF ChunksFit
  <2>5. c.start = chunks[i].start /\ c.end = chunks[i].end
    BY AnnotatedIs
  <2>6. /\ (c.first = 0) = (c.last = 0)
        /\ c.first <= c.last
        /\ c.ocr => c.first # 0
    <3>1. CASE Overlapping(chunks[i]) = {}
      <4>1. c.first = 0 /\ c.last = 0 /\ c.ocr = (\E k \in Overlapping(chunks[i]) : spans[k].ocr)
        BY <3>1, AnnotatedIs
      <4>2. c.ocr = FALSE
        BY <3>1, <4>1
      <4> HIDE DEF c
      <4> QED
        BY <4>1, <4>2
    <3>2. CASE Overlapping(chunks[i]) # {}
      <4>1. /\ c.first \in PageNumbers(chunks[i]) /\ c.last \in PageNumbers(chunks[i])
            /\ c.first <= c.last
            /\ PageNumbers(chunks[i]) \subseteq 1 .. Len(pdf) /\ Len(pdf) \in Nat
        BY <3>2, AnnotatedIs
      <4> HIDE DEF c
      <4>2. c.first \in 1 .. Len(pdf) /\ c.last \in 1 .. Len(pdf)
        BY <4>1
      <4>3. c.first # 0 /\ c.last # 0
        BY <4>1, <4>2
      <4> QED
        BY <4>1, <4>3
    <3> QED
      BY <3>1, <3>2
  <2> HIDE DEF set, c
  <2> QED
    BY <2>1, <2>3, <2>4, <2>5, <2>6
<1> HIDE DEF set
<1>5. ValidChunkSet(set)
  BY <1>2, <1>3, <1>4 DEF ValidChunkSet
<1> QED
  BY <1>5 DEF set

\* The pages of a staged chunk are those that its characters stand on.
LEMMA ProvenanceHolds ==
  ASSUME Located, Staging, SplitInv
  PROVE  ProvenanceIsExact
<1> SUFFICES ASSUME stage = "staged", pdf # <<>>
             PROVE  ProvenanceIsExact
  BY DEF ProvenanceIsExact
<1>1. \A i \in 1 .. Len(spans) :
        Quotes(text, spans[i].start, spans[i].end, SourceOf(pdf, spans[i]))
  BY DEF Located
<1>2. /\ staged = [i \in 1 .. Len(chunks) |-> Annotated(chunks[i])]
      /\ chunks \in Seq(Spans) /\ Len(chunks) \in Nat /\ Size \in Nat
  BY TextIsSequence DEF Staging, SplitInv, Core
<1>3. Len(staged) = Len(chunks)
  BY <1>2
<1>4. ASSUME NEW i \in 1 .. Len(staged)
      PROVE  LET c      == staged[i]
                 lent   == {s \in 1 .. Len(spans) : \E o \in c.start .. c.end - 1 :
                              spans[s].start <= o /\ o < spans[s].end}
             IN  /\ \A o \in c.start .. c.end - 1 :
                      ~IsBlank(o) => \E s \in lent : spans[s].start <= o /\ o < spans[s].end
                 /\ \A s \in lent : c.first <= spans[s].page /\ spans[s].page <= c.last
                 /\ \E s \in lent : spans[s].page = c.first
                 /\ \E s \in lent : spans[s].page = c.last
                 /\ c.ocr = \E s \in lent : spans[s].ocr
  <2> DEFINE d    == chunks[i]
             c    == Annotated(d)
             lent == {s \in 1 .. Len(spans) : \E o \in c.start .. c.end - 1 :
                        spans[s].start <= o /\ o < spans[s].end}
  <2>1. staged[i] = c /\ i \in 1 .. Len(chunks)
    BY <1>2, <1>3
  <2>2. /\ d.start \in 0 .. Size /\ d.end \in 0 .. Size /\ d.start < d.end
        /\ c.start = d.start /\ c.end = d.end
    <3>1. d \in Spans
      BY <1>2, <2>1, MemberOf
    <3> QED
      BY <3>1, AnnotatedIs DEF Spans
  <2>3. ~Blank(d.start, d.end)
    BY <2>1, SplitIsSound DEF ChunksFit
  <2>4. lent = Overlapping(d)
    <3>1. ASSUME NEW s \in 1 .. Len(spans)
          PROVE  (\E o \in c.start .. c.end - 1 : spans[s].start <= o /\ o < spans[s].end)
                   <=> spans[s].start < d.end /\ spans[s].end > d.start
      <4>1. /\ spans[s].start \in 0 .. Size /\ spans[s].end \in 0 .. Size
            /\ spans[s].start < spans[s].end
        <5>1. spans \in Seq(PageSpans)
          BY DEF Located
        <5>2. spans[s] \in PageSpans
          BY <5>1, MemberOf
        <5> QED
          BY <5>2 DEF PageSpans, Located
      <4> HIDE DEF c, d
      <4>2. ASSUME NEW o \in c.start .. c.end - 1, spans[s].start <= o, o < spans[s].end
            PROVE  spans[s].start < d.end /\ spans[s].end > d.start
        BY <1>2, <2>2, <4>1, <4>2
      <4>3. ASSUME spans[s].start < d.end, spans[s].end > d.start
            PROVE  \E o \in c.start .. c.end - 1 : spans[s].start <= o /\ o < spans[s].end
        <5> DEFINE o == Greatest(spans[s].start, d.start)
        <5>1. o \in c.start .. c.end - 1 /\ spans[s].start <= o /\ o < spans[s].end
          BY <1>2, <2>2, <4>1, <4>3 DEF Greatest
        <5> HIDE DEF o
        <5> QED
          BY <5>1
      <4> QED
        BY <4>2, <4>3
    <3> HIDE DEF c, d
    <3> QED
      BY <3>1 DEF Overlapping
  <2> HIDE DEF c, lent
  <2>5. ASSUME NEW o \in c.start .. c.end - 1, ~IsBlank(o)
        PROVE  \E s \in lent : spans[s].start <= o /\ o < spans[s].end
    <3>1. o \in 0 .. Size - 1
      BY <1>2, <2>2
    <3>2. PICK s \in 1 .. Len(spans) : spans[s].start <= o /\ o < spans[s].end
      BY <2>5, <3>1 DEF Located
    <3>3. s \in lent
      BY <3>2 DEF lent
    <3> QED
      BY <3>2, <3>3
  <2>6. lent # {}
    <3>1. PICK o \in d.start .. d.end - 1 : ~IsBlank(o)
      BY <2>3 DEF Blank
    <3> QED
      BY <2>2, <2>5, <3>1
  <2>7. /\ c.first \in PageNumbers(d) /\ c.last \in PageNumbers(d)
        /\ \A p \in PageNumbers(d) : c.first <= p /\ p <= c.last
        /\ c.ocr = (\E s \in Overlapping(d) : spans[s].ocr)
    BY <2>4, <2>6, AnnotatedIs DEF c
  <2>8. PageNumbers(d) = {spans[s].page : s \in lent}
    BY <2>4 DEF PageNumbers
  <2>9. /\ \A s \in lent : c.first <= spans[s].page /\ spans[s].page <= c.last
        /\ \E s \in lent : spans[s].page = c.first
        /\ \E s \in lent : spans[s].page = c.last
    BY <2>7, <2>8
  <2>10. c.ocr = \E s \in lent : spans[s].ocr
    BY <2>4, <2>7
  <2> QED
    BY <2>1, <2>5, <2>9, <2>10 DEF lent
<1> QED
  BY <1>1, <1>4 DEF ProvenanceIsExact

-----------------------------------------------------------------------------
\* The steps of an ingestion

\* Before its first step a request has read nothing.
LEMMA IngestionStarts == IngestionInit => IngestionInv
<1> SUFFICES ASSUME IngestionInit PROVE IngestionInv
  OBVIOUS
<1>1. UploadInv
  BY UploadStarts DEF IngestionInit
<1>2. /\ text = <<>> /\ options \in Options /\ phase = "idle" /\ position = 0
      /\ windows = 0 /\ chunks = <<>> /\ pdf = <<>> /\ page = 0 /\ spans = <<>>
      /\ search = [low |-> 0, high |-> 0, best |-> 0, end |-> 0] /\ stage = "idle"
  BY DEF IngestionInit
<1>3. text \in Seq(Kinds) /\ Size = 0
  BY <1>2 DEF Size
<1>4. Core
  <2>1. Fit(chunks) /\ Covered(chunks, position)
    BY <1>2, <1>3 DEF Fit, Covered
  <2>2. chunks \in Seq(Spans) /\ position \in 0 .. Size
    BY <1>2, <1>3
  <2> QED
    BY <1>2, <1>3, <2>1, <2>2 DEF Core, Splitting
<1>5. Counting
  BY <1>2, <1>3, LimitsAssumption DEF Counting, Splitting
<1>6. Searching
  BY <1>2, <1>3 DEF Searching
<1>7. Refused
  BY <1>2 DEF Refused
<1>8. Located
  BY <1>2 DEF Located
<1>9. Staging
  BY <1>2 DEF Staging
<1> QED
  BY <1>1, <1>4, <1>5, <1>6, <1>7, <1>8, <1>9 DEF IngestionInv, SplitInv

\* Steps of the request that leave the chunker alone.
LEMMA ParsingKeepsInv ==
  ASSUME IngestionInv, UNCHANGED vars, UNCHANGED <<options, phase, position, windows, search, chunks>>,
         text' \in Seq(Kinds), Located',
         stage \notin {"chunking", "staged", "unsplittable"},
         stage' \notin {"idle", "content", "invalid", "staged"},
         stage' = "chunking" => ~Blank(0, Size)'
  PROVE  IngestionInv'
<1>1. UploadInv'
  BY UploadSteps DEF IngestionInv
<1>2. phase = "idle" /\ search = [low |-> 0, high |-> 0, best |-> 0, end |-> 0]
  BY DEF IngestionInv, Staging
<1>3. SplitInv' /\ Refused'
  BY <1>2, TextIsFree DEF IngestionInv
<1>4. Staging'
  BY <1>2 DEF Staging
<1> QED
  BY <1>1, <1>3, <1>4 DEF IngestionInv

\* Steps that only move the request on.
LEMMA WaitingKeepsInv ==
  ASSUME IngestionInv, UNCHANGED <<splitVars, parsing>>, [Next]_vars,
         stage' # "invalid",
         stage' \in {"idle", "content"} => stage \in {"idle", "content"},
         stage' = "chunking" => stage = "chunking",
         stage' \notin {"chunking", "staged", "unsplittable"} =>
           stage \notin {"chunking", "staged", "unsplittable"},
         stage' = "staged" =>
           staged' = [i \in 1 .. Len(chunks) |-> Annotated(chunks[i])]
  PROVE  IngestionInv'
<1>1. UploadInv'
  BY UploadSteps DEF IngestionInv
<1>2. SplitInv' /\ Refused'
  BY SplitSteps, RefusedSteps DEF IngestionInv
<1>3. UNCHANGED <<text, pdf, page, spans, phase, search, chunks>>
  BY DEF splitVars, parsing
<1>4. Located'
  BY <1>3, LocatedIsStable DEF IngestionInv, Located
<1>5. Staging'
  <2>1. Blank(0, Size)' = Blank(0, Size)
    BY <1>3 DEF Blank, IsBlank, Size
  <2>2. stage' = "staged" => staged' = [i \in 1 .. Len(chunks') |-> Annotated(chunks[i])']
    <3>1. ASSUME NEW i
          PROVE  Annotated(chunks[i])' = Annotated(chunks[i])
      BY <1>3 DEF Annotated
    <3>2. Len(chunks') = Len(chunks)
      BY <1>3
    <3> QED
      BY <3>1, <3>2
  <2> QED
    BY <1>3, <2>1, <2>2 DEF IngestionInv, Staging
<1> QED
  BY <1>1, <1>2, <1>4, <1>5 DEF IngestionInv

LEMMA ParseTextKeepsInv ==
  ASSUME IngestionInv, ParseText
  PROVE  IngestionInv'
<1>1. /\ stage = "content" /\ stage' = "chunking"
      /\ UNCHANGED <<vars, options, phase, position, windows, search, chunks, parsing>>
      /\ pdf' = <<>> /\ spans' = <<>> /\ page' = page
  BY DEF ParseText, Readable, parsing, IngestionInv, Staging
<1>2. PICK t \in Texts : ~BlankText(t) /\ text' = t
  BY DEF ParseText
<1>3. text' \in Seq(Kinds)
  BY <1>2, TextsAssumption
<1>4. ~Blank(0, Size)'
  <2>1. PICK i \in 1 .. Len(text') : text'[i] \notin {"space", "line"}
    BY <1>2 DEF BlankText
  <2>2. i - 1 \in 0 .. Len(text') - 1 /\ (i - 1) + 1 = i
    BY <1>3
  <2> QED
    BY <2>1, <2>2 DEF Blank, IsBlank, Size
<1>5. Located'
  <2>1. pdf = <<>> /\ spans = <<>> /\ page \in 0 .. Len(pdf)
    BY <1>1 DEF IngestionInv, Staging, Located
  <2> QED
    BY <1>1, <2>1 DEF Located
<1> QED
  BY <1>1, <1>3, <1>4, <1>5, ParsingKeepsInv

LEMMA OpenPdfKeepsInv ==
  ASSUME IngestionInv, OpenPdf
  PROVE  IngestionInv'
<1>1. /\ stage = "content" /\ stage' = "pages" /\ UNCHANGED <<vars, splitVars, page, spans>>
      /\ text = <<>> /\ spans = <<>> /\ page = 0
  BY DEF OpenPdf, Readable, IngestionInv, Staging
<1>2. pdf' \in Seq([extracted : Seq(Kinds), detected : Seq(Kinds)])
  BY PdfsAssumption DEF OpenPdf
<1>3. Located'
  <2>1. Len(pdf') \in Nat
    BY <1>2
  <2>2. page' = 0 /\ spans' = <<>> /\ Size' = 0
    BY <1>1 DEF splitVars, Size
  <2>3. page' \in 0 .. Len(pdf') /\ spans' \in Seq(PageSpans')
    BY <2>1, <2>2
  <2> QED
    BY <1>2, <2>2, <2>3 DEF Located
<1>4. text' \in Seq(Kinds) /\ UNCHANGED <<options, phase, position, windows, search, chunks>>
  BY <1>1 DEF splitVars, IngestionInv, SplitInv, Core
<1> QED
  BY <1>1, <1>3, <1>4, ParsingKeepsInv

LEMMA PagesKeepInv ==
  ASSUME IngestionInv, ReadPage \/ ClosePdf
  PROVE  IngestionInv'
<1>1. Located /\ text \in Seq(Kinds) /\ stage = "pages"
  BY DEF ReadPage, ClosePdf, IngestionInv, SplitInv, Core
<1>2. CASE ReadPage
  <2>1. Located' /\ text' \in Seq(Kinds)
    BY <1>1, <1>2, ReadPageKeepsLocated
  <2>2. /\ stage' = "pages" /\ UNCHANGED vars
        /\ UNCHANGED <<options, phase, position, windows, search, chunks>>
    BY <1>1, <1>2 DEF ReadPage
  <2> QED
    BY <1>1, <2>1, <2>2, ParsingKeepsInv
<1>3. CASE ClosePdf /\ BlankText(text)
  BY <1>1, <1>3, WaitingKeepsInv DEF ClosePdf, EndIngestion
<1>4. CASE ClosePdf /\ ~BlankText(text)
  <2>1. Located' /\ text' \in Seq(Kinds) /\ ~Blank(0, Size)'
    BY <1>1, <1>4, ClosePdfKeepsLocated
  <2>2. /\ stage' = "chunking" /\ UNCHANGED vars
        /\ UNCHANGED <<options, phase, position, windows, search, chunks>>
    BY <1>4 DEF ClosePdf
  <2> QED
    BY <1>1, <2>1, <2>2, ParsingKeepsInv
<1> QED
  BY <1>2, <1>3, <1>4

LEMMA ChunkKeepsInv ==
  ASSUME IngestionInv, Chunk
  PROVE  IngestionInv'
<1>1. /\ stage = "chunking" /\ Split
      /\ UNCHANGED <<vars, stage, parsing, staged>>
      /\ UNCHANGED <<text, options, pdf, page, spans>>
  BY SplitKeepsText DEF Chunk, parsing
<1>2. UploadInv'
  BY <1>1, UploadSteps DEF IngestionInv
<1>3. SplitInv' /\ Refused'
  BY <1>1, SplitSteps, RefusedSteps DEF IngestionInv
<1>4. Located'
  BY <1>1, LocatedIsStable DEF IngestionInv, Located
<1>5. Staging'
  <2>1. Blank(0, Size)' = Blank(0, Size)
    BY <1>1 DEF Blank, IsBlank, Size
  <2> QED
    BY <1>1, <2>1 DEF IngestionInv, Staging
<1> QED
  BY <1>2, <1>3, <1>4, <1>5 DEF IngestionInv

LEMMA StageKeepsInv ==
  ASSUME IngestionInv, Stage
  PROVE  IngestionInv'
<1>1. stage = "chunking" /\ phase = "done" /\ UNCHANGED <<vars, splitVars, parsing>>
  BY DEF Stage
<1>2. ValidChunkSet([i \in 1 .. Len(chunks) |-> Annotated(chunks[i])])
  BY <1>1, ChunksAreValid DEF IngestionInv, Staging
<1>3. stage' = "staged" /\ staged' = [i \in 1 .. Len(chunks) |-> Annotated(chunks[i])]
  BY <1>2 DEF Stage
<1> QED
  BY <1>1, <1>3, WaitingKeepsInv

\* The invariant is inductive.
LEMMA IngestionSteps == IngestionInv /\ [IngestionNext]_ingestionVars => IngestionInv'
<1> SUFFICES ASSUME IngestionInv, [IngestionNext]_ingestionVars PROVE IngestionInv'
  OBVIOUS
<1>1. CASE UNCHANGED ingestionVars
  <2>1. UNCHANGED <<vars, splitVars, parsing, stage, staged>>
    BY <1>1 DEF ingestionVars
  <2>2. stage = "staged" => staged = [i \in 1 .. Len(chunks) |-> Annotated(chunks[i])]
    BY DEF IngestionInv, Staging
  <2> QED
    BY <2>1, <2>2, WaitingKeepsInv DEF IngestionInv, Staging
<1>2. CASE Upload
  <2>1. Next /\ UNCHANGED <<splitVars, parsing, stage, staged>>
    BY <1>2 DEF Upload
  <2> QED
    BY <2>1, WaitingKeepsInv DEF IngestionInv, Staging
<1>3. CASE Process
  BY <1>3, WaitingKeepsInv DEF Process, EndIngestion
<1>4. CASE Unavailable \/ Unparsable
  BY <1>4, WaitingKeepsInv DEF Unavailable, Unparsable, Readable, EndIngestion
<1>5. CASE RefusePage
  BY <1>5, WaitingKeepsInv DEF RefusePage, EndIngestion
<1>6. CASE Unsplittable
  BY <1>6, WaitingKeepsInv DEF Unsplittable, EndIngestion
<1> QED
  BY <1>1, <1>2, <1>3, <1>4, <1>5, <1>6, ParseTextKeepsInv, OpenPdfKeepsInv, PagesKeepInv,
     ChunkKeepsInv, StageKeepsInv DEF IngestionNext

\* IngestionInv holds in every reachable state.
THEOREM IngestionInvariance == IngestionSpec => []IngestionInv
  BY IngestionStarts, IngestionSteps, PTL DEF IngestionSpec

\* A step either splits the text or does not move the chunker at all.
LEMMA IngestionProgresses ==
  IngestionInv /\ [IngestionNext]_ingestionVars => [Progress]_splitVars
<1> SUFFICES ASSUME IngestionInv, [IngestionNext]_ingestionVars PROVE [Progress]_splitVars
  OBVIOUS
<1>1. CASE Chunk
  BY <1>1, SplitProgresses DEF Chunk, IngestionInv
<1>2. CASE UNCHANGED splitVars
  BY <1>2
<1>3. CASE ParseText \/ ReadPage \/ ClosePdf
  <2>1. UNCHANGED splitVars \/ (phase = "idle" /\ phase' = phase)
    BY <1>3 DEF ParseText, ReadPage, ClosePdf, EndIngestion, Readable, IngestionInv, Staging
  <2> QED
    BY <2>1 DEF Progress
<1>4. CASE \/ UNCHANGED ingestionVars
           \/ Upload \/ Process \/ Unavailable \/ Unparsable \/ OpenPdf \/ RefusePage
           \/ Stage \/ Unsplittable
  BY <1>2, <1>4 DEF ingestionVars, Upload, Process, Unavailable, Unparsable, OpenPdf,
                    RefusePage, Stage, Unsplittable, EndIngestion
<1> QED
  BY <1>1, <1>3, <1>4 DEF IngestionNext

-----------------------------------------------------------------------------
\* What the invariant says

LEMMA IngestionIsSound ==
  IngestionInv => /\ NeverTruncated /\ AnswerIsTrue
                  /\ Lossless /\ ChunksFit /\ EstimateIsExact
                  /\ SetsAreValid /\ ProvenanceIsExact
  BY UploadIsTrue, SplitIsSound, RefusedIsExact, ProvenanceHolds
     DEF IngestionInv, Staging, SetsAreValid

\* The chunk service refuses no set that a chunker produced, whatever the
\* document, the strategy, the limits and the tokenizer.
THEOREM IngestionSetsAreValid == IngestionSpec => []SetsAreValid
  BY IngestionInvariance, IngestionIsSound, PTL

\* Every staged chunk names the pages its characters come from, for any PDF,
\* any pages recognised in it, and however its text was stripped.
THEOREM IngestionProvenance == IngestionSpec => []ProvenanceIsExact
  BY IngestionInvariance, IngestionIsSound, PTL

\* A document that is ingested loses no text, while others are uploaded.
THEOREM IngestionLosesNothing == IngestionSpec => []Lossless
  BY IngestionInvariance, IngestionIsSound, PTL

\* Its chunks fit, and its text is refused only when it has too many windows.
THEOREM IngestionFits == IngestionSpec => [](ChunksFit /\ EstimateIsExact)
  BY IngestionInvariance, IngestionIsSound, PTL

\* Ingestion reads what uploads write: registered documents are never truncated
\* and the clients are told the truth while it goes on.
THEOREM IngestionLeavesUploads == IngestionSpec => [](NeverTruncated /\ AnswerIsTrue)
  BY IngestionInvariance, IngestionIsSound, PTL

\* Splitting ends within any ingestion: every turn advances in the text.
THEOREM IngestionAdvances == IngestionSpec => AlwaysAdvances
  BY IngestionInvariance, IngestionProgresses, PTL DEF IngestionSpec, AlwaysAdvances, Progress

\* The text only changes before the chunker begins: there is no chunk yet.
LEMMA IngestionKeepsOverlap ==
  IngestionInv /\ OverlapInv /\ [IngestionNext]_ingestionVars => OverlapInv'
<1> SUFFICES ASSUME IngestionInv, OverlapInv, [IngestionNext]_ingestionVars PROVE OverlapInv'
  OBVIOUS
<1>1. CASE Chunk
  BY <1>1, OverlapSteps DEF Chunk, IngestionInv
<1>2. CASE UNCHANGED splitVars
  BY <1>2, OverlapSteps DEF IngestionInv
<1>3. CASE ParseText \/ ReadPage \/ ClosePdf
  <2>1. UNCHANGED splitVars \/ (phase' = "idle" /\ chunks' = <<>>)
    <3>1. stage \in {"content", "pages"} => phase = "idle" /\ chunks = <<>>
      BY DEF IngestionInv, Staging, SplitInv, Core
    <3> QED
      BY <1>3, <3>1 DEF ParseText, ReadPage, ClosePdf, EndIngestion, Readable
  <2>2. phase' = "idle" /\ chunks' = <<>> => OverlapInv'
    BY DEF OverlapInv, Overlapped, OverlapIsBounded
  <2> QED
    BY <1>2, <2>1, <2>2
<1>4. CASE \/ UNCHANGED ingestionVars
           \/ Upload \/ Process \/ Unavailable \/ Unparsable \/ OpenPdf \/ RefusePage
           \/ Stage \/ Unsplittable
  BY <1>2, <1>4 DEF ingestionVars, Upload, Process, Unavailable, Unparsable, OpenPdf,
                    RefusePage, Stage, Unsplittable, EndIngestion
<1> QED
  BY <1>1, <1>3, <1>4 DEF IngestionNext

\* Neighbouring chunks of a document share at most the overlap asked for, and
\* never a heading: for any document and options, unless chunks are measured
\* with a tokenizer that is not gentle.
THEOREM IngestionOverlapIsBounded == IngestionSpec => [](Gentle => OverlapIsBounded)
<1>1. IngestionInit => OverlapInv
  BY DEF IngestionInit, OverlapInv, Overlapped, OverlapIsBounded
<1>2. OverlapInv => (Gentle => OverlapIsBounded)
  BY DEF OverlapInv, Overlapped
<1> QED
  BY <1>1, <1>2, IngestionKeepsOverlap, IngestionInvariance, PTL DEF IngestionSpec

=============================================================================
