------------------------ MODULE MCDocumentIngestion ------------------------
(* Small instances of DocumentIngestion. *)
EXTENDS DocumentIngestion

CONSTANTS u1

w == "word"
b == "space"
n == "line"

\* Every text of up to four characters, and longer ones with headings, fences,
\* paragraphs, sentences, initials, long words and wide characters.
MCTexts ==
  UNION {[1 .. l -> {"word", "space", "line", "stop"}] : l \in 1 .. 4} \union
  {<<"hash", w, n, w, w, n, "hash", w, n, w>>,
   <<w, w, n, "hash", w, b, w, w>>,
   <<w, n, "fence", n, "hash", w, n, "fence", n, "hash", w>>,
   <<n, n, "hash", b, w, w, w>>,
   <<b, b, w, w, w, w, b, w>>,
   <<w, w, "stop", b, w, "query", b, w, w, "stop">>,
   <<w, w, n, n, n, w, w, n, n, w>>,
   <<w, w, w, b, w, w, w, b, "wide", w, b, w, w, w>>,
   <<"wide", "wide", w, w, w>>,
   <<w, w, b, b, b, b, b, b, w>>,
   <<w, "stop", b, w, w, "stop", b, b, n, w, w, w, w, w>>}

Page(extracted, detected) == [extracted |-> extracted, detected |-> detected]

\* Scanned pages, blank ones at either end, and text that runs on.
MCPdfs ==
  {<<Page(<<n, b>>, <<>>), Page(<<b, w, w>>, <<w>>), Page(<<>>, <<w, n>>)>>,
   <<Page(<<>>, <<n>>), Page(<<w, w, w, w, w>>, <<w>>)>>,
   <<Page(<<>>, <<w, w>>), Page(<<>>, <<w>>), Page(<<w>>, <<w>>)>>,
   <<Page(<<w>>, <<w>>), Page(<<b>>, <<w, w, b>>), Page(<<w, w, n>>, <<w>>)>>,
   <<Page(<<b>>, <<>>)>>,
   <<Page(<<w, w, w, w>>, <<>>), Page(<<w, w, w, w, w>>, <<>>)>>,
   <<Page(<<w>>, <<>>), Page(<<w>>, <<>>), Page(<<w>>, <<>>), Page(<<w>>, <<>>)>>}

\* A word of exactly three characters is one token, a wide character is two.
MCTokenCount(t) ==
  LET whole == {i \in 1 .. Len(t) - 2 :
                  /\ \A j \in i .. i + 2 : t[j] = w
                  /\ i = 1 \/ t[i - 1] # w
                  /\ i + 2 = Len(t) \/ t[i + 3] # w}
  IN  Len(t) + Cardinality({i \in 1 .. Len(t) : t[i] = "wide"}) - 2 * Cardinality(whole)
=============================================================================
