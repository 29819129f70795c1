---------------------------- MODULE TraceAnalysis ----------------------------
(***************************************************************************)
(* What is done with stored traces: two are compared side by side, and one *)
(* is measured against relevance judgments.  Both only read.               *)
(***************************************************************************)
EXTENDS HybridRetrieval

CONSTANTS
  NotRanked,       \* where a comparison sorts a chunk that a trace does not hold
  Judgments,       \* grades of judged chunks
  Discount         \* Discount[rank]: what a gain counts at a rank, 1/log2(rank + 1)

\* What a trace holds of each result.
TraceResult == [chunk : Chunk, rank : Nat, vector : Nat, keyword : Nat, finite : {TRUE},
                candidate : Nat]

ChunksOf(results) == [i \in DOMAIN results |-> results[i].chunk]

\* _validate_judgments, and the constraints of retrieval_trace_results: a rank is
\* below the one that stands for none, and a trace holds a chunk once.  Of the
\* discount only its order matters.
ASSUME AnalysisAssumption ==
  /\ NotRanked \in Nat /\ Limit < NotRanked
  /\ \A t \in OlderTraces :
       /\ t.results \in Seq(TraceResult) /\ Len(t.results) < NotRanked
       /\ IsInjective(ChunksOf(t.results))
  /\ \A judged \in Judgments :
       /\ DOMAIN judged \subseteq Chunk /\ IsFiniteSet(DOMAIN judged)
       /\ \A c \in DOMAIN judged : judged[c] \in 0 .. 3
       /\ \E c \in DOMAIN judged : judged[c] > 0
  /\ \A rank \in 1 .. Limit : Discount[rank] \in Nat \ {0}
  /\ \A rank \in 2 .. Limit : Discount[rank] < Discount[rank - 1]

-----------------------------------------------------------------------------

NotRankedFirst(ranking, c) == Place(ranking, c)

\* Where a comparison sorts a chunk by one of its traces.
SortRank(ranking, c) == IF c \in ToSet(ranking) THEN Place(ranking, c) ELSE NotRanked

\* By first rank, then second rank, then chunk id.
ByRanks(first, second) ==
  {pair \in Chunk \X Chunk :
     LET fa == SortRank(first, pair[1])  fb == SortRank(first, pair[2])
         sa == SortRank(second, pair[1]) sb == SortRank(second, pair[2])
     IN  fa < fb \/ (fa = fb /\ (sa < sb \/ (sa = sb /\ Id[pair[1]] < Id[pair[2]])))}

\* The chunks of either ranking.
Aligned(first, second) == Listed(ToSet(first) \union ToSet(second), ByRanks(first, second))

\* One row, rank 0 stands for None.
Row(first, second, c) ==
  [chunk |-> c, first |-> Place(first, c), second |-> Place(second, c)]

\* _compare_traces.
Comparison(one, other) ==
  LET first == ChunksOf(one)  second == ChunksOf(other)
      aligned == Aligned(first, second)
  IN  [overlap     |-> Cardinality(ToSet(first) \intersect ToSet(second)),
       union       |-> Cardinality(ToSet(first) \union ToSet(second)),
       first_only  |-> Cardinality(ToSet(first) \ ToSet(second)),
       second_only |-> Cardinality(ToSet(second) \ ToSet(first)),
       rows        |-> [i \in DOMAIN aligned |-> Row(first, second, aligned[i])]]

-----------------------------------------------------------------------------

\* A chunk that was not judged counts as irrelevant.
Grade(judged, c) == IF c \in DOMAIN judged THEN judged[c] ELSE 0

\* The sums of the first 0, 1, 2, ... terms.
Sums(terms) ==
  LET sum[n \in 0 .. Len(terms)] == IF n = 0 THEN 0 ELSE sum[n - 1] + terms[n]
  IN  sum

Dcg(grades) ==
  Sums([rank \in DOMAIN grades |-> (2 ^ grades[rank] - 1) * Discount[rank]])[Len(grades)]

IdealAsRetrieved(judged, ranked) ==
  [i \in DOMAIN ranked |-> Grade(judged, ranked[i])]

\* The better before the worse.
ByGrade(judged) ==
  {pair \in (DOMAIN judged) \X (DOMAIN judged) :
     \/ judged[pair[1]] > judged[pair[2]]
     \/ judged[pair[1]] = judged[pair[2]] /\ Id[pair[1]] < Id[pair[2]]}

\* The grades of all judgments, best first.
Ideal(judged, ranked) ==
  LET best == Listed(DOMAIN judged, ByGrade(judged))
  IN  [i \in DOMAIN best |-> judged[best[i]]]

\* calculate_retrieval_metrics: the numerators and denominators of its ratios.
Metrics(cutoff, ranked, judged) ==
  LET top      == UpTo(ranked, cutoff)
      grades   == [i \in DOMAIN top |-> Grade(judged, top[i])]
      relevant == {i \in DOMAIN grades : grades[i] > 0}
  IN  [retrieved          |-> Len(top),
       judged_retrieved   |-> Cardinality(ToSet(top) \intersect DOMAIN judged),
       relevant           |-> Cardinality({c \in DOMAIN judged : judged[c] > 0}),
       relevant_retrieved |-> Cardinality(relevant),
       first_relevant     |-> IF relevant = {} THEN 0 ELSE Min(relevant),
       dcg                |-> Dcg(grades),
       ideal_dcg          |-> Dcg(UpTo(Ideal(judged, ranked), cutoff))]

-----------------------------------------------------------------------------

\* The trace that a request has just stored; comparisons and measurements are
\* of it and of the traces stored before.
Stored == {t \in traces : \E r \in Requests : t.search = r /\ rq[r].pc = "answered"}

\* The rows hold the first ranking as it was, then what only the second trace
\* holds in the second's order, each with both ranks; the counts add up.
KeepsRankings(first, second, c) ==
  /\ Len(first) <= Len(c.rows)
  /\ \A i \in DOMAIN c.rows :
       LET row == c.rows[i]
       IN  /\ IF i <= Len(first)
                THEN row.first = i
                ELSE /\ row.first = 0
                     /\ \A j \in i + 1 .. Len(c.rows) : row.second < c.rows[j].second
           /\ row.first # 0 => first[row.first].chunk = row.chunk
           /\ row.second # 0 => second[row.second].chunk = row.chunk
           /\ row.first # 0 \/ row.second # 0
  /\ c.overlap + c.first_only + c.second_only = c.union /\ c.union = Len(c.rows)

\* A comparison loses nothing: it holds both rankings, whichever trace is the
\* first, and comparing the other way round tells the same story.
ComparisonKeepsRankings ==
  \A one \in Stored, other \in traces :
    LET c    == Comparison(one.results, other.results)
        back == Comparison(other.results, one.results)
    IN  /\ KeepsRankings(one.results, other.results, c)
        /\ KeepsRankings(other.results, one.results, back)
        /\ <<c.overlap, c.union, c.first_only, c.second_only>>
             = <<back.overlap, back.union, back.second_only, back.first_only>>
        /\ ToSet(c.rows) = {[chunk |-> row.chunk, first |-> row.second, second |-> row.first]
                               : row \in ToSet(back.rows)}

\* No metric divides by zero or exceeds one, whatever was judged and retrieved;
\* and exchanging two neighbours so that the more relevant comes first lowers
\* neither the reciprocal rank nor nDCG, and raises nDCG when both count.
MetricsAreSound ==
  \A t \in Stored, judged \in Judgments, cutoff \in 1 .. Limit :
    LET ranked == ChunksOf(t.results)
        m      == Metrics(cutoff, ranked, judged)
    IN  /\ m.relevant > 0 /\ m.ideal_dcg > 0
        /\ m.relevant_retrieved <= m.relevant /\ m.relevant_retrieved <= cutoff
        /\ m.judged_retrieved <= m.retrieved
        /\ m.relevant_retrieved <= m.judged_retrieved
        /\ m.first_relevant = 0 <=> m.relevant_retrieved = 0
        /\ m.dcg <= m.ideal_dcg
        /\ \A i \in 1 .. Len(ranked) - 1 :
             Grade(judged, ranked[i]) < Grade(judged, ranked[i + 1]) =>
               LET better == Metrics(cutoff,
                               [ranked EXCEPT ![i] = ranked[i + 1], ![i + 1] = ranked[i]], judged)
               IN  /\ better.dcg >= m.dcg /\ (i <= cutoff => better.dcg > m.dcg)
                   /\ better.ideal_dcg = m.ideal_dcg
                   /\ m.first_relevant # 0 => better.first_relevant \in 1 .. m.first_relevant
=============================================================================
