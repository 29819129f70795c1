------------------------- MODULE MCRetrievalAnswers -------------------------
(* Small instances of searches, the answers built on them and the readers of *)
(* their traces: two documents with two versions of one chunk each.          *)
EXTENDS RagAnswer, TraceAnalysis

CONSTANTS d1, d2, r1

MCId == [c \in Chunk |-> 2 * c[2] + (IF c[1] = d1 THEN 0 ELSE 1)]

MCSimilarities == {<< <<d1, 1>>, <<d2, 1>>, <<d1, 2>>, <<d2, 2>> >>,
                   << <<d2, 2>>, <<d1, 2>>, <<d1, 1>>, <<d2, 1>> >>,
                   << <<d2, 1>>, <<d2, 2>>, <<d1, 2>>, <<d1, 1>> >>}

\* One chunk, the first two, or all of them have an embedding that is not zero.
MCMeasured == [q \in MCSimilarities |-> CASE q[1] = <<d1, 1>> -> 1
                                          [] q[1] = <<d2, 2>> -> 2
                                          [] OTHER -> 4]

MCRelevances == {<< >>, << <<d2, 1>>, <<d1, 1>> >>, << <<d2, 2>>, <<d2, 1>>, <<d1, 2>> >>,
                 << <<d1, 1>>, <<d2, 1>>, <<d2, 2>>, <<d1, 2>> >>, << <<d1, 2>> >>}

MCFilters == {Docs, {d1}}

MCOlderTraces ==
  {[search |-> "older",
    results |-> << [chunk |-> <<d2, 1>>, rank |-> 1, vector |-> 1, keyword |-> 0,
                    finite |-> TRUE, candidate |-> 0],
                   [chunk |-> <<d1, 1>>, rank |-> 2, vector |-> 2, keyword |-> 0,
                    finite |-> TRUE, candidate |-> 0] >>],
   [search |-> "oldest", results |-> << >>]}

\* One judged version of each document, all of one, and more than is retrieved.
MCJudgments ==
  {(<<d1, 1>> :> 1), (<<d1, 1>> :> 0 @@ <<d2, 2>> :> 3),
   (<<d1, 1>> :> 1 @@ <<d2, 1>> :> 3 @@ <<d1, 2>> :> 2 @@ <<d2, 2>> :> 1)}

\* 1000 / log2(rank + 1).
MCDiscount == <<1000, 631, 500>>

MCFrame == [c \in Chunk |-> 2]

\* The second version of d1 is longer than a whole context, that of d2 is blank.
MCLength == [c \in Chunk |-> IF c = <<d1, 2>> THEN 12 ELSE IF c[1] = d1 THEN 3 ELSE 4]
MCBlank == {<<d2, 2>>}

Fact(cites) == [kind |-> "fact", cites |-> cites]

\* Pieces with and without labels, known and unknown ones, and more labels, more
\* pieces or more text than a review takes.
MCAnswers ==
  {[oversized |-> FALSE, pieces |-> pieces] : pieces \in
     {<< Fact({1}), Fact({2}) >>, << Fact({}), [kind |-> "labels", cites |-> {9}] >>,
      << Fact({1}), Fact({1}), Fact({1}) >>, << [kind |-> "long", cites |-> {1}], Fact({1}) >>,
      << Fact({1, 2, 3, 9}), Fact({1}) >>}}
  \union {[oversized |-> TRUE, pieces |-> << Fact({1}), Fact({1}) >>]}

\* One entry or two, for claims that exist or not, with a verdict or without.
MCReplies ==
  LET entries == ({1, 2} \X {"supported", "uncertain"}) \union {<<1, "maybe">>, <<3, "unsupported">>}
  IN  {<< >>} \union {<<e>> : e \in entries} \union (entries \X entries)
=============================================================================
