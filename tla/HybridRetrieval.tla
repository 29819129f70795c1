--------------------------- MODULE HybridRetrieval ---------------------------
(***************************************************************************)
(* Vector, keyword and hybrid searches.  In a hybrid search both branches  *)
(* run concurrently in sessions of their own, their rankings are fused by  *)
(* reciprocal rank, and the result is optionally reranked.  Every search   *)
(* is stored as a trace before it is returned.  Documents are reprocessed  *)
(* meanwhile.                                                              *)
(*                                                                         *)
(* A chunk is <<document, chunk version>>, which is enough to tell two     *)
(* versions of a document apart.  What each branch thinks of the query is  *)
(* a ranking of all chunks; its SELECT keeps the active ones.              *)
(***************************************************************************)
EXTENDS Naturals, Sequences, FiniteSets, SequencesExt

CONSTANTS
  Docs,            \* documents of the knowledge base
  Requests,        \* searches
  Id,              \* order of the chunk UUIDs
  Similarities,    \* rankings by cosine distance the query may have
  Measured,        \* how many chunks of such a ranking have a distance at all
  Relevances,      \* rankings of the chunks matching the query's words
  Limit,           \* top_k
  CandidateLimit,  \* candidate_k
  RrfK,            \* rrf_k
  Unit,            \* scores are counted in 1/Unit
  Filters,         \* the documents that metadata filters may let through
  OlderTraces,     \* traces of earlier searches
  MaxVersion       \* bound on the chunk versions of a document

Chunk == Docs \X (1 .. MaxVersion)

ASSUME OrderAssumption ==
  /\ Id \in [Chunk -> Nat]
  /\ \A a, b \in Chunk : Id[a] = Id[b] => a = b
  /\ \A q \in Similarities \union Relevances : q \in Seq(Chunk) /\ IsInjective(q)
\* An embedding may be all zeros, and so may a query's: the cosine distance is
\* then not a number, which PostgreSQL sorts after every number, by chunk id.
ASSUME MeasuredAssumption ==
  /\ Measured \in [Similarities -> Nat]
  /\ \A q \in Similarities : \A i, j \in DOMAIN q :
       Measured[q] < i /\ i < j => Id[q[i]] < Id[q[j]]
\* _validate_hybrid_query; the unit makes every share a whole number.
ASSUME LimitAssumption ==
  /\ Limit \in Nat \ {0}
  /\ CandidateLimit \in Nat /\ CandidateLimit >= Limit
  /\ RrfK \in Nat \ {0}
  /\ Unit \in Nat \ {0}
  /\ \A rank \in 1 .. CandidateLimit : Unit % (RrfK + rank) = 0
  /\ MaxVersion \in Nat \ {0}
  /\ Docs \in Filters /\ Filters \subseteq SUBSET Docs

VARIABLES
  active,          \* documents.active_chunk_version
  similarity,      \* how the query's vector ranks the embedded chunks
  relevance,       \* how the query's words rank the matching chunks
  rq,              \* what each search holds between two awaits
  traces,          \* retrieval_traces with their ranked results
  served           \* history: chunks active since the search began

vars == <<active, similarity, relevance, rq, traces, served>>

\* RetrievalTraceMode, and the branches a search in that mode asks.
Branches == [vector |-> {"vector"}, keyword |-> {"keyword"},
             hybrid |-> {"vector", "keyword"}]

Idle == [pc |-> "idle", mode |-> "hybrid", rerank |-> FALSE, filter |-> Docs,
         pending |-> {}, vector |-> << >>, keyword |-> << >>, results |-> << >>]

Failed == [Idle EXCEPT !.pc = "failed"]

-----------------------------------------------------------------------------

ActiveChunks(versions) == {c \in Chunk : versions[c[1]] = c[2]}

UpTo(q, n) == SubSeq(q, 1, IF Len(q) < n THEN Len(q) ELSE n)

\* What a search may return: active chunks of the documents its filter lets
\* through.
Searchable(q, versions) == {c \in ActiveChunks(versions) : c[1] \in q.filter}

BranchLimit(q) == IF q.mode = "hybrid" THEN CandidateLimit ELSE Limit

\* The rank of a chunk in a branch, 0 for None.
Place(branch, c) ==
  IF c \in ToSet(branch) THEN CHOOSE i \in DOMAIN branch : branch[i] = c ELSE 0

\* The members of S in an order, given as a set of pairs: the i-th is the one
\* with i - 1 of them before it.
Listed(S, order) ==
  [i \in 1 .. Cardinality(S) |->
     CHOOSE c \in S : Cardinality({d \in S : <<d, c>> \in order}) = i - 1]

\* ORDER BY of a branch.
ByRank(ranking) ==
  {pair \in ToSet(ranking) \X ToSet(ranking) :
     Place(ranking, pair[1]) < Place(ranking, pair[2])}

CandidatesOfAnyVersion(q, ranking) ==
  UpTo(Listed({c \in ToSet(ranking) : c[1] \in q.filter}, ByRank(ranking)), BranchLimit(q))

\* The SELECT of one branch.
Candidates(q, ranking) ==
  UpTo(Listed(ToSet(ranking) \intersect Searchable(q, active), ByRank(ranking)),
       BranchLimit(q))

\* 1 / (rrf_k + rank), in units.
Share(branch, c) ==
  IF c \in ToSet(branch) THEN Unit \div (RrfK + Place(branch, c)) ELSE 0

ScoreOverwritten(vector, keyword, c) ==
  IF c \in ToSet(keyword) THEN Share(keyword, c) ELSE Share(vector, c)

Score(vector, keyword, c) == Share(vector, c) + Share(keyword, c)

\* By descending score, then by chunk id.
ByScore(vector, keyword) ==
  {pair \in Chunk \X Chunk :
     LET sa == Score(vector, keyword, pair[1])
         sb == Score(vector, keyword, pair[2])
     IN  sa > sb \/ (sa = sb /\ Id[pair[1]] < Id[pair[2]])}

\* The candidates of both branches.
Fused(vector, keyword) ==
  Listed(ToSet(vector) \union ToSet(keyword), ByScore(vector, keyword))

\* 1.0 - float(cosine_distance) is a number.
Finite(c) == Place(similarity, c) <= Measured[similarity]

\* What is stored of each result: a branch that did not return it has neither a
\* rank nor a score for it, and only a reranked one has its rank in the pool.
\* Of the scores only the cosine may be other than finite: ts_rank_cd is taken
\* as rank / (rank + 1), RRF is a finite sum, and the reranker's own check has
\* made the search fail over a score that is not.
Snapshots(q) ==
  LET pool == UpTo(Fused(q.vector, q.keyword), CandidateLimit)
  IN  [i \in DOMAIN q.results |->
         [chunk     |-> q.results[i], rank |-> i,
          vector    |-> Place(q.vector, q.results[i]),
          keyword   |-> Place(q.keyword, q.results[i]),
          finite    |-> q.results[i] \in ToSet(q.vector) => Finite(q.results[i]),
          candidate |-> IF q.rerank THEN Place(pool, q.results[i]) ELSE 0]]

\* RetrievalTrace.create, as far as it depends on the results: ranks, sources
\* and scores.
Accepted(q, results) ==
  /\ Len(results) <= Limit
  /\ \A i \in DOMAIN results :
       /\ results[i].rank = i
       /\ \A j \in 1 .. i - 1 : results[j].chunk # results[i].chunk
       /\ \E branch \in Branches[q.mode] : results[i][branch] # 0
       /\ \A branch \in {"vector", "keyword"} \ Branches[q.mode] : results[i][branch] = 0
       /\ results[i].finite
       /\ IF q.rerank THEN results[i].candidate \in 1 .. CandidateLimit
                      ELSE results[i].candidate = 0

\* A trace as it is stored, with what RetrievalEvaluation and comparison read.
Trace(r) == [search |-> r, results |-> Snapshots(rq[r])]

Init ==
  /\ active = [d \in Docs |-> 0]
  /\ similarity \in Similarities
  /\ relevance \in Relevances
  /\ rq = [r \in Requests |-> Idle]
  /\ traces = OlderTraces
  /\ served = [r \in Requests |-> {}]

-----------------------------------------------------------------------------

\* promote_version of a reprocessing request.
Activate(d) ==
  /\ \E v \in (active[d] + 1) .. MaxVersion : active' = [active EXCEPT ![d] = v]
  /\ served' = [r \in Requests |->
       IF rq[r].pc = "search" THEN served[r] \union Searchable(rq[r], active')
                              ELSE served[r]]
  /\ UNCHANGED <<similarity, relevance, rq, traces>>

Become(r, state) ==
  /\ rq' = [rq EXCEPT ![r] = state]
  /\ UNCHANGED <<active, similarity, relevance>>

\* A search in any mode; only a hybrid one can be reranked.
Begin(r) ==
  /\ rq[r].pc = "idle"
  /\ \E mode \in DOMAIN Branches, rerank \in BOOLEAN, filter \in Filters :
       /\ rerank => mode = "hybrid"
       /\ LET q == [rq[r] EXCEPT !.pc = "search", !.mode = mode, !.rerank = rerank,
                                !.filter = filter, !.pending = Branches[mode]]
          IN  /\ Become(r, q)
              /\ served' = [served EXCEPT ![r] = Searchable(q, active)]
  /\ UNCHANGED traces

\* asyncio.gather: the branches read in either order.
ReadVector(r) ==
  /\ rq[r].pc = "search" /\ "vector" \in rq[r].pending
  /\ Become(r, [rq[r] EXCEPT !.vector = Candidates(rq[r], similarity),
                            !.pending = @ \ {"vector"}])
  /\ UNCHANGED <<traces, served>>

ReadKeyword(r) ==
  /\ rq[r].pc = "search" /\ "keyword" \in rq[r].pending
  /\ Become(r, [rq[r] EXCEPT !.keyword = Candidates(rq[r], relevance),
                            !.pending = @ \ {"keyword"}])
  /\ UNCHANGED <<traces, served>>

\* A search of one branch is its ranking.
Collect(r) ==
  /\ rq[r].pc = "search" /\ rq[r].pending = {} /\ rq[r].mode # "hybrid"
  /\ Become(r, [rq[r] EXCEPT !.pc = "record",
       !.results = IF rq[r].mode = "vector" THEN rq[r].vector ELSE rq[r].keyword])
  /\ UNCHANGED <<traces, served>>

\* Both have answered.  An empty pool is not reranked.
Fuse(r) ==
  /\ rq[r].pc = "search" /\ rq[r].pending = {} /\ rq[r].mode = "hybrid"
  /\ LET fused  == Fused(rq[r].vector, rq[r].keyword)
          rerank == rq[r].rerank /\ fused # << >>
     IN  Become(r, [rq[r] EXCEPT
           !.pc = IF rerank THEN "rerank" ELSE "record",
           !.results = UpTo(fused, IF rq[r].rerank THEN CandidateLimit ELSE Limit)])
  /\ UNCHANGED <<traces, served>>

\* The cross-encoder scores the pool; any order of it may come out on top.
Rerank(r) ==
  /\ rq[r].pc = "rerank"
  /\ \E order \in SetToSeqs(ToSet(rq[r].results)) :
       Become(r, [rq[r] EXCEPT !.pc = "record", !.results = UpTo(order, Limit)])
  /\ UNCHANGED <<traces, served>>

RecordFailureIgnored(r) ==
  /\ rq[r].pc = "record" /\ Accepted(rq[r], Snapshots(rq[r]))
  /\ traces' \in {traces, traces \union {Trace(r)}}
  /\ Become(r, [rq[r] EXCEPT !.pc = "answered"])
  /\ UNCHANGED served

\* The trace is checked and committed, then the result is returned; the search
\* fails if its trace is refused.
Record(r) ==
  /\ rq[r].pc = "record"
  /\ IF Accepted(rq[r], Snapshots(rq[r]))
       THEN traces' = traces \union {Trace(r)} /\ Become(r, [rq[r] EXCEPT !.pc = "answered"])
       ELSE Become(r, Failed) /\ UNCHANGED traces
  /\ UNCHANGED served

\* Storing the trace reports an error, whether or not it was committed: the
\* search fails although its result is known.
RecordFails(r) ==
  /\ rq[r].pc = "record" /\ Accepted(rq[r], Snapshots(rq[r]))
  /\ traces' \in {traces, traces \union {Trace(r)}}
  /\ Become(r, Failed)
  /\ UNCHANGED served

\* One branch or the cross-encoder raises, or the search is cancelled; the
\* other branch's answer is thrown away.
SearchFails(r) ==
  /\ rq[r].pc \in {"search", "rerank"}
  /\ Become(r, Failed)
  /\ UNCHANGED <<traces, served>>

Next ==
  \/ \E d \in Docs : Activate(d)
  \/ \E r \in Requests :
       \/ Begin(r) \/ ReadVector(r) \/ ReadKeyword(r) \/ Collect(r) \/ Fuse(r)
       \/ Rerank(r) \/ Record(r) \/ RecordFails(r) \/ SearchFails(r)

Spec == Init /\ [][Next]_vars

-----------------------------------------------------------------------------

\* Whatever is reprocessed while the branches read, each chunk of an answer was
\* active at some moment of the search, in a document its filter lets through:
\* retrieval never serves a version that was superseded before, or activated
\* after, it ran.
AnswersWereActive ==
  \A r \in Requests : rq[r].pc = "answered" => ToSet(rq[r].results) \subseteq served[r]

\* However the branches, the fusion, the reranking and the activations in between
\* fell out, the checks on a trace refuse it for one cause only: a result of the
\* vector branch whose cosine is not a number.  Such a search fails after all its
\* work.  Every answer has its trace, with the same chunks at the same ranks and
\* a number for each score: evaluating, comparing and citing traces speaks of
\* what was really returned.
AnswersAreTraced ==
  \A r \in Requests :
    /\ rq[r].pc = "record" =>
         (Accepted(rq[r], Snapshots(rq[r]))
            <=> \A c \in ToSet(rq[r].results) \intersect ToSet(rq[r].vector) : Finite(c))
    /\ rq[r].pc = "answered" =>
         \E t \in traces :
           /\ t.search = r
           /\ rq[r].results = [i \in DOMAIN t.results |-> t.results[i].chunk]
           /\ \A i \in DOMAIN t.results :
                t.results[i].vector # 0 => Finite(t.results[i].chunk)

\* How far down a branch a chunk is; one it did not return comes last.
Depth(branch, c) == IF Place(branch, c) = 0 THEN CandidateLimit + 1 ELSE Place(branch, c)

\* Fusion respects both branches: a chunk that neither ranks lower than another,
\* and one ranks higher, comes before it in the answer, and is not left out of
\* an answer that holds the other.
FusionRespectsBranches ==
  \A r \in Requests :
    rq[r].pc \in {"record", "answered"} /\ rq[r].mode = "hybrid" /\ ~rq[r].rerank =>
      \A j \in DOMAIN rq[r].results :
        \A a \in ToSet(rq[r].vector) \union ToSet(rq[r].keyword) :
          LET b == rq[r].results[j]
              Above(branch) == Depth(branch, a) < Depth(branch, b)
              Below(branch) == Depth(branch, a) > Depth(branch, b)
          IN  /\ ~Below(rq[r].vector) /\ ~Below(rq[r].keyword)
              /\ Above(rq[r].vector) \/ Above(rq[r].keyword)
              => \E i \in 1 .. j - 1 : rq[r].results[i] = a

\* "Historical versions are read-only and not used by normal retrieval"
\* (README.md:455): an answer does not hold a document's old version next to its
\* new one.
OneVersionPerDocument ==
  \A r \in Requests : rq[r].pc = "answered" =>
    \A a, b \in ToSet(rq[r].results) : a[1] = b[1] => a[2] = b[2]
=============================================================================
