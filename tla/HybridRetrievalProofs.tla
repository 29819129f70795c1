------------------------ MODULE HybridRetrievalProofs ------------------------
(* Every answer is a ranking of chunks that were active during its search, is  *)
(* traced as it was returned, and respects both branches: for any documents,   *)
(* rankings, filters and limits, any number of searches at once and any        *)
(* activations meanwhile.  And what is done with the traces is sound: comparing*)
(* two loses nothing, and no metric gets worse when a better chunk moves up.   *)
EXTENDS TraceAnalysis, FiniteSetTheorems, WellFoundedInduction, TLAPS

\* order is a strict total order of the members of S.
Orders(S, order) ==
  /\ \A a \in S : <<a, a>> \notin order
  /\ \A a, b \in S : a = b \/ <<a, b>> \in order \/ <<b, a>> \in order
  /\ \A a, b, c \in S : <<a, b>> \in order /\ <<b, c>> \in order => <<a, c>> \in order

Before(S, order, c) == {d \in S : <<d, c>> \in order}

\* How many members are before one is below the number of members, and differs
\* from one to the next in the direction of the order.
LEMMA BeforeCounts ==
  ASSUME NEW S, IsFiniteSet(S), NEW order, Orders(S, order)
  PROVE  /\ \A c \in S : Cardinality(Before(S, order, c)) \in 0 .. Cardinality(S) - 1
         /\ \A a, b \in S : <<a, b>> \in order
              <=> Cardinality(Before(S, order, a)) < Cardinality(Before(S, order, b))
  <1> DEFINE below(c) == Before(S, order, c)
             count(c) == Cardinality(below(c))
  <1>1. Cardinality(S) \in Nat BY FS_CardinalityType
  <1>2. ASSUME NEW c \in S
        PROVE  IsFiniteSet(below(c)) /\ count(c) \in Nat /\ count(c) < Cardinality(S)
    <2>1. below(c) \in SUBSET S /\ c \notin below(c) BY DEF Orders, Before
    <2>2. IsFiniteSet(below(c)) /\ count(c) <= Cardinality(S)
          /\ (Cardinality(S) = count(c) => S = below(c))
      BY <2>1, FS_Subset
    <2>3. count(c) \in Nat BY <2>2, FS_CardinalityType
    <2>4. count(c) # Cardinality(S) BY <2>1, <2>2
    <2> QED BY <1>1, <2>2, <2>3, <2>4
  <1>3. ASSUME NEW a \in S, NEW b \in S, <<a, b>> \in order
        PROVE  count(a) < count(b)
    <2>1. below(a) \in SUBSET below(b) /\ a \in below(b) /\ a \notin below(a)
      BY <1>3 DEF Orders, Before
    <2>2. count(a) <= count(b) /\ (count(b) = count(a) => below(b) = below(a))
      BY <1>2, <2>1, FS_Subset
    <2>3. count(a) # count(b) BY <2>1, <2>2
    <2> QED BY <1>2, <2>2, <2>3
  <1>4. ASSUME NEW a \in S, NEW b \in S, count(a) < count(b)
        PROVE  <<a, b>> \in order
    <2>1. a # b BY <1>2, <1>4
    <2>2. <<b, a>> \notin order BY <1>2, <1>3, <1>4
    <2> QED BY <2>1, <2>2 DEF Orders
  <1>5. \A c \in S : count(c) \in 0 .. Cardinality(S) - 1 BY <1>1, <1>2
  <1> HIDE DEF count
  <1>6. \A a, b \in S : <<a, b>> \in order <=> count(a) < count(b) BY <1>3, <1>4
  <1> QED BY <1>5, <1>6 DEF count

\* Listed holds every member exactly once, in the order.
LEMMA ListedIsSorted ==
  ASSUME NEW S, IsFiniteSet(S), NEW order, Orders(S, order)
  PROVE  LET list == Listed(S, order)
         IN  /\ list \in [1 .. Cardinality(S) -> S]
             /\ \A c \in S : \E i \in 1 .. Cardinality(S) : list[i] = c
             /\ \A i, j \in 1 .. Cardinality(S) : i < j <=> <<list[i], list[j]>> \in order
             /\ \A i, j \in 1 .. Cardinality(S) : list[i] = list[j] => i = j
  <1> DEFINE n == Cardinality(S)
             list == Listed(S, order)
             count == [c \in S |-> Cardinality(Before(S, order, c))]
  <1>1. n \in Nat BY FS_CardinalityType
  <1>2. count \in [S -> 0 .. n - 1] BY BeforeCounts
  <1>3. \A a, b \in S : count[a] = count[b] => a = b
    <2> SUFFICES ASSUME NEW a \in S, NEW b \in S, count[a] = count[b], a # b PROVE FALSE
      OBVIOUS
    <2>1. <<a, b>> \in order \/ <<b, a>> \in order BY DEF Orders
    <2>2. ~(count[a] < count[b]) /\ ~(count[b] < count[a]) BY <1>1, <1>2
    <2> QED BY <2>1, <2>2, BeforeCounts
  <1>4. count \in Injection(S, 0 .. n - 1) BY <1>2, <1>3 DEF Injection, IsInjective
  <1>5. IsFiniteSet(0 .. n - 1) /\ Cardinality(0 .. n - 1) = n
    BY <1>1, FS_Interval
  <1>6. count \in Surjection(S, 0 .. n - 1) BY <1>4, <1>5, FS_Injection
  <1>7. \A k \in 0 .. n - 1 : \E c \in S : count[c] = k BY <1>6 DEF Surjection
  <1>8. ASSUME NEW i \in 1 .. n
        PROVE  list[i] \in S /\ count[list[i]] = i - 1
    <2>1. i - 1 \in 0 .. n - 1 BY <1>1
    <2>2. list[i] = CHOOSE c \in S : Cardinality(Before(S, order, c)) = i - 1
      BY DEF Listed, Before
    <2>3. \E c \in S : Cardinality(Before(S, order, c)) = i - 1 BY <1>7, <2>1
    <2>4. list[i] \in S /\ Cardinality(Before(S, order, list[i])) = i - 1 BY <2>2, <2>3
    <2> QED BY <2>4
  <1>9. list \in [1 .. n -> S] BY <1>8 DEF Listed
  <1>10. ASSUME NEW c \in S PROVE \E i \in 1 .. n : list[i] = c
    <2>1. count[c] + 1 \in 1 .. n /\ count[c] \in Nat BY <1>1, <1>2
    <2>2. list[count[c] + 1] \in S /\ count[list[count[c] + 1]] = count[c] BY <1>8, <2>1
    <2> QED BY <1>3, <2>1, <2>2
  <1>11. ASSUME NEW i \in 1 .. n, NEW j \in 1 .. n
         PROVE  /\ i < j <=> <<list[i], list[j]>> \in order
                /\ list[i] = list[j] => i = j
    <2>1. /\ list[i] \in S /\ count[list[i]] = i - 1
          /\ list[j] \in S /\ count[list[j]] = j - 1
      BY <1>8
    <2>2. <<list[i], list[j]>> \in order <=> count[list[i]] < count[list[j]]
      BY <2>1, BeforeCounts
    <2> QED BY <2>1, <2>2
  <1> QED BY <1>9, <1>10, <1>11

\* Induction, as a fact about sets: it can be cited for any property of numbers.
LEMMA LeastExists ==
  ASSUME NEW S \in SUBSET Nat, S # {}
  PROVE  \E x \in S : \A y \in S : x <= y
  <1> DEFINE R == {pair \in Nat \X Nat : pair[1] < pair[2]}
  <1>1. IsWellFoundedOn(R, Nat) BY NatLessThanWellFounded DEF OpToRel
  <1> HIDE DEF R
  <1>2. PICK x \in S : \A y \in S : <<y, x>> \notin R BY <1>1, WFMin
  <1>3. ASSUME NEW y \in S PROVE x <= y
    <2>1. x \in Nat /\ y \in Nat /\ ~(y < x) BY <1>2 DEF R
    <2> QED BY <2>1
  <1> QED BY <1>3

LEMMA SetInduction ==
  ASSUME NEW n \in Nat, NEW S, 0 \in S, \A k \in 0 .. n - 1 : k \in S => k + 1 \in S
  PROVE  0 .. n \subseteq S
  <1> SUFFICES ASSUME 0 .. n \ S # {} PROVE FALSE OBVIOUS
  <1> DEFINE T == (0 .. n) \ S
  <1>0. T \in SUBSET Nat /\ T # {} OBVIOUS
  <1>1. PICK x \in T : \A y \in T : x <= y
    <2> HIDE DEF T
    <2> QED BY <1>0, LeastExists
  <1>2. x \in 1 .. n /\ x - 1 \in 0 .. n - 1 OBVIOUS
  <1>3. x - 1 \in S BY <1>1, <1>2
  <1> QED BY <1>2, <1>3

\* A branch of a search: chunks seen while it ran, none twice, no more than it
\* may hold.
BranchInv(q, branch, seen) ==
  /\ branch \in Seq(Chunk) /\ IsInjective(branch)
  /\ Len(branch) <= BranchLimit(q)
  /\ ToSet(branch) \subseteq seen

Pool(q) == UpTo(Fused(q.vector, q.keyword), CandidateLimit)

\* What a search found, by its mode.
ResultInv(q, results) ==
  /\ results \in Seq(Chunk) /\ IsInjective(results) /\ Len(results) <= Limit
  /\ q.mode = "vector" => results = q.vector
  /\ q.mode = "keyword" => results = q.keyword
  /\ q.mode = "hybrid" => ToSet(results) \subseteq ToSet(Pool(q))
  /\ q.mode = "hybrid" /\ ~q.rerank => results = UpTo(Fused(q.vector, q.keyword), Limit)

SearchFields(q) ==
  [pc |-> q.pc, mode |-> q.mode, rerank |-> q.rerank, filter |-> q.filter,
   pending |-> q.pending, vector |-> q.vector, keyword |-> q.keyword, results |-> q.results]

\* A search by itself: a branch that was not asked, or has not answered, is
\* empty, and the results are made of the branches.
SearchInv(q, seen) ==
  /\ q.pc # "failed" => q = SearchFields(q)
  /\ q.mode \in DOMAIN Branches /\ q.rerank \in BOOLEAN /\ (q.rerank => q.mode = "hybrid")
  /\ q.pending \subseteq Branches[q.mode]
  /\ BranchInv(q, q.vector, seen) /\ BranchInv(q, q.keyword, seen)
  /\ "vector" \notin Branches[q.mode] \ q.pending => q.vector = << >>
  /\ "keyword" \notin Branches[q.mode] \ q.pending => q.keyword = << >>
  /\ q.pc \in {"idle", "search", "rerank", "record", "answered", "failed"}
  /\ q.pc = "idle" => q = Idle
  /\ q.pc # "search" => q.pending = {}
  /\ q.pc = "rerank" => q.rerank /\ q.results = Pool(q)
  /\ q.pc \in {"record", "answered"} => ResultInv(q, q.results)

\* Every chunk that the vector branch found of a result has a cosine.
Measures(q, ranking) ==
  \A c \in ToSet(q.results) \intersect ToSet(q.vector) : Place(ranking, c) <= Measured[ranking]

\* Snapshots, with the ranking it reads as a parameter.
Shots(q, ranking) ==
  [i \in DOMAIN q.results |->
     [chunk     |-> q.results[i], rank |-> i,
      vector    |-> Place(q.vector, q.results[i]),
      keyword   |-> Place(q.keyword, q.results[i]),
      finite    |-> q.results[i] \in ToSet(q.vector)
                      => Place(ranking, q.results[i]) <= Measured[ranking],
      candidate |-> IF q.rerank THEN Place(Pool(q), q.results[i]) ELSE 0]]

\* An answer is stored, with a number for each score.
Recorded(r, q, ranking, stored) ==
  q.pc = "answered" =>
    [search |-> r, results |-> Shots(q, ranking)] \in stored /\ Measures(q, ranking)

\* The inductive invariant: what a search may read was served to it, and an
\* answer is traced.
SearchesInv ==
  /\ similarity \in Similarities /\ relevance \in Relevances
  /\ rq = [r \in Requests |-> rq[r]] /\ served = [r \in Requests |-> served[r]]
  /\ \A r \in Requests :
       /\ SearchInv(rq[r], served[r])
       /\ rq[r].pc = "search" => Searchable(rq[r], active) \subseteq served[r]
       /\ Recorded(r, rq[r], similarity, traces)

LEMMA ShotsAre ==
  /\ \A q : Snapshots(q) = Shots(q, similarity)
  /\ \A r : Trace(r) = [search |-> r, results |-> Shots(rq[r], similarity)]
  BY DEF Trace, Snapshots, Shots, Pool, Finite

-----------------------------------------------------------------------------

\* What a sequence holds is finite, and every member of it has a place.
LEMMA FiniteToSet ==
  ASSUME NEW T, NEW q \in Seq(T)
  PROVE  /\ IsFiniteSet(ToSet(q))
         /\ \A c : c \in ToSet(q) <=> \E i \in 1 .. Len(q) : q[i] = c
         /\ ToSet(q) \subseteq T
  <1>1. q \in [1 .. Len(q) -> T] /\ Len(q) \in Nat OBVIOUS
  <1>2. \A c : c \in ToSet(q) <=> \E i \in 1 .. Len(q) : q[i] = c BY <1>1 DEF ToSet
  <1>3. q \in Surjection(1 .. Len(q), ToSet(q)) BY <1>1, <1>2 DEF Surjection
  <1>4. IsFiniteSet(1 .. Len(q)) BY <1>1, FS_Interval
  <1>5. IsFiniteSet(ToSet(q)) BY <1>3, <1>4, FS_Surjection
  <1> QED BY <1>1, <1>2, <1>5

LEMMA PlaceIs ==
  ASSUME NEW T, NEW q \in Seq(T), NEW c
  PROVE  /\ c \in ToSet(q) => Place(q, c) \in 1 .. Len(q) /\ q[Place(q, c)] = c
         /\ c \notin ToSet(q) => Place(q, c) = 0
         /\ Place(q, c) \in Nat
         /\ Place(q, c) = 0 <=> c \notin ToSet(q)
  <1>1. CASE c \in ToSet(q)
    <2>1. \E i \in DOMAIN q : q[i] = c BY <1>1 DEF ToSet
    <2>2. Place(q, c) = CHOOSE i \in DOMAIN q : q[i] = c BY <1>1 DEF Place
    <2>3. Place(q, c) \in DOMAIN q /\ q[Place(q, c)] = c BY <2>1, <2>2
    <2>4. DOMAIN q = 1 .. Len(q) /\ Len(q) \in Nat OBVIOUS
    <2> QED BY <1>1, <2>3, <2>4
  <1>2. CASE c \notin ToSet(q) BY <1>2 DEF Place
  <1> QED BY <1>1, <1>2

LEMMA UpToIs ==
  ASSUME NEW T, NEW q \in Seq(T), NEW n \in Nat
  PROVE  /\ UpTo(q, n) \in Seq(T)
         /\ Len(UpTo(q, n)) <= n /\ Len(UpTo(q, n)) <= Len(q)
         /\ Len(UpTo(q, n)) = n \/ Len(UpTo(q, n)) = Len(q)
         /\ \A i \in 1 .. Len(UpTo(q, n)) : UpTo(q, n)[i] = q[i]
         /\ ToSet(UpTo(q, n)) \subseteq ToSet(q)
         /\ IsInjective(q) => IsInjective(UpTo(q, n))
  <1> DEFINE k == IF Len(q) < n THEN Len(q) ELSE n
             u == UpTo(q, n)
  <1>1. Len(q) \in Nat /\ k \in 0 .. Len(q) /\ k <= n /\ (k = n \/ k = Len(q)) OBVIOUS
  <1>2. u = SubSeq(q, 1, k) BY DEF UpTo
  <1>3. u \in Seq(T) /\ Len(u) = k BY <1>1, <1>2
  <1>4. \A i \in 1 .. k : u[i] = q[i] BY <1>1, <1>2
  <1>5. ToSet(u) \subseteq ToSet(q) BY <1>1, <1>3, <1>4, FiniteToSet
  <1>6. IsInjective(q) => IsInjective(u)
    <2>1. DOMAIN u = 1 .. k /\ 1 .. k \subseteq DOMAIN q BY <1>1, <1>3
    <2> QED BY <1>4, <2>1 DEF IsInjective
  <1> QED BY <1>1, <1>3, <1>4, <1>5, <1>6

-----------------------------------------------------------------------------

LEMMA RankingsAreRankings ==
  ASSUME NEW q \in Similarities \union Relevances
  PROVE  q \in Seq(Chunk) /\ IsInjective(q)
  BY OrderAssumption

\* A ranking orders what it holds.
LEMMA RankOrders ==
  ASSUME NEW ranking \in Seq(Chunk), NEW S, S \subseteq ToSet(ranking)
  PROVE  Orders(S, ByRank(ranking))
  <1>1. ASSUME NEW a \in S, NEW b \in S
        PROVE  <<a, b>> \in ByRank(ranking) <=> Place(ranking, a) < Place(ranking, b)
    <2>1. <<a, b>> \in ToSet(ranking) \X ToSet(ranking) OBVIOUS
    <2> QED BY <2>1 DEF ByRank
  <1>2. ASSUME NEW a \in S
        PROVE  Place(ranking, a) \in Nat /\ ranking[Place(ranking, a)] = a
    BY PlaceIs
  <1>3. \A a \in S : <<a, a>> \notin ByRank(ranking) BY <1>1, <1>2
  <1>4. \A a, b \in S : a = b \/ <<a, b>> \in ByRank(ranking) \/ <<b, a>> \in ByRank(ranking)
    <2> SUFFICES ASSUME NEW a \in S, NEW b \in S, a # b
                 PROVE  Place(ranking, a) < Place(ranking, b) \/ Place(ranking, b) < Place(ranking, a)
      BY <1>1
    <2>1. Place(ranking, a) # Place(ranking, b) BY <1>2
    <2> QED BY <1>2, <2>1
  <1>5. \A a, b, c \in S : <<a, b>> \in ByRank(ranking) /\ <<b, c>> \in ByRank(ranking)
                             => <<a, c>> \in ByRank(ranking)
    <2> SUFFICES ASSUME NEW a \in S, NEW b \in S, NEW c \in S,
                        Place(ranking, a) < Place(ranking, b), Place(ranking, b) < Place(ranking, c)
                 PROVE  Place(ranking, a) < Place(ranking, c)
      BY <1>1
    <2> QED BY <1>2
  <1> QED BY <1>3, <1>4, <1>5 DEF Orders

LEMMA ShareType ==
  ASSUME NEW branch \in Seq(Chunk), NEW c
  PROVE  Share(branch, c) \in Nat
  <1>1. Place(branch, c) \in Nat BY PlaceIs
  <1>2. RrfK + Place(branch, c) \in Nat \ {0} BY <1>1, LimitAssumption
  <1>3. Unit \in Nat BY LimitAssumption
  <1>4. Unit \div (RrfK + Place(branch, c)) \in Nat BY <1>2, <1>3
  <1> QED BY <1>4 DEF Share

\* Scores, and ids where they are equal, order the chunks.
LEMMA ScoreOrders ==
  ASSUME NEW vector \in Seq(Chunk), NEW keyword \in Seq(Chunk), NEW S, S \subseteq Chunk
  PROVE  Orders(S, ByScore(vector, keyword))
  <1> DEFINE score(c) == Score(vector, keyword, c)
             order == ByScore(vector, keyword)
  <1>1. ASSUME NEW a \in S, NEW b \in S
        PROVE  <<a, b>> \in order <=> score(a) > score(b) \/ (score(a) = score(b) /\ Id[a] < Id[b])
    <2>1. <<a, b>> \in Chunk \X Chunk OBVIOUS
    <2> QED BY <2>1 DEF ByScore
  <1>2. \A a \in S : score(a) \in Nat BY ShareType DEF Score
  <1>3. \A a \in S : Id[a] \in Nat BY OrderAssumption
  <1>4. \A a, b \in S : Id[a] = Id[b] => a = b BY OrderAssumption
  <1> HIDE DEF score, order
  <1>5. \A a \in S : <<a, a>> \notin order BY <1>1, <1>2, <1>3
  <1>6. \A a, b \in S : a = b \/ <<a, b>> \in order \/ <<b, a>> \in order
    <2> SUFFICES ASSUME NEW a \in S, NEW b \in S, a # b
                 PROVE  <<a, b>> \in order \/ <<b, a>> \in order
      OBVIOUS
    <2>1. score(a) \in Nat /\ score(b) \in Nat /\ Id[a] \in Nat /\ Id[b] \in Nat /\ Id[a] # Id[b]
      BY <1>2, <1>3, <1>4
    <2>2. \/ score(a) > score(b) \/ (score(a) = score(b) /\ Id[a] < Id[b])
          \/ score(b) > score(a) \/ (score(b) = score(a) /\ Id[b] < Id[a])
      BY <2>1
    <2> QED BY <1>1, <2>2
  <1>7. \A a, b, c \in S : <<a, b>> \in order /\ <<b, c>> \in order => <<a, c>> \in order
    <2> SUFFICES ASSUME NEW a \in S, NEW b \in S, NEW c \in S,
                        <<a, b>> \in order, <<b, c>> \in order
                 PROVE  <<a, c>> \in order
      OBVIOUS
    <2>1. /\ score(a) \in Nat /\ score(b) \in Nat /\ score(c) \in Nat
          /\ Id[a] \in Nat /\ Id[b] \in Nat /\ Id[c] \in Nat
      BY <1>2, <1>3
    <2>2. /\ score(a) > score(b) \/ (score(a) = score(b) /\ Id[a] < Id[b])
          /\ score(b) > score(c) \/ (score(b) = score(c) /\ Id[b] < Id[c])
      BY <1>1
    <2>3. score(a) > score(c) \/ (score(a) = score(c) /\ Id[a] < Id[c])
      BY <2>1, <2>2
    <2> QED BY <1>1, <2>3
  <1> QED BY <1>5, <1>6, <1>7 DEF Orders, order

\* Limits are numbers.
LEMMA LimitTypes ==
  /\ Limit \in Nat /\ CandidateLimit \in Nat /\ Limit <= CandidateLimit
  /\ \A q : BranchLimit(q) \in Nat /\ BranchLimit(q) <= CandidateLimit
  BY LimitAssumption DEF BranchLimit

\* A branch is a ranking of chunks that its filter lets through and that are
\* active, no longer than it may be.
LEMMA CandidatesAreActive ==
  ASSUME NEW q, NEW ranking \in Similarities \union Relevances
  PROVE  LET found == Candidates(q, ranking)
         IN  /\ found \in Seq(Chunk) /\ IsInjective(found)
             /\ Len(found) <= BranchLimit(q)
             /\ ToSet(found) \subseteq Searchable(q, active)
  <1> DEFINE S == ToSet(ranking) \intersect Searchable(q, active)
             list == Listed(S, ByRank(ranking))
  <1>1. ranking \in Seq(Chunk) BY RankingsAreRankings
  <1>2. IsFiniteSet(S) BY <1>1, FiniteToSet, FS_Intersection
  <1>3. S \subseteq Chunk BY <1>1, FiniteToSet
  <1>4. Orders(S, ByRank(ranking)) BY <1>1, RankOrders
  <1>5. Cardinality(S) \in Nat BY <1>2, FS_CardinalityType
  <1>6. list \in [1 .. Cardinality(S) -> S]
        /\ \A i, j \in 1 .. Cardinality(S) : list[i] = list[j] => i = j
    BY <1>2, <1>4, ListedIsSorted
  <1> HIDE DEF S, list
  <1>7. list \in Seq(S) BY <1>5, <1>6
  <1>8. IsInjective(list) BY <1>6 DEF IsInjective
  <1>9. Candidates(q, ranking) = UpTo(list, BranchLimit(q)) BY DEF Candidates, list, S
  <1>10. UpTo(list, BranchLimit(q)) \in Seq(S) /\ IsInjective(UpTo(list, BranchLimit(q)))
         /\ Len(UpTo(list, BranchLimit(q))) <= BranchLimit(q)
    BY <1>7, <1>8, LimitTypes, UpToIs
  <1>11. ToSet(UpTo(list, BranchLimit(q))) \subseteq S BY <1>10, FiniteToSet
  <1>12. UpTo(list, BranchLimit(q)) \in Seq(Chunk) BY <1>3, <1>10
  <1> QED BY <1>9, <1>10, <1>11, <1>12 DEF S

\* Fusion lists what the branches returned, the better before the worse.
LEMMA FusedIsSorted ==
  ASSUME NEW vector \in Seq(Chunk), NEW keyword \in Seq(Chunk)
  PROVE  LET fused == Fused(vector, keyword)
         IN  /\ fused \in Seq(Chunk) /\ IsInjective(fused)
             /\ ToSet(fused) = ToSet(vector) \union ToSet(keyword)
             /\ \A i, j \in 1 .. Len(fused) :
                  i < j <=> <<fused[i], fused[j]>> \in ByScore(vector, keyword)
  <1> DEFINE S == ToSet(vector) \union ToSet(keyword)
             order == ByScore(vector, keyword)
             list == Listed(S, order)
  <1>1. IsFiniteSet(S) BY FiniteToSet, FS_Union
  <1>2. S \subseteq Chunk BY FiniteToSet
  <1>3. Orders(S, order) BY <1>2, ScoreOrders
  <1>4. Cardinality(S) \in Nat BY <1>1, FS_CardinalityType
  <1> HIDE DEF S, order
  <1>5. /\ list \in [1 .. Cardinality(S) -> S]
        /\ \A c \in S : \E i \in 1 .. Cardinality(S) : list[i] = c
        /\ \A i, j \in 1 .. Cardinality(S) : i < j <=> <<list[i], list[j]>> \in order
        /\ \A i, j \in 1 .. Cardinality(S) : list[i] = list[j] => i = j
    BY <1>1, <1>3, ListedIsSorted
  <1> HIDE DEF list
  <1>6. list \in Seq(S) /\ list \in Seq(Chunk) /\ Len(list) = Cardinality(S) /\ DOMAIN list = 1 .. Cardinality(S)
    BY <1>2, <1>4, <1>5
  <1>7. IsInjective(list) BY <1>5, <1>6 DEF IsInjective
  <1>8. ToSet(list) = S BY <1>5, <1>6 DEF ToSet
  <1>9. Fused(vector, keyword) = list BY DEF Fused, list, S, order
  <1> QED BY <1>5, <1>6, <1>7, <1>8, <1>9 DEF S, order

-----------------------------------------------------------------------------

\* A share of the unit gets smaller with the divisor, when both go into it.
LEMMA ShareFalls ==
  ASSUME NEW u \in Nat \ {0}, NEW m \in Nat \ {0}, NEW n \in Nat \ {0},
         m < n, u % m = 0, u % n = 0
  PROVE  u \div n < u \div m /\ u \div n \in Nat \ {0}
  <1> DEFINE p == u \div m
             q == u \div n
  <1>1. p \in Nat /\ q \in Nat OBVIOUS
  <1>2. u = m * p BY SMTT(30)
  <1>3. u = n * q BY SMTT(30)
  <1> HIDE DEF p, q
  <1>4. p > 0 /\ q > 0
    <2>1. p = 0 => u = 0 BY <1>2
    <2>2. q = 0 => u = 0 BY <1>3
    <2> QED BY <1>1, <2>1, <2>2
  <1>5. ~(q >= p)
    <2> SUFFICES ASSUME q >= p PROVE FALSE OBVIOUS
    <2>1. n * q >= n * p BY <1>1, SMTT(30)
    <2>2. n * p = m * p + (n - m) * p BY <1>1, SMTT(30)
    <2>3. (n - m) * p > 0
      <3> DEFINE d == n - m
      <3>1. d \in Nat /\ d > 0 OBVIOUS
      <3> HIDE DEF d
      <3>2. d * p > 0 BY <1>1, <1>4, <3>1, SMTT(30)
      <3> QED BY <3>2 DEF d
    <2>4. m * p \in Nat /\ n * p \in Nat /\ n * q \in Nat /\ (n - m) * p \in Nat BY <1>1, SMTT(30)
    <2> QED BY <1>2, <1>3, <2>1, <2>2, <2>3, <2>4
  <1> QED BY <1>1, <1>4, <1>5 DEF p, q

\* What a depth in a branch is worth.
ShareAt(depth) == IF depth > CandidateLimit THEN 0 ELSE Unit \div (RrfK + depth)

LEMMA ShareAtFalls ==
  ASSUME NEW d \in 1 .. CandidateLimit + 1, NEW e \in 1 .. CandidateLimit + 1, d < e
  PROVE  ShareAt(e) < ShareAt(d)
  <1>1. CandidateLimit \in Nat /\ RrfK \in Nat \ {0} /\ Unit \in Nat \ {0} BY LimitAssumption
  <1>2. d \in 1 .. CandidateLimit BY <1>1
  <1>3. RrfK + d \in Nat \ {0} /\ Unit % (RrfK + d) = 0 BY <1>1, <1>2, LimitAssumption
  <1>4. CASE e > CandidateLimit
    <2>1. ShareAt(e) = 0 BY <1>4 DEF ShareAt
    <2>2. ShareAt(d) = Unit \div (RrfK + d) BY <1>1, <1>2 DEF ShareAt
    <2>3. Unit \div (RrfK + d) > 0
      <3> DEFINE k == RrfK + d
                 p == Unit \div k
      <3>1. Unit = k * p /\ p \in Nat BY <1>1, <1>3, SMTT(30)
      <3> HIDE DEF k, p
      <3>2. p # 0 BY <1>1, <1>3, <3>1 DEF k
      <3> QED BY <1>1, <1>3, <3>1, <3>2 DEF k, p
    <2> QED BY <2>1, <2>2, <2>3
  <1>5. CASE ~(e > CandidateLimit)
    <2>1. e \in 1 .. CandidateLimit BY <1>1, <1>5
    <2>2. RrfK + e \in Nat \ {0} /\ Unit % (RrfK + e) = 0 /\ RrfK + d < RrfK + e
      BY <1>1, <2>1, LimitAssumption
    <2>3. Unit \div (RrfK + e) < Unit \div (RrfK + d) BY <1>1, <1>3, <2>2, ShareFalls
    <2>4. ShareAt(e) = Unit \div (RrfK + e) /\ ShareAt(d) = Unit \div (RrfK + d)
      BY <1>1, <1>2, <1>5 DEF ShareAt
    <2> QED BY <2>3, <2>4
  <1> QED BY <1>4, <1>5

\* What a branch gives a chunk depends on how far down it the chunk is.
LEMMA ShareByDepth ==
  ASSUME NEW branch \in Seq(Chunk), Len(branch) <= CandidateLimit, NEW c
  PROVE  Depth(branch, c) \in 1 .. CandidateLimit + 1 /\ Share(branch, c) = ShareAt(Depth(branch, c))
  <1>1. CandidateLimit \in Nat /\ Len(branch) \in Nat BY LimitAssumption
  <1>2. CASE c \in ToSet(branch)
    <2>1. Place(branch, c) \in 1 .. Len(branch) BY <1>2, PlaceIs
    <2>2. Depth(branch, c) = Place(branch, c) BY <2>1 DEF Depth
    <2> QED BY <1>1, <1>2, <2>1, <2>2 DEF Share, ShareAt
  <1>3. CASE c \notin ToSet(branch)
    <2>1. Place(branch, c) = 0 BY <1>3, PlaceIs
    <2>2. Depth(branch, c) = CandidateLimit + 1 BY <2>1 DEF Depth
    <2> QED BY <1>1, <1>3, <2>2 DEF Share, ShareAt
  <1> QED BY <1>2, <1>3

\* A chunk that no branch ranks lower than another, and one ranks higher, has
\* the higher score.
LEMMA DominatorScoresHigher ==
  ASSUME NEW vector \in Seq(Chunk), Len(vector) <= CandidateLimit,
         NEW keyword \in Seq(Chunk), Len(keyword) <= CandidateLimit,
         NEW a \in Chunk, NEW b \in Chunk,
         ~(Depth(vector, a) > Depth(vector, b)), ~(Depth(keyword, a) > Depth(keyword, b)),
         Depth(vector, a) < Depth(vector, b) \/ Depth(keyword, a) < Depth(keyword, b)
  PROVE  <<a, b>> \in ByScore(vector, keyword)
  <1>1. /\ Share(vector, a) \in Nat /\ Share(vector, b) \in Nat
        /\ Share(keyword, a) \in Nat /\ Share(keyword, b) \in Nat
    BY ShareType
  <1>2. ASSUME NEW branch \in Seq(Chunk), Len(branch) <= CandidateLimit,
               ~(Depth(branch, a) > Depth(branch, b))
        PROVE  /\ Share(branch, a) >= Share(branch, b)
               /\ Depth(branch, a) < Depth(branch, b) => Share(branch, a) > Share(branch, b)
    <2>1. /\ Depth(branch, a) \in 1 .. CandidateLimit + 1
          /\ Depth(branch, b) \in 1 .. CandidateLimit + 1
          /\ Share(branch, a) = ShareAt(Depth(branch, a))
          /\ Share(branch, b) = ShareAt(Depth(branch, b))
      BY <1>2, ShareByDepth
    <2>2. Share(branch, a) \in Nat /\ Share(branch, b) \in Nat BY ShareType
    <2>3. CASE Depth(branch, a) < Depth(branch, b) BY <2>1, <2>2, <2>3, ShareAtFalls
    <2>4. CASE Depth(branch, a) = Depth(branch, b) BY <2>1, <2>2, <2>4
    <2>5. Depth(branch, a) < Depth(branch, b) \/ Depth(branch, a) = Depth(branch, b)
      BY <1>2, <2>1, LimitAssumption
    <2> QED BY <2>3, <2>4, <2>5
  <1>3. /\ Share(vector, a) >= Share(vector, b) /\ Share(keyword, a) >= Share(keyword, b)
        /\ Share(vector, a) > Share(vector, b) \/ Share(keyword, a) > Share(keyword, b)
    BY <1>2
  <1>4. Score(vector, keyword, a) > Score(vector, keyword, b) BY <1>1, <1>3 DEF Score
  <1>5. <<a, b>> \in Chunk \X Chunk OBVIOUS
  <1> QED BY <1>4, <1>5 DEF ByScore

-----------------------------------------------------------------------------

\* A step that changes one search, and at most adds to the traces.
LEMMA OneSearchChanges ==
  ASSUME SearchesInv, NEW r \in Requests, NEW q, NEW seen,
         UNCHANGED <<active, similarity, relevance>>,
         rq' = [rq EXCEPT ![r] = q], served' = [served EXCEPT ![r] = seen],
         traces \subseteq traces',
         SearchInv(q, seen),
         q.pc = "search" => Searchable(q, active) \subseteq seen,
         Recorded(r, q, similarity, traces')
  PROVE  SearchesInv'
  <1>1. rq'[r] = q /\ served'[r] = seen BY DEF SearchesInv
  <1>2. \A s \in Requests \ {r} : rq'[s] = rq[s] /\ served'[s] = served[s] BY DEF SearchesInv
  <1>3. rq' = [s \in Requests |-> rq'[s]] /\ served' = [s \in Requests |-> served'[s]]
    BY DEF SearchesInv
  <1>4. similarity' \in Similarities /\ relevance' \in Relevances BY DEF SearchesInv
  <1>5. ASSUME NEW s \in Requests
        PROVE  /\ SearchInv(rq'[s], served'[s])
               /\ rq'[s].pc = "search" => Searchable(rq'[s], active') \subseteq served'[s]
               /\ Recorded(s, rq'[s], similarity', traces')
    <2>1. CASE s = r BY <1>1, <2>1
    <2>2. CASE s # r
      <3>1. rq'[s] = rq[s] /\ served'[s] = served[s] /\ active' = active BY <1>2, <2>2
      <3>2. /\ SearchInv(rq[s], served[s])
            /\ rq[s].pc = "search" => Searchable(rq[s], active) \subseteq served[s]
            /\ Recorded(s, rq[s], similarity, traces)
        BY DEF SearchesInv
      <3>3. Recorded(s, rq[s], similarity, traces') BY <3>2 DEF Recorded
      <3> QED BY <3>1, <3>2, <3>3
    <2> QED BY <2>1, <2>2
  <1> QED BY <1>3, <1>4, <1>5 DEF SearchesInv

\* Nothing was found yet.
LEMMA EmptyBranch ==
  ASSUME NEW q, NEW seen
  PROVE  BranchInv(q, << >>, seen)
  <1>1. ToSet(<< >>) = {} BY DEF ToSet
  <1>2. IsInjective(<< >>) BY DEF IsInjective
  <1>3. << >> \in Seq(Chunk) /\ Len(<< >>) = 0 OBVIOUS
  <1>4. 0 <= BranchLimit(q) BY LimitTypes
  <1> QED BY <1>1, <1>2, <1>3, <1>4 DEF BranchInv

LEMMA IdleIsSearch ==
  ASSUME NEW seen
  PROVE  SearchInv(Idle, seen) /\ SearchInv(Failed, seen)
         /\ Idle.pc = "idle" /\ Failed.pc = "failed"
  <1>1. /\ Idle = SearchFields(Idle) /\ Idle.pc = "idle"
        /\ Idle.mode = "hybrid" /\ Idle.rerank = FALSE /\ Idle.pending = {}
        /\ Idle.vector = << >> /\ Idle.keyword = << >>
    BY DEF Idle, SearchFields
  <1>1a. /\ Failed.pc = "failed"
         /\ Failed.mode = "hybrid" /\ Failed.rerank = FALSE /\ Failed.pending = {}
         /\ Failed.vector = << >> /\ Failed.keyword = << >>
    BY <1>1 DEF Idle, Failed
  <1>2. "hybrid" \in DOMAIN Branches BY DEF Branches
  <1>3. BranchInv(Idle, << >>, seen) /\ BranchInv(Failed, << >>, seen) BY EmptyBranch
  <1>4. SearchInv(Idle, seen) BY <1>1, <1>2, <1>3 DEF SearchInv
  <1>5. SearchInv(Failed, seen) BY <1>1a, <1>2, <1>3 DEF SearchInv
  <1> QED BY <1>1, <1>1a, <1>4, <1>5

LEMMA SearchesInit == Init => SearchesInv
  <1> SUFFICES ASSUME Init PROVE SearchesInv OBVIOUS
  <1>1. similarity \in Similarities /\ relevance \in Relevances BY DEF Init
  <1>2. rq = [r \in Requests |-> rq[r]] /\ served = [r \in Requests |-> served[r]] BY DEF Init
  <1>3. \A r \in Requests : rq[r] = Idle BY DEF Init
  <1>4. \A r \in Requests : SearchInv(rq[r], served[r]) /\ rq[r].pc = "idle"
    BY <1>3, IdleIsSearch
  <1>5. \A r \in Requests : Recorded(r, rq[r], similarity, traces) BY <1>4 DEF Recorded
  <1> QED BY <1>1, <1>2, <1>4, <1>5 DEF SearchesInv

LEMMA ActivateKeeps ==
  ASSUME SearchesInv, NEW d \in Docs, Activate(d)
  PROVE  SearchesInv'
  <1>1. /\ rq' = rq /\ traces' = traces /\ similarity' = similarity /\ relevance' = relevance
        /\ served' = [r \in Requests |->
             IF rq[r].pc = "search" THEN served[r] \union Searchable(rq[r], active')
                                    ELSE served[r]]
    BY DEF Activate
  <1>2. served' = [r \in Requests |-> served'[r]] BY <1>1
  <1>3. ASSUME NEW r \in Requests
        PROVE  /\ SearchInv(rq'[r], served'[r])
               /\ rq'[r].pc = "search" => Searchable(rq'[r], active') \subseteq served'[r]
               /\ Recorded(r, rq'[r], similarity', traces')
    <2>1. served[r] \subseteq served'[r] BY <1>1
    <2>2. SearchInv(rq[r], served[r]) BY DEF SearchesInv
    <2>3. /\ BranchInv(rq[r], rq[r].vector, served'[r])
          /\ BranchInv(rq[r], rq[r].keyword, served'[r])
      BY <2>1, <2>2 DEF SearchInv, BranchInv
    <2>4. SearchInv(rq[r], served'[r]) BY <2>2, <2>3 DEF SearchInv
    <2>5. rq[r].pc = "search" => Searchable(rq[r], active') \subseteq served'[r] BY <1>1
    <2>6. Recorded(r, rq[r], similarity, traces) BY DEF SearchesInv
    <2> QED BY <1>1, <2>4, <2>5, <2>6
  <1> QED BY <1>1, <1>2, <1>3 DEF SearchesInv

LEMMA BeginKeeps ==
  ASSUME SearchesInv, NEW r \in Requests, Begin(r)
  PROVE  SearchesInv'
  <1>1. PICK mode \in DOMAIN Branches, rerank \in BOOLEAN, filter \in Filters :
          /\ rerank => mode = "hybrid"
          /\ LET q == [rq[r] EXCEPT !.pc = "search", !.mode = mode, !.rerank = rerank,
                                    !.filter = filter, !.pending = Branches[mode]]
             IN  Become(r, q) /\ served' = [served EXCEPT ![r] = Searchable(q, active)]
    BY DEF Begin
  <1> DEFINE q == [rq[r] EXCEPT !.pc = "search", !.mode = mode, !.rerank = rerank,
                                !.filter = filter, !.pending = Branches[mode]]
             seen == Searchable(q, active)
  <1>2. SearchInv(rq[r], served[r]) /\ rq[r].pc = "idle" BY DEF SearchesInv, Begin
  <1>3. rq[r].vector = << >> /\ rq[r].keyword = << >>
    BY <1>2 DEF SearchInv, Idle
  <1>3a. rq[r] = SearchFields(rq[r])
    BY <1>2 DEF SearchInv
  <1>4. q = [pc |-> "search", mode |-> mode, rerank |-> rerank, filter |-> filter,
             pending |-> Branches[mode], vector |-> rq[r].vector, keyword |-> rq[r].keyword,
             results |-> rq[r].results]
    <2> DEFINE asked == Branches[mode]
    <2>1. q = [rq[r] EXCEPT !.pc = "search", !.mode = mode, !.rerank = rerank,
                                !.filter = filter, !.pending = asked]
      OBVIOUS
    <2> HIDE DEF q, asked
    <2>2. q = [pc |-> "search", mode |-> mode, rerank |-> rerank, filter |-> filter,
             pending |-> asked, vector |-> rq[r].vector, keyword |-> rq[r].keyword,
             results |-> rq[r].results]
      BY <1>3a, <2>1 DEF SearchFields
    <2> QED BY <2>2 DEF asked
  <1>5. traces' = traces /\ Become(r, q) /\ served' = [served EXCEPT ![r] = seen]
    BY <1>1 DEF Begin
  <1>6. rerank => mode = "hybrid" BY <1>1
  <1> HIDE DEF q
  <1>7. q = SearchFields(q) BY <1>4 DEF SearchFields
  <1>8. BranchInv(q, << >>, seen) BY EmptyBranch
  <1>9. SearchInv(q, seen) BY <1>3, <1>4, <1>6, <1>7, <1>8 DEF SearchInv
  <1>10. q.pc = "search" BY <1>4
  <1> QED BY <1>5, <1>9, <1>10, OneSearchChanges DEF Become, Recorded

\* A branch that answers.
LEMMA ReadVectorKeeps ==
  ASSUME SearchesInv, NEW r \in Requests, ReadVector(r)
  PROVE  SearchesInv'
  <1> DEFINE old  == rq[r]
             pending == old.pending \ {"vector"}
             found == Candidates(old, similarity)
             q == [old EXCEPT !.vector = found, !.pending = pending]
             seen == served[r]
  <1>1. /\ SearchInv(old, seen) /\ old.pc = "search" /\ "vector" \in old.pending
        /\ Searchable(old, active) \subseteq seen
    BY DEF SearchesInv, ReadVector
  <1>2. /\ Become(r, q) /\ traces' = traces /\ served' = served
    BY DEF ReadVector
  <1>3. old = SearchFields(old) BY <1>1 DEF SearchInv
  <1>4. /\ found \in Seq(Chunk) /\ IsInjective(found) /\ Len(found) <= BranchLimit(old)
        /\ ToSet(found) \subseteq seen
    BY <1>1, CandidatesAreActive DEF SearchesInv
  <1>5. pending \subseteq old.pending /\ "vector" \notin pending
        /\ ("keyword" \in old.pending => "keyword" \in pending)
    OBVIOUS
  <1> HIDE DEF found, pending
  <1>5a. q = [old EXCEPT !.vector = found, !.pending = pending] OBVIOUS
  <1> HIDE DEF q
  <1>6. q = [pc |-> old.pc, mode |-> old.mode, rerank |-> old.rerank, filter |-> old.filter,
             pending |-> pending, vector |-> found, keyword |-> old.keyword,
             results |-> old.results]
    BY <1>3, <1>5a DEF SearchFields
  <1>7. q = SearchFields(q) BY <1>6 DEF SearchFields
  <1>8. BranchLimit(q) = BranchLimit(old) BY <1>6 DEF BranchLimit
  <1>9. BranchInv(q, q.vector, seen) BY <1>4, <1>6, <1>8 DEF BranchInv
  <1>10. BranchInv(q, q.keyword, seen) BY <1>1, <1>6, <1>8 DEF BranchInv, SearchInv
  <1>11. SearchInv(q, seen)
    <2>1. q.pending \subseteq Branches[q.mode] BY <1>1, <1>5, <1>6 DEF SearchInv
    <2>2. "vector" \in Branches[q.mode] \ q.pending BY <1>1, <1>5, <1>6 DEF SearchInv
    <2>3. "keyword" \notin Branches[q.mode] \ q.pending => q.keyword = << >>
      BY <1>1, <1>5, <1>6 DEF SearchInv
    <2>4. q.mode \in DOMAIN Branches /\ q.rerank \in BOOLEAN /\ (q.rerank => q.mode = "hybrid")
      BY <1>1, <1>6 DEF SearchInv
    <2>5. q.pc = "search" BY <1>1, <1>6
    <2> QED BY <1>7, <1>9, <1>10, <2>1, <2>2, <2>3, <2>4, <2>5 DEF SearchInv
  <1>12. Searchable(q, active) \subseteq seen BY <1>1, <1>6 DEF Searchable
  <1>13. served' = [served EXCEPT ![r] = seen] BY <1>2 DEF SearchesInv
  <1>14. q.pc = "search" BY <1>1, <1>6
  <1> QED BY <1>2, <1>11, <1>12, <1>13, <1>14, OneSearchChanges DEF Become, Recorded

LEMMA ReadKeywordKeeps ==
  ASSUME SearchesInv, NEW r \in Requests, ReadKeyword(r)
  PROVE  SearchesInv'
  <1> DEFINE old  == rq[r]
             pending == old.pending \ {"keyword"}
             found == Candidates(old, relevance)
             q == [old EXCEPT !.keyword = found, !.pending = pending]
             seen == served[r]
  <1>1. /\ SearchInv(old, seen) /\ old.pc = "search" /\ "keyword" \in old.pending
        /\ Searchable(old, active) \subseteq seen
    BY DEF SearchesInv, ReadKeyword
  <1>2. /\ Become(r, q) /\ traces' = traces /\ served' = served
    BY DEF ReadKeyword
  <1>3. old = SearchFields(old) BY <1>1 DEF SearchInv
  <1>4. /\ found \in Seq(Chunk) /\ IsInjective(found) /\ Len(found) <= BranchLimit(old)
        /\ ToSet(found) \subseteq seen
    BY <1>1, CandidatesAreActive DEF SearchesInv
  <1>5. pending \subseteq old.pending /\ "keyword" \notin pending
        /\ ("vector" \in old.pending => "vector" \in pending)
    OBVIOUS
  <1> HIDE DEF found, pending
  <1>5a. q = [old EXCEPT !.keyword = found, !.pending = pending] OBVIOUS
  <1> HIDE DEF q
  <1>6. q = [pc |-> old.pc, mode |-> old.mode, rerank |-> old.rerank, filter |-> old.filter,
             pending |-> pending, vector |-> old.vector, keyword |-> found,
             results |-> old.results]
    BY <1>3, <1>5a DEF SearchFields
  <1>7. q = SearchFields(q) BY <1>6 DEF SearchFields
  <1>8. BranchLimit(q) = BranchLimit(old) BY <1>6 DEF BranchLimit
  <1>9. BranchInv(q, q.keyword, seen) BY <1>4, <1>6, <1>8 DEF BranchInv
  <1>10. BranchInv(q, q.vector, seen) BY <1>1, <1>6, <1>8 DEF BranchInv, SearchInv
  <1>11. SearchInv(q, seen)
    <2>1. q.pending \subseteq Branches[q.mode] BY <1>1, <1>5, <1>6 DEF SearchInv
    <2>2. "keyword" \in Branches[q.mode] \ q.pending BY <1>1, <1>5, <1>6 DEF SearchInv
    <2>3. "vector" \notin Branches[q.mode] \ q.pending => q.vector = << >>
      BY <1>1, <1>5, <1>6 DEF SearchInv
    <2>4. q.mode \in DOMAIN Branches /\ q.rerank \in BOOLEAN /\ (q.rerank => q.mode = "hybrid")
      BY <1>1, <1>6 DEF SearchInv
    <2>5. q.pc = "search" BY <1>1, <1>6
    <2> QED BY <1>7, <1>9, <1>10, <2>1, <2>2, <2>3, <2>4, <2>5 DEF SearchInv
  <1>12. Searchable(q, active) \subseteq seen BY <1>1, <1>6 DEF Searchable
  <1>13. served' = [served EXCEPT ![r] = seen] BY <1>2 DEF SearchesInv
  <1>14. q.pc = "search" BY <1>1, <1>6
  <1> QED BY <1>2, <1>11, <1>12, <1>13, <1>14, OneSearchChanges DEF Become, Recorded

\* A step that leaves the branches and decides on results.
LEMMA ResultsDecided ==
  ASSUME SearchesInv, NEW r \in Requests, rq[r].pc \in {"search", "rerank"},
         rq[r].pending = {}, UNCHANGED <<traces, served>>,
         NEW q, Become(r, q), q = SearchFields(q),
         q.mode = rq[r].mode, q.rerank = rq[r].rerank, q.pending = rq[r].pending,
         q.vector = rq[r].vector, q.keyword = rq[r].keyword,
         q.pc \in {"rerank", "record"},
         q.pc = "rerank" => rq[r].rerank /\ q.results = Pool(rq[r]),
         q.pc = "record" => ResultInv(rq[r], q.results)
  PROVE  SearchesInv'
  <1> DEFINE old == rq[r]
             seen == served[r]
  <1>1. SearchInv(old, seen) BY DEF SearchesInv
  <1>2. BranchLimit(q) = BranchLimit(old) BY DEF BranchLimit
  <1>3. BranchInv(q, q.vector, seen) /\ BranchInv(q, q.keyword, seen)
    BY <1>1, <1>2 DEF BranchInv, SearchInv
  <1>4. Pool(q) = Pool(old) BY DEF Pool
  <1>5. q.pc = "record" => ResultInv(q, q.results) BY <1>4 DEF ResultInv
  <1>6. q.pc = "rerank" => q.rerank /\ q.results = Pool(q) BY <1>4
  <1>7. /\ q.mode \in DOMAIN Branches /\ q.rerank \in BOOLEAN /\ (q.rerank => q.mode = "hybrid")
        /\ q.pending \subseteq Branches[q.mode] /\ q.pending = {}
        /\ "vector" \notin Branches[q.mode] \ q.pending => q.vector = << >>
        /\ "keyword" \notin Branches[q.mode] \ q.pending => q.keyword = << >>
    BY <1>1 DEF SearchInv
  <1>8. SearchInv(q, seen) BY <1>3, <1>5, <1>6, <1>7 DEF SearchInv
  <1>9. served' = [served EXCEPT ![r] = seen] BY DEF SearchesInv
  <1>10. q.pc # "search" /\ q.pc # "answered" OBVIOUS
  <1>11. /\ UNCHANGED <<active, similarity, relevance>> /\ rq' = [rq EXCEPT ![r] = q]
         /\ traces \subseteq traces'
    BY DEF Become
  <1> QED BY <1>8, <1>9, <1>10, <1>11, OneSearchChanges DEF Recorded

\* A search of one branch.
LEMMA CollectKeeps ==
  ASSUME SearchesInv, NEW r \in Requests, Collect(r)
  PROVE  SearchesInv'
  <1> DEFINE old == rq[r]
             results == IF old.mode = "vector" THEN old.vector ELSE old.keyword
  <1>1. /\ SearchInv(old, served[r]) /\ old.pc = "search" /\ old.pending = {}
        /\ old.mode # "hybrid"
        /\ Become(r, [old EXCEPT !.pc = "record", !.results = results])
        /\ UNCHANGED <<traces, served>>
    BY DEF SearchesInv, Collect
  <1>2. old.mode \in {"vector", "keyword"} BY <1>1 DEF SearchInv, Branches
  <1>3. BranchInv(old, results, served[r]) BY <1>1 DEF SearchInv
  <1>4. BranchLimit(old) = Limit BY <1>1 DEF BranchLimit
  <1>5. ResultInv(old, results)
    <2>1. old.mode = "vector" => results = old.vector OBVIOUS
    <2>2. old.mode = "keyword" => results = old.keyword OBVIOUS
    <2> HIDE DEF results
    <2> QED BY <1>1, <1>3, <1>4, <2>1, <2>2 DEF ResultInv, BranchInv
  <1> HIDE DEF results
  <1> DEFINE q == [old EXCEPT !.pc = "record", !.results = results]
  <1>6. Become(r, q) BY <1>1
  <1>7. q = [old EXCEPT !.pc = "record", !.results = results] OBVIOUS
  <1> HIDE DEF q
  <1>8. old = SearchFields(old) BY <1>1 DEF SearchInv
  <1>9. q = [pc |-> "record", mode |-> old.mode, rerank |-> old.rerank, filter |-> old.filter,
             pending |-> old.pending, vector |-> old.vector, keyword |-> old.keyword,
             results |-> results]
    BY <1>7, <1>8 DEF SearchFields
  <1>10. /\ q = SearchFields(q) /\ q.pc = "record" /\ q.results = results
         /\ q.mode = old.mode /\ q.rerank = old.rerank /\ q.pending = old.pending
         /\ q.vector = old.vector /\ q.keyword = old.keyword
    BY <1>9 DEF SearchFields
  <1> QED BY <1>1, <1>5, <1>6, <1>10, ResultsDecided

\* The fused pool of the two branches of a search.
LEMMA PoolIs ==
  ASSUME NEW q, NEW seen, SearchInv(q, seen)
  PROVE  LET fused == Fused(q.vector, q.keyword)
         IN  /\ fused \in Seq(Chunk) /\ IsInjective(fused)
             /\ ToSet(fused) = ToSet(q.vector) \union ToSet(q.keyword)
             /\ ToSet(fused) \subseteq seen
             /\ Pool(q) \in Seq(Chunk) /\ IsInjective(Pool(q))
             /\ Len(Pool(q)) <= CandidateLimit
             /\ ToSet(Pool(q)) \subseteq ToSet(fused)
  <1> DEFINE fused == Fused(q.vector, q.keyword)
  <1>1. /\ q.vector \in Seq(Chunk) /\ ToSet(q.vector) \subseteq seen
        /\ q.keyword \in Seq(Chunk) /\ ToSet(q.keyword) \subseteq seen
    BY DEF SearchInv, BranchInv
  <1>2. /\ fused \in Seq(Chunk) /\ IsInjective(fused)
        /\ ToSet(fused) = ToSet(q.vector) \union ToSet(q.keyword)
    BY <1>1, FusedIsSorted
  <1> HIDE DEF fused
  <1>3. /\ UpTo(fused, CandidateLimit) \in Seq(Chunk) /\ IsInjective(UpTo(fused, CandidateLimit))
        /\ Len(UpTo(fused, CandidateLimit)) <= CandidateLimit
        /\ ToSet(UpTo(fused, CandidateLimit)) \subseteq ToSet(fused)
    BY <1>2, LimitTypes, UpToIs
  <1> QED BY <1>1, <1>2, <1>3 DEF Pool, fused

LEMMA FuseKeeps ==
  ASSUME SearchesInv, NEW r \in Requests, Fuse(r)
  PROVE  SearchesInv'
  <1> DEFINE old == rq[r]
             fused == Fused(old.vector, old.keyword)
             rerank == old.rerank /\ fused # << >>
             pc == IF rerank THEN "rerank" ELSE "record"
             results == UpTo(fused, IF old.rerank THEN CandidateLimit ELSE Limit)
  <1>1. /\ SearchInv(old, served[r]) /\ old.pc = "search" /\ old.pending = {}
        /\ old.mode = "hybrid"
        /\ Become(r, [old EXCEPT !.pc = pc, !.results = results])
        /\ UNCHANGED <<traces, served>>
    BY DEF SearchesInv, Fuse
  <1>2. pc \in {"rerank", "record"} OBVIOUS
  <1>3. fused \in Seq(Chunk) /\ IsInjective(fused) BY <1>1, PoolIs
  <1>4. pc = "rerank" => old.rerank /\ results = Pool(old) BY DEF Pool
  <1>5. pc = "record" => ResultInv(old, results)
    <2> SUFFICES ASSUME ~rerank PROVE ResultInv(old, results) OBVIOUS
    <2>1. CASE ~old.rerank
      <3>1. results = UpTo(fused, Limit) BY <2>1
      <3>2. results = UpTo(Fused(old.vector, old.keyword), Limit) BY <3>1
      <3>3. results \in Seq(Chunk) /\ IsInjective(results) /\ Len(results) <= Limit
        BY <1>3, <3>1, LimitTypes, UpToIs
      <3>4. ToSet(results) \subseteq ToSet(Pool(old))
        <4> SUFFICES ASSUME NEW c \in ToSet(results) PROVE c \in ToSet(Pool(old)) OBVIOUS
        <4>1. PICK i \in 1 .. Len(results) : results[i] = c BY <3>3, FiniteToSet
        <4>2. /\ Len(results) <= Limit /\ Len(results) <= Len(fused) /\ results[i] = fused[i]
              /\ Len(Pool(old)) = CandidateLimit \/ Len(Pool(old)) = Len(fused)
              /\ \A j \in 1 .. Len(Pool(old)) : Pool(old)[j] = fused[j]
              /\ Pool(old) \in Seq(Chunk)
          BY <1>3, <3>1, <4>1, LimitTypes, UpToIs DEF Pool
        <4>3. i \in 1 .. Len(Pool(old)) BY <4>1, <4>2, LimitTypes
        <4>4. Pool(old)[i] = c BY <4>1, <4>2, <4>3
        <4> HIDE DEF results, fused
        <4> QED BY <4>2, <4>3, <4>4, FiniteToSet
      <3> HIDE DEF results, fused
      <3> QED BY <1>1, <3>2, <3>3, <3>4 DEF ResultInv
    <2>2. CASE old.rerank
      <3>1. fused = << >> BY <2>2
      <3>2. results = UpTo(<< >>, CandidateLimit) BY <2>2, <3>1
      <3>3. << >> \in Seq(Chunk) /\ Len(<< >>) = 0 OBVIOUS
      <3>4. results \in Seq(Chunk) /\ Len(results) <= 0 BY <3>2, <3>3, LimitTypes, UpToIs
      <3> HIDE DEF results
      <3>5. Len(results) = 0 /\ results = << >> BY <3>4
      <3>6. IsInjective(results) /\ ToSet(results) = {} BY <3>5 DEF IsInjective, ToSet
      <3> QED BY <1>1, <2>2, <3>4, <3>5, <3>6, LimitTypes DEF ResultInv
    <2> QED BY <2>1, <2>2
  <1> HIDE DEF pc, results
  <1> DEFINE q == [old EXCEPT !.pc = pc, !.results = results]
  <1>6. Become(r, q) BY <1>1
  <1>7. q = [old EXCEPT !.pc = pc, !.results = results] OBVIOUS
  <1> HIDE DEF q
  <1>8. old = SearchFields(old) BY <1>1 DEF SearchInv
  <1>9. q = [pc |-> pc, mode |-> old.mode, rerank |-> old.rerank, filter |-> old.filter,
             pending |-> old.pending, vector |-> old.vector, keyword |-> old.keyword,
             results |-> results]
    BY <1>7, <1>8 DEF SearchFields
  <1>10. /\ q = SearchFields(q) /\ q.pc = pc /\ q.results = results
         /\ q.mode = old.mode /\ q.rerank = old.rerank /\ q.pending = old.pending
         /\ q.vector = old.vector /\ q.keyword = old.keyword
    BY <1>9 DEF SearchFields
  <1> QED BY <1>1, <1>2, <1>4, <1>5, <1>6, <1>10, ResultsDecided

\* Whatever order the cross-encoder prefers, it is of the pool.
LEMMA RerankKeeps ==
  ASSUME SearchesInv, NEW r \in Requests, Rerank(r)
  PROVE  SearchesInv'
  <1> DEFINE old == rq[r]
             pool == ToSet(old.results)
  <1>1. PICK order \in SetToSeqs(pool) :
          /\ Become(r, [old EXCEPT !.pc = "record", !.results = UpTo(order, Limit)])
          /\ UNCHANGED <<traces, served>>
    BY DEF Rerank
  <1>2. SearchInv(old, served[r]) /\ old.pc = "rerank" BY DEF SearchesInv, Rerank
  <1>3. old.rerank /\ old.mode = "hybrid" /\ old.pending = {} /\ old.results = Pool(old)
    BY <1>2 DEF SearchInv
  <1>4. Pool(old) \in Seq(Chunk) BY <1>2, PoolIs
  <1>5. IsFiniteSet(pool) /\ pool \subseteq Chunk BY <1>3, <1>4, FiniteToSet
  <1>6. Cardinality(pool) \in Nat BY <1>5, FS_CardinalityType
  <1> HIDE DEF pool
  <1>7. /\ order \in [1 .. Cardinality(pool) -> pool]
        /\ \A i, j \in 1 .. Cardinality(pool) : i # j => order[i] # order[j]
    BY DEF SetToSeqs
  <1>8. order \in Seq(pool) /\ DOMAIN order = 1 .. Cardinality(pool) BY <1>6, <1>7
  <1>9. IsInjective(order) BY <1>7, <1>8 DEF IsInjective
  <1> DEFINE results == UpTo(order, Limit)
  <1>10. /\ results \in Seq(pool) /\ IsInjective(results) /\ Len(results) <= Limit
    BY <1>8, <1>9, LimitTypes, UpToIs
  <1> HIDE DEF results
  <1>11. results \in Seq(Chunk) /\ ToSet(results) \subseteq pool
    BY <1>5, <1>10, FiniteToSet
  <1>12. ResultInv(old, results) BY <1>3, <1>10, <1>11 DEF ResultInv, pool
  <1> DEFINE q == [old EXCEPT !.pc = "record", !.results = results]
  <1>13. Become(r, q) BY <1>1 DEF results
  <1>14. q = [old EXCEPT !.pc = "record", !.results = results] OBVIOUS
  <1> HIDE DEF q
  <1>15. old = SearchFields(old) BY <1>2 DEF SearchInv
  <1>16. q = [pc |-> "record", mode |-> old.mode, rerank |-> old.rerank, filter |-> old.filter,
              pending |-> old.pending, vector |-> old.vector, keyword |-> old.keyword,
              results |-> results]
    BY <1>14, <1>15 DEF SearchFields
  <1>17. /\ q = SearchFields(q) /\ q.pc = "record" /\ q.results = results
         /\ q.mode = old.mode /\ q.rerank = old.rerank /\ q.pending = old.pending
         /\ q.vector = old.vector /\ q.keyword = old.keyword
    BY <1>16 DEF SearchFields
  <1> QED BY <1>1, <1>2, <1>3, <1>12, <1>13, <1>17, ResultsDecided

\* A trace accepts what a search found, unless it has no cosine where it needs
\* one.
LEMMA FoundIsAccepted ==
  ASSUME NEW q, NEW seen, SearchInv(q, seen), q.pc = "record"
  PROVE  Accepted(q, Snapshots(q)) <=> Measures(q, similarity)
  <1> DEFINE found == q.results
             shots == Snapshots(q)
             pool == UpTo(Fused(q.vector, q.keyword), CandidateLimit)
  <1>1. ResultInv(q, found) /\ q.mode \in {"vector", "keyword", "hybrid"} /\ q.rerank \in BOOLEAN
        /\ (q.rerank => q.mode = "hybrid") /\ q.pending = {}
    BY DEF SearchInv, Branches
  <1>2. found \in Seq(Chunk) /\ IsInjective(found) /\ Len(found) <= Limit
        /\ DOMAIN found = 1 .. Len(found) /\ Len(found) \in Nat
    BY <1>1 DEF ResultInv
  <1>3. DOMAIN shots = 1 .. Len(found) /\ Len(shots) = Len(found) BY <1>2 DEF Snapshots
  <1>4. q.vector \in Seq(Chunk) /\ q.keyword \in Seq(Chunk) BY DEF SearchInv, BranchInv
  <1>5. pool = Pool(q) /\ pool \in Seq(Chunk) /\ Len(pool) <= CandidateLimit
    BY PoolIs DEF Pool
  <1>6. ASSUME NEW i \in 1 .. Len(found)
        PROVE  /\ shots[i].rank = i /\ shots[i].chunk = found[i]
               /\ shots[i].vector = Place(q.vector, found[i])
               /\ shots[i].keyword = Place(q.keyword, found[i])
               /\ shots[i].candidate = IF q.rerank THEN Place(pool, found[i]) ELSE 0
               /\ shots[i].finite <=> (found[i] \in ToSet(q.vector) => Finite(found[i]))
    BY <1>2 DEF Snapshots
  <1> HIDE DEF shots, pool
  <1>7. ASSUME NEW i \in 1 .. Len(found)
        PROVE  /\ \E branch \in Branches[q.mode] : shots[i][branch] # 0
               /\ \A branch \in {"vector", "keyword"} \ Branches[q.mode] : shots[i][branch] = 0
               /\ q.rerank => shots[i].candidate \in 1 .. CandidateLimit
               /\ ~q.rerank => shots[i].candidate = 0
    <2>1. found[i] \in ToSet(found) BY <1>2, FiniteToSet
    <2>2. /\ shots[i].vector = 0 <=> found[i] \notin ToSet(q.vector)
          /\ shots[i].keyword = 0 <=> found[i] \notin ToSet(q.keyword)
      BY <1>4, <1>6, PlaceIs
    <2>3. ToSet(<< >>) = {} BY DEF ToSet
    <2>4. CASE q.mode = "vector"
      <3>1. found = q.vector /\ q.keyword = << >> BY <1>1, <2>4 DEF ResultInv, SearchInv, Branches
      <3>2. shots[i].vector # 0 /\ shots[i].keyword = 0 BY <2>1, <2>2, <2>3, <3>1
      <3>3. Branches[q.mode] = {"vector"} BY <2>4 DEF Branches
      <3> QED BY <1>1, <1>6, <2>4, <3>2, <3>3
    <2>5. CASE q.mode = "keyword"
      <3>1. found = q.keyword /\ q.vector = << >> BY <1>1, <2>5 DEF ResultInv, SearchInv, Branches
      <3>2. shots[i].keyword # 0 /\ shots[i].vector = 0 BY <2>1, <2>2, <2>3, <3>1
      <3>3. Branches[q.mode] = {"keyword"} BY <2>5 DEF Branches
      <3> QED BY <1>1, <1>6, <2>5, <3>2, <3>3
    <2>6. CASE q.mode = "hybrid"
      <3>1. found[i] \in ToSet(pool) BY <1>1, <1>5, <2>1, <2>6 DEF ResultInv
      <3>2. found[i] \in ToSet(q.vector) \union ToSet(q.keyword) BY <1>5, <3>1, PoolIs
      <3>3. shots[i].vector # 0 \/ shots[i].keyword # 0 BY <2>2, <3>2
      <3>4. Branches[q.mode] = {"vector", "keyword"} BY <2>6 DEF Branches
      <3>5. Place(pool, found[i]) \in 1 .. Len(pool) BY <1>5, <3>1, PlaceIs
      <3>6. Place(pool, found[i]) \in 1 .. CandidateLimit BY <1>5, <3>5, LimitTypes
      <3>7. q.rerank => shots[i].candidate \in 1 .. CandidateLimit BY <1>6, <3>6
      <3>8. ~q.rerank => shots[i].candidate = 0 BY <1>6
      <3> QED BY <3>3, <3>4, <3>7, <3>8
    <2> QED BY <1>1, <2>4, <2>5, <2>6
  <1>8. ASSUME NEW i \in 1 .. Len(found), NEW j \in 1 .. i - 1
        PROVE  shots[j].chunk # shots[i].chunk
    <2>1. j \in 1 .. Len(found) /\ j # i BY <1>2
    <2> QED BY <1>2, <1>6, <2>1 DEF IsInjective
  <1>9. ASSUME NEW i \in DOMAIN shots
        PROVE  /\ shots[i].rank = i
               /\ \A j \in 1 .. i - 1 : shots[j].chunk # shots[i].chunk
               /\ \E branch \in Branches[q.mode] : shots[i][branch] # 0
               /\ \A branch \in {"vector", "keyword"} \ Branches[q.mode] : shots[i][branch] = 0
               /\ IF q.rerank THEN shots[i].candidate \in 1 .. CandidateLimit
                              ELSE shots[i].candidate = 0
    BY <1>3, <1>6, <1>7, <1>8
  <1>10. Accepted(q, shots) <=> \A i \in DOMAIN shots : shots[i].finite
    BY <1>2, <1>3, <1>9 DEF Accepted
  <1>11. (\A i \in DOMAIN shots : shots[i].finite)
           <=> \A i \in 1 .. Len(found) : found[i] \in ToSet(q.vector) => Finite(found[i])
    BY <1>3, <1>6
  <1>12. Measures(q, similarity)
           <=> \A i \in 1 .. Len(found) : found[i] \in ToSet(q.vector) => Finite(found[i])
    <2>1. Measures(q, similarity)
            <=> \A c \in ToSet(found) : c \in ToSet(q.vector) => Finite(c)
      BY DEF Measures, Finite
    <2>2. \A c : c \in ToSet(found) <=> \E i \in 1 .. Len(found) : found[i] = c
      BY <1>2, FiniteToSet
    <2> HIDE DEF found
    <2> QED BY <2>1, <2>2
  <1> QED BY <1>10, <1>11, <1>12 DEF shots

LEMMA FailedKeeps ==
  ASSUME SearchesInv, NEW r \in Requests, Become(r, Failed), served' = served,
         traces \subseteq traces'
  PROVE  SearchesInv'
  <1>1. SearchInv(Failed, served[r]) /\ Failed.pc = "failed" BY IdleIsSearch
  <1>2. served' = [served EXCEPT ![r] = served[r]] BY DEF SearchesInv
  <1> HIDE DEF Failed
  <1> QED BY <1>1, <1>2, OneSearchChanges DEF Become, Recorded

LEMMA RecordKeeps ==
  ASSUME SearchesInv, NEW r \in Requests, Record(r)
  PROVE  SearchesInv'
  <1> DEFINE old == rq[r]
             q == [old EXCEPT !.pc = "answered"]
             seen == served[r]
  <1>1. SearchInv(old, seen) /\ old.pc = "record" /\ served' = served
    BY DEF SearchesInv, Record
  <1>2. CASE ~Accepted(old, Snapshots(old)) BY <1>1, <1>2, FailedKeeps DEF Record
  <1> SUFFICES ASSUME Accepted(old, Snapshots(old)) PROVE SearchesInv' BY <1>2
  <1>3. traces' = traces \union {Trace(r)} /\ Become(r, q) BY DEF Record
  <1>4. old = SearchFields(old) BY <1>1 DEF SearchInv
  <1>5. q = [old EXCEPT !.pc = "answered"] OBVIOUS
  <1> HIDE DEF q
  <1>6. q = [pc |-> "answered", mode |-> old.mode, rerank |-> old.rerank, filter |-> old.filter,
             pending |-> old.pending, vector |-> old.vector, keyword |-> old.keyword,
             results |-> old.results]
    BY <1>4, <1>5 DEF SearchFields
  <1>7. /\ q = SearchFields(q) /\ q.pc = "answered" /\ q.results = old.results
        /\ q.mode = old.mode /\ q.rerank = old.rerank /\ q.pending = old.pending
        /\ q.vector = old.vector /\ q.keyword = old.keyword
    BY <1>6 DEF SearchFields
  <1>8. BranchInv(q, q.vector, seen) /\ BranchInv(q, q.keyword, seen)
    BY <1>1, <1>7 DEF BranchInv, SearchInv, BranchLimit
  <1>9. ResultInv(q, q.results) BY <1>1, <1>7 DEF SearchInv, ResultInv, Pool
  <1>10. /\ q.mode \in DOMAIN Branches /\ q.rerank \in BOOLEAN /\ (q.rerank => q.mode = "hybrid")
         /\ q.pending \subseteq Branches[q.mode] /\ q.pending = {}
         /\ "vector" \notin Branches[q.mode] \ q.pending => q.vector = << >>
         /\ "keyword" \notin Branches[q.mode] \ q.pending => q.keyword = << >>
    BY <1>1, <1>7 DEF SearchInv
  <1>11. SearchInv(q, seen) BY <1>7, <1>8, <1>9, <1>10 DEF SearchInv
  <1>12. Shots(q, similarity) = Shots(old, similarity) BY <1>7 DEF Shots, Pool
  <1>13. Recorded(r, q, similarity, traces')
    <2>1. [search |-> r, results |-> Shots(q, similarity)] \in traces'
      BY <1>3, <1>12, ShotsAre
    <2>2. Measures(old, similarity) BY <1>1, FoundIsAccepted
    <2>3. Measures(q, similarity) BY <1>7, <2>2 DEF Measures
    <2> QED BY <2>1, <2>3 DEF Recorded
  <1>14. served' = [served EXCEPT ![r] = seen] BY <1>1 DEF SearchesInv
  <1>15. /\ UNCHANGED <<active, similarity, relevance>> /\ rq' = [rq EXCEPT ![r] = q]
         /\ traces \subseteq traces'
    BY <1>3 DEF Become
  <1>16. q.pc # "search" BY <1>7
  <1> QED BY <1>11, <1>13, <1>14, <1>15, <1>16, OneSearchChanges

\* No step of any search, and no activation, disturbs the invariant.
LEMMA SearchesStep == SearchesInv /\ [Next]_vars => SearchesInv'
  <1> SUFFICES ASSUME SearchesInv, [Next]_vars PROVE SearchesInv' OBVIOUS
  <1>1. CASE UNCHANGED vars
    <2>1. /\ active' = active /\ similarity' = similarity /\ relevance' = relevance
          /\ rq' = rq /\ traces' = traces /\ served' = served
      BY <1>1 DEF vars
    <2> QED BY <2>1 DEF SearchesInv
  <1>2. ASSUME NEW d \in Docs, Activate(d) PROVE SearchesInv' BY <1>2, ActivateKeeps
  <1>3. ASSUME NEW r \in Requests, RecordFails(r) PROVE SearchesInv'
    BY <1>3, FailedKeeps DEF RecordFails
  <1>4. ASSUME NEW r \in Requests, SearchFails(r) PROVE SearchesInv'
    BY <1>4, FailedKeeps DEF SearchFails
  <1> QED BY <1>1, <1>2, <1>3, <1>4, BeginKeeps, ReadVectorKeeps, ReadKeywordKeeps, CollectKeeps,
             FuseKeeps, RerankKeeps, RecordKeeps DEF Next

\* The invariant of searches holds in every reachable state.
THEOREM Searches == Spec => []SearchesInv
  BY SearchesInit, SearchesStep, PTL DEF Spec

-----------------------------------------------------------------------------

LEMMA InvServes == SearchesInv => AnswersWereActive
  <1> SUFFICES ASSUME SearchesInv, NEW r \in Requests, rq[r].pc = "answered"
               PROVE  ToSet(rq[r].results) \subseteq served[r]
    BY DEF AnswersWereActive
  <1>1. SearchInv(rq[r], served[r]) BY DEF SearchesInv
  <1>2. ResultInv(rq[r], rq[r].results) /\ rq[r].mode \in {"vector", "keyword", "hybrid"}
    BY <1>1 DEF SearchInv, Branches
  <1>3. ToSet(rq[r].vector) \subseteq served[r] /\ ToSet(rq[r].keyword) \subseteq served[r]
    BY <1>1 DEF SearchInv, BranchInv
  <1>4. ToSet(Pool(rq[r])) \subseteq served[r] BY <1>1, PoolIs
  <1> QED BY <1>2, <1>3, <1>4 DEF ResultInv

LEMMA InvTraces == SearchesInv => AnswersAreTraced
  <1> SUFFICES ASSUME SearchesInv, NEW r \in Requests
               PROVE  /\ rq[r].pc = "record" =>
                           (Accepted(rq[r], Snapshots(rq[r]))
                              <=> \A c \in ToSet(rq[r].results) \intersect ToSet(rq[r].vector) :
                                    Finite(c))
                      /\ rq[r].pc = "answered" =>
                           \E t \in traces :
                             /\ t.search = r
                             /\ rq[r].results = [i \in DOMAIN t.results |-> t.results[i].chunk]
                             /\ \A i \in DOMAIN t.results :
                                  t.results[i].vector # 0 => Finite(t.results[i].chunk)
    BY DEF AnswersAreTraced
  <1>1. SearchInv(rq[r], served[r]) BY DEF SearchesInv
  <1>2. rq[r].pc = "record" =>
          (Accepted(rq[r], Snapshots(rq[r]))
             <=> \A c \in ToSet(rq[r].results) \intersect ToSet(rq[r].vector) : Finite(c))
    BY <1>1, FoundIsAccepted DEF Measures, Finite
  <1>3. ASSUME rq[r].pc = "answered"
        PROVE  LET t == Trace(r)
               IN  /\ t \in traces /\ t.search = r
                   /\ rq[r].results = [i \in DOMAIN t.results |-> t.results[i].chunk]
                   /\ \A i \in DOMAIN t.results :
                        t.results[i].vector # 0 => Finite(t.results[i].chunk)
    <2>1. Trace(r) \in traces /\ Measures(rq[r], similarity)
      BY <1>3, ShotsAre DEF SearchesInv, Recorded
    <2>2. Trace(r).search = r /\ Trace(r).results = Snapshots(rq[r]) BY DEF Trace
    <2>3. /\ DOMAIN Snapshots(rq[r]) = DOMAIN rq[r].results
          /\ \A i \in DOMAIN rq[r].results :
               /\ Snapshots(rq[r])[i].chunk = rq[r].results[i]
               /\ Snapshots(rq[r])[i].vector = Place(rq[r].vector, rq[r].results[i])
      BY DEF Snapshots
    <2>4. rq[r].results \in Seq(Chunk) /\ rq[r].vector \in Seq(Chunk)
      BY <1>1, <1>3 DEF SearchInv, ResultInv, BranchInv
    <2>5. rq[r].results = [i \in DOMAIN rq[r].results |-> rq[r].results[i]] BY <2>4
    <2>6. ASSUME NEW i \in DOMAIN rq[r].results, Place(rq[r].vector, rq[r].results[i]) # 0
          PROVE  Finite(rq[r].results[i])
      <3>1. rq[r].results[i] \in ToSet(rq[r].vector) BY <2>4, <2>6, PlaceIs
      <3>2. rq[r].results[i] \in ToSet(rq[r].results) BY <2>4, FiniteToSet
      <3> QED BY <2>1, <3>1, <3>2 DEF Measures, Finite
    <2> QED BY <2>1, <2>2, <2>3, <2>5, <2>6
  <1> QED BY <1>2, <1>3

LEMMA InvRespects == SearchesInv => FusionRespectsBranches
  <1> SUFFICES ASSUME SearchesInv, NEW r \in Requests,
                      rq[r].pc \in {"record", "answered"}, rq[r].mode = "hybrid", ~rq[r].rerank,
                      NEW j \in DOMAIN rq[r].results,
                      NEW a \in ToSet(rq[r].vector) \union ToSet(rq[r].keyword),
                      ~(Depth(rq[r].vector, a) > Depth(rq[r].vector, rq[r].results[j])),
                      ~(Depth(rq[r].keyword, a) > Depth(rq[r].keyword, rq[r].results[j])),
                      \/ Depth(rq[r].vector, a) < Depth(rq[r].vector, rq[r].results[j])
                      \/ Depth(rq[r].keyword, a) < Depth(rq[r].keyword, rq[r].results[j])
               PROVE  \E i \in 1 .. j - 1 : rq[r].results[i] = a
    BY DEF FusionRespectsBranches
  <1> DEFINE q == rq[r]
             fused == Fused(q.vector, q.keyword)
             found == q.results
  <1>1. SearchInv(q, served[r]) BY DEF SearchesInv
  <1>2. found = UpTo(fused, Limit) BY <1>1 DEF SearchInv, ResultInv
  <1>3. BranchLimit(q) = CandidateLimit BY DEF BranchLimit
  <1>4. /\ q.vector \in Seq(Chunk) /\ Len(q.vector) <= CandidateLimit
        /\ q.keyword \in Seq(Chunk) /\ Len(q.keyword) <= CandidateLimit
    BY <1>1, <1>3 DEF SearchInv, BranchInv
  <1>5. /\ fused \in Seq(Chunk) /\ IsInjective(fused)
        /\ ToSet(fused) = ToSet(q.vector) \union ToSet(q.keyword)
        /\ \A i, k \in 1 .. Len(fused) :
             i < k <=> <<fused[i], fused[k]>> \in ByScore(q.vector, q.keyword)
    BY <1>4, FusedIsSorted
  <1> HIDE DEF fused
  <1>6. /\ found \in Seq(Chunk) /\ Len(found) <= Len(fused)
        /\ Len(found) \in Nat /\ Len(fused) \in Nat
        /\ \A i \in 1 .. Len(found) : found[i] = fused[i]
    BY <1>2, <1>5, LimitTypes, UpToIs
  <1>7. j \in 1 .. Len(found) /\ j \in 1 .. Len(fused) /\ found[j] = fused[j] /\ found[j] \in Chunk
    BY <1>6
  <1>8. PICK i \in 1 .. Len(fused) : fused[i] = a BY <1>5, FiniteToSet
  <1>9. a \in Chunk BY <1>5, <1>8
  <1>10. <<a, found[j]>> \in ByScore(q.vector, q.keyword)
    BY <1>4, <1>7, <1>9, DominatorScoresHigher
  <1>11. i < j BY <1>5, <1>7, <1>8, <1>10
  <1>12. i \in 1 .. j - 1 /\ i \in 1 .. Len(found) BY <1>6, <1>7, <1>8, <1>11
  <1> QED BY <1>6, <1>8, <1>12

\* Each chunk of an answer was active while the search ran, for any activations.
THEOREM AnswersServeActive == Spec => []AnswersWereActive
  BY Searches, InvServes, PTL

\* A trace is refused only for a cosine that is not a number, and every answer
\* has its own, for any rankings, zero vectors, limits and activations.
THEOREM AnswersTraced == Spec => []AnswersAreTraced
  BY Searches, InvTraces, PTL

\* Fusion respects both branches, for any rankings, limits and rrf_k.
THEOREM FusionRespects == Spec => []FusionRespectsBranches
  BY Searches, InvRespects, PTL
-----------------------------------------------------------------------------

\* A trace that readers may rely on.
WellFormed(results) ==
  /\ results \in Seq(TraceResult) /\ Len(results) < NotRanked
  /\ IsInjective(ChunksOf(results))

TracesInv == \A t \in traces : WellFormed(t.results)

LEMMA FoundIsWellFormed ==
  ASSUME NEW q, NEW seen, SearchInv(q, seen), q.pc = "record", Accepted(q, Snapshots(q))
  PROVE  WellFormed(Snapshots(q))
  <1> DEFINE found == q.results
             shots == Snapshots(q)
             pool == UpTo(Fused(q.vector, q.keyword), CandidateLimit)
  <1>1. found \in Seq(Chunk) /\ IsInjective(found) /\ Len(found) <= Limit
    BY DEF SearchInv, ResultInv
  <1>2. DOMAIN found = 1 .. Len(found) /\ Len(found) \in Nat BY <1>1
  <1>3. q.vector \in Seq(Chunk) /\ q.keyword \in Seq(Chunk) BY DEF SearchInv, BranchInv
  <1>4. pool = Pool(q) /\ pool \in Seq(Chunk) BY PoolIs DEF Pool
  <1>5. DOMAIN shots = 1 .. Len(found) BY <1>2 DEF Snapshots
  <1>11. \A i \in 1 .. Len(found) :
           (found[i] \in ToSet(q.vector) => Finite(found[i])) = TRUE
    BY <1>2 DEF Accepted, Snapshots
  <1>6. ASSUME NEW i \in 1 .. Len(found)
        PROVE  shots[i] \in TraceResult /\ shots[i].chunk = found[i]
    <2> DEFINE rank(branch) == Place(branch, found[i])
    <2>1. rank(q.vector) \in Nat /\ rank(q.keyword) \in Nat /\ rank(pool) \in Nat
      BY <1>3, <1>4, PlaceIs
    <2>2. shots[i] = [chunk |-> found[i], rank |-> i, vector |-> rank(q.vector),
                      keyword |-> rank(q.keyword), finite |-> TRUE,
                      candidate |-> IF q.rerank THEN rank(pool) ELSE 0]
      BY <1>2, <1>11 DEF Snapshots
    <2>3. found[i] \in Chunk /\ i \in Nat BY <1>1
    <2> HIDE DEF rank
    <2> QED BY <2>1, <2>2, <2>3 DEF TraceResult
  <1>7. shots = [i \in 1 .. Len(found) |-> shots[i]] BY <1>2 DEF Snapshots
  <1> HIDE DEF shots
  <1>8. shots \in Seq(TraceResult) /\ Len(shots) = Len(found)
    <2>1. shots \in [1 .. Len(found) -> TraceResult] BY <1>6, <1>7
    <2> QED BY <1>2, <2>1
  <1>9. ChunksOf(shots) = found
    <2>1. ChunksOf(shots) = [i \in 1 .. Len(found) |-> found[i]] BY <1>5, <1>6 DEF ChunksOf
    <2> QED BY <1>1, <2>1
  <1>10. Len(shots) < NotRanked BY <1>1, <1>2, <1>8, LimitTypes, AnalysisAssumption
  <1> QED BY <1>1, <1>8, <1>9, <1>10 DEF WellFormed, shots

\* What is stored stays as it was stored.
LEMMA TracesStep == SearchesInv /\ TracesInv /\ [Next]_vars => TracesInv'
  <1> SUFFICES ASSUME SearchesInv, TracesInv, [Next]_vars PROVE TracesInv' OBVIOUS
  <1>1. ASSUME NEW r \in Requests, rq[r].pc = "record", Accepted(rq[r], Snapshots(rq[r])),
               traces' \subseteq traces \union {Trace(r)}
        PROVE  TracesInv'
    <2>1. SearchInv(rq[r], served[r]) BY DEF SearchesInv
    <2>2. WellFormed(Snapshots(rq[r])) BY <1>1, <2>1, FoundIsWellFormed
    <2>3. Trace(r).results = Snapshots(rq[r]) BY DEF Trace
    <2>4. \A t \in traces' : t \in traces \/ t = Trace(r) BY <1>1
    <2>5. \A t \in traces' : WellFormed(t.results) BY <2>2, <2>3, <2>4 DEF TracesInv
    <2> QED BY <2>5 DEF TracesInv
  <1>2. CASE traces' = traces BY <1>2 DEF TracesInv
  <1>3. ASSUME NEW r \in Requests, Record(r) PROVE TracesInv'
    <2>1. rq[r].pc = "record" BY <1>3 DEF Record
    <2>2. CASE Accepted(rq[r], Snapshots(rq[r]))
      <3>1. traces' = traces \union {Trace(r)} BY <1>3, <2>2 DEF Record
      <3> QED BY <1>1, <2>1, <2>2, <3>1
    <2>3. CASE ~Accepted(rq[r], Snapshots(rq[r])) BY <1>2, <1>3, <2>3 DEF Record
    <2> QED BY <2>2, <2>3
  <1>4. ASSUME NEW r \in Requests, RecordFails(r) PROVE TracesInv'
    <2>1. /\ rq[r].pc = "record" /\ Accepted(rq[r], Snapshots(rq[r]))
          /\ traces' \subseteq traces \union {Trace(r)}
      BY <1>4 DEF RecordFails
    <2> QED BY <1>1, <2>1
  <1>5. CASE UNCHANGED vars BY <1>2, <1>5 DEF vars
  <1>6. ASSUME NEW d \in Docs, Activate(d) PROVE traces' = traces BY <1>6 DEF Activate
  <1>7. ASSUME NEW r \in Requests,
               Begin(r) \/ ReadVector(r) \/ ReadKeyword(r) \/ Collect(r) \/ Fuse(r)
               \/ Rerank(r) \/ SearchFails(r)
        PROVE  traces' = traces
    BY <1>7 DEF Begin, ReadVector, ReadKeyword, Collect, Fuse, Rerank, SearchFails
  <1> QED BY <1>2, <1>3, <1>4, <1>5, <1>6, <1>7 DEF Next

LEMMA TracesInit == Init => TracesInv
  BY AnalysisAssumption DEF Init, TracesInv, WellFormed

\* Every stored trace is a ranking of distinct chunks.
THEOREM TracesWellFormed == Spec => []TracesInv
  <1>1. SearchesInv /\ TracesInv /\ [Next]_vars => TracesInv' BY TracesStep
  <1>2. Init => TracesInv BY TracesInit
  <1> QED BY <1>1, <1>2, Searches, PTL DEF Spec

-----------------------------------------------------------------------------

\* A chunk has one place in a ranking.
LEMMA PlaceOf ==
  ASSUME NEW q \in Seq(Chunk), IsInjective(q), NEW i \in 1 .. Len(q)
  PROVE  q[i] \in ToSet(q) /\ Place(q, q[i]) = i
  <1>1. q[i] \in ToSet(q) BY FiniteToSet
  <1>2. Place(q, q[i]) \in 1 .. Len(q) /\ q[Place(q, q[i])] = q[i] BY <1>1, PlaceIs
  <1>3. DOMAIN q = 1 .. Len(q) OBVIOUS
  <1> QED BY <1>1, <1>2, <1>3 DEF IsInjective

FirstOf(q, n) == {q[j] : j \in 1 .. n}

\* The first n members of a list without repeats are n.
LEMMA CountFirst ==
  ASSUME NEW L \in Nat, NEW T, NEW q \in [1 .. L -> T],
         \A i, j \in 1 .. L : q[i] = q[j] => i = j, NEW n \in 0 .. L
  PROVE  Cardinality(FirstOf(q, n)) = n
  <1> DEFINE first == {q[j] : j \in 1 .. n}
             f == [j \in 1 .. n |-> q[j]]
  <1>1. f \in Bijection(1 .. n, first)
    <2>1. f \in [1 .. n -> first] OBVIOUS
    <2>2. \A i, j \in 1 .. n : f[i] = f[j] => i = j OBVIOUS
    <2>3. \A c \in first : \E j \in 1 .. n : f[j] = c OBVIOUS
    <2> HIDE DEF f, first
    <2> QED BY <2>1, <2>2, <2>3 DEF Bijection, Injection, Surjection, IsInjective
  <1>2. IsFiniteSet(1 .. n) /\ Cardinality(1 .. n) = n BY FS_Interval
  <1> HIDE DEF f, first
  <1>3. ExistsBijection(1 .. n, first) BY <1>1 DEF ExistsBijection
  <1>4. Cardinality(first) = Cardinality(1 .. n) BY <1>2, <1>3, FS_Bijection
  <1> QED BY <1>2, <1>4 DEF first, FirstOf

LEMMA SortRankIs ==
  ASSUME NEW q \in Seq(Chunk), Len(q) < NotRanked, NEW c
  PROVE  /\ SortRank(q, c) \in Nat
         /\ c \in ToSet(q) => SortRank(q, c) = Place(q, c) /\ SortRank(q, c) < NotRanked
         /\ c \notin ToSet(q) => SortRank(q, c) = NotRanked
  <1>1. NotRanked \in Nat /\ Len(q) \in Nat BY AnalysisAssumption
  <1>2. c \in ToSet(q) => Place(q, c) \in 1 .. Len(q) BY PlaceIs
  <1> QED BY <1>1, <1>2 DEF SortRank

\* Ranks, and ids where they are equal, order the chunks.
LEMMA RanksOrder ==
  ASSUME NEW first \in Seq(Chunk), NEW second \in Seq(Chunk),
         Len(first) < NotRanked, Len(second) < NotRanked, NEW S, S \subseteq Chunk
  PROVE  Orders(S, ByRanks(first, second))
  <1> DEFINE f(c) == SortRank(first, c)
             s(c) == SortRank(second, c)
             order == ByRanks(first, second)
  <1>1. ASSUME NEW a \in S, NEW b \in S
        PROVE  <<a, b>> \in order
               <=> f(a) < f(b) \/ (f(a) = f(b) /\ (s(a) < s(b) \/ (s(a) = s(b) /\ Id[a] < Id[b])))
    <2>1. <<a, b>> \in Chunk \X Chunk OBVIOUS
    <2> QED BY <2>1 DEF ByRanks
  <1>2. \A a \in S : f(a) \in Nat /\ s(a) \in Nat BY SortRankIs
  <1>3. \A a \in S : Id[a] \in Nat BY OrderAssumption
  <1>4. \A a, b \in S : Id[a] = Id[b] => a = b BY OrderAssumption
  <1> HIDE DEF f, s, order
  <1>5. \A a \in S : <<a, a>> \notin order BY <1>1, <1>2, <1>3
  <1>6. \A a, b \in S : a = b \/ <<a, b>> \in order \/ <<b, a>> \in order
    <2> SUFFICES ASSUME NEW a \in S, NEW b \in S, a # b
                 PROVE  <<a, b>> \in order \/ <<b, a>> \in order
      OBVIOUS
    <2>1. /\ f(a) \in Nat /\ f(b) \in Nat /\ s(a) \in Nat /\ s(b) \in Nat
          /\ Id[a] \in Nat /\ Id[b] \in Nat /\ Id[a] # Id[b]
      BY <1>2, <1>3, <1>4
    <2>2. \/ f(a) < f(b) \/ (f(a) = f(b) /\ (s(a) < s(b) \/ (s(a) = s(b) /\ Id[a] < Id[b])))
          \/ f(b) < f(a) \/ (f(b) = f(a) /\ (s(b) < s(a) \/ (s(b) = s(a) /\ Id[b] < Id[a])))
      BY <2>1
    <2> QED BY <1>1, <2>2
  <1>7. \A a, b, c \in S : <<a, b>> \in order /\ <<b, c>> \in order => <<a, c>> \in order
    <2> SUFFICES ASSUME NEW a \in S, NEW b \in S, NEW c \in S,
                        <<a, b>> \in order, <<b, c>> \in order
                 PROVE  <<a, c>> \in order
      OBVIOUS
    <2>1. /\ f(a) \in Nat /\ f(b) \in Nat /\ f(c) \in Nat /\ s(a) \in Nat /\ s(b) \in Nat
          /\ s(c) \in Nat /\ Id[a] \in Nat /\ Id[b] \in Nat /\ Id[c] \in Nat
      BY <1>2, <1>3
    <2>2. f(a) < f(b) \/ (f(a) = f(b) /\ (s(a) < s(b) \/ (s(a) = s(b) /\ Id[a] < Id[b])))
      BY <1>1
    <2>3. f(b) < f(c) \/ (f(b) = f(c) /\ (s(b) < s(c) \/ (s(b) = s(c) /\ Id[b] < Id[c])))
      BY <1>1
    <2>4. f(a) < f(c) \/ (f(a) = f(c) /\ (s(a) < s(c) \/ (s(a) = s(c) /\ Id[a] < Id[c])))
      BY <2>1, <2>2, <2>3
    <2> QED BY <1>1, <2>4
  <1> QED BY <1>5, <1>6, <1>7 DEF Orders, order

\* An alignment begins with the first ranking and goes on with the rest of the
\* second.
LEMMA AlignedIs ==
  ASSUME NEW first \in Seq(Chunk), NEW second \in Seq(Chunk),
         IsInjective(first), Len(first) < NotRanked, Len(second) < NotRanked
  PROVE  LET S    == ToSet(first) \union ToSet(second)
             n    == Cardinality(S)
             list == Aligned(first, second)
         IN  /\ n \in Nat /\ list \in [1 .. n -> S]
             /\ \A c \in S : \E i \in 1 .. n : list[i] = c
             /\ Len(first) <= n
             /\ \A i \in 1 .. Len(first) : list[i] = first[i]
             /\ \A i \in Len(first) + 1 .. n :
                  /\ list[i] \notin ToSet(first) /\ list[i] \in ToSet(second)
                  /\ \A j \in i + 1 .. n : Place(second, list[i]) < Place(second, list[j])
  <1> DEFINE S == ToSet(first) \union ToSet(second)
             n == Cardinality(S)
             order == ByRanks(first, second)
             list == Aligned(first, second)
             L == Len(first)
  <1>1. IsFiniteSet(S) /\ S \subseteq Chunk BY FiniteToSet, FS_Union
  <1>2. n \in Nat /\ L \in Nat BY <1>1, FS_CardinalityType
  <1>3. Orders(S, order) BY <1>1, RanksOrder
  <1>4. /\ list \in [1 .. n -> S]
        /\ \A c \in S : \E i \in 1 .. n : list[i] = c
        /\ \A i, j \in 1 .. n : i < j <=> <<list[i], list[j]>> \in order
        /\ \A i, j \in 1 .. n : list[i] = list[j] => i = j
    <2>1. list = Listed(S, order) BY DEF Aligned
    <2> HIDE DEF list, S, order
    <2> QED BY <1>1, <1>3, <2>1, ListedIsSorted
  <1>5. ASSUME NEW a \in S, NEW b \in S
        PROVE  <<a, b>> \in order
               <=> \/ SortRank(first, a) < SortRank(first, b)
                   \/ /\ SortRank(first, a) = SortRank(first, b)
                      /\ \/ SortRank(second, a) < SortRank(second, b)
                         \/ SortRank(second, a) = SortRank(second, b) /\ Id[a] < Id[b]
    <2>1. <<a, b>> \in Chunk \X Chunk BY <1>1
    <2> QED BY <2>1 DEF ByRanks
  <1>6. \A i \in 1 .. L : first[i] \in ToSet(first) /\ Place(first, first[i]) = i BY PlaceOf
  <1>7. \A c \in ToSet(first) : c \in S
    OBVIOUS
  <1>8. \A c \in S : c \notin ToSet(first) => c \in ToSet(second) OBVIOUS
  <1> HIDE DEF S, n, order, list
  <1>9. ASSUME NEW i \in 1 .. L, NEW c \in S
        PROVE  <<c, first[i]>> \in order <=> \E j \in 1 .. i - 1 : c = first[j]
    <2>1. SortRank(first, first[i]) = i /\ i < NotRanked /\ first[i] \in S
      BY <1>6, <1>7, SortRankIs
    <2>2. i \in Nat /\ L \in Nat /\ NotRanked \in Nat BY <1>2, AnalysisAssumption
    <2>3. CASE c \in ToSet(first)
      <3>1. PICK j \in 1 .. L : first[j] = c BY <2>3, FiniteToSet
      <3>2. SortRank(first, c) = j BY <1>6, <3>1, SortRankIs
      <3>3. i = j => ~(Id[c] < Id[first[i]])
        <4>1. Id[c] \in Nat BY <1>1, OrderAssumption
        <4> QED BY <3>1, <4>1
      <3>4. i = j => ~(SortRank(second, c) < SortRank(second, first[i]))
        <4>1. SortRank(second, c) \in Nat BY SortRankIs
        <4> QED BY <3>1, <4>1
      <3>5. <<c, first[i]>> \in order <=> j < i BY <1>5, <2>1, <2>2, <3>2, <3>3, <3>4
      <3>6. (\E k \in 1 .. i - 1 : c = first[k]) => j < i
        <4> SUFFICES ASSUME NEW k \in 1 .. i - 1, c = first[k] PROVE j < i OBVIOUS
        <4>1. k \in 1 .. L BY <2>2
        <4>2. k = j BY <1>6, <3>1, <4>1
        <4> QED BY <4>2
      <3>7. j < i => j \in 1 .. i - 1 BY <2>2
      <3> QED BY <3>1, <3>5, <3>6, <3>7
    <2>4. CASE c \notin ToSet(first)
      <3>1. SortRank(first, c) = NotRanked BY <2>4, SortRankIs
      <3>2. <<c, first[i]>> \notin order BY <1>5, <2>1, <2>2, <3>1
      <3>3. \A j \in 1 .. i - 1 : j \in 1 .. L BY <2>2
      <3>4. ~ \E j \in 1 .. i - 1 : c = first[j] BY <1>6, <2>4, <3>3
      <3> QED BY <3>2, <3>4
    <2> QED BY <2>3, <2>4
  <1>10. ASSUME NEW i \in 1 .. L
         PROVE  i \in 1 .. n /\ list[i] = first[i]
    <2>1. first[i] \in S BY <1>6, <1>7
    <2>2. PICK k \in 1 .. n : list[k] = first[i] BY <1>4, <2>1
    <2> DEFINE fewer == FirstOf(first, i - 1)
               lower == FirstOf(list, k - 1)
    <2>3. fewer = lower
      <3>1. ASSUME NEW c \in fewer PROVE c \in lower
        <4>1. PICK j \in 1 .. i - 1 : c = first[j] BY <3>1 DEF FirstOf
        <4>2. j \in 1 .. L BY <1>2
        <4>3. c \in S BY <1>6, <1>7, <4>1, <4>2
        <4>4. <<c, list[k]>> \in order BY <1>9, <2>2, <4>1, <4>3
        <4>5. PICK m \in 1 .. n : list[m] = c BY <1>4, <4>3
        <4>6. m < k BY <1>4, <4>4, <4>5
        <4>7. m \in 1 .. k - 1 BY <4>6
        <4> QED BY <4>5, <4>7 DEF FirstOf
      <3>2. ASSUME NEW c \in lower PROVE c \in fewer
        <4>1. PICK m \in 1 .. k - 1 : c = list[m] BY <3>2 DEF FirstOf
        <4>2. m \in 1 .. n /\ m < k BY <1>2
        <4>3. c \in S BY <1>4, <4>1, <4>2
        <4>4. <<c, list[k]>> \in order BY <1>4, <4>1, <4>2
        <4>5. PICK j \in 1 .. i - 1 : c = first[j] BY <1>9, <2>2, <4>3, <4>4
        <4> QED BY <4>5 DEF FirstOf
      <3> HIDE DEF fewer, lower
      <3> QED BY <3>1, <3>2
    <2>4. Cardinality(fewer) = i - 1
      <3>1. first \in [1 .. L -> Chunk] OBVIOUS
      <3>2. \A a, b \in 1 .. L : first[a] = first[b] => a = b BY <1>6
      <3>3. i - 1 \in 0 .. L BY <1>2
      <3> HIDE DEF L
      <3> QED BY <1>2, <3>1, <3>2, <3>3, CountFirst
    <2>5. Cardinality(lower) = k - 1
      <3>1. k - 1 \in 0 .. n BY <1>2
      <3> QED BY <1>2, <1>4, <3>1, CountFirst
    <2> HIDE DEF fewer, lower
    <2>6. i - 1 = k - 1 /\ i \in Nat /\ k \in Nat BY <1>2, <2>3, <2>4, <2>5
    <2>7. i = k BY <2>6
    <2> QED BY <2>2, <2>7
  <1>11. L <= n
    <2>1. CASE L = 0 BY <1>2, <2>1
    <2>2. CASE L # 0
      <3>1. L \in 1 .. L BY <1>2, <2>2
      <3> QED BY <1>2, <1>10, <3>1
    <2> QED BY <2>1, <2>2
  <1>12. ASSUME NEW i \in L + 1 .. n
         PROVE  i \in 1 .. n /\ list[i] \notin ToSet(first) /\ list[i] \in ToSet(second)
    <2>1. i \in 1 .. n /\ i > L BY <1>2
    <2>2. list[i] \notin ToSet(first)
      <3> SUFFICES ASSUME list[i] \in ToSet(first) PROVE FALSE OBVIOUS
      <3>1. PICK j \in 1 .. L : first[j] = list[i] BY FiniteToSet
      <3>2. j \in 1 .. n /\ list[j] = list[i] BY <1>10, <3>1
      <3>3. j = i BY <1>4, <2>1, <3>2
      <3> QED BY <2>1, <3>3
    <2> QED BY <1>4, <1>8, <2>1, <2>2
  <1>13. ASSUME NEW i \in L + 1 .. n, NEW j \in i + 1 .. n
         PROVE  Place(second, list[i]) < Place(second, list[j])
    <2>1. j \in L + 1 .. n /\ i < j BY <1>2
    <2> DEFINE a == list[i]
               b == list[j]
    <2>2. a \in S /\ b \in S /\ <<a, b>> \in order BY <1>4, <1>12, <2>1
    <2>3. SortRank(first, a) = NotRanked /\ SortRank(first, b) = NotRanked
      BY <1>12, <2>1, SortRankIs
    <2>4. /\ SortRank(second, a) = Place(second, a) /\ SortRank(second, b) = Place(second, b)
          /\ a \in ToSet(second) /\ b \in ToSet(second)
      BY <1>12, <2>1, SortRankIs
    <2>5. NotRanked \in Nat BY AnalysisAssumption
    <2>6. /\ Place(second, a) \in Nat /\ second[Place(second, a)] = a
          /\ Place(second, b) \in Nat /\ second[Place(second, b)] = b
      BY <2>4, PlaceIs
    <2>7. Place(second, a) = Place(second, b) => ~(Id[a] < Id[b])
      <3>1. Id[a] \in Nat BY <1>1, <2>2, OrderAssumption
      <3> QED BY <2>6, <3>1
    <2> QED BY <1>5, <2>2, <2>3, <2>4, <2>5, <2>6, <2>7
  <1> QED BY <1>2, <1>4, <1>10, <1>11, <1>12, <1>13 DEF S, n, list

LEMMA ChunksOfIs ==
  ASSUME NEW results \in Seq(TraceResult)
  PROVE  /\ ChunksOf(results) \in Seq(Chunk) /\ Len(ChunksOf(results)) = Len(results)
         /\ \A i \in 1 .. Len(results) : ChunksOf(results)[i] = results[i].chunk
  <1>1. DOMAIN results = 1 .. Len(results) /\ Len(results) \in Nat OBVIOUS
  <1>2. ASSUME NEW i \in 1 .. Len(results) PROVE results[i].chunk \in Chunk
    <2>1. results[i] \in TraceResult OBVIOUS
    <2> QED BY <2>1 DEF TraceResult
  <1>3. ChunksOf(results) \in [1 .. Len(results) -> Chunk] BY <1>1, <1>2 DEF ChunksOf
  <1>4. \A i \in 1 .. Len(results) : ChunksOf(results)[i] = results[i].chunk
    BY <1>1 DEF ChunksOf
  <1> QED BY <1>1, <1>3, <1>4

RowType == [chunk : Chunk, first : Nat, second : Nat]

\* The rows of a comparison: one for each chunk of either trace.
LEMMA RowsAre ==
  ASSUME NEW one, NEW other, WellFormed(one), WellFormed(other)
  PROVE  LET first  == ChunksOf(one)
             second == ChunksOf(other)
             S      == ToSet(first) \union ToSet(second)
             rows   == Comparison(one, other).rows
         IN  /\ rows \in Seq(RowType) /\ Len(rows) = Cardinality(S)
             /\ \A i \in 1 .. Len(rows) : rows[i] = Row(first, second, Aligned(first, second)[i])
             /\ ToSet(rows) = {Row(first, second, c) : c \in S}
  <1> DEFINE first == ChunksOf(one)
             second == ChunksOf(other)
             S == ToSet(first) \union ToSet(second)
             n == Cardinality(S)
             list == Aligned(first, second)
             rows == Comparison(one, other).rows
  <1>1. /\ first \in Seq(Chunk) /\ IsInjective(first) /\ Len(first) < NotRanked
        /\ second \in Seq(Chunk) /\ Len(second) < NotRanked
    BY ChunksOfIs DEF WellFormed
  <1>2. n \in Nat /\ list \in [1 .. n -> S] /\ \A c \in S : \E i \in 1 .. n : list[i] = c
    BY <1>1, AlignedIs
  <1>3. S \subseteq Chunk BY <1>1, FiniteToSet
  <1>4. rows = [i \in DOMAIN list |-> Row(first, second, list[i])] BY DEF Comparison
  <1>5. ASSUME NEW c \in S PROVE Row(first, second, c) \in RowType
    <2>1. Place(first, c) \in Nat /\ Place(second, c) \in Nat BY <1>1, PlaceIs
    <2> QED BY <1>3, <2>1 DEF Row, RowType
  <1> HIDE DEF S, n, list, rows, first, second
  <1>6. rows \in [1 .. n -> RowType] BY <1>2, <1>4, <1>5
  <1>7. rows \in Seq(RowType) /\ Len(rows) = n BY <1>2, <1>6
  <1>8. \A i \in 1 .. n : rows[i] = Row(first, second, list[i]) BY <1>2, <1>4
  <1>9. \A row : row \in ToSet(rows) <=> \E i \in 1 .. n : rows[i] = row
    BY <1>7, FiniteToSet
  <1>10. \A row : row \in ToSet(rows) <=> \E c \in S : row = Row(first, second, c)
    BY <1>2, <1>8, <1>9
  <1>11. ToSet(rows) = {Row(first, second, c) : c \in S} BY <1>10
  <1> QED BY <1>7, <1>8, <1>11 DEF S, n, list, rows, first, second

\* What only one trace holds, only the other, and both is everything.
LEMMA ComparisonCounts ==
  ASSUME NEW A, NEW B, IsFiniteSet(A), IsFiniteSet(B)
  PROVE  Cardinality(A \intersect B) + Cardinality(A \ B) + Cardinality(B \ A)
           = Cardinality(A \union B)
  <1>1. Cardinality(A \union B) = Cardinality(A) + Cardinality(B) - Cardinality(A \intersect B)
    BY FS_Union
  <1>2. Cardinality(A \ B) = Cardinality(A) - Cardinality(A \intersect B) BY FS_Difference
  <1>3. Cardinality(B \ A) = Cardinality(B) - Cardinality(B \intersect A) BY FS_Difference
  <1>4. A \intersect B = B \intersect A OBVIOUS
  <1>5. IsFiniteSet(A \intersect B) BY FS_Intersection
  <1>6. Cardinality(A) \in Nat /\ Cardinality(B) \in Nat BY FS_CardinalityType
  <1>7. Cardinality(A \intersect B) \in Nat BY <1>5, FS_CardinalityType
  <1> DEFINE both == Cardinality(A \intersect B)
             onlyA == Cardinality(A \ B)
             onlyB == Cardinality(B \ A)
             all == Cardinality(A \union B)
  <1>8. /\ all = Cardinality(A) + Cardinality(B) - both /\ both \in Nat
        /\ onlyA = Cardinality(A) - both /\ onlyB = Cardinality(B) - both
    BY <1>1, <1>2, <1>3, <1>4, <1>7
  <1> HIDE DEF both, onlyA, onlyB, all
  <1>9. both + onlyA + onlyB = all BY <1>6, <1>8
  <1> QED BY <1>9 DEF both, onlyA, onlyB, all

LEMMA ComparisonKeeps ==
  ASSUME NEW one, NEW other, WellFormed(one), WellFormed(other)
  PROVE  KeepsRankings(one, other, Comparison(one, other))
  <1> DEFINE first == ChunksOf(one)
             second == ChunksOf(other)
             S == ToSet(first) \union ToSet(second)
             n == Cardinality(S)
             list == Aligned(first, second)
             c == Comparison(one, other)
             L == Len(one)
  <1>1. /\ first \in Seq(Chunk) /\ IsInjective(first) /\ Len(first) < NotRanked
        /\ second \in Seq(Chunk) /\ Len(second) < NotRanked
        /\ Len(first) = L /\ L \in Nat
        /\ \A i \in 1 .. L : first[i] = one[i].chunk
        /\ \A i \in 1 .. Len(second) : second[i] = other[i].chunk
    BY ChunksOfIs DEF WellFormed
  <1>2. /\ n \in Nat /\ list \in [1 .. n -> S] /\ L <= n
        /\ \A i \in 1 .. L : list[i] = first[i]
        /\ \A i \in L + 1 .. n :
             /\ list[i] \notin ToSet(first) /\ list[i] \in ToSet(second)
             /\ \A j \in i + 1 .. n : Place(second, list[i]) < Place(second, list[j])
    <2>1. /\ n \in Nat /\ list \in [1 .. n -> S] /\ Len(first) <= n
          /\ \A i \in 1 .. Len(first) : list[i] = first[i]
          /\ \A i \in Len(first) + 1 .. n :
               /\ list[i] \notin ToSet(first) /\ list[i] \in ToSet(second)
               /\ \A j \in i + 1 .. n : Place(second, list[i]) < Place(second, list[j])
      <3> HIDE DEF first, second
      <3> QED BY <1>1, AlignedIs
    <2> HIDE DEF S, n, list, first, second, L
    <2> QED BY <1>1, <2>1
  <1>3. /\ Len(c.rows) = n /\ DOMAIN c.rows = 1 .. n
        /\ \A i \in 1 .. n : c.rows[i] = Row(first, second, list[i])
    <2>1. c.rows \in Seq(RowType) /\ Len(c.rows) = n
          /\ \A i \in 1 .. Len(c.rows) : c.rows[i] = Row(first, second, list[i])
      BY RowsAre
    <2> HIDE DEF c, n, list, first, second
    <2> QED BY <2>1
  <1>4. c.overlap + c.first_only + c.second_only = c.union /\ c.union = n
    <2>1. IsFiniteSet(ToSet(first)) /\ IsFiniteSet(ToSet(second)) BY <1>1, FiniteToSet
    <2>2. /\ c.overlap = Cardinality(ToSet(first) \intersect ToSet(second))
          /\ c.union = Cardinality(ToSet(first) \union ToSet(second))
          /\ c.first_only = Cardinality(ToSet(first) \ ToSet(second))
          /\ c.second_only = Cardinality(ToSet(second) \ ToSet(first))
      BY DEF Comparison
    <2> HIDE DEF c, first, second
    <2> QED BY <2>1, <2>2, ComparisonCounts
  <1>5. \A x \in S : x \in ToSet(first) \/ x \in ToSet(second) OBVIOUS
  <1> HIDE DEF S, n, list, c, first, second, L
  <1>6. ASSUME NEW i \in 1 .. n
        PROVE  LET row == c.rows[i]
               IN  /\ row.chunk = list[i] /\ row.first = Place(first, list[i])
                   /\ row.second = Place(second, list[i])
    <2>1. c.rows[i] = Row(first, second, list[i]) BY <1>3
    <2> QED BY <2>1 DEF Row
  <1>7. ASSUME NEW i \in DOMAIN c.rows
        PROVE  LET row == c.rows[i]
               IN  /\ IF i <= L
                        THEN row.first = i
                        ELSE /\ row.first = 0
                             /\ \A j \in i + 1 .. Len(c.rows) : row.second < c.rows[j].second
                   /\ row.first # 0 => one[row.first].chunk = row.chunk
                   /\ row.second # 0 => other[row.second].chunk = row.chunk
                   /\ row.first # 0 \/ row.second # 0
    <2>1. i \in 1 .. n BY <1>3
    <2>2. list[i] \in S BY <1>2, <2>1
    <2>3. Place(first, list[i]) # 0 \/ Place(second, list[i]) # 0 BY <1>1, <1>5, <2>2, PlaceIs
    <2>4. Place(first, list[i]) # 0 => one[Place(first, list[i])].chunk = list[i]
      BY <1>1, PlaceIs
    <2>5. Place(second, list[i]) # 0 => other[Place(second, list[i])].chunk = list[i]
      BY <1>1, PlaceIs
    <2>6. i <= L => Place(first, list[i]) = i
      <3> SUFFICES ASSUME i <= L PROVE Place(first, list[i]) = i OBVIOUS
      <3>1. i \in 1 .. L BY <1>1, <2>1
      <3> QED BY <1>1, <1>2, <3>1, PlaceOf
    <2>7. ASSUME ~(i <= L)
          PROVE  /\ Place(first, list[i]) = 0
                 /\ \A j \in i + 1 .. n : c.rows[i].second < c.rows[j].second
      <3>1. i \in L + 1 .. n BY <1>1, <2>1, <2>7
      <3>2. Place(first, list[i]) = 0 BY <1>1, <1>2, <3>1, PlaceIs
      <3>3. ASSUME NEW j \in i + 1 .. n PROVE c.rows[i].second < c.rows[j].second
        <4>1. j \in 1 .. n BY <2>1
        <4>2. Place(second, list[i]) < Place(second, list[j]) BY <1>2, <3>1
        <4> QED BY <1>6, <2>1, <4>1, <4>2
      <3> QED BY <3>2, <3>3
    <2> QED BY <1>3, <1>6, <2>1, <2>3, <2>4, <2>5, <2>6, <2>7
  <1>8. Len(one) <= Len(c.rows) /\ c.union = Len(c.rows) BY <1>2, <1>3, <1>4 DEF L
  <1> QED BY <1>4, <1>7, <1>8, Zenon DEF KeepsRankings, L, c

\* Comparing the other way round tells the same story.
LEMMA ComparisonMirrored ==
  ASSUME NEW one, NEW other, WellFormed(one), WellFormed(other)
  PROVE  LET c    == Comparison(one, other)
             back == Comparison(other, one)
         IN  /\ <<c.overlap, c.union, c.first_only, c.second_only>>
                  = <<back.overlap, back.union, back.second_only, back.first_only>>
             /\ ToSet(c.rows) = {[chunk |-> row.chunk, first |-> row.second, second |-> row.first]
                                    : row \in ToSet(back.rows)}
  <1> DEFINE first == ChunksOf(one)
             second == ChunksOf(other)
             S == ToSet(first) \union ToSet(second)
             c == Comparison(one, other)
             back == Comparison(other, one)
  <1>1. ToSet(c.rows) = {Row(first, second, x) : x \in S} BY RowsAre
  <1>2. ToSet(back.rows) = {Row(second, first, x) : x \in S}
    <2>1. S = ToSet(second) \union ToSet(first) OBVIOUS
    <2>2. ToSet(back.rows)
            = {Row(second, first, x) : x \in ToSet(second) \union ToSet(first)}
      BY RowsAre
    <2> QED BY <2>1, <2>2
  <1>3. /\ c.overlap = back.overlap /\ c.union = back.union
        /\ c.first_only = back.second_only /\ c.second_only = back.first_only
    <2>1. /\ ToSet(first) \intersect ToSet(second) = ToSet(second) \intersect ToSet(first)
          /\ ToSet(first) \union ToSet(second) = ToSet(second) \union ToSet(first)
      OBVIOUS
    <2> QED BY <2>1 DEF Comparison
  <1> HIDE DEF c, back, S, first, second
  <1>4. \A x : LET row == Row(second, first, x)
               IN  Row(first, second, x)
                     = [chunk |-> row.chunk, first |-> row.second, second |-> row.first]
    BY DEF Row
  <1>5. ToSet(c.rows) = {[chunk |-> row.chunk, first |-> row.second, second |-> row.first]
                            : row \in ToSet(back.rows)}
    <2>1. \A r : r \in ToSet(c.rows) <=> \E x \in S : r = Row(first, second, x) BY <1>1
    <2>2. \A r : r \in ToSet(back.rows) <=> \E x \in S : r = Row(second, first, x) BY <1>2
    <2> QED BY <1>4, <2>1, <2>2
  <1> QED BY <1>3, <1>5 DEF c, back

LEMMA InvCompares == TracesInv => ComparisonKeepsRankings
  <1> SUFFICES ASSUME TracesInv PROVE ComparisonKeepsRankings OBVIOUS
  <1>1. \A t \in Stored : t \in traces BY DEF Stored
  <1>2. \A t \in traces : WellFormed(t.results) BY DEF TracesInv
  <1>3. ASSUME NEW one \in Stored, NEW other \in traces
        PROVE  WellFormed(one.results) /\ WellFormed(other.results)
    BY <1>1, <1>2
  <1> QED BY <1>3, ComparisonKeeps, ComparisonMirrored DEF ComparisonKeepsRankings

\* Comparisons hold both rankings and count what they share, for any traces.
THEOREM ComparisonsKeepRankings == Spec => []ComparisonKeepsRankings
  BY TracesWellFormed, InvCompares, PTL

-----------------------------------------------------------------------------

\* Sums are well defined: each is the one before it and its term.
LEMMA SumsAre ==
  ASSUME NEW L \in Nat, NEW terms \in [1 .. L -> Nat]
  PROVE  LET sum == Sums(terms)
         IN  /\ sum[0] = 0
             /\ \A n \in 1 .. L : sum[n] = sum[n - 1] + terms[n]
             /\ \A n \in 0 .. L : sum[n] \in Nat
  <1> DEFINE Body(g, n) == IF n = 0 THEN 0 ELSE g[n - 1] + terms[n]
             S == {m \in 0 .. L : \E g : g = [n \in 0 .. m |-> Body(g, n)]}
             sum == Sums(terms)
  <1>1. Len(terms) = L OBVIOUS
  <1>2. 0 \in S
    <2> DEFINE g == [n \in 0 .. 0 |-> 0]
    <2>1. g = [n \in 0 .. 0 |-> Body(g, n)] OBVIOUS
    <2> HIDE DEF g
    <2>2. \E h : h = [n \in 0 .. 0 |-> Body(h, n)] BY <2>1
    <2> QED BY <2>2
  <1>3. ASSUME NEW m \in 0 .. L - 1, m \in S PROVE m + 1 \in S
    <2>1. PICK g : g = [n \in 0 .. m |-> Body(g, n)] BY <1>3
    <2> DEFINE h == [n \in 0 .. m + 1 |-> IF n <= m THEN g[n] ELSE Body(g, n)]
    <2>2. ASSUME NEW n \in 0 .. m + 1 PROVE h[n] = Body(h, n)
      <3>1. CASE n = 0
        <4>1. g[0] = 0 BY <2>1
        <4> QED BY <3>1, <4>1
      <3>2. CASE n # 0
        <4>1. n - 1 \in 0 .. m BY <3>2
        <4>2. h[n - 1] = g[n - 1] BY <4>1
        <4>3. h[n] = Body(g, n)
          <5>1. CASE n <= m
            <6>1. n \in 0 .. m BY <5>1
            <6>2. g[n] = Body(g, n) BY <2>1, <6>1
            <6> QED BY <5>1, <6>2
          <5>2. CASE ~(n <= m) BY <5>2
          <5> QED BY <5>1, <5>2
        <4> HIDE DEF h
        <4> QED BY <3>2, <4>2, <4>3
      <3> QED BY <3>1, <3>2
    <2>3. h = [n \in 0 .. m + 1 |-> Body(h, n)] BY <2>2
    <2>4. m + 1 \in 0 .. L OBVIOUS
    <2> QED BY <2>3, <2>4
  <1>4. L \in S
    <2>1. \A m \in 0 .. L - 1 : m \in S => m + 1 \in S BY <1>3
    <2> HIDE DEF S
    <2>2. 0 .. L \subseteq S BY <1>2, <2>1, SetInduction
    <2> QED BY <2>2
  <1>5. PICK g : g = [n \in 0 .. L |-> Body(g, n)] BY <1>4
  <1>6. sum = CHOOSE f : f = [n \in 0 .. L |-> Body(f, n)] BY <1>1 DEF Sums
  <1>7. sum = [n \in 0 .. L |-> Body(sum, n)] BY <1>5, <1>6
  <1> HIDE DEF sum, S
  <1>8. sum[0] = 0 BY <1>7
  <1>9. \A n \in 1 .. L : sum[n] = sum[n - 1] + terms[n] BY <1>7
  <1>10. \A n \in 0 .. L : sum[n] \in Nat
    <2> DEFINE T == {n \in 0 .. L : sum[n] \in Nat}
    <2>1. 0 \in T BY <1>8
    <2>2. ASSUME NEW n \in 0 .. L - 1, n \in T PROVE n + 1 \in T
      <3>1. n + 1 \in 1 .. L /\ (n + 1) - 1 = n OBVIOUS
      <3>2. sum[n + 1] = sum[n] + terms[n + 1] BY <1>9, <3>1
      <3>3. sum[n] \in Nat /\ terms[n + 1] \in Nat BY <2>2, <3>1
      <3> QED BY <3>1, <3>2, <3>3
    <2> HIDE DEF T
    <2>3. 0 .. L \subseteq T BY <2>1, <2>2, SetInduction
    <2> QED BY <2>3 DEF T
  <1> QED BY <1>8, <1>9, <1>10 DEF sum

\* The longer the sum, the larger.
LEMMA SumsGrow ==
  ASSUME NEW L \in Nat, NEW terms \in [1 .. L -> Nat], NEW m \in 0 .. L
  PROVE  \A n \in m .. L : Sums(terms)[m] <= Sums(terms)[n]
  <1> DEFINE sum == Sums(terms)
             T == {k \in 0 .. L - m : sum[m] <= sum[m + k]}
  <1>1. /\ \A n \in 1 .. L : sum[n] = sum[n - 1] + terms[n]
        /\ \A n \in 0 .. L : sum[n] \in Nat
    BY SumsAre
  <1> HIDE DEF sum
  <1>2. 0 \in T BY <1>1
  <1>3. ASSUME NEW k \in 0 .. (L - m) - 1, k \in T PROVE k + 1 \in T
    <2>1. m + k + 1 \in 1 .. L /\ (m + k + 1) - 1 = m + k /\ m + k \in 0 .. L OBVIOUS
    <2>2. sum[m + k + 1] = sum[m + k] + terms[m + k + 1] BY <1>1, <2>1
    <2>3. sum[m] \in Nat /\ sum[m + k] \in Nat /\ terms[m + k + 1] \in Nat BY <1>1, <2>1
    <2>4. sum[m] <= sum[m + (k + 1)] BY <1>3, <2>2, <2>3
    <2> QED BY <2>4
  <1>4. L - m \in Nat OBVIOUS
  <1> HIDE DEF T
  <1>5. 0 .. L - m \subseteq T BY <1>2, <1>3, <1>4, SetInduction
  <1>6. ASSUME NEW n \in m .. L PROVE sum[m] <= sum[n]
    <2>1. n - m \in 0 .. L - m /\ m + (n - m) = n OBVIOUS
    <2>2. n - m \in T BY <1>5, <2>1
    <2> QED BY <2>1, <2>2 DEF T
  <1> QED BY <1>6 DEF sum

\* Where terms differ in one place or in two neighbours, the sum is larger when
\* these are.
LEMMA SumsRise ==
  ASSUME NEW L \in Nat, NEW terms \in [1 .. L -> Nat], NEW better \in [1 .. L -> Nat],
         NEW i \in 1 .. L, NEW j \in {i, i + 1}, j <= L,
         \A n \in 1 .. L : n # i /\ n # j => better[n] = terms[n],
         j = i => better[i] > terms[i],
         j = i + 1 => better[i] + better[j] > terms[i] + terms[j]
  PROVE  Sums(better)[L] > Sums(terms)[L]
  <1> DEFINE s == Sums(terms)
             b == Sums(better)
             T == {n \in 0 .. L :
                     /\ n < i => b[n] = s[n]
                     /\ n = i /\ j = i + 1 => b[n] + terms[i] = s[n] + better[i]
                     /\ n >= j => b[n] > s[n]}
  <1>1. /\ s[0] = 0 /\ \A n \in 1 .. L : s[n] = s[n - 1] + terms[n]
        /\ \A n \in 0 .. L : s[n] \in Nat
    BY SumsAre
  <1>2. /\ b[0] = 0 /\ \A n \in 1 .. L : b[n] = b[n - 1] + better[n]
        /\ \A n \in 0 .. L : b[n] \in Nat
    BY SumsAre
  <1> HIDE DEF s, b
  <1>3. 0 \in T BY <1>1, <1>2
  <1>4. ASSUME NEW n \in 0 .. L - 1, n \in T PROVE n + 1 \in T
    <2>1. n + 1 \in 1 .. L /\ (n + 1) - 1 = n /\ n \in 0 .. L OBVIOUS
    <2>2. s[n + 1] = s[n] + terms[n + 1] /\ b[n + 1] = b[n] + better[n + 1] BY <1>1, <1>2, <2>1
    <2>3. s[n] \in Nat /\ b[n] \in Nat /\ terms[n + 1] \in Nat /\ better[n + 1] \in Nat
      BY <1>1, <1>2, <2>1
    <2>4. n + 1 # i /\ n + 1 # j => better[n + 1] = terms[n + 1] BY <2>1
    <2> DEFINE t == terms[n + 1]
               u == better[n + 1]
               x == s[n]
               y == b[n]
    <2>5. s[n + 1] = x + t /\ b[n + 1] = y + u BY <2>2
    <2>6. x \in Nat /\ y \in Nat /\ t \in Nat /\ u \in Nat BY <2>3
    <2>7. n + 1 < i => y = x /\ u = t
      <3> SUFFICES ASSUME n + 1 < i PROVE y = x /\ u = t OBVIOUS
      <3>1. n < i /\ n + 1 # i /\ n + 1 # j OBVIOUS
      <3> QED BY <1>4, <2>4, <3>1
    <2>8. n + 1 > j => y > x /\ u = t
      <3> SUFFICES ASSUME n + 1 > j PROVE y > x /\ u = t OBVIOUS
      <3>1. n >= j /\ n + 1 # i /\ n + 1 # j OBVIOUS
      <3> QED BY <1>4, <2>4, <3>1
    <2>9. n + 1 = j /\ j = i => y = x /\ u > t
      <3> SUFFICES ASSUME n + 1 = j, j = i PROVE y = x /\ u > t OBVIOUS
      <3>1. n < i OBVIOUS
      <3>2. u > t OBVIOUS
      <3> QED BY <1>4, <3>1, <3>2
    <2>10. n + 1 = j /\ j = i + 1 => y + terms[i] = x + better[i] /\ better[i] + u > terms[i] + t
      <3> SUFFICES ASSUME n + 1 = j, j = i + 1
                   PROVE  y + terms[i] = x + better[i] /\ better[i] + u > terms[i] + t
        OBVIOUS
      <3>1. n = i OBVIOUS
      <3>2. better[i] + u > terms[i] + t OBVIOUS
      <3> QED BY <1>4, <3>1, <3>2
    <2>11. n + 1 = i => y = x /\ t = terms[i] /\ u = better[i]
      <3> SUFFICES ASSUME n + 1 = i PROVE y = x /\ t = terms[i] /\ u = better[i] OBVIOUS
      <3>1. n < i OBVIOUS
      <3> QED BY <1>4, <3>1
    <2>12. terms[i] \in Nat /\ better[i] \in Nat OBVIOUS
    <2> HIDE DEF x, y, t, u
    <2>13. n + 1 < i => y + u = x + t BY <2>7
    <2>14. n + 1 > j => y + u > x + t
      <3> SUFFICES ASSUME y > x, u = t PROVE y + u > x + t BY <2>8
      <3> QED BY <2>6
    <2>15. n + 1 = j => y + u > x + t
      <3>1. ASSUME y = x, u > t PROVE y + u > x + t BY <2>6, <3>1
      <3>2. ASSUME y + terms[i] = x + better[i], better[i] + u > terms[i] + t PROVE y + u > x + t
        <4> DEFINE v == terms[i]
                   w == better[i]
        <4>1. v \in Nat /\ w \in Nat /\ y + v = x + w /\ w + u > v + t BY <2>12, <3>2
        <4> HIDE DEF v, w
        <4> QED BY <2>6, <4>1
      <3>3. j = i \/ j = i + 1 OBVIOUS
      <3> QED BY <2>9, <2>10, <3>1, <3>2, <3>3
    <2>16. n + 1 = i => y + u + terms[i] = x + t + better[i]
      <3> SUFFICES ASSUME y = x, t = terms[i], u = better[i]
                   PROVE  y + u + terms[i] = x + t + better[i]
        BY <2>11
      <3>1. x + u + t = x + t + u BY <2>6
      <3> QED BY <3>1
    <2>17. n + 1 >= j => n + 1 = j \/ n + 1 > j BY <2>1
    <2>18. /\ n + 1 < i => b[n + 1] = s[n + 1]
           /\ n + 1 = i /\ j = i + 1 => b[n + 1] + terms[i] = s[n + 1] + better[i]
           /\ n + 1 >= j => b[n + 1] > s[n + 1]
      BY <2>5, <2>13, <2>14, <2>15, <2>16, <2>17
    <2> QED BY <2>1, <2>18
  <1> HIDE DEF T
  <1>5. 0 .. L \subseteq T BY <1>3, <1>4, SetInduction
  <1>6. L \in T BY <1>5
  <1> QED BY <1>6 DEF T, s, b

-----------------------------------------------------------------------------

\* What a grade gains.
LEMMA GainIs ==
  ASSUME NEW g \in 0 .. 3
  PROVE  2 ^ g - 1 = IF g = 0 THEN 0 ELSE IF g = 1 THEN 1 ELSE IF g = 2 THEN 3 ELSE 7
  <1>1. g = 0 \/ g = 1 \/ g = 2 \/ g = 3 OBVIOUS
  <1>2. 2 ^ 0 = 1 /\ 2 ^ 1 = 2 /\ 2 ^ 2 = 4 /\ 2 ^ 3 = 8 OBVIOUS
  <1>3. CASE g = 0 BY <1>2, <1>3
  <1>4. CASE g = 1 BY <1>2, <1>4
  <1>5. CASE g = 2 BY <1>2, <1>5
  <1>6. CASE g = 3 BY <1>2, <1>6
  <1> QED BY <1>1, <1>3, <1>4, <1>5, <1>6

LEMMA DiscountFalls ==
  /\ \A rank \in 1 .. Limit : Discount[rank] \in Nat \ {0}
  /\ \A rank \in 2 .. Limit : Discount[rank] < Discount[rank - 1]
  /\ \A low \in 1 .. Limit : \A high \in low .. Limit : Discount[high] <= Discount[low]
  <1>1. /\ \A rank \in 1 .. Limit : Discount[rank] \in Nat \ {0}
        /\ \A rank \in 2 .. Limit : Discount[rank] < Discount[rank - 1]
    BY AnalysisAssumption
  <1>2. Limit \in Nat BY LimitTypes
  <1>3. ASSUME NEW low \in 1 .. Limit, NEW high \in low .. Limit
        PROVE  Discount[high] <= Discount[low]
    <2> DEFINE T == {k \in 0 .. Limit - low : Discount[low + k] <= Discount[low]}
    <2>1. 0 \in T BY <1>1, <1>2
    <2>2. ASSUME NEW k \in 0 .. (Limit - low) - 1, k \in T PROVE k + 1 \in T
      <3>1. low + k + 1 \in 2 .. Limit /\ (low + k + 1) - 1 = low + k /\ low + k \in 1 .. Limit
        BY <1>2
      <3>2. Discount[low + k + 1] < Discount[low + k] BY <1>1, <3>1
      <3>3. /\ Discount[low + k + 1] \in Nat /\ Discount[low + k] \in Nat
            /\ Discount[low] \in Nat /\ low + (k + 1) = low + k + 1
        BY <1>1, <1>2, <3>1
      <3>4. Discount[low + (k + 1)] <= Discount[low] BY <2>2, <3>2, <3>3
      <3>5. k + 1 \in 0 .. Limit - low BY <1>2
      <3> QED BY <3>4, <3>5
    <2>3. Limit - low \in Nat /\ high - low \in 0 .. Limit - low /\ low + (high - low) = high
      BY <1>2
    <2> HIDE DEF T
    <2>4. 0 .. Limit - low \subseteq T BY <2>1, <2>2, <2>3, SetInduction
    <2>5. high - low \in T BY <2>3, <2>4
    <2> QED BY <2>3, <2>5 DEF T
  <1> QED BY <1>1, <1>3

\* The most that so many results can count.
Best == Sums([rank \in 1 .. Limit |-> Discount[rank]])

LEMMA BestIs ==
  /\ Best[0] = 0
  /\ \A n \in 1 .. Limit : Best[n] = Best[n - 1] + Discount[n]
  /\ \A n \in 0 .. Limit : Best[n] \in Nat
  /\ \A m \in 0 .. Limit : \A n \in m .. Limit : Best[m] <= Best[n]
  <1> DEFINE terms == [rank \in 1 .. Limit |-> Discount[rank]]
  <1>1. Limit \in Nat BY LimitTypes
  <1>2. terms \in [1 .. Limit -> Nat] BY DiscountFalls
  <1>3. Best = Sums(terms) BY DEF Best
  <1>4. \A n \in 1 .. Limit : terms[n] = Discount[n] OBVIOUS
  <1> HIDE DEF terms
  <1> QED BY <1>1, <1>2, <1>3, <1>4, SumsAre, SumsGrow

\* What the ranks of a grade or a better one count, and which these are.
Hits(grades, v) ==
  Sums([rank \in DOMAIN grades |-> IF grades[rank] >= v THEN Discount[rank] ELSE 0])

AtLeast(grades, v, n) == {i \in 1 .. n : grades[i] >= v}

LEMMA HitsAre ==
  ASSUME NEW K \in 0 .. Limit, NEW grades \in [1 .. K -> 0 .. 3], NEW v
  PROVE  /\ Hits(grades, v)[0] = 0
         /\ \A n \in 1 .. K : Hits(grades, v)[n]
              = Hits(grades, v)[n - 1] + (IF grades[n] >= v THEN Discount[n] ELSE 0)
         /\ \A n \in 0 .. K : Hits(grades, v)[n] \in Nat
  <1> DEFINE terms == [rank \in DOMAIN grades |-> IF grades[rank] >= v THEN Discount[rank] ELSE 0]
  <1>1. Limit \in Nat /\ K \in Nat /\ 1 .. K \subseteq 1 .. Limit BY LimitTypes
  <1>2. \A n \in 1 .. K : terms[n] = IF grades[n] >= v THEN Discount[n] ELSE 0 OBVIOUS
  <1>3. \A n \in 1 .. K : Discount[n] \in Nat BY <1>1, DiscountFalls
  <1>4. terms \in [1 .. K -> Nat] BY <1>3
  <1>5. Hits(grades, v) = Sums(terms) BY DEF Hits
  <1> HIDE DEF terms
  <1> QED BY <1>1, <1>2, <1>4, <1>5, SumsAre

LEMMA AtLeastCounts ==
  ASSUME NEW K \in Nat, NEW grades \in [1 .. K -> 0 .. 3], NEW v
  PROVE  /\ AtLeast(grades, v, 0) = {}
         /\ \A n \in 0 .. K : /\ IsFiniteSet(AtLeast(grades, v, n))
                              /\ Cardinality(AtLeast(grades, v, n)) \in 0 .. n
         /\ \A n \in 1 .. K :
              /\ grades[n] >= v => Cardinality(AtLeast(grades, v, n))
                                     = Cardinality(AtLeast(grades, v, n - 1)) + 1
              /\ ~(grades[n] >= v) => AtLeast(grades, v, n) = AtLeast(grades, v, n - 1)
  <1> DEFINE at(n) == AtLeast(grades, v, n)
  <1>1. at(0) = {} BY DEF AtLeast
  <1>2. ASSUME NEW n \in 0 .. K PROVE IsFiniteSet(at(n)) /\ Cardinality(at(n)) \in 0 .. n
    <2>1. IsFiniteSet(1 .. n) /\ Cardinality(1 .. n) = n BY FS_Interval
    <2>2. at(n) \in SUBSET (1 .. n) BY DEF AtLeast
    <2> HIDE DEF at
    <2>3. IsFiniteSet(at(n)) /\ Cardinality(at(n)) <= Cardinality(1 .. n) BY <2>1, <2>2, FS_Subset
    <2>4. Cardinality(at(n)) \in Nat BY <2>3, FS_CardinalityType
    <2> QED BY <2>1, <2>3, <2>4
  <1>3. ASSUME NEW n \in 1 .. K, grades[n] >= v
        PROVE  Cardinality(at(n)) = Cardinality(at(n - 1)) + 1
    <2>1. at(n) = at(n - 1) \union {n} /\ n \notin at(n - 1) BY <1>3 DEF AtLeast
    <2>2. IsFiniteSet(at(n - 1))
      <3>1. n - 1 \in 0 .. K OBVIOUS
      <3> QED BY <1>2, <3>1
    <2> HIDE DEF at
    <2> QED BY <2>1, <2>2, FS_AddElement
  <1>4. ASSUME NEW n \in 1 .. K, ~(grades[n] >= v) PROVE at(n) = at(n - 1)
    BY <1>4 DEF AtLeast
  <1> QED BY <1>1, <1>2, <1>3, <1>4

LEMMA GainSplits ==
  ASSUME NEW a \in Nat, NEW b \in Nat, NEW c \in Nat, NEW d \in Nat, NEW g \in 0 .. 3
  PROVE  (a + 2 * b + 4 * c)
           + (IF g = 0 THEN 0 ELSE IF g = 1 THEN d ELSE IF g = 2 THEN 3 * d ELSE 7 * d)
         = (a + (IF g >= 1 THEN d ELSE 0)) + 2 * (b + (IF g >= 2 THEN d ELSE 0))
             + 4 * (c + (IF g >= 3 THEN d ELSE 0))
  <1>1. CASE g = 0 BY <1>1
  <1>2. CASE g = 1 BY <1>2
  <1>3. CASE g = 2 BY <1>3
  <1>4. CASE g = 3 BY <1>4
  <1> QED BY <1>1, <1>2, <1>3, <1>4

\* DCG is a sum over the grades: 2 ^ g - 1 gains one more at grade 1, two more at
\* grade 2 and four more at grade 3.
LEMMA DcgByGrade ==
  ASSUME NEW K \in 0 .. Limit, NEW grades \in [1 .. K -> 0 .. 3]
  PROVE  Dcg(grades) = Hits(grades, 1)[K] + 2 * Hits(grades, 2)[K] + 4 * Hits(grades, 3)[K]
  <1> DEFINE terms == [rank \in DOMAIN grades |-> (2 ^ grades[rank] - 1) * Discount[rank]]
             sum == Sums(terms)
             h(v) == Hits(grades, v)
             T == {n \in 0 .. K : sum[n] = h(1)[n] + 2 * h(2)[n] + 4 * h(3)[n]}
  <1>1. Limit \in Nat /\ K \in Nat /\ 1 .. K \subseteq 1 .. Limit /\ Len(grades) = K
    BY LimitTypes
  <1>2. ASSUME NEW n \in 1 .. K
        PROVE  /\ Discount[n] \in Nat
               /\ terms[n] \in Nat
               /\ terms[n] = IF grades[n] = 0 THEN 0 ELSE IF grades[n] = 1 THEN Discount[n]
                             ELSE IF grades[n] = 2 THEN 3 * Discount[n] ELSE 7 * Discount[n]
    <2>1. Discount[n] \in Nat BY <1>1, DiscountFalls
    <2>2. grades[n] \in 0 .. 3 OBVIOUS
    <2>3. terms[n] = (2 ^ grades[n] - 1) * Discount[n] OBVIOUS
    <2>4. 2 ^ grades[n] - 1 = IF grades[n] = 0 THEN 0 ELSE IF grades[n] = 1 THEN 1
                              ELSE IF grades[n] = 2 THEN 3 ELSE 7
      BY <2>2, GainIs
    <2> HIDE DEF terms
    <2>5. CASE grades[n] = 0 BY <2>1, <2>3, <2>4, <2>5
    <2>6. CASE grades[n] = 1 BY <2>1, <2>3, <2>4, <2>6
    <2>7. CASE grades[n] = 2 BY <2>1, <2>3, <2>4, <2>7
    <2>8. CASE grades[n] = 3 BY <2>1, <2>3, <2>4, <2>8
    <2> QED BY <2>1, <2>2, <2>5, <2>6, <2>7, <2>8
  <1>3. terms \in [1 .. K -> Nat] BY <1>2
  <1>4. Dcg(grades) = sum[K] BY <1>1 DEF Dcg
  <1> HIDE DEF terms
  <1>5. /\ sum[0] = 0 /\ \A n \in 1 .. K : sum[n] = sum[n - 1] + terms[n]
        /\ \A n \in 0 .. K : sum[n] \in Nat
    BY <1>1, <1>3, SumsAre
  <1>6. \A v : /\ h(v)[0] = 0
               /\ \A n \in 1 .. K :
                    h(v)[n] = h(v)[n - 1] + (IF grades[n] >= v THEN Discount[n] ELSE 0)
               /\ \A n \in 0 .. K : h(v)[n] \in Nat
    BY HitsAre
  <1> HIDE DEF sum, h
  <1>7. 0 \in T BY <1>1, <1>5, <1>6
  <1>8. ASSUME NEW n \in 0 .. K - 1, n \in T PROVE n + 1 \in T
    <2>1. n + 1 \in 1 .. K /\ (n + 1) - 1 = n /\ n \in 0 .. K BY <1>1
    <2>2. sum[n + 1] = sum[n] + terms[n + 1] BY <1>5, <2>1
    <2>3. /\ h(1)[n + 1] = h(1)[n] + (IF grades[n + 1] >= 1 THEN Discount[n + 1] ELSE 0)
          /\ h(2)[n + 1] = h(2)[n] + (IF grades[n + 1] >= 2 THEN Discount[n + 1] ELSE 0)
          /\ h(3)[n + 1] = h(3)[n] + (IF grades[n + 1] >= 3 THEN Discount[n + 1] ELSE 0)
      BY <1>6, <2>1
    <2>4. /\ h(1)[n] \in Nat /\ h(2)[n] \in Nat /\ h(3)[n] \in Nat /\ Discount[n + 1] \in Nat
          /\ sum[n] = h(1)[n] + 2 * h(2)[n] + 4 * h(3)[n]
      BY <1>2, <1>6, <1>8, <2>1
    <2>5. terms[n + 1] = IF grades[n + 1] = 0 THEN 0 ELSE IF grades[n + 1] = 1 THEN Discount[n + 1]
                         ELSE IF grades[n + 1] = 2 THEN 3 * Discount[n + 1]
                         ELSE 7 * Discount[n + 1]
      BY <1>2, <2>1
    <2>6. grades[n + 1] \in 0 .. 3 BY <2>1
    <2>7. sum[n + 1] = h(1)[n + 1] + 2 * h(2)[n + 1] + 4 * h(3)[n + 1]
      <3> DEFINE d == Discount[n + 1]
                 g == grades[n + 1]
                 a == h(1)[n]
                 b == h(2)[n]
                 c == h(3)[n]
      <3>1. sum[n + 1] = (a + 2 * b + 4 * c)
              + (IF g = 0 THEN 0 ELSE IF g = 1 THEN d ELSE IF g = 2 THEN 3 * d ELSE 7 * d)
        BY <2>2, <2>4, <2>5
      <3>2. d \in Nat /\ g \in 0 .. 3 /\ a \in Nat /\ b \in Nat /\ c \in Nat BY <2>4, <2>6
      <3> HIDE DEF d, g, a, b, c
      <3>3. sum[n + 1] = (a + (IF g >= 1 THEN d ELSE 0)) + 2 * (b + (IF g >= 2 THEN d ELSE 0))
                           + 4 * (c + (IF g >= 3 THEN d ELSE 0))
        BY <3>1, <3>2, GainSplits
      <3> QED BY <2>3, <3>3 DEF d, g, a, b, c
    <2> QED BY <2>1, <2>7
  <1> HIDE DEF T
  <1>9. 0 .. K \subseteq T BY <1>1, <1>7, <1>8, SetInduction
  <1>10. K \in T BY <1>1, <1>9
  <1> QED BY <1>4, <1>10 DEF T, h

\* So many ranks count at most what the first ones would, and just that where
\* the grades only fall.
LEMMA HitsAtMost ==
  ASSUME NEW K \in 0 .. Limit, NEW grades \in [1 .. K -> 0 .. 3], NEW v, NEW m \in 0 .. K
  PROVE  /\ Hits(grades, v)[m] <= Best[Cardinality(AtLeast(grades, v, m))]
         /\ (\A a \in 1 .. K : \A b \in a .. K : grades[b] >= v => grades[a] >= v)
              => Hits(grades, v)[m] = Best[Cardinality(AtLeast(grades, v, m))]
  <1> DEFINE h == Hits(grades, v)
             count(n) == Cardinality(AtLeast(grades, v, n))
             sorted == \A a \in 1 .. K : \A b \in a .. K : grades[b] >= v => grades[a] >= v
             T == {n \in 0 .. K : h[n] <= Best[count(n)] /\ (sorted => h[n] = Best[count(n)])}
  <1>1. Limit \in Nat /\ K \in Nat /\ K <= Limit BY LimitTypes
  <1>2. /\ h[0] = 0
        /\ \A n \in 1 .. K : h[n] = h[n - 1] + (IF grades[n] >= v THEN Discount[n] ELSE 0)
        /\ \A n \in 0 .. K : h[n] \in Nat
    BY HitsAre
  <1>3. /\ count(0) = 0
        /\ \A n \in 0 .. K : count(n) \in 0 .. n
        /\ \A n \in 1 .. K : count(n) = count(n - 1) + (IF grades[n] >= v THEN 1 ELSE 0)
    <2>1. Cardinality({}) = 0 BY FS_EmptySet
    <2>2. count(0) = 0 BY <1>1, <2>1, AtLeastCounts
    <2>3. \A n \in 0 .. K : count(n) \in 0 .. n BY <1>1, AtLeastCounts
    <2>4. ASSUME NEW n \in 1 .. K PROVE count(n) = count(n - 1) + (IF grades[n] >= v THEN 1 ELSE 0)
      <3>3. /\ grades[n] >= v => count(n) = count(n - 1) + 1
            /\ ~(grades[n] >= v) => AtLeast(grades, v, n) = AtLeast(grades, v, n - 1)
        <4> HIDE DEF sorted, T
        <4>1. \A k \in 1 .. K :
                /\ grades[k] >= v => Cardinality(AtLeast(grades, v, k))
                                       = Cardinality(AtLeast(grades, v, k - 1)) + 1
                /\ ~(grades[k] >= v) => AtLeast(grades, v, k) = AtLeast(grades, v, k - 1)
          BY <1>1, AtLeastCounts, Zenon
        <4> QED BY <4>1
      <3>1. CASE grades[n] >= v BY <3>1, <3>3
      <3>2. CASE ~(grades[n] >= v)
        <4>1. AtLeast(grades, v, n) = AtLeast(grades, v, n - 1) BY <3>2, <3>3
        <4>2. n - 1 \in 0 .. K BY <1>1
        <4>3. count(n - 1) \in Nat BY <2>3, <4>2
        <4> QED BY <3>2, <4>1, <4>3
      <3> QED BY <3>1, <3>2
    <2> QED BY <2>2, <2>3, <2>4
  <1>4. ASSUME sorted, NEW n \in 1 .. K, grades[n] >= v PROVE count(n) = n
    <2>1. AtLeast(grades, v, n) = 1 .. n
      <3>1. ASSUME NEW a \in 1 .. n PROVE grades[a] >= v
        <4>1. a \in 1 .. K /\ n \in a .. K BY <1>1
        <4> QED BY <1>4, <4>1
      <3> QED BY <3>1 DEF AtLeast
    <2>2. Cardinality(1 .. n) = n BY <1>1, FS_Interval
    <2> QED BY <2>1, <2>2
  <1> HIDE DEF h, count
  <1>5. 0 \in T BY <1>1, <1>2, <1>3, BestIs
  <1>6. ASSUME NEW n \in 0 .. K - 1, n \in T PROVE n + 1 \in T
    <2>1. n + 1 \in 1 .. K /\ (n + 1) - 1 = n /\ n \in 0 .. K /\ n + 1 \in 1 .. Limit BY <1>1
    <2>2. h[n + 1] = h[n] + (IF grades[n + 1] >= v THEN Discount[n + 1] ELSE 0) BY <1>2, <2>1
    <2>3. count(n + 1) = count(n) + (IF grades[n + 1] >= v THEN 1 ELSE 0) BY <1>3, <2>1
    <2>4. count(n) \in 0 .. n /\ count(n) \in Nat BY <1>3, <2>1
    <2>5. CASE ~(grades[n + 1] >= v)
      <3>1. h[n + 1] = h[n] /\ count(n + 1) = count(n) BY <1>2, <2>1, <2>2, <2>3, <2>4, <2>5
      <3>2. h[n] <= Best[count(n)] /\ (sorted => h[n] = Best[count(n)]) BY <1>6
      <3> HIDE DEF sorted
      <3> QED BY <2>1, <3>1, <3>2
    <2>6. CASE grades[n + 1] >= v
      <3> DEFINE k == count(n)
      <3>1. /\ h[n + 1] = h[n] + Discount[n + 1] /\ count(n + 1) = k + 1
            /\ k + 1 \in 1 .. Limit /\ n + 1 \in k + 1 .. Limit
        BY <1>1, <2>1, <2>2, <2>3, <2>4, <2>6
      <3>2. Best[k + 1] = Best[k] + Discount[k + 1]
        <4>1. (k + 1) - 1 = k BY <2>4
        <4>2. Best[k + 1] = Best[(k + 1) - 1] + Discount[k + 1] BY <3>1, BestIs
        <4> QED BY <4>1, <4>2
      <3>3. /\ Discount[n + 1] <= Discount[k + 1] /\ Discount[n + 1] \in Nat
            /\ Discount[k + 1] \in Nat
        BY <2>1, <3>1, DiscountFalls
      <3>4. h[n] \in Nat /\ Best[k] \in Nat
        <4>1. k \in 0 .. Limit BY <1>1, <3>1, <2>4
        <4> QED BY <1>2, <2>1, <4>1, BestIs
      <3>5. h[n] <= Best[k] /\ (sorted => h[n] = Best[k]) BY <1>6
      <3>6. sorted => k = n
        <4> SUFFICES ASSUME sorted PROVE k = n OBVIOUS
        <4>1. count(n + 1) = n + 1 BY <1>4, <2>1, <2>6
        <4> QED BY <2>4, <3>1, <4>1
      <3> HIDE DEF k, sorted
      <3>7. h[n + 1] <= Best[k + 1] BY <3>1, <3>2, <3>3, <3>4, <3>5
      <3>8. sorted => h[n + 1] = Best[k + 1]
        <4> SUFFICES ASSUME sorted PROVE h[n + 1] = Best[k + 1] OBVIOUS
        <4>1. h[n] = Best[k] /\ Discount[n + 1] = Discount[k + 1] BY <3>5, <3>6
        <4> QED BY <3>1, <3>2, <4>1
      <3> QED BY <2>1, <3>1, <3>7, <3>8
    <2> QED BY <2>5, <2>6
  <1> HIDE DEF T
  <1>7. 0 .. K \subseteq T BY <1>1, <1>5, <1>6, SetInduction
  <1>8. m \in T BY <1>7
  <1> QED BY <1>8 DEF T, h, count

-----------------------------------------------------------------------------

LEMMA JudgedAre ==
  ASSUME NEW judged \in Judgments
  PROVE  /\ DOMAIN judged \subseteq Chunk /\ IsFiniteSet(DOMAIN judged)
         /\ \A c \in DOMAIN judged : judged[c] \in 0 .. 3
         /\ \E c \in DOMAIN judged : judged[c] > 0
  BY AnalysisAssumption

\* Grades, and ids where they are equal, order what is judged.
LEMMA GradesOrder ==
  ASSUME NEW judged \in Judgments
  PROVE  Orders(DOMAIN judged, ByGrade(judged))
  <1> DEFINE J == DOMAIN judged
             order == ByGrade(judged)
  <1>1. ASSUME NEW a \in J, NEW b \in J
        PROVE  <<a, b>> \in order
               <=> judged[a] > judged[b] \/ (judged[a] = judged[b] /\ Id[a] < Id[b])
    BY DEF ByGrade
  <1>2. \A a \in J : judged[a] \in 0 .. 3 /\ Id[a] \in Nat BY JudgedAre, OrderAssumption
  <1>3. \A a, b \in J : Id[a] = Id[b] => a = b BY JudgedAre, OrderAssumption
  <1> HIDE DEF J, order
  <1>4. \A a \in J : <<a, a>> \notin order BY <1>1, <1>2
  <1>5. \A a, b \in J : a = b \/ <<a, b>> \in order \/ <<b, a>> \in order
    <2> SUFFICES ASSUME NEW a \in J, NEW b \in J, a # b
                 PROVE  <<a, b>> \in order \/ <<b, a>> \in order
      OBVIOUS
    <2>1. /\ judged[a] \in 0 .. 3 /\ judged[b] \in 0 .. 3
          /\ Id[a] \in Nat /\ Id[b] \in Nat /\ Id[a] # Id[b]
      BY <1>2, <1>3
    <2>2. \/ judged[a] > judged[b] \/ (judged[a] = judged[b] /\ Id[a] < Id[b])
          \/ judged[b] > judged[a] \/ (judged[b] = judged[a] /\ Id[b] < Id[a])
      BY <2>1
    <2> QED BY <1>1, <2>2
  <1>6. \A a, b, c \in J : <<a, b>> \in order /\ <<b, c>> \in order => <<a, c>> \in order
    <2> SUFFICES ASSUME NEW a \in J, NEW b \in J, NEW c \in J,
                        <<a, b>> \in order, <<b, c>> \in order
                 PROVE  <<a, c>> \in order
      OBVIOUS
    <2>1. /\ judged[a] \in 0 .. 3 /\ judged[b] \in 0 .. 3 /\ judged[c] \in 0 .. 3
          /\ Id[a] \in Nat /\ Id[b] \in Nat /\ Id[c] \in Nat
      BY <1>2
    <2>2. /\ judged[a] > judged[b] \/ (judged[a] = judged[b] /\ Id[a] < Id[b])
          /\ judged[b] > judged[c] \/ (judged[b] = judged[c] /\ Id[b] < Id[c])
      BY <1>1
    <2>3. judged[a] > judged[c] \/ (judged[a] = judged[c] /\ Id[a] < Id[c]) BY <2>1, <2>2
    <2> QED BY <1>1, <2>3
  <1> QED BY <1>4, <1>5, <1>6 DEF Orders, J, order

\* What is judged at a grade or a better one.
Worth(judged, v) == {c \in DOMAIN judged : judged[c] >= v}

LEMMA WorthIsFinite ==
  ASSUME NEW judged \in Judgments, NEW v
  PROVE  IsFiniteSet(Worth(judged, v)) /\ Cardinality(Worth(judged, v)) \in Nat
  <1>1. Worth(judged, v) \in SUBSET DOMAIN judged BY DEF Worth
  <1>2. IsFiniteSet(Worth(judged, v)) BY <1>1, JudgedAre, FS_Subset
  <1> QED BY <1>2, FS_CardinalityType

\* The ideal ranking falls and holds each grade as often as it was given.
LEMMA IdealIs ==
  ASSUME NEW judged \in Judgments, NEW ranked
  PROVE  LET ideal == Ideal(judged, ranked)
             n     == Cardinality(DOMAIN judged)
         IN  /\ n \in Nat /\ ideal \in [1 .. n -> 0 .. 3]
             /\ \A a \in 1 .. n : \A b \in a .. n : ideal[b] <= ideal[a]
             /\ \A v : Cardinality(AtLeast(ideal, v, n)) = Cardinality(Worth(judged, v))
  <1> DEFINE J == DOMAIN judged
             n == Cardinality(J)
             order == ByGrade(judged)
             list == Listed(J, order)
             ideal == Ideal(judged, ranked)
  <1>1. IsFiniteSet(J) /\ n \in Nat BY JudgedAre, FS_CardinalityType
  <1>2. /\ list \in [1 .. n -> J]
        /\ \A c \in J : \E i \in 1 .. n : list[i] = c
        /\ \A i, j \in 1 .. n : i < j <=> <<list[i], list[j]>> \in order
        /\ \A i, j \in 1 .. n : list[i] = list[j] => i = j
    <2>1. Orders(J, order) BY GradesOrder
    <2> HIDE DEF J, order
    <2> QED BY <1>1, <2>1, ListedIsSorted
  <1>3. ideal = [i \in DOMAIN list |-> judged[list[i]]] BY DEF Ideal
  <1>4. \A c \in J : judged[c] \in 0 .. 3 BY JudgedAre
  <1>5. \A a, b \in J : <<a, b>> \in order
                          => judged[a] > judged[b] \/ (judged[a] = judged[b] /\ Id[a] < Id[b])
    BY DEF ByGrade
  <1> HIDE DEF n, order, list, ideal
  <1>6. ideal \in [1 .. n -> 0 .. 3] /\ \A i \in 1 .. n : ideal[i] = judged[list[i]]
    BY <1>2, <1>3, <1>4
  <1>7. ASSUME NEW a \in 1 .. n, NEW b \in a .. n PROVE ideal[b] <= ideal[a]
    <2>1. b \in 1 .. n /\ list[a] \in J /\ list[b] \in J BY <1>1, <1>2
    <2>2. judged[list[a]] \in 0 .. 3 /\ judged[list[b]] \in 0 .. 3 BY <1>4, <2>1
    <2>3. CASE a = b BY <1>6, <2>1, <2>2, <2>3
    <2>4. CASE a # b
      <3>1. a < b BY <1>1, <2>4
      <3>2. <<list[a], list[b]>> \in order BY <1>2, <2>1, <3>1
      <3>3. judged[list[a]] > judged[list[b]] \/ judged[list[a]] = judged[list[b]]
        BY <1>5, <2>1, <3>2
      <3> QED BY <1>6, <2>1, <2>2, <3>3
    <2> QED BY <2>3, <2>4
  <1>8. ASSUME NEW v PROVE Cardinality(AtLeast(ideal, v, n)) = Cardinality(Worth(judged, v))
    <2> DEFINE at == AtLeast(ideal, v, n)
               worth == Worth(judged, v)
               f == [i \in at |-> list[i]]
    <2>1. \A i : i \in at <=> i \in 1 .. n /\ ideal[i] >= v BY DEF AtLeast
    <2>2. \A c : c \in worth <=> c \in J /\ judged[c] >= v BY DEF Worth
    <2>3. IsFiniteSet(at)
      <3>1. n \in 0 .. n BY <1>1
      <3> HIDE DEF J
      <3> QED BY <1>1, <1>6, <3>1, AtLeastCounts
    <2> HIDE DEF at, worth, J
    <2>4. f \in [at -> worth] BY <1>2, <1>6, <2>1, <2>2
    <2>5. \A i, j \in at : f[i] = f[j] => i = j BY <1>2, <2>1
    <2>6. \A c \in worth : \E i \in at : f[i] = c
      <3> SUFFICES ASSUME NEW c \in worth PROVE \E i \in at : f[i] = c OBVIOUS
      <3>1. PICK i \in 1 .. n : list[i] = c BY <1>2, <2>2
      <3>2. i \in at BY <1>6, <2>1, <2>2, <3>1
      <3> QED BY <3>1, <3>2
    <2> HIDE DEF f
    <2>7. f \in Bijection(at, worth)
      BY <2>4, <2>5, <2>6 DEF Bijection, Injection, Surjection, IsInjective
    <2>8. ExistsBijection(at, worth) BY <2>7 DEF ExistsBijection
    <2>9. Cardinality(worth) = Cardinality(at) BY <2>3, <2>8, FS_Bijection
    <2> QED BY <2>9 DEF at, worth
  <1> QED BY <1>1, <1>6, <1>7, <1>8 DEF n, ideal

GradesOf(cutoff, ranked, judged) ==
  LET top == UpTo(ranked, cutoff) IN [i \in DOMAIN top |-> Grade(judged, top[i])]

LEMMA GradesAre ==
  ASSUME NEW judged \in Judgments, NEW ranked \in Seq(Chunk), NEW cutoff \in 1 .. Limit
  PROVE  LET top    == UpTo(ranked, cutoff)
             grades == GradesOf(cutoff, ranked, judged)
         IN  /\ top \in Seq(Chunk) /\ Len(top) \in 0 .. Limit /\ DOMAIN top = 1 .. Len(top)
             /\ Len(top) = IF Len(ranked) < cutoff THEN Len(ranked) ELSE cutoff
             /\ grades \in [1 .. Len(top) -> 0 .. 3]
             /\ \A i \in 1 .. Len(top) : top[i] = ranked[i] /\ grades[i] = Grade(judged, ranked[i])
  <1> DEFINE top == UpTo(ranked, cutoff)
             grades == GradesOf(cutoff, ranked, judged)
             k == IF Len(ranked) < cutoff THEN Len(ranked) ELSE cutoff
  <1>1. cutoff \in Nat /\ Len(ranked) \in Nat /\ cutoff <= Limit /\ Limit \in Nat BY LimitTypes
  <1>2. /\ top \in Seq(Chunk) /\ Len(top) <= cutoff /\ Len(top) <= Len(ranked)
        /\ Len(top) = cutoff \/ Len(top) = Len(ranked)
        /\ \A i \in 1 .. Len(top) : top[i] = ranked[i]
    BY <1>1, UpToIs
  <1>3. grades = [i \in DOMAIN top |-> Grade(judged, top[i])] BY DEF GradesOf
  <1>4. ASSUME NEW c PROVE Grade(judged, c) \in 0 .. 3 BY JudgedAre DEF Grade
  <1> HIDE DEF top, grades
  <1>5. DOMAIN top = 1 .. Len(top) /\ Len(top) \in Nat BY <1>2
  <1> DEFINE t == Len(top)
             l == Len(ranked)
  <1>6. t \in Nat /\ l \in Nat /\ t <= cutoff /\ t <= l /\ (t = cutoff \/ t = l)
    BY <1>1, <1>2, <1>5
  <1>7. Len(top) \in 0 .. Limit /\ Len(top) = k
    <2> HIDE DEF t, l
    <2>1. t \in 0 .. Limit /\ t = IF l < cutoff THEN l ELSE cutoff BY <1>1, <1>6
    <2> QED BY <2>1 DEF t, l
  <1>8. grades \in [1 .. Len(top) -> 0 .. 3]
        /\ \A i \in 1 .. Len(top) : grades[i] = Grade(judged, ranked[i])
    BY <1>2, <1>3, <1>4, <1>5
  <1> QED BY <1>2, <1>5, <1>7, <1>8 DEF top, grades

\* A ranking holds no more of a grade than was judged.
LEMMA RankedAtMost ==
  ASSUME NEW judged \in Judgments, NEW ranked \in Seq(Chunk), IsInjective(ranked),
         NEW cutoff \in 1 .. Limit, NEW v \in 1 .. 3
  PROVE  Cardinality(AtLeast(GradesOf(cutoff, ranked, judged), v, Len(UpTo(ranked, cutoff))))
           <= Cardinality(Worth(judged, v))
  <1> DEFINE k == Len(UpTo(ranked, cutoff))
             grades == GradesOf(cutoff, ranked, judged)
             at == AtLeast(grades, v, k)
             worth == Worth(judged, v)
             f == [i \in at |-> ranked[i]]
  <1>1. /\ k \in 0 .. Limit /\ k <= Len(ranked)
        /\ \A i \in 1 .. k : grades[i] = Grade(judged, ranked[i])
    <2>1. cutoff \in Nat /\ Len(ranked) \in Nat BY LimitTypes
    <2> QED BY <2>1, GradesAre
  <1>2. \A i : i \in at <=> i \in 1 .. k /\ grades[i] >= v BY DEF AtLeast
  <1>3. \A c : c \in worth <=> c \in DOMAIN judged /\ judged[c] >= v BY DEF Worth
  <1>4. \A c : Grade(judged, c) >= v => c \in DOMAIN judged /\ judged[c] >= v BY DEF Grade
  <1>5. \A i \in 1 .. k : i \in DOMAIN ranked
    <2>1. DOMAIN ranked = 1 .. Len(ranked) /\ Len(ranked) \in Nat OBVIOUS
    <2> QED BY <1>1, <2>1
  <1>6. IsFiniteSet(worth) BY WorthIsFinite
  <1> HIDE DEF k, grades, at, worth
  <1>7. f \in [at -> worth] BY <1>1, <1>2, <1>3, <1>4
  <1>8. \A i, j \in at : f[i] = f[j] => i = j BY <1>2, <1>5 DEF IsInjective
  <1> HIDE DEF f
  <1>9. f \in Injection(at, worth) BY <1>7, <1>8 DEF Injection, IsInjective
  <1>10. Cardinality(at) <= Cardinality(worth) BY <1>6, <1>9, FS_Injection
  <1> QED BY <1>10 DEF k, grades, at, worth

\* As far as it reaches, the ideal ranking has as many of a grade as any other.
LEMMA IdealReaches ==
  ASSUME NEW judged \in Judgments, NEW ranked, NEW cutoff \in 1 .. Limit
  PROVE  LET best == UpTo(Ideal(judged, ranked), cutoff)
             k    == Len(best)
         IN  /\ k \in 0 .. Limit /\ best \in [1 .. k -> 0 .. 3]
             /\ \A a \in 1 .. k : \A b \in a .. k : best[b] <= best[a]
             /\ \A v \in 1 .. 3 : \A x \in 0 .. cutoff :
                  x <= Cardinality(Worth(judged, v)) => x <= Cardinality(AtLeast(best, v, k))
  <1> DEFINE ideal == Ideal(judged, ranked)
             n == Cardinality(DOMAIN judged)
             best == UpTo(ideal, cutoff)
             k == Len(best)
  <1>1. /\ n \in Nat /\ ideal \in [1 .. n -> 0 .. 3]
        /\ \A a \in 1 .. n : \A b \in a .. n : ideal[b] <= ideal[a]
        /\ \A v : Cardinality(AtLeast(ideal, v, n)) = Cardinality(Worth(judged, v))
    BY IdealIs
  <1>2. cutoff \in Nat /\ cutoff <= Limit /\ Limit \in Nat BY LimitTypes
  <1> HIDE DEF ideal, n
  <1>3. ideal \in Seq(0 .. 3) /\ Len(ideal) = n BY <1>1
  <1>4. /\ best \in Seq(0 .. 3) /\ k <= cutoff /\ k <= n /\ (k = cutoff \/ k = n)
        /\ \A i \in 1 .. k : best[i] = ideal[i]
    BY <1>2, <1>3, UpToIs
  <1> HIDE DEF best
  <1>5. k \in Nat /\ best \in [1 .. k -> 0 .. 3] BY <1>4
  <1> HIDE DEF k
  <1>6. k \in 0 .. Limit BY <1>2, <1>4, <1>5
  <1>7. ASSUME NEW a \in 1 .. k, NEW b \in a .. k PROVE best[b] <= best[a]
    <2>1. a \in 1 .. n /\ b \in a .. n /\ b \in 1 .. k BY <1>1, <1>4, <1>5
    <2> QED BY <1>1, <1>4, <2>1
  <1>8. ASSUME NEW v \in 1 .. 3, NEW x \in 0 .. cutoff, x <= Cardinality(Worth(judged, v))
        PROVE  x <= Cardinality(AtLeast(best, v, k))
    <2> DEFINE Low(i) == i \in 1 .. n => ideal[i] < v
    <2>1. CASE \A i \in k + 1 .. n : ideal[i] < v
      <3>1. AtLeast(ideal, v, n) = AtLeast(best, v, k)
        <4>1. ASSUME NEW i \in AtLeast(ideal, v, n) PROVE i \in AtLeast(best, v, k)
          <5>1. i \in 1 .. n /\ ideal[i] >= v BY <4>1 DEF AtLeast
          <5>2. ideal[i] \in 0 .. 3 BY <1>1, <5>1
          <5>3. i \notin k + 1 .. n BY <2>1, <5>1, <5>2
          <5>4. i \in 1 .. k BY <1>1, <1>5, <5>1, <5>3
          <5>5. best[i] >= v BY <1>4, <5>1, <5>4
          <5> QED BY <5>4, <5>5 DEF AtLeast
        <4>2. ASSUME NEW i \in AtLeast(best, v, k) PROVE i \in AtLeast(ideal, v, n)
          <5>1. i \in 1 .. k /\ best[i] >= v BY <4>2 DEF AtLeast
          <5>2. i \in 1 .. n /\ ideal[i] >= v BY <1>1, <1>4, <1>5, <5>1
          <5> QED BY <5>2 DEF AtLeast
        <4> QED BY <4>1, <4>2
      <3> QED BY <1>1, <1>8, <3>1
    <2>2. CASE \E i \in k + 1 .. n : ~(ideal[i] < v)
      <3>1. PICK i \in k + 1 .. n : ~(ideal[i] < v) BY <2>2
      <3>2. k = cutoff /\ i \in 1 .. n BY <1>1, <1>4, <1>5
      <3>3. AtLeast(best, v, k) = 1 .. k
        <4>1. ASSUME NEW j \in 1 .. k PROVE best[j] >= v
          <5>1. j \in 1 .. n /\ i \in j .. n BY <1>1, <1>4, <1>5
          <5>2. ideal[i] <= ideal[j] /\ ideal[i] \in 0 .. 3 /\ ideal[j] \in 0 .. 3
            BY <1>1, <3>2, <5>1
          <5>3. best[j] = ideal[j] BY <1>4
          <5> QED BY <3>1, <5>2, <5>3
        <4> QED BY <4>1 DEF AtLeast
      <3>4. Cardinality(1 .. k) = k BY <1>5, FS_Interval
      <3> QED BY <3>2, <3>3, <3>4
    <2> QED BY <2>1, <2>2
  <1> QED BY <1>5, <1>6, <1>7, <1>8 DEF k, best, ideal

LEMMA WeightsKeep ==
  ASSUME NEW r1 \in Nat, NEW r2 \in Nat, NEW r3 \in Nat,
         NEW b1 \in Nat, NEW b2 \in Nat, NEW b3 \in Nat,
         r1 <= b1, r2 <= b2, r3 <= b3, b1 > 0
  PROVE  LET x == r1 + 2 * r2 + 4 * r3
             y == b1 + 2 * b2 + 4 * b3
         IN  x \in Nat /\ y \in Nat /\ y > 0 /\ x <= y
  OBVIOUS

\* No ranking has a higher DCG than the ideal one, and that is never zero.
LEMMA DcgAtMostIdeal ==
  ASSUME NEW judged \in Judgments, NEW ranked \in Seq(Chunk), IsInjective(ranked),
         NEW cutoff \in 1 .. Limit
  PROVE  LET dcg   == Dcg(GradesOf(cutoff, ranked, judged))
             ideal == Dcg(UpTo(Ideal(judged, ranked), cutoff))
         IN  dcg \in Nat /\ ideal \in Nat /\ ideal > 0 /\ dcg <= ideal
  <1> DEFINE grades == GradesOf(cutoff, ranked, judged)
             K == Len(UpTo(ranked, cutoff))
             best == UpTo(Ideal(judged, ranked), cutoff)
             k == Len(best)
             rankedAt(v) == Cardinality(AtLeast(grades, v, K))
             idealAt(v) == Cardinality(AtLeast(best, v, k))
  <1>1. K \in 0 .. Limit /\ grades \in [1 .. K -> 0 .. 3] /\ K <= cutoff /\ K \in Nat
        /\ cutoff \in Nat
    <2>1. cutoff \in Nat /\ Len(ranked) \in Nat BY LimitTypes
    <2> QED BY <2>1, GradesAre
  <1>2. /\ k \in 0 .. Limit /\ best \in [1 .. k -> 0 .. 3] /\ k \in Nat
        /\ \A a \in 1 .. k : \A b \in a .. k : best[b] <= best[a]
        /\ \A v \in 1 .. 3 : \A x \in 0 .. cutoff :
             x <= Cardinality(Worth(judged, v)) => x <= idealAt(v)
    BY IdealReaches
  <1>3. \A v \in 1 .. 3 : rankedAt(v) <= Cardinality(Worth(judged, v)) BY RankedAtMost
  <1> HIDE DEF grades, K, best, k
  <1>4. \A v \in 1 .. 3 : rankedAt(v) \in 0 .. K
    <2>1. K \in 0 .. K BY <1>1
    <2> QED BY <1>1, <2>1, AtLeastCounts
  <1>5. \A v \in 1 .. 3 : idealAt(v) \in 0 .. k
    <2>1. k \in 0 .. k BY <1>2
    <2> QED BY <1>2, <2>1, AtLeastCounts
  <1> HIDE DEF rankedAt, idealAt
  <1>6. Limit \in Nat BY LimitTypes
  <1>7. ASSUME NEW v \in 1 .. 3
        PROVE  /\ Hits(grades, v)[K] \in Nat /\ Hits(best, v)[k] \in Nat
               /\ Hits(grades, v)[K] <= Hits(best, v)[k]
               /\ Hits(best, v)[k] = Best[idealAt(v)]
    <2>1. Hits(grades, v)[K] <= Best[rankedAt(v)]
      <3>1. K \in 0 .. K BY <1>1
      <3> QED BY <1>1, <3>1, HitsAtMost DEF rankedAt
    <2>2. Hits(best, v)[k] = Best[idealAt(v)]
      <3>1. k \in 0 .. k BY <1>2
      <3>2. \A a \in 1 .. k : \A b \in a .. k : best[b] >= v => best[a] >= v
        <4> SUFFICES ASSUME NEW a \in 1 .. k, NEW b \in a .. k, best[b] >= v PROVE best[a] >= v
          OBVIOUS
        <4>1. b \in 1 .. k BY <1>2
        <4>2. best[a] \in 0 .. 3 /\ best[b] \in 0 .. 3 /\ best[b] <= best[a] BY <1>2, <4>1
        <4> QED BY <4>2
      <3> QED BY <1>2, <3>1, <3>2, HitsAtMost DEF idealAt
    <2>3. rankedAt(v) <= idealAt(v)
      <3>1. rankedAt(v) \in 0 .. cutoff BY <1>1, <1>4
      <3> QED BY <1>2, <1>3, <3>1
    <2>4. /\ rankedAt(v) \in 0 .. Limit /\ idealAt(v) \in 0 .. Limit
          /\ idealAt(v) \in rankedAt(v) .. Limit
      BY <1>1, <1>2, <1>4, <1>5, <1>6, <2>3
    <2>5. Best[rankedAt(v)] <= Best[idealAt(v)] /\ Best[rankedAt(v)] \in Nat
          /\ Best[idealAt(v)] \in Nat
      BY <2>4, BestIs
    <2>6. Hits(grades, v)[K] \in Nat
      <3>1. K \in 0 .. K BY <1>1
      <3> QED BY <1>1, <3>1, HitsAre
    <2> QED BY <2>1, <2>2, <2>5, <2>6
  <1>8. Hits(best, 1)[k] > 0
    <2>1. PICK c \in DOMAIN judged : judged[c] > 0 BY JudgedAre
    <2>2. c \in Worth(judged, 1) BY <2>1, JudgedAre DEF Worth
    <2>3. Cardinality(Worth(judged, 1)) # 0 /\ Cardinality(Worth(judged, 1)) \in Nat
      BY <2>2, WorthIsFinite, FS_EmptySet
    <2>4. 1 <= idealAt(1)
      <3>1. 1 \in 0 .. cutoff /\ 1 <= Cardinality(Worth(judged, 1)) BY <1>1, <2>3
      <3> QED BY <1>2, <3>1
    <2>5. 1 \in 0 .. Limit /\ 1 \in 1 .. Limit /\ idealAt(1) \in 1 .. Limit
      BY <1>2, <1>5, <1>6, <2>4
    <2>6. Best[1] <= Best[idealAt(1)] /\ Best[1] \in Nat /\ Best[idealAt(1)] \in Nat
      <3>1. idealAt(1) \in 0 .. Limit BY <2>5
      <3> QED BY <2>5, <3>1, BestIs
    <2>7. Best[1] = Best[0] + Discount[1] /\ Best[0] = 0
      <3>1. Best[1] = Best[1 - 1] + Discount[1] BY <2>5, BestIs
      <3>2. 1 - 1 = 0 OBVIOUS
      <3> QED BY <3>1, <3>2, BestIs
    <2>8. Discount[1] \in Nat /\ Discount[1] > 0 BY <2>5, DiscountFalls
    <2>9. Hits(best, 1)[k] = Best[idealAt(1)] BY <1>7
    <2> QED BY <2>6, <2>7, <2>8, <2>9
  <1>9. Dcg(grades) = Hits(grades, 1)[K] + 2 * Hits(grades, 2)[K] + 4 * Hits(grades, 3)[K]
    BY <1>1, DcgByGrade
  <1>10. Dcg(best) = Hits(best, 1)[k] + 2 * Hits(best, 2)[k] + 4 * Hits(best, 3)[k]
    BY <1>2, DcgByGrade
  <1>11. /\ Hits(grades, 1)[K] \in Nat /\ Hits(best, 1)[k] \in Nat
         /\ Hits(grades, 2)[K] \in Nat /\ Hits(best, 2)[k] \in Nat
         /\ Hits(grades, 3)[K] \in Nat /\ Hits(best, 3)[k] \in Nat
         /\ Hits(grades, 1)[K] <= Hits(best, 1)[k]
         /\ Hits(grades, 2)[K] <= Hits(best, 2)[k]
         /\ Hits(grades, 3)[K] <= Hits(best, 3)[k]
    BY <1>7
  <1>12. Dcg(grades) \in Nat /\ Dcg(best) \in Nat /\ Dcg(best) > 0 /\ Dcg(grades) <= Dcg(best)
    <2> DEFINE r(v) == Hits(grades, v)[K]
               b(v) == Hits(best, v)[k]
    <2>1. /\ r(1) \in Nat /\ b(1) \in Nat /\ r(1) <= b(1) /\ b(1) > 0
          /\ r(2) \in Nat /\ b(2) \in Nat /\ r(2) <= b(2)
          /\ r(3) \in Nat /\ b(3) \in Nat /\ r(3) <= b(3)
      BY <1>8, <1>11
    <2>2. Dcg(grades) = r(1) + 2 * r(2) + 4 * r(3) BY <1>9
    <2>3. Dcg(best) = b(1) + 2 * b(2) + 4 * b(3) BY <1>10
    <2> HIDE DEF r, b
    <2>4. LET x == r(1) + 2 * r(2) + 4 * r(3)
              y == b(1) + 2 * b(2) + 4 * b(3)
          IN  x \in Nat /\ y \in Nat /\ y > 0 /\ x <= y
      BY <2>1, WeightsKeep
    <2> QED BY <2>2, <2>3, <2>4
  <1> QED BY <1>12 DEF grades, best

-----------------------------------------------------------------------------

LEMMA MinIs ==
  ASSUME NEW S \in SUBSET Nat, S # {}
  PROVE  Min(S) \in S /\ \A x \in S : Min(S) <= x
  <1>1. \E x \in S : \A y \in S : x <= y BY LeastExists
  <1> QED BY <1>1 DEF Min

\* The ranks that hold a relevant chunk.
RelevantRanks(grades) == {i \in DOMAIN grades : grades[i] > 0}

FirstOfRanks(S) == IF S = {} THEN 0 ELSE Min(S)

LEMMA MetricsAre ==
  ASSUME NEW judged, NEW ranked, NEW cutoff
  PROVE  LET m      == Metrics(cutoff, ranked, judged)
             top    == UpTo(ranked, cutoff)
             grades == GradesOf(cutoff, ranked, judged)
         IN  /\ m.retrieved = Len(top)
             /\ m.judged_retrieved = Cardinality(ToSet(top) \intersect DOMAIN judged)
             /\ m.relevant = Cardinality({c \in DOMAIN judged : judged[c] > 0})
             /\ m.relevant_retrieved = Cardinality(RelevantRanks(grades))
             /\ m.first_relevant = FirstOfRanks(RelevantRanks(grades))
             /\ m.dcg = Dcg(grades)
             /\ m.ideal_dcg = Dcg(UpTo(Ideal(judged, ranked), cutoff))
  BY DEF Metrics, GradesOf, RelevantRanks, FirstOfRanks

\* No metric divides by zero or exceeds one.
LEMMA CountsAreSound ==
  ASSUME NEW judged \in Judgments, NEW ranked \in Seq(Chunk), IsInjective(ranked),
         NEW cutoff \in 1 .. Limit
  PROVE  LET m == Metrics(cutoff, ranked, judged)
         IN  /\ m.relevant > 0
             /\ m.relevant_retrieved <= m.relevant /\ m.relevant_retrieved <= cutoff
             /\ m.judged_retrieved <= m.retrieved
             /\ m.relevant_retrieved <= m.judged_retrieved
             /\ m.first_relevant = 0 <=> m.relevant_retrieved = 0
  <1> DEFINE m == Metrics(cutoff, ranked, judged)
             top == UpTo(ranked, cutoff)
             K == Len(top)
             grades == GradesOf(cutoff, ranked, judged)
             J == DOMAIN judged
             ranks == RelevantRanks(grades)
             found == ToSet(top) \intersect J
  <1>1. /\ top \in Seq(Chunk) /\ IsInjective(top) /\ K <= cutoff
        /\ K \in 0 .. Limit /\ DOMAIN top = 1 .. K /\ grades \in [1 .. K -> 0 .. 3]
        /\ \A i \in 1 .. K : top[i] = ranked[i] /\ grades[i] = Grade(judged, ranked[i])
    <2>1. cutoff \in Nat BY LimitTypes
    <2> QED BY <2>1, GradesAre, UpToIs
  <1>2. /\ m.retrieved = K /\ m.judged_retrieved = Cardinality(found)
        /\ m.relevant = Cardinality({c \in J : judged[c] > 0})
        /\ m.relevant_retrieved = Cardinality(ranks)
        /\ m.first_relevant = FirstOfRanks(ranks)
    BY DEF Metrics, GradesOf, RelevantRanks, FirstOfRanks
  <1>3. {c \in J : judged[c] > 0} = Worth(judged, 1)
    <2>1. \A c \in J : judged[c] > 0 <=> judged[c] >= 1
      <3>1. \A c \in J : judged[c] \in 0 .. 3 BY JudgedAre
      <3> QED BY <3>1
    <2> QED BY <2>1 DEF Worth
  <1>4. ranks = AtLeast(grades, 1, K)
    <2>1. \A i \in 1 .. K : grades[i] > 0 <=> grades[i] >= 1
      <3>1. \A i \in 1 .. K : grades[i] \in 0 .. 3 BY <1>1
      <3> QED BY <3>1
    <2>2. DOMAIN grades = 1 .. K BY <1>1
    <2> QED BY <2>1, <2>2 DEF AtLeast, RelevantRanks
  <1>5. Cardinality(ranks) <= Cardinality(Worth(judged, 1)) BY <1>4, RankedAtMost
  <1>6. Cardinality(Worth(judged, 1)) > 0
    <2>1. PICK c \in J : judged[c] > 0 BY JudgedAre
    <2>2. c \in Worth(judged, 1) BY <1>3, <2>1
    <2>3. Cardinality(Worth(judged, 1)) # 0 /\ Cardinality(Worth(judged, 1)) \in Nat
      BY <2>2, WorthIsFinite, FS_EmptySet
    <2> QED BY <2>3
  <1>7. IsFiniteSet(J) BY JudgedAre
  <1>8. \A i \in ranks : grades[i] > 0 /\ i \in 1 .. K BY <1>1 DEF RelevantRanks
  <1>9. \A c : Grade(judged, c) > 0 => c \in J BY DEF Grade
  <1> HIDE DEF m, top, K, grades, J, ranks
  <1>10. IsFiniteSet(ranks) /\ Cardinality(ranks) \in 0 .. K
    <2>1. K \in Nat /\ K \in 0 .. K BY <1>1
    <2> QED BY <1>1, <1>4, <2>1, AtLeastCounts
  <1>11. IsFiniteSet(found) /\ Cardinality(found) <= K
    <2>1. Cardinality(ToSet(top)) = K /\ IsFiniteSet(ToSet(top))
      <3>1. K \in 0 .. K /\ K \in Nat BY <1>1
      <3>2. top \in [1 .. K -> Chunk] BY <1>1 DEF K
      <3>3. \A i, j \in 1 .. K : top[i] = top[j] => i = j BY <1>1 DEF IsInjective
      <3>4. Cardinality(FirstOf(top, K)) = K BY <3>1, <3>2, <3>3, CountFirst
      <3>5. FirstOf(top, K) = ToSet(top) BY <1>1 DEF FirstOf, ToSet
      <3>6. IsFiniteSet(ToSet(top)) BY <1>1, FiniteToSet
      <3> QED BY <3>4, <3>5, <3>6
    <2>2. found \in SUBSET ToSet(top) OBVIOUS
    <2> HIDE DEF found
    <2> QED BY <2>1, <2>2, FS_Subset
  <1>12. Cardinality(ranks) <= Cardinality(found)
    <2> DEFINE f == [i \in ranks |-> top[i]]
    <2>1. f \in [ranks -> found]
      <3>1. ASSUME NEW i \in ranks PROVE top[i] \in found
        <4>1. i \in 1 .. K /\ Grade(judged, ranked[i]) > 0 BY <1>1, <1>8
        <4>2. top[i] \in J BY <1>1, <1>9, <4>1
        <4>3. top[i] \in ToSet(top) BY <1>1, <4>1 DEF ToSet
        <4> QED BY <4>2, <4>3
      <3> HIDE DEF found
      <3> QED BY <3>1
    <2>2. \A i, j \in ranks : f[i] = f[j] => i = j BY <1>1, <1>8 DEF IsInjective
    <2> HIDE DEF f, found
    <2>3. f \in Injection(ranks, found) BY <2>1, <2>2 DEF Injection, IsInjective
    <2> QED BY <1>11, <2>3, FS_Injection
  <1>13. FirstOfRanks(ranks) = 0 <=> Cardinality(ranks) = 0
    <2>1. Cardinality(ranks) = 0 <=> ranks = {} BY <1>10, FS_EmptySet
    <2>2. ranks # {} => FirstOfRanks(ranks) # 0
      <3> SUFFICES ASSUME ranks # {} PROVE FirstOfRanks(ranks) # 0 OBVIOUS
      <3>1. ranks \in SUBSET Nat BY <1>8
      <3>2. Min(ranks) \in ranks BY <3>1, MinIs
      <3>3. Min(ranks) # 0 BY <1>8, <3>2
      <3> QED BY <3>3 DEF FirstOfRanks
    <2>3. ranks = {} => FirstOfRanks(ranks) = 0 BY DEF FirstOfRanks
    <2> QED BY <2>1, <2>2, <2>3
  <1>14. cutoff \in Nat /\ K \in Nat /\ Cardinality(ranks) \in Nat
    BY <1>1, <1>10
  <1>15. Cardinality(ranks) <= cutoff BY <1>1, <1>10, <1>14
  <1> HIDE DEF found
  <1> QED BY <1>2, <1>3, <1>5, <1>6, <1>11, <1>12, <1>13, <1>15 DEF m

\* A better grade gains more, and more still at a better rank.
LEMMA GainRises ==
  ASSUME NEW a \in 0 .. 3, NEW b \in 0 .. 3, a < b, NEW d \in Nat \ {0}
  PROVE  /\ (2 ^ a - 1) * d \in Nat
         /\ (2 ^ b - 1) * d > (2 ^ a - 1) * d
         /\ \A e \in 0 .. d - 1 :
              (2 ^ b - 1) * d + (2 ^ a - 1) * e > (2 ^ a - 1) * d + (2 ^ b - 1) * e
  <1> DEFINE x == 2 ^ a - 1
             y == 2 ^ b - 1
  <1>1. x = IF a = 0 THEN 0 ELSE IF a = 1 THEN 1 ELSE IF a = 2 THEN 3 ELSE 7 BY GainIs
  <1>2. y = IF b = 0 THEN 0 ELSE IF b = 1 THEN 1 ELSE IF b = 2 THEN 3 ELSE 7 BY GainIs
  <1> HIDE DEF x, y
  <1>3. x \in {0, 1, 3} /\ y \in {1, 3, 7} /\ x < y
    <2>1. (a = 0 \/ a = 1 \/ a = 2) /\ (b = 1 \/ b = 2 \/ b = 3) OBVIOUS
    <2> QED BY <1>1, <1>2, <2>1
  <1>4. ASSUME NEW e \in 0 .. d - 1 PROVE y * d + x * e > x * d + y * e
    <2>1. d \in Nat /\ e \in Nat /\ e < d OBVIOUS
    <2>2. CASE x = 0 /\ y = 1 BY <2>1, <2>2
    <2>3. CASE x = 0 /\ y = 3 BY <2>1, <2>3
    <2>4. CASE x = 0 /\ y = 7 BY <2>1, <2>4
    <2>5. CASE x = 1 /\ y = 3 BY <2>1, <2>5
    <2>6. CASE x = 1 /\ y = 7 BY <2>1, <2>6
    <2>7. CASE x = 3 /\ y = 7 BY <2>1, <2>7
    <2>8. \/ (x = 0 /\ y = 1) \/ (x = 0 /\ y = 3) \/ (x = 0 /\ y = 7)
          \/ (x = 1 /\ y = 3) \/ (x = 1 /\ y = 7) \/ (x = 3 /\ y = 7)
      <3>1. (x = 0 \/ x = 1 \/ x = 3) /\ (y = 1 \/ y = 3 \/ y = 7) /\ x < y BY <1>3
      <3> QED BY <3>1
    <2> QED BY <2>2, <2>3, <2>4, <2>5, <2>6, <2>7, <2>8
  <1>5. x * d \in Nat BY <1>3
  <1>6. y * d > x * d
    <2>1. 0 \in 0 .. d - 1 OBVIOUS
    <2>2. y * d + x * 0 > x * d + y * 0 BY <1>4, <2>1
    <2>3. x * 0 = 0 /\ y * 0 = 0 /\ x * d \in Nat /\ y * d \in Nat BY <1>3
    <2> QED BY <2>2, <2>3
  <1> QED BY <1>4, <1>5, <1>6 DEF x, y

Terms(grades) == [rank \in DOMAIN grades |-> (2 ^ grades[rank] - 1) * Discount[rank]]

LEMMA TermsAre ==
  ASSUME NEW K \in 0 .. Limit, NEW grades \in [1 .. K -> 0 .. 3]
  PROVE  /\ Terms(grades) \in [1 .. K -> Nat]
         /\ \A n \in 1 .. K : Terms(grades)[n] = (2 ^ grades[n] - 1) * Discount[n]
         /\ Dcg(grades) = Sums(Terms(grades))[K]
  <1>1. K \in Nat /\ 1 .. K \subseteq 1 .. Limit BY LimitTypes
  <1>2. ASSUME NEW n \in 1 .. K PROVE (2 ^ grades[n] - 1) * Discount[n] \in Nat
    <2>1. Discount[n] \in Nat BY <1>1, DiscountFalls
    <2>2. 2 ^ grades[n] - 1 \in {0, 1, 3, 7} BY GainIs
    <2> QED BY <2>1, <2>2
  <1>3. Terms(grades) = [n \in 1 .. K |-> (2 ^ grades[n] - 1) * Discount[n]] BY DEF Terms
  <1>4. Len(grades) = K BY <1>1
  <1>5. Dcg(grades) = Sums(Terms(grades))[K] BY <1>4 DEF Dcg, Terms
  <1> QED BY <1>2, <1>3, <1>5

\* Exchanging two neighbours so that the better comes first raises DCG when the
\* first of them counts, and leaves it alone otherwise.
LEMMA SwapRaises ==
  ASSUME NEW K \in 0 .. Limit, NEW grades \in [1 .. K -> 0 .. 3],
         NEW better \in [1 .. K -> 0 .. 3], NEW i \in Nat \ {0}, NEW low \in 0 .. 3,
         NEW high \in 0 .. 3, low < high,
         \A n \in 1 .. K : n # i /\ n # i + 1 => better[n] = grades[n],
         i \in 1 .. K => grades[i] = low /\ better[i] = high,
         i + 1 \in 1 .. K => grades[i + 1] = high /\ better[i + 1] = low
  PROVE  /\ i <= K => Dcg(better) > Dcg(grades)
         /\ i > K => Dcg(better) = Dcg(grades)
  <1>1. K \in Nat /\ 1 .. K \subseteq 1 .. Limit /\ Limit \in Nat BY LimitTypes
  <1>2. ASSUME i > K PROVE Dcg(better) = Dcg(grades)
    <2>1. \A n \in 1 .. K : better[n] = grades[n] BY <1>1, <1>2
    <2>2. better = grades BY <2>1
    <2> QED BY <2>2
  <1>3. ASSUME i <= K PROVE Dcg(better) > Dcg(grades)
    <2> DEFINE s == Terms(grades)
               b == Terms(better)
               gain(g) == 2 ^ g - 1
               j == IF i + 1 <= K THEN i + 1 ELSE i
    <2>1. /\ s \in [1 .. K -> Nat] /\ Dcg(grades) = Sums(s)[K]
          /\ \A n \in 1 .. K : s[n] = gain(grades[n]) * Discount[n]
      BY TermsAre
    <2>2. /\ b \in [1 .. K -> Nat] /\ Dcg(better) = Sums(b)[K]
          /\ \A n \in 1 .. K : b[n] = gain(better[n]) * Discount[n]
      BY TermsAre
    <2>3. i \in 1 .. K /\ i \in 1 .. Limit /\ Discount[i] \in Nat \ {0}
      BY <1>1, <1>3, DiscountFalls
    <2>4. /\ gain(low) * Discount[i] \in Nat
          /\ gain(high) * Discount[i] > gain(low) * Discount[i]
          /\ \A e \in 0 .. Discount[i] - 1 :
               gain(high) * Discount[i] + gain(low) * e > gain(low) * Discount[i] + gain(high) * e
      BY <2>3, GainRises
    <2> HIDE DEF s, b, gain
    <2>5. s[i] = gain(low) * Discount[i] /\ b[i] = gain(high) * Discount[i]
      BY <2>1, <2>2, <2>3
    <2>6. j \in {i, i + 1} /\ j <= K BY <1>1, <1>3
    <2>7. \A n \in 1 .. K : n # i /\ n # j => b[n] = s[n]
      <3> SUFFICES ASSUME NEW n \in 1 .. K, n # i, n # j PROVE b[n] = s[n] OBVIOUS
      <3>1. n # i + 1 BY <1>1
      <3>2. better[n] = grades[n] BY <3>1
      <3> QED BY <2>1, <2>2, <3>2
    <2>8. j = i => b[i] > s[i] BY <2>4, <2>5
    <2>9. j = i + 1 => b[i] + b[j] > s[i] + s[j]
      <3> SUFFICES ASSUME j = i + 1 PROVE b[i] + b[j] > s[i] + s[j] OBVIOUS
      <3>1. i + 1 \in 1 .. K /\ i + 1 \in 2 .. Limit /\ (i + 1) - 1 = i BY <1>1, <1>3
      <3>2. Discount[i + 1] \in 0 .. Discount[i] - 1
        <4>1. i + 1 \in 1 .. Limit BY <1>1, <3>1
        <4>2. Discount[i + 1] \in Nat BY <4>1, DiscountFalls
        <4>3. Discount[i + 1] < Discount[(i + 1) - 1] BY <3>1, DiscountFalls
        <4> QED BY <2>3, <3>1, <4>2, <4>3
      <3>3. s[i + 1] = gain(high) * Discount[i + 1] /\ b[i + 1] = gain(low) * Discount[i + 1]
        BY <2>1, <2>2, <3>1
      <3>4. gain(high) * Discount[i] + gain(low) * Discount[i + 1]
              > gain(low) * Discount[i] + gain(high) * Discount[i + 1]
        BY <2>4, <3>2
      <3>5. b[i] + b[i + 1] > s[i] + s[i + 1] BY <2>5, <3>3, <3>4
      <3> QED BY <3>5
    <2> HIDE DEF j
    <2>10. Sums(b)[K] > Sums(s)[K] BY <1>1, <2>1, <2>2, <2>3, <2>6, <2>7, <2>8, <2>9, SumsRise
    <2> QED BY <2>1, <2>2, <2>10
  <1> QED BY <1>2, <1>3

\* The same of the first relevant rank.
LEMMA SwapIsNotLater ==
  ASSUME NEW K \in Nat, NEW grades \in [1 .. K -> 0 .. 3],
         NEW better \in [1 .. K -> 0 .. 3], NEW i \in Nat \ {0}, NEW low \in 0 .. 3,
         NEW high \in 0 .. 3, low < high,
         \A n \in 1 .. K : n # i /\ n # i + 1 => better[n] = grades[n],
         i \in 1 .. K => grades[i] = low /\ better[i] = high,
         FirstOfRanks(RelevantRanks(grades)) # 0
  PROVE  FirstOfRanks(RelevantRanks(better)) \in 1 .. FirstOfRanks(RelevantRanks(grades))
  <1> DEFINE S == RelevantRanks(grades)
             T == RelevantRanks(better)
             m == Min(S)
  <1>1. \A n : n \in S <=> n \in 1 .. K /\ grades[n] > 0 BY DEF RelevantRanks
  <1>2. \A n : n \in T <=> n \in 1 .. K /\ better[n] > 0 BY DEF RelevantRanks
  <1>3. S # {} BY DEF FirstOfRanks
  <1> HIDE DEF S, T
  <1>4. S \in SUBSET Nat /\ T \in SUBSET Nat BY <1>1, <1>2
  <1>5. m \in S BY <1>3, <1>4, MinIs
  <1>6. m \in 1 .. K /\ grades[m] > 0 BY <1>1, <1>5
  <1>7. \E n \in T : n <= m
    <2>1. CASE m = i
      <3>1. better[m] > 0 BY <1>6, <2>1
      <3>2. m \in T BY <1>2, <1>6, <3>1
      <3> QED BY <1>6, <3>2
    <2>2. CASE m = i + 1
      <3>1. i \in 1 .. K /\ i <= m BY <1>6, <2>2
      <3>2. better[i] > 0 BY <3>1
      <3>3. i \in T BY <1>2, <3>1, <3>2
      <3> QED BY <3>1, <3>3
    <2>3. CASE m # i /\ m # i + 1
      <3>1. better[m] > 0 BY <1>6, <2>3
      <3>2. m \in T BY <1>2, <1>6, <3>1
      <3> QED BY <1>6, <3>2
    <2> QED BY <2>1, <2>2, <2>3
  <1>8. PICK n \in T : n <= m BY <1>7
  <1>9. T # {} BY <1>8
  <1>10. Min(T) \in T /\ Min(T) <= n BY <1>4, <1>8, <1>9, MinIs
  <1>11. Min(T) \in 1 .. K /\ n \in 1 .. K BY <1>2, <1>8, <1>10
  <1>12. Min(T) \in 1 .. m BY <1>6, <1>8, <1>10, <1>11
  <1> QED BY <1>3, <1>9, <1>12 DEF FirstOfRanks, S, T

\* Exchanging two neighbours so that the more relevant comes first lowers
\* nothing.
LEMMA SwapIsSound ==
  ASSUME NEW judged \in Judgments, NEW ranked \in Seq(Chunk), IsInjective(ranked),
         NEW cutoff \in 1 .. Limit, NEW i \in 1 .. Len(ranked) - 1,
         Grade(judged, ranked[i]) < Grade(judged, ranked[i + 1])
  PROVE  LET m      == Metrics(cutoff, ranked, judged)
             better == Metrics(cutoff,
                         [ranked EXCEPT ![i] = ranked[i + 1], ![i + 1] = ranked[i]], judged)
         IN  /\ better.dcg >= m.dcg /\ (i <= cutoff => better.dcg > m.dcg)
             /\ better.ideal_dcg = m.ideal_dcg
             /\ m.first_relevant # 0 => better.first_relevant \in 1 .. m.first_relevant
  <1> DEFINE swapped == [ranked EXCEPT ![i] = ranked[i + 1], ![i + 1] = ranked[i]]
             m == Metrics(cutoff, ranked, judged)
             better == Metrics(cutoff, swapped, judged)
             K == Len(UpTo(ranked, cutoff))
             grades == GradesOf(cutoff, ranked, judged)
             raised == GradesOf(cutoff, swapped, judged)
             low == Grade(judged, ranked[i])
             high == Grade(judged, ranked[i + 1])
  <1>1. Len(ranked) \in Nat /\ i \in 1 .. Len(ranked) /\ i + 1 \in 1 .. Len(ranked)
        /\ i \in Nat \ {0} /\ cutoff \in Nat /\ Limit \in Nat
    BY LimitTypes
  <1>2. swapped \in Seq(Chunk) /\ Len(swapped) = Len(ranked)
        /\ swapped[i] = ranked[i + 1] /\ swapped[i + 1] = ranked[i]
        /\ \A n \in 1 .. Len(ranked) : n # i /\ n # i + 1 => swapped[n] = ranked[n]
    <2>1. ranked \in [1 .. Len(ranked) -> Chunk] OBVIOUS
    <2>2. swapped \in [1 .. Len(ranked) -> Chunk] BY <1>1, <2>1
    <2>3. swapped \in Seq(Chunk) /\ Len(swapped) = Len(ranked) BY <1>1, <2>2
    <2>4. DOMAIN ranked = 1 .. Len(ranked) /\ i # i + 1 BY <1>1
    <2>5. swapped[i] = ranked[i + 1] /\ swapped[i + 1] = ranked[i] BY <1>1, <2>4
    <2>6. \A n \in 1 .. Len(ranked) : n # i /\ n # i + 1 => swapped[n] = ranked[n] BY <2>4
    <2> HIDE DEF swapped
    <2> QED BY <2>3, <2>5, <2>6
  <1>3. /\ m.dcg = Dcg(grades) /\ m.ideal_dcg = Dcg(UpTo(Ideal(judged, ranked), cutoff))
        /\ m.first_relevant = FirstOfRanks(RelevantRanks(grades))
    BY DEF Metrics, GradesOf, RelevantRanks, FirstOfRanks
  <1>4. /\ better.dcg = Dcg(raised)
        /\ better.ideal_dcg = Dcg(UpTo(Ideal(judged, swapped), cutoff))
        /\ better.first_relevant = FirstOfRanks(RelevantRanks(raised))
    BY DEF Metrics, GradesOf, RelevantRanks, FirstOfRanks
  <1>5. better.ideal_dcg = m.ideal_dcg BY <1>3, <1>4 DEF Ideal
  <1>6. /\ K \in 0 .. Limit /\ K = IF Len(ranked) < cutoff THEN Len(ranked) ELSE cutoff
        /\ grades \in [1 .. K -> 0 .. 3]
        /\ \A n \in 1 .. K : grades[n] = Grade(judged, ranked[n])
    BY GradesAre
  <1> HIDE DEF swapped, grades, m, better
  <1>7. /\ raised \in [1 .. K -> 0 .. 3]
        /\ \A n \in 1 .. K : raised[n] = Grade(judged, swapped[n])
    <2>1. Len(UpTo(swapped, cutoff)) = K BY <1>2, <1>6, GradesAre
    <2> QED BY <1>2, <2>1, GradesAre
  <1>8. low \in 0 .. 3 /\ high \in 0 .. 3 BY JudgedAre DEF Grade
  <1> HIDE DEF raised, low, high, K
  <1>9. K \in Nat /\ K <= Len(ranked) /\ (i <= K <=> i <= cutoff) BY <1>1, <1>6
  <1>10. \A n \in 1 .. K : n # i /\ n # i + 1 => raised[n] = grades[n]
    <2> SUFFICES ASSUME NEW n \in 1 .. K, n # i, n # i + 1 PROVE raised[n] = grades[n] OBVIOUS
    <2>1. n \in 1 .. Len(ranked) BY <1>1, <1>9
    <2> QED BY <1>2, <1>6, <1>7, <2>1
  <1>11. i \in 1 .. K => grades[i] = low /\ raised[i] = high BY <1>2, <1>6, <1>7 DEF low, high
  <1>12. i + 1 \in 1 .. K => grades[i + 1] = high /\ raised[i + 1] = low
    BY <1>2, <1>6, <1>7 DEF low, high
  <1>13. low < high BY DEF low, high
  <1>14. /\ i <= K => Dcg(raised) > Dcg(grades)
         /\ i > K => Dcg(raised) = Dcg(grades)
    <2>1. K \in 0 .. Limit /\ grades \in [1 .. K -> 0 .. 3] /\ raised \in [1 .. K -> 0 .. 3]
      BY <1>6, <1>7
    <2>2. i \in Nat \ {0} BY <1>1
    <2> QED BY <1>8, <1>10, <1>11, <1>12, <1>13, <2>1, <2>2, SwapRaises, Zenon
  <1>15. Dcg(grades) \in Nat BY DcgAtMostIdeal DEF grades
  <1>16. Dcg(raised) >= Dcg(grades) /\ (i <= cutoff => Dcg(raised) > Dcg(grades))
    <2>1. CASE i <= K
      <3>1. Dcg(raised) > Dcg(grades) BY <1>14, <2>1
      <3>2. Dcg(raised) \in Nat
        <4>1. /\ Terms(raised) \in [1 .. K -> Nat] /\ Dcg(raised) = Sums(Terms(raised))[K]
          BY <1>6, <1>7, TermsAre
        <4>2. K \in 0 .. K BY <1>9
        <4> QED BY <1>9, <4>1, <4>2, SumsAre
      <3> QED BY <1>15, <3>1, <3>2
    <2>2. CASE i > K
      <3>1. Dcg(raised) = Dcg(grades) /\ ~(i <= cutoff) BY <1>1, <1>9, <1>14, <2>2
      <3> QED BY <1>15, <3>1
    <2> QED BY <1>1, <1>9, <2>1, <2>2
  <1>17. FirstOfRanks(RelevantRanks(grades)) # 0
         => FirstOfRanks(RelevantRanks(raised)) \in 1 .. FirstOfRanks(RelevantRanks(grades))
    BY <1>1, <1>6, <1>7, <1>8, <1>9, <1>10, <1>11, <1>13, SwapIsNotLater
  <1> QED BY <1>3, <1>4, <1>5, <1>16, <1>17 DEF m, better, swapped

LEMMA InvMeasures == TracesInv => MetricsAreSound
  <1> SUFFICES ASSUME TracesInv, NEW t \in Stored, NEW judged \in Judgments,
                      NEW cutoff \in 1 .. Limit
      PROVE LET ranked == ChunksOf(t.results)
                m      == Metrics(cutoff, ranked, judged)
            IN  /\ m.relevant > 0 /\ m.ideal_dcg > 0
                /\ m.relevant_retrieved <= m.relevant /\ m.relevant_retrieved <= cutoff
                /\ m.judged_retrieved <= m.retrieved
                /\ m.relevant_retrieved <= m.judged_retrieved
                /\ m.first_relevant = 0 <=> m.relevant_retrieved = 0
                /\ m.dcg <= m.ideal_dcg
                /\ \A i \in 1 .. Len(ranked) - 1 :
                     Grade(judged, ranked[i]) < Grade(judged, ranked[i + 1]) =>
                       LET better == Metrics(cutoff,
                             [ranked EXCEPT ![i] = ranked[i + 1], ![i + 1] = ranked[i]], judged)
                       IN  /\ better.dcg >= m.dcg /\ (i <= cutoff => better.dcg > m.dcg)
                           /\ better.ideal_dcg = m.ideal_dcg
                           /\ m.first_relevant # 0 =>
                                better.first_relevant \in 1 .. m.first_relevant
    BY DEF MetricsAreSound
  <1> DEFINE ranked == ChunksOf(t.results)
             m == Metrics(cutoff, ranked, judged)
             better(i) == Metrics(cutoff,
                 [ranked EXCEPT ![i] = ranked[i + 1], ![i + 1] = ranked[i]], judged)
  <1>1. ranked \in Seq(Chunk) /\ IsInjective(ranked)
    <2>1. WellFormed(t.results) BY DEF Stored, TracesInv
    <2> QED BY <2>1, ChunksOfIs DEF WellFormed
  <1>2. m.dcg = Dcg(GradesOf(cutoff, ranked, judged))
        /\ m.ideal_dcg = Dcg(UpTo(Ideal(judged, ranked), cutoff))
    BY DEF Metrics, GradesOf
  <1> HIDE DEF ranked
  <1>3. m.dcg <= m.ideal_dcg /\ m.ideal_dcg > 0 BY <1>1, <1>2, DcgAtMostIdeal
  <1>4. /\ m.relevant > 0
        /\ m.relevant_retrieved <= m.relevant /\ m.relevant_retrieved <= cutoff
        /\ m.judged_retrieved <= m.retrieved
        /\ m.relevant_retrieved <= m.judged_retrieved
        /\ m.first_relevant = 0 <=> m.relevant_retrieved = 0
    BY <1>1, CountsAreSound
  <1>5. ASSUME NEW i \in 1 .. Len(ranked) - 1,
               Grade(judged, ranked[i]) < Grade(judged, ranked[i + 1])
        PROVE  /\ better(i).dcg >= m.dcg /\ (i <= cutoff => better(i).dcg > m.dcg)
               /\ better(i).ideal_dcg = m.ideal_dcg
               /\ m.first_relevant # 0 => better(i).first_relevant \in 1 .. m.first_relevant
    BY <1>1, <1>5, SwapIsSound
  <1> HIDE DEF m, better
  <1> QED BY <1>3, <1>4, <1>5 DEF ranked, m, better

\* No metric divides by zero or exceeds one, and none gets worse when a better
\* chunk moves up, for any rankings, judgments and limits.
THEOREM MetricsStaySound == Spec => []MetricsAreSound
  BY TracesWellFormed, InvMeasures, PTL
=============================================================================
