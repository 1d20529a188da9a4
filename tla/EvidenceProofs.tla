----------------------------- MODULE EvidenceProofs -----------------------------
(***************************************************************************)
(* Theorems about RankedEvidence: what the floors of the reranker leave    *)
(* each company with, and what its score is made of.                       *)
(***************************************************************************)
EXTENDS RetrievalProofs, FiniteSetTheorems

-----------------------------------------------------------------------------
(* The items of a retrieval. *)

\* What can be chosen from: finitely many items, each scored by a number.
Scored(S) == IsFiniteSet(S) /\ \A x \in S : x.score \in Int

\* Part of it can be chosen from too.
LEMMA PartScored ==
  ASSUME NEW S, Scored(S), NEW T \in SUBSET S
  PROVE  Scored(T)
BY FS_Subset DEF Scored

\* The rows the SQL branch left are a list.
LEMMA SqlRowsAreRows ==
  ASSUME FoundInv
  PROVE  SqlRows \in Rows
<1>1. sqlResult.db.rows \in Rows
  BY DEF FoundInv, Results
<1>2. <<>> \in Rows /\ <<NoTicker>> \in Rows
  BY DEF Rows
<1>3. SqlRows \in {sqlResult.db.rows, <<>>, <<NoTicker>>}
  BY DEF SqlRows
<1> QED BY <1>1, <1>2, <1>3

\* What the branches left is finite, scored, and none of it the ranker's numbers.
LEMMA ItemsScored ==
  ASSUME FoundInv
  PROVE  Scored(Items) /\ \A x \in Items : x.source \in AllSources
<1>1. Scored(SqlItems) /\ \A x \in SqlItems : x.source = "sql"
  <2> DEFINE f == [i \in 1..Len(SqlRows) |-> Item("sql", i, {SqlRows[i]} \cap Companies, Whole)]
             T == {Item("sql", i, {SqlRows[i]} \cap Companies, Whole) : i \in 1..Len(SqlRows)}
  <2>1. Len(SqlRows) \in Nat
    BY SqlRowsAreRows DEF Rows
  <2>2. IsFiniteSet(1..Len(SqlRows))
    BY <2>1, FS_Interval
  <2>3. f \in Surjection(1..Len(SqlRows), T)
    BY DEF Surjection
  <2>4. IsFiniteSet(T)
    <3> HIDE DEF f, T
    <3> QED BY <2>2, <2>3, FS_Surjection
  <2>5. \A x \in T : x.score \in Int /\ x.source = "sql"
    BY DEF Item, Whole
  <2>6. SqlItems \subseteq T
    BY DEF SqlItems
  <2> HIDE DEF f, T
  <2>7. IsFiniteSet(SqlItems)
    BY <2>4, <2>6, FS_Subset
  <2> QED BY <2>5, <2>6, <2>7 DEF Scored
<1>2. Scored(VectorItems) /\ \A x \in VectorItems : x.source = "vector"
  <2> DEFINE f == [d \in vector.chunks |-> Item("vector", d, {Owner[d]} \cup Mentions[d], Similarity[d])]
  <2>1. IsFiniteSet(vector.chunks)
    BY RetrievalAssumption, FS_Subset DEF FoundInv
  <2>2. f \in Surjection(vector.chunks, VectorItems)
    BY DEF Surjection, VectorItems
  <2>3. IsFiniteSet(VectorItems)
    <3> HIDE DEF f
    <3> QED BY <2>1, <2>2, FS_Surjection
  <2>4. \A x \in VectorItems : x.score \in Int /\ x.source = "vector"
    BY RankingAssumption DEF VectorItems, Item, FoundInv
  <2> QED BY <2>3, <2>4 DEF Scored
<1>3. Scored(MarketItems) /\ \A x \in MarketItems : x.source = "market"
  <2> DEFINE f == [c \in market.data |-> Item("market", c, {c}, market.confidence * 100)]
  <2>1. IsFiniteSet(market.data)
    BY RetrievalAssumption, FS_Subset DEF FoundInv
  <2>2. f \in Surjection(market.data, MarketItems)
    BY DEF Surjection, MarketItems
  <2>3. IsFiniteSet(MarketItems)
    <3> HIDE DEF f
    <3> QED BY <2>1, <2>2, FS_Surjection
  <2>4. \A x \in MarketItems : x.score \in Int /\ x.source = "market"
    BY DEF MarketItems, Item, FoundInv
  <2> QED BY <2>3, <2>4 DEF Scored
<1>4. IsFiniteSet(Items)
  BY <1>1, <1>2, <1>3, FS_Union DEF Items, Scored
<1> QED BY <1>1, <1>2, <1>3, <1>4 DEF Items, Scored, AllSources

-----------------------------------------------------------------------------
(* The best of a pool. *)

\* A pool that is not empty has an item that no other beats: one that the fewest
\* beat, for whatever beat it would be beaten by fewer.
LEMMA SomeBest ==
  ASSUME NEW pool, Scored(pool), pool # {}
  PROVE  \E x \in pool : \A y \in pool : x.score >= y.score
<1> DEFINE Over(x) == {y \in pool : y.score > x.score}
           N == {Cardinality(Over(x)) : x \in pool}
<1>1. \A x : IsFiniteSet(Over(x))
  BY FS_Subset DEF Scored
<1>2. \A x : Cardinality(Over(x)) \in Nat
  <2> HIDE DEF Over
  <2> QED BY <1>1, FS_CardinalityType
<1>3. PICK n \in N : \A m \in N : n <= m
  <2>1. N \in SUBSET Nat /\ N # {}
    BY <1>2
  <2> HIDE DEF N
  <2> QED BY <2>1, Least
<1>4. PICK x \in pool : n = Cardinality(Over(x))
  BY <1>3
<1>5. ASSUME NEW y \in pool, ~(x.score >= y.score)
      PROVE  FALSE
  <2>1. x.score \in Int /\ y.score \in Int /\ \A z \in pool : z.score \in Int
    BY DEF Scored
  <2>2. y \in Over(x) /\ y \notin Over(y) /\ Over(y) \in SUBSET Over(x)
    BY <1>5, <2>1
  <2>3. Cardinality(Over(y)) \in N
    OBVIOUS
  <2>4. n <= Cardinality(Over(y))
    <3> HIDE DEF N
    <3> QED BY <1>3, <2>3
  <2> HIDE DEF Over, N
  <2>5. Cardinality(Over(y)) <= Cardinality(Over(x)) /\ Cardinality(Over(y)) # Cardinality(Over(x))
    BY <1>1, <2>2, FS_Subset
  <2> QED BY <1>2, <1>4, <2>4, <2>5
<1> QED BY <1>5

\* What Best chooses: as many as asked for, if there are as many.
Tops(S, pool, n) ==
  /\ S \in SUBSET pool
  /\ Cardinality(S) = n
  /\ \A x \in S, y \in pool \ S : x.score >= y.score

\* One more can be chosen as long as something is left.
LEMMA OneMore ==
  ASSUME NEW pool, Scored(pool), NEW n \in Nat, n < Cardinality(pool), NEW S, Tops(S, pool, n)
  PROVE  \E T : Tops(T, pool, n + 1)
<1>1. S # pool
  BY FS_CardinalityType DEF Tops, Scored
<1>2. Scored(pool \ S) /\ pool \ S # {}
  BY <1>1, PartScored DEF Tops
<1>3. PICK x \in pool \ S : \A y \in pool \ S : x.score >= y.score
  BY <1>2, SomeBest
<1>4. IsFiniteSet(S)
  BY FS_Subset DEF Tops, Scored
<1>5. Cardinality(S \cup {x}) = n + 1
  BY <1>3, <1>4, FS_AddElement DEF Tops
<1>6. Tops(S \cup {x}, pool, n + 1)
  BY <1>3, <1>5 DEF Tops
<1> QED BY <1>6

\* The n best exist, and Best is n items, or the whole pool when it has fewer.
LEMMA BestIs ==
  ASSUME NEW pool, Scored(pool), NEW n \in Nat
  PROVE  /\ Best(pool, n) \in SUBSET pool
         /\ Cardinality(Best(pool, n)) = Smaller(n, Cardinality(pool))
<1> DEFINE k == Smaller(n, Cardinality(pool))
           G == {i \in 0..k : \E S : Tops(S, pool, i)}
<1>1. Cardinality(pool) \in Nat /\ k \in Nat /\ k <= Cardinality(pool)
  BY FS_CardinalityType DEF Scored, Smaller
<1>2. 0 \in G
  <2>1. Tops({}, pool, 0)
    BY FS_EmptySet DEF Tops
  <2>2. 0 \in 0..k
    BY <1>1
  <2> HIDE DEF k
  <2> QED BY <2>1, <2>2
<1>3. ASSUME NEW i \in 1..k, i - 1 \in G
      PROVE  i \in G
  <2>1. PICK S : Tops(S, pool, i - 1)
    BY <1>3
  <2>2. i - 1 \in Nat /\ i - 1 < Cardinality(pool) /\ (i - 1) + 1 = i
    BY <1>1
  <2>3. \E T : Tops(T, pool, i)
    BY <2>1, <2>2, OneMore
  <2> HIDE DEF k
  <2> QED BY <2>3
<1>4. 0..k \subseteq G
  <2> HIDE DEF k, G
  <2> QED BY <1>1, <1>2, <1>3, EveryTurn
<1>5. PICK S : Tops(S, pool, k)
  <2>1. k \in 0..k
    BY <1>1
  <2> HIDE DEF k
  <2> QED BY <1>4, <2>1
<1>6. \E T \in SUBSET pool :
        /\ Cardinality(T) = Smaller(n, Cardinality(pool))
        /\ \A x \in T, y \in pool \ T : x.score >= y.score
  BY <1>5 DEF Tops
<1> QED BY <1>6 DEF Best

-----------------------------------------------------------------------------
(* The floors. *)

\* What S has of c from these sources.
From(S, c, sources) == {x \in Matching(S, c) : x.source \in sources}

\* It reaches the floor, or is all there is.
Meets(S, c, floor, sources) ==
  Cardinality(From(S, c, sources)) >= Smaller(floor, Cardinality(From(Items, c, sources)))

\* What is met stays met as more is chosen.
LEMMA MeetsGrows ==
  ASSUME Scored(Items), NEW S, NEW T, S \subseteq T, T \subseteq Items, NEW c, NEW floor \in Nat,
         NEW sources, Meets(S, c, floor, sources)
  PROVE  Meets(T, c, floor, sources)
<1>1. From(S, c, sources) \in SUBSET From(T, c, sources) /\ From(T, c, sources) \in SUBSET Items
      /\ From(Items, c, sources) \in SUBSET Items
  BY DEF From, Matching
<1>2. IsFiniteSet(From(T, c, sources)) /\ IsFiniteSet(From(Items, c, sources))
  BY <1>1, FS_Subset DEF Scored
<1>3. Cardinality(From(S, c, sources)) <= Cardinality(From(T, c, sources))
      /\ IsFiniteSet(From(S, c, sources))
  BY <1>1, <1>2, FS_Subset
<1>4. /\ Cardinality(From(S, c, sources)) \in Nat
      /\ Cardinality(From(T, c, sources)) \in Nat
      /\ Cardinality(From(Items, c, sources)) \in Nat
  BY <1>2, <1>3, FS_CardinalityType
<1> QED BY <1>3, <1>4 DEF Meets, Smaller

\* A turn of the loop keeps what was chosen and meets the floor of its company.
LEMMA CoveredMeets ==
  ASSUME Scored(Items), NEW S \in SUBSET Items, NEW c, NEW floor \in Nat, NEW sources
  PROVE  /\ S \subseteq Covered(S, c, floor, sources)
         /\ Covered(S, c, floor, sources) \in SUBSET Items
         /\ Meets(Covered(S, c, floor, sources), c, floor, sources)
<1> DEFINE mine == From(S, c, sources)
           rest == {x \in Matching(Items, c) \ S : x.source \in sources}
           all == From(Items, c, sources)
           more == Best(rest, floor - Cardinality(mine))
           T == Covered(S, c, floor, sources)
<1>1. mine \cup rest = all /\ mine \cap rest = {} /\ all \in SUBSET Items
  BY DEF From, Matching
<1>2. T = IF Cardinality(mine) >= floor THEN S ELSE S \cup more
  BY DEF Covered, From
<1>3. \A A \in SUBSET rest : From(S \cup A, c, sources) = mine \cup A /\ rest \in SUBSET Items
  BY DEF From, Matching
<1> HIDE DEF mine, rest, all, more, T
<1>4. IsFiniteSet(mine) /\ IsFiniteSet(rest) /\ IsFiniteSet(all) /\ Scored(rest)
  <2>1. mine \in SUBSET all /\ rest \in SUBSET all /\ rest \in SUBSET Items
    BY <1>1
  <2>2. IsFiniteSet(all)
    BY <1>1, FS_Subset DEF Scored
  <2> QED BY <2>1, <2>2, FS_Subset, PartScored
<1>5. Cardinality(mine) \in Nat /\ Cardinality(rest) \in Nat
      /\ Cardinality(all) = Cardinality(mine) + Cardinality(rest)
  <2>1. Cardinality(mine) \in Nat /\ Cardinality(rest) \in Nat
    BY <1>4, FS_CardinalityType
  <2>2. Cardinality(mine \cup rest) = Cardinality(mine) + Cardinality(rest) - Cardinality({})
    BY <1>1, <1>4, FS_Union
  <2> QED BY <1>1, <2>1, <2>2, FS_EmptySet
<1>6. CASE Cardinality(mine) >= floor
  <2>1. T = S
    BY <1>2, <1>6
  <2>2. Meets(S, c, floor, sources)
    BY <1>5, <1>6 DEF Meets, Smaller, mine, all
  <2> QED BY <2>1, <2>2 DEF T
<1>7. CASE ~(Cardinality(mine) >= floor)
  <2>1. T = S \cup more /\ floor - Cardinality(mine) \in Nat
    BY <1>2, <1>5, <1>7
  <2>2. more \in SUBSET rest /\ Cardinality(more) = Smaller(floor - Cardinality(mine), Cardinality(rest))
    BY <1>4, <2>1, BestIs DEF more
  <2>3. From(T, c, sources) = mine \cup more
    BY <1>3, <2>1, <2>2
  <2>4. IsFiniteSet(more) /\ mine \cap more = {}
    BY <1>1, <1>4, <2>2, FS_Subset
  <2>5. Cardinality(mine \cup more) = Cardinality(mine) + Cardinality(more) - Cardinality({})
    BY <1>4, <2>4, FS_Union
  <2>6. Cardinality(From(T, c, sources)) = Cardinality(mine) + Cardinality(more)
    <3>1. Cardinality(more) \in Nat
      BY <2>4, FS_CardinalityType
    <3> QED BY <1>5, <2>3, <2>5, <3>1, FS_EmptySet
  <2>7. Meets(T, c, floor, sources)
    BY <1>5, <2>2, <2>6 DEF Meets, Smaller, all
  <2>8. S \subseteq T /\ T \in SUBSET Items
    BY <1>3, <2>1, <2>2
  <2> QED BY <2>7, <2>8 DEF T
<1> QED BY <1>6, <1>7

\* f is what is selected after each company has had its turn.
CoverageLoop(f, chosen, companies, floor, sources, n) ==
  f = [i \in 0..n |->
         IF i = 0 THEN chosen ELSE Covered(f[i - 1], companies[i], floor, sources)]

\* The loop over the companies is a function.
LEMMA CoverageExists ==
  ASSUME NEW chosen, NEW companies, NEW floor, NEW sources, NEW n \in Nat
  PROVE  \E f : CoverageLoop(f, chosen, companies, floor, sources, n)
<1> DEFINE Runs(f, m) == CoverageLoop(f, chosen, companies, floor, sources, m)
           G == {m \in 0..n : \E f : Runs(f, m)}
<1>1. 0 \in G
  <2>1. Runs([i \in 0..0 |-> chosen], 0)
    BY DEF CoverageLoop
  <2> HIDE DEF Runs
  <2> QED BY <2>1
<1>2. ASSUME NEW m \in 1..n, m - 1 \in G
      PROVE  m \in G
  <2>1. PICK f : Runs(f, m - 1)
    BY <1>2
  <2> DEFINE g == [i \in 0..m |-> IF i = m THEN Covered(f[m - 1], companies[m], floor, sources) ELSE f[i]]
  <2>2. ASSUME NEW i \in 0..m
        PROVE  g[i] = IF i = 0 THEN chosen ELSE Covered(g[i - 1], companies[i], floor, sources)
    <3>1. CASE i = m
      <4>1. g[i - 1] = f[m - 1]
        BY <3>1
      <4> QED BY <3>1, <4>1
    <3>2. CASE i # m
      <4>1. i \in 0..(m - 1) /\ g[i] = f[i] /\ (i # 0 => g[i - 1] = f[i - 1])
        BY <3>2
      <4> QED BY <2>1, <4>1 DEF CoverageLoop
    <3> QED BY <3>1, <3>2
  <2>3. Runs(g, m)
    BY <2>2 DEF CoverageLoop
  <2> HIDE DEF Runs, g
  <2> QED BY <2>3
<1>3. 0..n \subseteq G
  <2> HIDE DEF G
  <2> QED BY <1>1, <1>2, EveryTurn
<1> QED BY <1>3

\* The loop keeps what was chosen and meets the floor of every company, each
\* in its turn, and none is lost in the turns after.
LEMMA BackfilledMeets ==
  ASSUME Scored(Items), NEW chosen \in SUBSET Items, NEW companies, Len(companies) \in Nat,
         NEW floor \in Nat, NEW sources
  PROVE  /\ chosen \subseteq Backfilled(chosen, companies, floor, sources)
         /\ Backfilled(chosen, companies, floor, sources) \in SUBSET Items
         /\ \A j \in 1..Len(companies) :
              Meets(Backfilled(chosen, companies, floor, sources), companies[j], floor, sources)
<1> DEFINE n == Len(companies)
           after[i \in 0..n] ==
             IF i = 0 THEN chosen ELSE Covered(after[i - 1], companies[i], floor, sources)
           Good(i, S) == /\ chosen \subseteq S
                         /\ S \in SUBSET Items
                         /\ \A j \in 1..i : Meets(S, companies[j], floor, sources)
           K == {i \in 0..n : Good(i, after[i])}
<1>1. after = [i \in 0..n |->
                 IF i = 0 THEN chosen ELSE Covered(after[i - 1], companies[i], floor, sources)]
  <2>1. n \in Nat
    OBVIOUS
  <2>2. PICK f : CoverageLoop(f, chosen, companies, floor, sources, n)
    <3> HIDE DEF n
    <3> QED BY <2>1, CoverageExists
  <2>3. \E g : g = [i \in 0..n |->
                 IF i = 0 THEN chosen ELSE Covered(g[i - 1], companies[i], floor, sources)]
    BY <2>2, Zenon DEF CoverageLoop
  <2> QED BY <2>3, Zenon
<1>2. Backfilled(chosen, companies, floor, sources) = after[n]
  BY DEF Backfilled
<1> HIDE DEF after
<1>3. 0 \in K
  BY <1>1
<1>4. ASSUME NEW i \in 1..n, i - 1 \in K
      PROVE  i \in K
  <2> DEFINE S == after[i - 1]
             T == Covered(S, companies[i], floor, sources)
  <2>1. after[i] = T
    BY <1>1
  <2>2. Good(i - 1, S)
    BY <1>4
  <2> HIDE DEF S
  <2>3. S \subseteq T /\ T \in SUBSET Items /\ Meets(T, companies[i], floor, sources)
    BY <2>2, CoveredMeets
  <2> HIDE DEF T
  <2>4. ASSUME NEW j \in 1..i
        PROVE  Meets(T, companies[j], floor, sources)
    <3>1. CASE j = i
      BY <2>3, <3>1
    <3>2. CASE j # i
      <4>1. j \in 1..(i - 1)
        BY <3>2
      <4>2. Meets(S, companies[j], floor, sources)
        BY <2>2, <4>1
      <4> QED BY <2>3, <4>2, MeetsGrows
    <3> QED BY <3>1, <3>2
  <2> QED BY <2>1, <2>2, <2>3, <2>4
<1>5. 0..n \subseteq K
  <2> HIDE DEF K
  <2> QED BY <1>3, <1>4, EveryTurn
<1>6. Good(n, after[n])
  BY <1>5
<1> QED BY <1>2, <1>6

\* Both floors are met, for every company, however the model chose.
LEMMA FlooredMeets ==
  ASSUME Scored(Items), NEW chosen \in SUBSET Items, NEW companies, Len(companies) \in Nat
  PROVE  /\ Floored(chosen, companies) \in SUBSET Items
         /\ \A j \in 1..Len(companies) :
              /\ Meets(Floored(chosen, companies), companies[j], MinEvidence, AllSources)
              /\ Meets(Floored(chosen, companies), companies[j], MinDocuments, {"vector"})
<1> DEFINE S == Backfilled(chosen, companies, MinEvidence, AllSources)
           T == Backfilled(S, companies, MinDocuments, {"vector"})
<1>1. MinEvidence \in Nat /\ MinDocuments \in Nat
  BY RankingAssumption
<1>2. /\ S \in SUBSET Items
      /\ \A j \in 1..Len(companies) : Meets(S, companies[j], MinEvidence, AllSources)
  BY <1>1, BackfilledMeets
<1> HIDE DEF S
<1>3. /\ S \subseteq T /\ T \in SUBSET Items
      /\ \A j \in 1..Len(companies) : Meets(T, companies[j], MinDocuments, {"vector"})
  BY <1>1, <1>2, BackfilledMeets
<1>4. Floored(chosen, companies) = T
  BY DEF Floored, S
<1> HIDE DEF T
<1>5. \A j \in 1..Len(companies) : Meets(T, companies[j], MinEvidence, AllSources)
  BY <1>1, <1>2, <1>3, MeetsGrows
<1> QED BY <1>3, <1>4, <1>5

-----------------------------------------------------------------------------
(* The evidence of a report. *)

\* What is attached in the end is what was selected, by MIXED alone, and what
\* was selected meets the floors.
EvidenceGiven ==
  \A i \in 1..Len(ranked) :
    /\ evidence[ranked[i]] = Attached(ranked[i], selected)
    /\ intent # "MIXED" => selected = {}
    /\ intent = "MIXED" =>
         /\ selected \in SUBSET Items
         /\ Meets(selected, ranked[i], MinEvidence, AllSources)
         /\ Meets(selected, ranked[i], MinDocuments, {"vector"})

\* The ranking is a list of companies in the table, at most TopLimit of them,
\* and there is none before the scorer; evidence is given in the end.
EvidenceInv ==
  /\ ranked \in Seq(DOMAIN Metrics) /\ Len(ranked) <= TopLimit
  /\ stage \in {"plan", "retrieve", "score", "failed"} => ranked = <<>>
  /\ stage # "done" => selected = {} /\ evidence = NoEvidence
  /\ stage = "rerank" => intent = "MIXED"
  /\ stage = "done" => EvidenceGiven

\* What is ranked is a company, and in the ranking.
LEMMA RankedInTable ==
  ASSUME NEW r \in Seq(DOMAIN Metrics), NEW i \in 1..Len(r)
  PROVE  r[i] \in Companies /\ r[i] \in Range(r)
<1>1. DOMAIN Metrics \subseteq Companies
  BY RankingAssumption
<1>2. r[i] \in DOMAIN Metrics
  OBVIOUS
<1>3. r[i] \in Range(r)
  BY DEF Range
<1> QED BY <1>1, <1>2, <1>3

\* The scorer ranks companies in the table.
LEMMA RankingIsList ==
  ASSUME NEW S, NEW companies \in Listed(S), NEW said, NEW r \in Rankings(companies, said)
  PROVE  r \in Seq(DOMAIN Metrics) /\ Len(r) <= TopLimit
<1>1. companies \in SUBSET DOMAIN Metrics
  BY DEF Listed, First
<1>2. IsFiniteSet(companies)
  BY <1>1, RankingAssumption, RetrievalAssumption, FS_Subset
<1>3. Cardinality(companies) \in Nat /\ TopLimit \in Nat
  BY <1>2, FS_CardinalityType, RankingAssumption
<1>4. Smaller(TopLimit, Cardinality(companies)) \in Nat
      /\ Smaller(TopLimit, Cardinality(companies)) <= TopLimit
  BY <1>3 DEF Smaller
<1>5. r \in [1..Smaller(TopLimit, Cardinality(companies)) -> DOMAIN Metrics]
  BY <1>1 DEF Rankings
<1> QED BY <1>4, <1>5

\* The scorer attaches everything retrieved, or leaves that to the reranker.
LEMMA ScoreAttaches ==
  ASSUME EvidenceInv, Score
  PROVE  EvidenceInv'
<1>1. ranked' \in Seq(DOMAIN Metrics) /\ Len(ranked') <= TopLimit
  <2>1. PICK S \in Candidates : \E companies \in Listed(S), said \in Opinions :
               ranked' \in Rankings(companies, said)
    BY DEF Score
  <2> QED BY <2>1, RankingIsList
<1>2. selected' = {} /\ UNCHANGED intent
  BY DEF Score, EvidenceInv
<1>3. CASE intent = "MIXED"
  <2>1. stage' = "rerank" /\ UNCHANGED evidence /\ evidence = NoEvidence
    BY <1>3 DEF Score, EvidenceInv
  <2> QED BY <1>1, <1>2, <1>3, <2>1 DEF EvidenceInv
<1>4. CASE intent # "MIXED"
  <2>1. stage' = "done"
        /\ evidence' = [c \in Companies |-> IF c \in Range(ranked') THEN Attached(c, {}) ELSE {}]
    BY <1>4 DEF Score
  <2>2. Items' = Items
    BY DEF Score, Items, SqlItems, VectorItems, MarketItems, SqlRows
  <2>3. ASSUME NEW i \in 1..Len(ranked')
        PROVE  (evidence[ranked[i]] = Attached(ranked[i], selected))'
    <3>1. ranked'[i] \in Companies /\ ranked'[i] \in Range(ranked')
      BY <1>1, RankedInTable
    <3>2. evidence'[ranked'[i]] = {Item("metrics", ranked'[i], {ranked'[i]}, 0)} \cup Matching(Items, ranked'[i])
      BY <2>1, <3>1 DEF Attached, Matching
    <3> QED BY <1>2, <2>2, <3>2 DEF Attached, Matching
  <2> QED BY <1>1, <1>2, <1>4, <2>1, <2>3 DEF EvidenceInv, EvidenceGiven
<1> QED BY <1>3, <1>4

\* What the reranker selects is some of the items, and meets the floors.
LEMMA RerankSelects ==
  ASSUME EvidenceInv, FoundInv, Rerank
  PROVE  /\ selected' \in SUBSET Items
         /\ \A j \in 1..Len(ranked) :
              /\ Meets(selected', ranked[j], MinEvidence, AllSources)
              /\ Meets(selected', ranked[j], MinDocuments, {"vector"})
<1>1. PICK chosen \in Picks : selected' = Floored(chosen, ranked)
  BY DEF Rerank
<1>2. Scored(Items)
  BY ItemsScored
<1>3. Len(ranked) \in Nat
  BY DEF EvidenceInv
<1>4. chosen \in SUBSET Items
  <2>1. TopK \in Nat
    <3>1. TopKFloor \in Nat /\ EvidencePerCompany \in Nat
      BY RankingAssumption
    <3>2. EvidencePerCompany * Len(ranked) \in Nat
      BY <1>3, <3>1
    <3> QED BY <3>1, <3>2 DEF TopK, Larger
  <2> QED BY <1>2, <2>1, BestIs DEF Picks
<1> QED BY <1>1, <1>2, <1>3, <1>4, FlooredMeets

\* That is what it attaches.
LEMMA RerankAttaches ==
  ASSUME EvidenceInv, FoundInv, Rerank
  PROVE  EvidenceInv'
<1>1. /\ selected' \in SUBSET Items
      /\ \A j \in 1..Len(ranked) :
           /\ Meets(selected', ranked[j], MinEvidence, AllSources)
           /\ Meets(selected', ranked[j], MinDocuments, {"vector"})
  BY RerankSelects
<1>2. UNCHANGED <<ranked, intent>> /\ stage' = "done" /\ intent = "MIXED"
  BY DEF Rerank, EvidenceInv
<1>3. Items' = Items
  BY DEF Rerank, Items, SqlItems, VectorItems, MarketItems, SqlRows
<1>4. ASSUME NEW i \in 1..Len(ranked)
      PROVE  /\ evidence'[ranked[i]] = Attached(ranked[i], selected)'
             /\ Meets(selected, ranked[i], MinEvidence, AllSources)'
             /\ Meets(selected, ranked[i], MinDocuments, {"vector"})'
  <2>1. ranked[i] \in Companies /\ ranked[i] \in Range(ranked)
    BY RankedInTable DEF EvidenceInv
  <2>2. evidence'[ranked[i]] = Attached(ranked[i], selected')
    BY <2>1 DEF Rerank
  <2>3. Attached(ranked[i], selected)' = Attached(ranked[i], selected')
    BY <1>2, <1>3 DEF Attached
  <2> QED BY <1>1, <1>2, <1>3, <2>2, <2>3 DEF Meets, From, Matching
<1> QED BY <1>1, <1>2, <1>3, <1>4 DEF EvidenceInv, EvidenceGiven

\* Nothing else touches ranking, selection or evidence.
LEMMA EvidenceNext ==
  ASSUME EvidenceInv, FoundInv, [Next]_vars
  PROVE  EvidenceInv'
<1>1. CASE Retrieving /\ UNCHANGED rankingVars
  <2>1. stage \in {"plan", "retrieve"} /\ stage' \in {"plan", "retrieve", "failed"}
    BY <1>1 DEF Retrieving, Plan, SqlWorks, VectorAnswers, MarketRuns, MarketGivesUp, Tick, LoopIsHeld, Serving,
            TimersFire, OverallTimerFires, retrievalVars
  <2>2. ranked' = ranked /\ selected' = selected /\ evidence' = evidence
    BY <1>1 DEF rankingVars
  <2>3. /\ ranked' = <<>> /\ selected' = {} /\ evidence' = NoEvidence
        /\ ranked' \in Seq(DOMAIN Metrics) /\ Len(ranked') <= TopLimit
    BY <2>1, <2>2 DEF EvidenceInv, EvidenceGiven
  <2>4. stage' # "done" /\ stage' # "rerank"
    BY <2>1
  <2> QED BY <2>3, <2>4 DEF EvidenceInv
<1>2. CASE FanIn
  BY <1>2 DEF FanIn, Serving, EvidenceInv
<1>3. CASE UNCHANGED vars
  <2>1. UNCHANGED <<stage, ranked, selected, intent, evidence, vector, market, sqlResult>>
    BY <1>3 DEF vars, retrievalVars, rankingVars
  <2>2. Items' = Items
    BY <2>1 DEF Items, SqlItems, VectorItems, MarketItems, SqlRows
  <2>3. ASSUME EvidenceGiven, NEW i \in 1..Len(ranked)
        PROVE  /\ (evidence[ranked[i]] = Attached(ranked[i], selected))'
               /\ Meets(selected, ranked[i], MinEvidence, AllSources)
                     => Meets(selected, ranked[i], MinEvidence, AllSources)'
               /\ Meets(selected, ranked[i], MinDocuments, {"vector"})
                     => Meets(selected, ranked[i], MinDocuments, {"vector"})'
    <3>1. (evidence[ranked[i]] = Attached(ranked[i], selected))'
      <4>1. evidence[ranked[i]] = Attached(ranked[i], selected)
        BY <2>3 DEF EvidenceGiven
      <4>2. Attached(ranked[i], selected)' = Attached(ranked[i], selected)
        BY <2>1, <2>2 DEF Attached, Matching
      <4> QED BY <2>1, <4>1, <4>2
    <3>2. Meets(selected, ranked[i], MinEvidence, AllSources)
            => Meets(selected, ranked[i], MinEvidence, AllSources)'
      BY <2>1, <2>2 DEF Meets, From, Matching
    <3>3. Meets(selected, ranked[i], MinDocuments, {"vector"})
            => Meets(selected, ranked[i], MinDocuments, {"vector"})'
      BY <2>1, <2>2 DEF Meets, From, Matching
    <3> QED BY <3>1, <3>2, <3>3
  <2>4. EvidenceGiven => EvidenceGiven'
    BY <2>1, <2>2, <2>3 DEF EvidenceGiven
  <2> QED BY <2>1, <2>4 DEF EvidenceInv
<1> QED BY <1>1, <1>2, <1>3, ScoreAttaches, RerankAttaches DEF Next, Done

\* At the start nobody is ranked.
LEMMA EvidenceInit == Init => EvidenceInv
BY RankingAssumption DEF Init, RetrievalInit, EvidenceInv

\* However the model spends its selection, each company reported keeps its floor
\* of items, and a document when one was retrieved about it.
THEOREM EvidenceReaches == Spec => []EvidenceReachesEveryCompany
<1>1. ASSUME EvidenceInv, FoundInv
      PROVE  EvidenceReachesEveryCompany
  <2> DEFINE kept(c) == evidence[c] \ {Item("metrics", c, {c}, 0)}
             OfDocuments(S) == {x \in S : x.source = "vector"}
  <2>1. SUFFICES ASSUME stage = "done", NEW c \in Range(ranked)
                 PROVE  /\ Cardinality(kept(c)) >= Smaller(MinEvidence, Cardinality(Matching(Items, c)))
                        /\ Cardinality(OfDocuments(kept(c)))
                             >= Smaller(MinDocuments, Cardinality(OfDocuments(Matching(Items, c))))
    BY DEF EvidenceReachesEveryCompany, Reported
  <2>2. PICK i \in 1..Len(ranked) : c = ranked[i]
    BY <1>1 DEF EvidenceInv, Range
  <2>3. evidence[c] = Attached(c, selected) /\ selected \in SUBSET Items
    BY <1>1, <2>1, <2>2 DEF EvidenceInv, EvidenceGiven
  <2>4. Scored(Items) /\ \A x \in Items : x.source \in AllSources /\ x # Item("metrics", c, {c}, 0)
    <3>1. "metrics" \notin AllSources /\ Item("metrics", c, {c}, 0).source = "metrics"
      BY DEF AllSources, Item
    <3> QED BY <1>1, <3>1, ItemsScored
  <2>5. kept(c) = IF Matching(selected, c) # {} THEN Matching(selected, c) ELSE Matching(Items, c)
    BY <2>3, <2>4 DEF Attached, Matching
  <2>6. \A S \in SUBSET Items :
          /\ From(S, c, AllSources) = Matching(S, c)
          /\ From(S, c, {"vector"}) = OfDocuments(Matching(S, c))
    BY <2>4 DEF From, Matching
  <2>7. CASE Matching(selected, c) # {}
    <3>1. selected # {} /\ intent = "MIXED"
      BY <1>1, <2>1, <2>2, <2>7 DEF EvidenceInv, EvidenceGiven, Matching
    <3>2. Meets(selected, c, MinEvidence, AllSources) /\ Meets(selected, c, MinDocuments, {"vector"})
      BY <1>1, <2>1, <2>2, <3>1 DEF EvidenceInv, EvidenceGiven
    <3>3. kept(c) = Matching(selected, c)
      BY <2>5, <2>7
    <3> HIDE DEF kept, OfDocuments
    <3> QED BY <2>3, <2>6, <3>2, <3>3 DEF Meets
  <2>8. CASE Matching(selected, c) = {}
    <3>1. kept(c) = Matching(Items, c)
      BY <2>5, <2>8
    <3>2. IsFiniteSet(Matching(Items, c)) /\ IsFiniteSet(OfDocuments(Matching(Items, c)))
      <4>1. Matching(Items, c) \in SUBSET Items /\ OfDocuments(Matching(Items, c)) \in SUBSET Items
        BY DEF Matching
      <4> HIDE DEF OfDocuments
      <4> QED BY <2>4, <4>1, FS_Subset DEF Scored
    <3> HIDE DEF kept, OfDocuments
    <3>3. Cardinality(Matching(Items, c)) \in Nat /\ Cardinality(OfDocuments(Matching(Items, c))) \in Nat
      BY <3>2, FS_CardinalityType
    <3>4. MinEvidence \in Nat /\ MinDocuments \in Nat
      BY RankingAssumption
    <3> QED BY <3>1, <3>3, <3>4 DEF Smaller
  <2> QED BY <2>7, <2>8
<1> QED BY <1>1, NamedInit, NamedNext, FoundInit, FoundNext, EvidenceInit, EvidenceNext, PTL DEF Spec

-----------------------------------------------------------------------------
(* Sums. *)

One(S) == CHOOSE x \in S : TRUE

\* What holds of the empty set, and of a set if it does of the set without the
\* member picked first, holds of a finite set.
LEMMA EveryPick ==
  ASSUME NEW S, IsFiniteSet(S), NEW G, {} \in G,
         \A T \in SUBSET S : T # {} /\ T \ {One(T)} \in G => T \in G
  PROVE  S \in G
<1> DEFINE n == Cardinality(S)
           K == {k \in 0..n : \A T \in SUBSET S : Cardinality(T) = k => T \in G}
<1>1. n \in Nat
  BY FS_CardinalityType
<1>2. \A T \in SUBSET S : IsFiniteSet(T) /\ Cardinality(T) \in Nat
  BY FS_Subset, FS_CardinalityType
<1>3. 0 \in K
  <2>1. \A T \in SUBSET S : Cardinality(T) = 0 => T = {}
    BY <1>2, FS_EmptySet
  <2> HIDE DEF n
  <2> QED BY <1>1, <2>1
<1>4. ASSUME NEW k \in 1..n, k - 1 \in K
      PROVE  k \in K
  <2>1. SUFFICES ASSUME NEW T \in SUBSET S, Cardinality(T) = k
                 PROVE  T \in G
    OBVIOUS
  <2>2. T # {} /\ One(T) \in T
    <3>1. k # 0
      BY <1>1
    <3>2. T # {}
      BY <2>1, <3>1, FS_EmptySet
    <3> QED BY <3>2 DEF One
  <2>3. Cardinality(T \ {One(T)}) = k - 1
    BY <1>2, <2>1, <2>2, FS_RemoveElement
  <2>4. T \ {One(T)} \in G
    BY <1>4, <2>3
  <2> QED BY <2>2, <2>4
<1>5. 0..n \subseteq K
  <2> HIDE DEF n, K
  <2> QED BY <1>1, <1>3, <1>4, EveryTurn
<1>6. n \in K
  <2> HIDE DEF n, K
  <2> QED BY <1>1, <1>5
<1> QED BY <1>6

\* f adds up g, member by member, over each part of S in D.
SumLoop(f, g, D) ==
  f = [T \in D |-> IF T = {} THEN 0 ELSE LET x == CHOOSE x \in T : TRUE IN g[x] + f[T \ {x}]]

\* The library's sum over a finite set is a function.
LEMMA SumsExist ==
  ASSUME NEW g, NEW S, IsFiniteSet(S)
  PROVE  \E f : SumLoop(f, g, SUBSET S)
<1> DEFINE n == Cardinality(S)
           D(k) == {T \in SUBSET S : Cardinality(T) <= k}
           K == {k \in 0..n : \E f : SumLoop(f, g, D(k))}
<1>1. \A T \in SUBSET S : IsFiniteSet(T) /\ Cardinality(T) \in Nat /\ Cardinality(T) <= n /\ n \in Nat
  BY FS_Subset, FS_CardinalityType
<1>2. \A T \in SUBSET S : Cardinality(T) = 0 <=> T = {}
  BY <1>1, FS_EmptySet
<1>3. 0 \in K
  <2>1. \A T \in D(0) : T = {}
    BY <1>1, <1>2
  <2>2. SumLoop([T \in D(0) |-> 0], g, D(0))
    BY <2>1 DEF SumLoop
  <2>3. n \in Nat
    BY FS_CardinalityType
  <2> HIDE DEF D, n
  <2> QED BY <2>2, <2>3
<1>4. ASSUME NEW k \in 1..n, k - 1 \in K
      PROVE  k \in K
  <2>1. PICK f : SumLoop(f, g, D(k - 1))
    BY <1>4
  <2> DEFINE new(T) == IF T = {} THEN 0 ELSE LET x == CHOOSE x \in T : TRUE IN g[x] + f[T \ {x}]
             h == [T \in D(k) |-> IF Cardinality(T) = k THEN new(T) ELSE f[T]]
  <2>2. ASSUME NEW T \in D(k)
        PROVE  h[T] = IF T = {} THEN 0 ELSE LET x == CHOOSE x \in T : TRUE IN g[x] + h[T \ {x}]
    <3> DEFINE x == CHOOSE x \in T : TRUE
    <3>1. T # {} => T \ {x} \in D(k - 1) /\ T \ {x} \in D(k) /\ Cardinality(T \ {x}) # k
      <4>1. SUFFICES ASSUME T # {}
                     PROVE  T \ {x} \in D(k - 1) /\ T \ {x} \in D(k) /\ Cardinality(T \ {x}) # k
        OBVIOUS
      <4>2. x \in T
        BY <4>1
      <4> HIDE DEF x
      <4>3. Cardinality(T \ {x}) = Cardinality(T) - 1
        BY <1>1, <4>2, FS_RemoveElement
      <4> HIDE DEF n
      <4> QED BY <1>1, <4>3
    <3>2. T # {} => h[T \ {x}] = f[T \ {x}]
      BY <3>1
    <3>3. h[T] = new(T)
      <4>1. CASE Cardinality(T) = k
        BY <4>1
      <4>2. CASE Cardinality(T) # k
        <5>1. T \in D(k - 1) /\ h[T] = f[T]
          <6> HIDE DEF n
          <6> QED BY <1>1, <4>2
        <5>2. f[T] = new(T)
          BY <2>1, <5>1 DEF SumLoop
        <5> QED BY <5>1, <5>2
      <4> QED BY <4>1, <4>2
    <3> HIDE DEF h
    <3> QED BY <3>2, <3>3
  <2>3. SumLoop(h, g, D(k))
    <3> HIDE DEF D
    <3> QED BY <2>2 DEF SumLoop
  <2> HIDE DEF D, h
  <2> QED BY <2>3
<1>5. 0..n \subseteq K
  <2>1. n \in Nat
    BY FS_CardinalityType
  <2> HIDE DEF K, n
  <2> QED BY <1>3, <1>4, <2>1, EveryTurn
<1>6. PICK f : SumLoop(f, g, D(n))
  <2>1. n \in Nat
    BY FS_CardinalityType
  <2> HIDE DEF D, n
  <2> QED BY <1>5, <2>1
<1>7. D(n) = SUBSET S
  BY <1>1
<1> QED BY <1>6, <1>7

\* It is what SumFunctionOnSet adds up.
LEMMA SumIsLoop ==
  ASSUME NEW g, NEW S, IsFiniteSet(S)
  PROVE  \E f : SumLoop(f, g, SUBSET S) /\ SumFunctionOnSet(g, S) = f[S]
<1> DEFINE iter[T \in SUBSET S] ==
             IF T = {} THEN 0 ELSE LET x == CHOOSE x \in T : TRUE IN g[x] + iter[T \ {x}]
<1>1. SumFunctionOnSet(g, S) = iter[S]
  BY DEF SumFunctionOnSet, FoldFunctionOnSet, MapThenFoldSet
<1>2. PICK f : SumLoop(f, g, SUBSET S)
  BY SumsExist
<1>3. \E h : h = [T \in SUBSET S |->
                    IF T = {} THEN 0 ELSE LET x == CHOOSE x \in T : TRUE IN g[x] + h[T \ {x}]]
  BY <1>2, Zenon DEF SumLoop
<1>4. SumLoop(iter, g, SUBSET S)
  BY <1>3, Zenon DEF SumLoop
<1> QED BY <1>1, <1>4, Zenon

\* Nothing adds up to nothing.
LEMMA SumOfNone == ASSUME NEW g PROVE SumFunctionOnSet(g, {}) = 0
<1>1. PICK f : SumLoop(f, g, SUBSET {}) /\ SumFunctionOnSet(g, {}) = f[{}]
  BY FS_EmptySet, SumIsLoop
<1>2. f = [T \in SUBSET {} |-> IF T = {} THEN 0 ELSE LET x == CHOOSE x \in T : TRUE IN g[x] + f[T \ {x}]]
  BY <1>1 DEF SumLoop
<1>3. {} \in SUBSET {}
  OBVIOUS
<1>4. f[{}] = 0
  BY <1>2, <1>3
<1> QED BY <1>1, <1>4

\* The loops over two sets agree on the parts of both.
LEMMA LoopsAgree ==
  ASSUME NEW g, NEW S, NEW T \in SUBSET S, NEW f, NEW h,
         IsFiniteSet(T), SumLoop(f, g, SUBSET S), SumLoop(h, g, SUBSET T)
  PROVE  f[T] = h[T]
<1> DEFINE G == {A \in SUBSET T : f[A] = h[A]}
<1>1. \A A \in SUBSET T :
        /\ f[A] = IF A = {} THEN 0 ELSE g[One(A)] + f[A \ {One(A)}]
        /\ h[A] = IF A = {} THEN 0 ELSE g[One(A)] + h[A \ {One(A)}]
  BY DEF SumLoop, One
<1>2. {} \in G
  BY <1>1
<1>3. ASSUME NEW A \in SUBSET T, A # {}, A \ {One(A)} \in G
      PROVE  A \in G
  BY <1>1, <1>3
<1>4. T \in G
  <2> HIDE DEF G
  <2> QED BY <1>2, <1>3, EveryPick
<1> QED BY <1>4

\* A sum is what was picked first and the sum of the rest.
LEMMA SumOfPick ==
  ASSUME NEW g, NEW S, IsFiniteSet(S), S # {}
  PROVE  SumFunctionOnSet(g, S) = g[One(S)] + SumFunctionOnSet(g, S \ {One(S)})
<1> DEFINE R == S \ {One(S)}
<1>1. IsFiniteSet(R) /\ R \in SUBSET S
  BY FS_Subset
<1>2. PICK f : SumLoop(f, g, SUBSET S) /\ SumFunctionOnSet(g, S) = f[S]
  BY SumIsLoop
<1>3. PICK h : SumLoop(h, g, SUBSET R) /\ SumFunctionOnSet(g, R) = h[R]
  <2> HIDE DEF R
  <2> QED BY <1>1, SumIsLoop
<1>4. f[R] = h[R]
  <2> HIDE DEF R
  <2>1. SumLoop(f, g, SUBSET S) /\ SumLoop(h, g, SUBSET R)
    BY <1>2, <1>3
  <2> QED BY <1>1, <2>1, LoopsAgree
<1>5. f[S] = g[One(S)] + f[S \ {One(S)}]
  BY <1>2 DEF SumLoop, One
<1> QED BY <1>2, <1>3, <1>4, <1>5

\* Integers add up to an integer, naturals to a natural.
LEMMA SumType ==
  ASSUME NEW g, NEW S, IsFiniteSet(S), \A x \in S : g[x] \in Int
  PROVE  /\ SumFunctionOnSet(g, S) \in Int
         /\ (\A x \in S : g[x] >= 0) => SumFunctionOnSet(g, S) >= 0
<1> DEFINE Right(T) == /\ SumFunctionOnSet(g, T) \in Int
                       /\ (\A x \in T : g[x] >= 0) => SumFunctionOnSet(g, T) >= 0
           G == {T \in SUBSET S : Right(T)}
<1>1. {} \in G
  BY SumOfNone
<1>2. ASSUME NEW T \in SUBSET S, T # {}, T \ {One(T)} \in G
      PROVE  T \in G
  <2>1. One(T) \in T
    BY <1>2 DEF One
  <2>2. SumFunctionOnSet(g, T) = g[One(T)] + SumFunctionOnSet(g, T \ {One(T)})
    BY <1>2, FS_Subset, SumOfPick
  <2> QED BY <1>2, <2>1, <2>2
<1>3. S \in G
  <2> HIDE DEF G
  <2> QED BY <1>1, <1>2, EveryPick
<1> QED BY <1>3

\* A sum of naturals is positive when one of them is.
LEMMA SumPositive ==
  ASSUME NEW g, NEW S, IsFiniteSet(S), \A x \in S : g[x] \in Nat, NEW d \in S, g[d] > 0
  PROVE  SumFunctionOnSet(g, S) > 0
<1> DEFINE G == {T \in SUBSET S : d \in T => SumFunctionOnSet(g, T) > 0}
<1>1. {} \in G
  OBVIOUS
<1>2. ASSUME NEW T \in SUBSET S, T # {}, T \ {One(T)} \in G
      PROVE  T \in G
  <2> DEFINE R == T \ {One(T)}
  <2>1. One(T) \in T
    BY <1>2 DEF One
  <2>2. SumFunctionOnSet(g, T) = g[One(T)] + SumFunctionOnSet(g, R)
    BY <1>2, FS_Subset, SumOfPick
  <2>3. IsFiniteSet(R) /\ R \subseteq S
    BY FS_Subset
  <2> HIDE DEF R
  <2>4. SumFunctionOnSet(g, R) \in Int /\ SumFunctionOnSet(g, R) >= 0
    BY <2>3, SumType
  <2>5. d \in T => d = One(T) \/ SumFunctionOnSet(g, R) > 0
    BY <1>2 DEF R
  <2> QED BY <2>1, <2>2, <2>4, <2>5
<1>3. S \in G
  <2> HIDE DEF G
  <2> QED BY <1>1, <1>2, EveryPick
<1> QED BY <1>3

\* Naturals do not add up to more than the bound of each, times their number.
LEMMA SumBounded ==
  ASSUME NEW g, NEW S, IsFiniteSet(S), NEW b \in Nat, \A x \in S : g[x] \in 0..b
  PROVE  SumFunctionOnSet(g, S) <= b * Cardinality(S)
<1> DEFINE G == {T \in SUBSET S : SumFunctionOnSet(g, T) <= b * Cardinality(T)}
<1>1. {} \in G
  BY SumOfNone, FS_EmptySet
<1>2. ASSUME NEW T \in SUBSET S, T # {}, T \ {One(T)} \in G
      PROVE  T \in G
  <2> DEFINE R == T \ {One(T)}
  <2>1. One(T) \in T /\ IsFiniteSet(T)
    BY <1>2, FS_Subset DEF One
  <2>2. SumFunctionOnSet(g, T) = g[One(T)] + SumFunctionOnSet(g, R)
    BY <1>2, <2>1, SumOfPick
  <2>3. IsFiniteSet(R) /\ R \subseteq S /\ Cardinality(R) = Cardinality(T) - 1
    BY <2>1, FS_Subset, FS_RemoveElement
  <2>4. SumFunctionOnSet(g, R) <= b * Cardinality(R)
    BY <1>2
  <2> HIDE DEF R
  <2>5. SumFunctionOnSet(g, R) \in Int /\ Cardinality(T) \in Nat
    BY <2>1, <2>3, SumType, FS_CardinalityType
  <2>6. b * (Cardinality(T) - 1) = b * Cardinality(T) - b
    BY <2>5
  <2>7. g[One(T)] \in 0..b /\ b * Cardinality(T) \in Nat
    BY <2>1, <2>5
  <2> QED BY <2>2, <2>3, <2>4, <2>5, <2>6, <2>7
<1>3. S \in G
  <2> HIDE DEF G
  <2> QED BY <1>1, <1>2, EveryPick
<1> QED BY <1>3

-----------------------------------------------------------------------------
(* The weighted mean. *)

\* A quotient, its divisor and what is left over.
LEMMA Quotient ==
  ASSUME NEW a \in Int, NEW b \in Nat \ {0}
  PROVE  /\ a \div b \in Int
         /\ (a \div b) * b <= a
         /\ a < (a \div b) * b + b
OBVIOUS

\* What is rounded stays between the bounds it had.
LEMMA RoundedBetween ==
  ASSUME NEW a \in Int, NEW b \in Nat \ {0}, NEW low \in Int, NEW high \in Int,
         low * b <= a, a <= high * b
  PROVE  Rounded(a, b) \in low..high
<1> DEFINE q == (2 * a + b) \div (2 * b)
<1>1. /\ q \in Int
      /\ q * (2 * b) <= 2 * a + b
      /\ 2 * a + b < q * (2 * b) + 2 * b
  <2>1. 2 * a + b \in Int /\ 2 * b \in Nat \ {0}
    OBVIOUS
  <2> QED BY <2>1, Quotient
<1> HIDE DEF q
<1>2. q * (2 * b) = 2 * (q * b) /\ q * b \in Int /\ low * b \in Int /\ high * b \in Int
  BY <1>1
<1>3. low <= q
  <2>1. SUFFICES ASSUME q <= low - 1
                 PROVE  FALSE
    BY <1>1
  <2>2. q * b <= (low - 1) * b
    BY <1>1, <2>1
  <2>3. (low - 1) * b = low * b - b
    OBVIOUS
  <2> QED BY <1>1, <1>2, <2>2, <2>3
<1>4. q <= high
  <2>1. SUFFICES ASSUME high + 1 <= q
                 PROVE  FALSE
    BY <1>1
  <2>2. (high + 1) * b <= q * b
    BY <1>1, <2>1
  <2>3. (high + 1) * b = high * b + b
    OBVIOUS
  <2> QED BY <1>1, <1>2, <2>2, <2>3
<1>5. Rounded(a, b) = q
  BY DEF Rounded, q
<1> QED BY <1>1, <1>3, <1>4, <1>5

\* It is an integer.
LEMMA RoundedType ==
  ASSUME NEW a \in Int, NEW b \in Nat \ {0}
  PROVE  Rounded(a, b) \in Int
<1>1. 2 * a + b \in Int /\ 2 * b \in Nat \ {0}
  OBVIOUS
<1> QED BY <1>1, Quotient DEF Rounded

\* Weights take a sum between the bounds of what they weigh.
LEMMA WeightedBetween ==
  ASSUME NEW v, NEW w, NEW p, NEW S, IsFiniteSet(S), NEW low \in Int, NEW high \in Int,
         \A x \in S : v[x] \in low..high /\ w[x] \in Nat /\ p[x] = v[x] * w[x]
  PROVE  /\ low * SumFunctionOnSet(w, S) <= SumFunctionOnSet(p, S)
         /\ SumFunctionOnSet(p, S) <= high * SumFunctionOnSet(w, S)
<1> DEFINE Mean(T) == /\ low * SumFunctionOnSet(w, T) <= SumFunctionOnSet(p, T)
                      /\ SumFunctionOnSet(p, T) <= high * SumFunctionOnSet(w, T)
           G == {T \in SUBSET S : Mean(T)}
<1>1. {} \in G
  <2>1. SumFunctionOnSet(w, {}) = 0 /\ SumFunctionOnSet(p, {}) = 0
    BY SumOfNone
  <2>2. Mean({})
    BY <2>1
  <2> HIDE DEF Mean
  <2> QED BY <2>2
<1>2. ASSUME NEW T \in SUBSET S, T # {}, T \ {One(T)} \in G
      PROVE  T \in G
  <2> DEFINE x == One(T)
             R == T \ {x}
             W == SumFunctionOnSet(w, R)
             P == SumFunctionOnSet(p, R)
  <2>1. x \in S /\ IsFiniteSet(T) /\ IsFiniteSet(R) /\ R \in SUBSET S
    BY <1>2, FS_Subset DEF One
  <2>2. SumFunctionOnSet(w, T) = w[x] + W /\ SumFunctionOnSet(p, T) = p[x] + P
    BY <1>2, <2>1, SumOfPick
  <2>3. low * W <= P /\ P <= high * W
    BY <1>2
  <2> HIDE DEF x, R
  <2>4. \A y \in R : w[y] \in Int /\ p[y] \in Int
    BY <2>1
  <2>5. W \in Int /\ P \in Int
    BY <2>1, <2>4, SumType
  <2> HIDE DEF W, P
  <2>6. v[x] \in low..high /\ w[x] \in Nat /\ p[x] = v[x] * w[x]
    BY <2>1
  <2>7. low * w[x] <= v[x] * w[x] /\ v[x] * w[x] <= high * w[x]
    <3> DEFINE vx == v[x]
               wx == w[x]
    <3>1. vx \in low..high /\ wx \in Nat
      BY <2>6
    <3> HIDE DEF vx, wx
    <3>2. low * wx <= vx * wx /\ vx * wx <= high * wx
      BY <3>1
    <3> QED BY <3>2 DEF vx, wx
  <2>8. low * (w[x] + W) = low * w[x] + low * W /\ high * (w[x] + W) = high * w[x] + high * W
    BY <2>5, <2>6
  <2>9. low * w[x] \in Int /\ high * w[x] \in Int /\ v[x] * w[x] \in Int /\ low * W \in Int /\ high * W \in Int
    BY <2>5, <2>6
  <2>10. Mean(T)
    BY <2>2, <2>3, <2>5, <2>6, <2>7, <2>8, <2>9
  <2> HIDE DEF Mean
  <2> QED BY <2>10
<1>3. S \in G
  <2> HIDE DEF G
  <2> QED BY <1>1, <1>2, EveryPick
<1> QED BY <1>3

\* Finitely many numbers have a least and a greatest among them.
LEMMA BoundsExist ==
  ASSUME NEW S \in SUBSET Int, IsFiniteSet(S), S # {}
  PROVE  /\ Min(S) \in S /\ \A x \in S : Min(S) <= x
         /\ Max(S) \in S /\ \A x \in S : x <= Max(S)
<1> DEFINE Bounded(T) == /\ \E m \in T : \A x \in T : m <= x
                         /\ \E m \in T : \A x \in T : x <= m
           G == {T \in SUBSET S : T # {} => Bounded(T)}
<1>1. {} \in G
  OBVIOUS
<1>2. ASSUME NEW T \in SUBSET S, T # {}, T \ {One(T)} \in G
      PROVE  T \in G
  <2> DEFINE x == One(T)
             R == T \ {x}
  <2>1. x \in T /\ T = R \cup {x} /\ T \in SUBSET Int
    BY <1>2 DEF One
  <2>2. R # {} => Bounded(R)
    BY <1>2
  <2> HIDE DEF x, R
  <2>3. CASE R = {}
    BY <2>1, <2>3
  <2>4. CASE R # {}
    <3>1. PICK low \in R : \A y \in R : low <= y
      BY <2>2, <2>4
    <3>2. PICK high \in R : \A y \in R : y <= high
      BY <2>2, <2>4
    <3>3. \E m \in T : \A y \in T : m <= y
      <4>1. CASE low <= x
        BY <2>1, <3>1, <4>1
      <4>2. CASE ~(low <= x)
        <5>1. \A y \in T : x <= y
          BY <2>1, <3>1, <4>2
        <5> QED BY <2>1, <5>1
      <4> QED BY <4>1, <4>2
    <3>4. \E m \in T : \A y \in T : y <= m
      <4>1. CASE x <= high
        BY <2>1, <3>2, <4>1
      <4>2. CASE ~(x <= high)
        <5>1. \A y \in T : y <= x
          BY <2>1, <3>2, <4>2
        <5> QED BY <2>1, <5>1
      <4> QED BY <4>1, <4>2
    <3> QED BY <3>3, <3>4
  <2> QED BY <2>3, <2>4
<1>3. S \in G
  <2> HIDE DEF G
  <2> QED BY <1>1, <1>2, EveryPick
<1>4. (\E m \in S : \A x \in S : m <= x) /\ (\E m \in S : \A x \in S : m >= x)
  BY <1>3
<1> QED BY <1>4 DEF Min, Max

\* What is measured has a weight, and the score reported is the composite with
\* the model's opinion blended in.
Fair(row) ==
  /\ row.scores \in [Dimensions -> Int]
  /\ row.weights \in [Dimensions -> Nat]
  /\ \A d \in MeasuredIn(row.scores) : row.weights[d] > 0
  /\ row.llm \in Int
  /\ row.final = Blended(Composite(row.scores, row.weights), row.llm, BlendWeight)

\* What was measured of a company is a finite set of numbers.
LEMMA KnownScores ==
  ASSUME NEW row, Fair(row)
  PROVE  LET known == {row.scores[d] : d \in MeasuredIn(row.scores)}
         IN known \in SUBSET Int /\ IsFiniteSet(known)
<1> DEFINE M == MeasuredIn(row.scores)
           known == {row.scores[d] : d \in M}
           f == [d \in M |-> row.scores[d]]
<1>1. IsFiniteSet(Dimensions)
  <2>1. IsFiniteSet({}) /\ Dimensions = ((({} \cup {"valuation"}) \cup {"growth"}) \cup {"relevance"}) \cup {"sentiment"}
    BY FS_EmptySet DEF Dimensions
  <2> QED BY <2>1, FS_AddElement
<1>2. M \in SUBSET Dimensions
  BY DEF MeasuredIn
<1>3. IsFiniteSet(M)
  <2> HIDE DEF M
  <2> QED BY <1>1, <1>2, FS_Subset
<1>4. known \in SUBSET Int
  BY <1>2 DEF Fair
<1>5. f \in Surjection(M, known)
  BY DEF Surjection
<1> HIDE DEF M, known, f
<1>6. IsFiniteSet(known)
  BY <1>3, <1>5, FS_Surjection
<1> QED BY <1>4, <1>6 DEF known, M

\* The composite of a company is a mean of the scores it was measured with.
LEMMA CompositeBetween ==
  ASSUME NEW row, Fair(row), MeasuredIn(row.scores) # {}
  PROVE  LET known == {row.scores[d] : d \in MeasuredIn(row.scores)}
         IN Composite(row.scores, row.weights) \in Min(known) .. Max(known)
<1> DEFINE M == MeasuredIn(row.scores)
           known == {row.scores[d] : d \in M}
           low == Min(known)
           high == Max(known)
           p == [d \in Dimensions |-> row.scores[d] * row.weights[d]]
           W == SumFunctionOnSet(row.weights, M)
           P == SumFunctionOnSet(p, M)
<1>1. IsFiniteSet(M) /\ M \in SUBSET Dimensions
  <2>1. IsFiniteSet(Dimensions)
    <3>1. IsFiniteSet({}) /\ Dimensions = ((({} \cup {"valuation"}) \cup {"growth"}) \cup {"relevance"}) \cup {"sentiment"}
      BY FS_EmptySet DEF Dimensions
    <3> QED BY <3>1, FS_AddElement
  <2>2. M \in SUBSET Dimensions
    BY DEF MeasuredIn
  <2> HIDE DEF M
  <2> QED BY <2>1, <2>2, FS_Subset
<1>2. \A d \in M : row.scores[d] \in Int /\ row.weights[d] \in Nat /\ row.weights[d] > 0
  BY <1>1 DEF Fair
<1>3. \A d \in M : p[d] = row.scores[d] * row.weights[d]
  BY <1>1
<1>4. known \in SUBSET Int /\ IsFiniteSet(known) /\ known # {}
  BY KnownScores
<1>5. low \in Int /\ high \in Int /\ \A d \in M : row.scores[d] \in low..high
  <2> DEFINE K == known
  <2>1. K \in SUBSET Int /\ IsFiniteSet(K) /\ K # {}
    BY <1>4
  <2>2. \A d \in M : row.scores[d] \in K
    OBVIOUS
  <2>3. low = Min(K) /\ high = Max(K)
    OBVIOUS
  <2> HIDE DEF K, known, low, high, M
  <2>4. /\ Min(K) \in K /\ \A x \in K : Min(K) <= x
        /\ Max(K) \in K /\ \A x \in K : x <= Max(K)
    BY <2>1, BoundsExist
  <2>5. low \in K /\ high \in K /\ \A x \in K : low <= x /\ x <= high
    BY <2>3, <2>4
  <2>6. low \in Int /\ high \in Int
    BY <2>1, <2>5
  <2>7. \A x \in K : x \in low..high
    BY <2>1, <2>5, <2>6
  <2>8. ASSUME NEW d \in M
        PROVE  row.scores[d] \in low..high
    BY <2>2, <2>7
  <2> QED BY <2>6, <2>8
<1> HIDE DEF low, high, known, p, M
<1>6. W \in Nat /\ W # 0
  <2>1. PICK d \in M : row.weights[d] > 0
    BY <1>2 DEF M
  <2>2. W > 0
    BY <1>1, <1>2, <2>1, SumPositive
  <2>3. W \in Int
    BY <1>1, <1>2, SumType
  <2> QED BY <2>2, <2>3
<1>7. P \in Int
  <2>1. \A d \in M : p[d] \in Int
    BY <1>2, <1>3
  <2> QED BY <1>1, <2>1, SumType
<1>8. low * W <= P /\ P <= high * W
  <2> DEFINE v == row.scores
             w == row.weights
  <2>1. \A x \in M : v[x] \in low..high /\ w[x] \in Nat /\ p[x] = v[x] * w[x]
    BY <1>2, <1>3, <1>5
  <2> HIDE DEF v, w
  <2>2. /\ low * SumFunctionOnSet(w, M) <= SumFunctionOnSet(p, M)
        /\ SumFunctionOnSet(p, M) <= high * SumFunctionOnSet(w, M)
    BY <1>1, <1>5, <2>1, WeightedBetween
  <2> QED BY <2>2 DEF w
<1> HIDE DEF W, P
<1>9. Rounded(P, W) \in low..high
  BY <1>5, <1>6, <1>7, <1>8, RoundedBetween
<1>10. Composite(row.scores, row.weights) = Rounded(P, W)
  BY <1>6 DEF Composite, ActiveWeight, P, W, p, M
<1> QED BY <1>9, <1>10 DEF low, high, known, M

\* A blend in tenths stays between the bounds of what is blended.
LEMMA BlendBetween ==
  ASSUME NEW low \in Int, NEW high \in Int, NEW x \in low..high, NEW y \in low..high,
         NEW w \in 0..10
  PROVE  Rounded(x * (10 - w) + y * w, 10) \in low..high
<1>1. \A a, b \in Int, n \in Nat : a <= b => a * n <= b * n
  OBVIOUS
<1>2. 10 - w \in Nat /\ w \in Nat /\ x \in Int /\ y \in Int
  OBVIOUS
<1> DEFINE v == 10 - w
<1>3. v \in Nat /\ v + w = 10
  BY <1>2
<1> HIDE DEF v
<1>4. low * v <= x * v /\ x * v <= high * v /\ low * w <= y * w /\ y * w <= high * w
  BY <1>1, <1>2, <1>3
<1>5. low * v + low * w = low * 10 /\ high * v + high * w = high * 10
  BY <1>2, <1>3
<1>6. low * v \in Int /\ low * w \in Int /\ high * v \in Int /\ high * w \in Int
      /\ x * v \in Int /\ y * w \in Int
  BY <1>2, <1>3
<1>7. low * 10 <= x * v + y * w /\ x * v + y * w <= high * 10
  BY <1>4, <1>5, <1>6
<1>8. Rounded(x * v + y * w, 10) \in low..high
  BY <1>6, <1>7, RoundedBetween
<1> QED BY <1>8 DEF v

\* The score a company is reported with lies among what was measured of it and
\* what the model thinks of it.
LEMMA FinalBetween ==
  ASSUME NEW row, Fair(row), MeasuredIn(row.scores) # {}
  PROVE  LET voices == {row.scores[d] : d \in MeasuredIn(row.scores)} \cup ({row.llm} \ {Unmeasured})
         IN row.final \in Min(voices) .. Max(voices)
<1> DEFINE known == {row.scores[d] : d \in MeasuredIn(row.scores)}
           voices == known \cup ({row.llm} \ {Unmeasured})
           composite == Composite(row.scores, row.weights)
<1>1. known \in SUBSET Int /\ IsFiniteSet(known) /\ known # {}
  BY KnownScores
<1>2. composite \in Min(known) .. Max(known)
  BY CompositeBetween
<1>3. row.llm \in Int /\ row.final = Blended(composite, row.llm, BlendWeight) /\ BlendWeight \in 0..10
  BY RankingAssumption DEF Fair
<1> HIDE DEF known, composite
<1>4. IsFiniteSet({row.llm} \ {Unmeasured})
  <2>1. IsFiniteSet({row.llm})
    BY FS_Singleton
  <2> QED BY <2>1, FS_Subset
<1>5. voices \in SUBSET Int /\ IsFiniteSet(voices) /\ voices # {}
  BY <1>1, <1>3, <1>4, FS_Union
<1>6. known \subseteq voices /\ (row.llm # Unmeasured => row.llm \in voices)
  OBVIOUS
<1> HIDE DEF voices
<1>7. Min(known) \in known /\ Max(known) \in known
  BY <1>1, BoundsExist
<1>8. Min(voices) \in voices /\ Max(voices) \in voices /\ \A x \in voices : Min(voices) <= x /\ x <= Max(voices)
  BY <1>5, BoundsExist
<1> DEFINE low == Min(voices)
           high == Max(voices)
<1>9. low \in Int /\ high \in Int /\ \A x \in voices : low <= x /\ x <= high
  BY <1>5, <1>8
<1> HIDE DEF low, high
<1>10. composite \in low..high
  <2>1. Min(known) \in Int /\ Max(known) \in Int /\ low <= Min(known) /\ Max(known) <= high
    BY <1>1, <1>6, <1>7, <1>9
  <2> QED BY <1>2, <1>9, <2>1
<1>11. CASE row.llm = Unmeasured
  BY <1>3, <1>10, <1>11 DEF Blended, low, high, voices, known
<1>12. CASE row.llm # Unmeasured
  <2>1. row.llm \in low..high
    BY <1>3, <1>6, <1>9, <1>12
  <2>2. Rounded(composite * (10 - BlendWeight) + row.llm * BlendWeight, 10) \in low..high
    BY <1>3, <1>9, <1>10, <2>1, BlendBetween
  <2>3. row.final \in low..high
    BY <1>3, <1>12, <2>2 DEF Blended
  <2> QED BY <2>3 DEF low, high, voices, known
<1> QED BY <1>11, <1>12

-----------------------------------------------------------------------------
(* The scores of a company. *)

\* What a dimension scores is a whole number of thousandths.
LEMMA ScoresType ==
  ASSUME FoundInv, NEW c \in DOMAIN Metrics
  PROVE  Scores(c) \in [Dimensions -> Int]
<1>1. Metrics[c].pe \in Int /\ Metrics[c].growth \in Int /\ Metrics[c].eps \in Int /\ c \in Companies
  BY RankingAssumption
<1>2. \A x \in Int : Between(0, x, Whole) \in Int
  BY DEF Between, Whole
<1>3. PeScore(Metrics[c].pe) \in Int
  <2>1. Rounded(Whole * Metrics[c].pe, 200) \in Int
    BY <1>1, RoundedType DEF Whole
  <2> QED BY <1>2, <2>1 DEF PeScore, Whole
<1>4. PriceScore(PriceChange[c]) \in Int
  <2>1. PriceChange[c] \in Int
    BY <1>1, RankingAssumption
  <2>2. Rounded(Whole * (PriceChange[c] + 10), 20) \in Int
    BY <2>1, RoundedType DEF Whole
  <2> QED BY <1>2, <2>2 DEF PriceScore
<1>5. \A pe, price \in Int : PeScore(pe) \in Int => ValuationScore(pe, price) \in Int
  <2>1. SUFFICES ASSUME NEW pe \in Int, NEW price \in Int, PeScore(pe) \in Int
                 PROVE  ValuationScore(pe, price) \in Int
    OBVIOUS
  <2>2. 7 * PeScore(pe) + 3 * price \in Int
    BY <2>1
  <2> QED BY <2>2, RoundedType DEF ValuationScore
<1>6. GrowthScore(Metrics[c].growth, Metrics[c].eps) \in Int
  <2>1. 7 * Between(0, Metrics[c].growth, Whole) + 3 * (IF Metrics[c].eps > 0 THEN Whole ELSE 0) \in Int
    BY <1>1, <1>2 DEF Whole
  <2> QED BY <2>1, RoundedType DEF GrowthScore
<1>7. IsFiniteSet(About(c)) /\ About(c) \in SUBSET Chunks
  <2>1. vector.chunks \in SUBSET Chunks /\ About(c) \in SUBSET vector.chunks
    BY DEF FoundInv, About
  <2> QED BY <2>1, RetrievalAssumption, FS_Subset
<1>8. RelevanceScore(About(c), Similarity) \in Int
  <2>1. CASE About(c) = {}
    BY <2>1 DEF RelevanceScore, Unmeasured
  <2>2. CASE About(c) # {}
    <3>1. SumFunctionOnSet(Similarity, About(c)) \in Int
      BY <1>7, RankingAssumption, SumType
    <3>2. Cardinality(About(c)) \in Nat \ {0}
      BY <1>7, <2>2, FS_EmptySet, FS_CardinalityType
    <3> QED BY <2>2, <3>1, <3>2, RoundedType DEF RelevanceScore
  <2> QED BY <2>1, <2>2
<1>9. SentimentScore(About(c), Positive, Negative) \in Int
  <2> DEFINE good == SumFunctionOnSet(Positive, About(c))
             bad == SumFunctionOnSet(Negative, About(c))
  <2>1. \A d \in About(c) : Positive[d] \in Nat /\ Negative[d] \in Nat
    BY <1>7, RankingAssumption
  <2>2. good \in Nat /\ bad \in Nat
    BY <1>7, <2>1, SumType
  <2>3. SentimentScore(About(c), Positive, Negative) =
          IF good + bad = 0 THEN Unmeasured ELSE Rounded(Whole * good, good + bad)
    BY DEF SentimentScore
  <2> HIDE DEF good, bad
  <2>4. good + bad # 0 => Rounded(Whole * good, good + bad) \in Int
    BY <2>2, RoundedType DEF Whole
  <2> QED BY <2>3, <2>4 DEF Unmeasured
<1> DEFINE valuation == IF ScoreMetrics
                        THEN ValuationScore(Metrics[c].pe, IF c \in market.data THEN PriceScore(PriceChange[c])
                                                           ELSE NeutralPrice)
                        ELSE Unmeasured
           growth == IF ScoreMetrics THEN GrowthScore(Metrics[c].growth, Metrics[c].eps) ELSE Unmeasured
           relevance == RelevanceScore(About(c), Similarity)
           sentiment == SentimentScore(About(c), Positive, Negative)
<1>10. valuation \in Int /\ growth \in Int
  <2>1. (IF c \in market.data THEN PriceScore(PriceChange[c]) ELSE NeutralPrice) \in Int
    BY <1>4 DEF NeutralPrice
  <2> QED BY <1>1, <1>3, <1>5, <1>6, <2>1 DEF Unmeasured
<1>11. Scores(c) = [d \in Dimensions |->
                      CASE d = "valuation" -> valuation [] d = "growth" -> growth
                        [] d = "relevance" -> relevance [] d = "sentiment" -> sentiment]
  BY Zenon DEF Scores
<1> HIDE DEF valuation, growth
<1>12. relevance \in Int /\ sentiment \in Int
  BY <1>8, <1>9
<1> HIDE DEF relevance, sentiment
<1> QED BY <1>10, <1>11, <1>12 DEF Dimensions

\* There are four dimensions.
LEMMA FourDimensions == IsFiniteSet(Dimensions) /\ Cardinality(Dimensions) = 4
<1>1. IsFiniteSet({}) /\ Cardinality({}) = 0
  BY FS_EmptySet
<1>2. IsFiniteSet({"valuation"}) /\ Cardinality({"valuation"}) = 1
  BY FS_Singleton
<1>3. IsFiniteSet({"valuation", "growth"}) /\ Cardinality({"valuation", "growth"}) = 2
  <2>1. {"valuation", "growth"} = {"valuation"} \cup {"growth"} /\ "growth" \notin {"valuation"}
    OBVIOUS
  <2> QED BY <1>2, <2>1, FS_AddElement
<1>4. IsFiniteSet({"valuation", "growth", "relevance"}) /\ Cardinality({"valuation", "growth", "relevance"}) = 3
  <2>1. /\ {"valuation", "growth", "relevance"} = {"valuation", "growth"} \cup {"relevance"}
        /\ "relevance" \notin {"valuation", "growth"}
    OBVIOUS
  <2> QED BY <1>3, <2>1, FS_AddElement
<1>5. /\ Dimensions = {"valuation", "growth", "relevance"} \cup {"sentiment"}
      /\ "sentiment" \notin {"valuation", "growth", "relevance"}
  BY DEF Dimensions
<1> QED BY <1>4, <1>5, FS_AddElement

\* A source that answered gives its dimensions a weight.
LEMMA WeightsRight ==
  /\ ScoreWeights \in [Dimensions -> Nat]
  /\ ScoreMetrics => ScoreWeights["valuation"] > 0 /\ ScoreWeights["growth"] > 0
  /\ HasVector => ScoreWeights["relevance"] > 0 /\ ScoreWeights["sentiment"] > 0
<1> DEFINE share(d) ==
             CASE d = "valuation" -> IF ScoreMetrics THEN 40 ELSE 0
               [] d = "growth"    -> IF ScoreMetrics THEN 30 ELSE 0
               [] d = "relevance" -> IF HasVector THEN 20 ELSE 0
               [] d = "sentiment" -> (IF HasVector THEN 10 ELSE 0) + (IF HasMarket THEN 10 ELSE 0)
           base == [d \in Dimensions |-> share(d)]
           total == SumFunctionOnSet(base, Dimensions)
<1>1. ScoreWeights = IF total = 0 THEN base ELSE [d \in Dimensions |-> Rounded(Whole * base[d], total)]
  BY Zenon DEF ScoreWeights, Weights
<1>2. \A d \in Dimensions : base[d] = share(d) /\ share(d) \in 0..40 /\ (share(d) # 0 => share(d) >= 10)
  BY DEF Dimensions
<1>3. /\ ScoreMetrics => base["valuation"] > 0 /\ base["growth"] > 0
      /\ HasVector => base["relevance"] > 0 /\ base["sentiment"] > 0
  BY DEF Dimensions
<1> HIDE DEF share
<1>4. base \in [Dimensions -> Nat]
  BY <1>2
<1> HIDE DEF base
<1>5. total \in Nat /\ total <= 160
  <2>1. total \in Int /\ total >= 0
    BY <1>2, FourDimensions, SumType
  <2>2. total <= 40 * Cardinality(Dimensions)
    BY <1>2, FourDimensions, SumBounded
  <2> QED BY <2>1, <2>2, FourDimensions
<1>6. \A d \in Dimensions : base[d] > 0 => total > 0
  BY <1>4, FourDimensions, SumPositive
<1> HIDE DEF total
<1>7. CASE total = 0
  <2>1. ScoreWeights = base
    BY <1>1, <1>7
  <2>2. "valuation" \in Dimensions /\ "growth" \in Dimensions /\ "relevance" \in Dimensions /\ "sentiment" \in Dimensions
    BY DEF Dimensions
  <2> QED BY <1>3, <1>4, <2>1
<1>8. CASE total # 0
  <2>1. ScoreWeights = [d \in Dimensions |-> Rounded(Whole * base[d], total)]
    BY <1>1, <1>8
  <2>2. ASSUME NEW d \in Dimensions
        PROVE  Rounded(Whole * base[d], total) \in Nat /\ (base[d] > 0 => Rounded(Whole * base[d], total) > 0)
    <3> DEFINE a == base[d]
    <3>1. a \in 0..40 /\ (a # 0 => a >= 10)
      BY <1>2
    <3> HIDE DEF a
    <3>2. total \in Nat \ {0} /\ 1000 * a \in Int
      BY <1>5, <1>8, <3>1
    <3>3. CASE a = 0
      <4>1. 0 * total <= 1000 * a /\ 1000 * a <= 0 * total
        BY <1>5, <3>3
      <4>2. Rounded(1000 * a, total) \in 0..0
        BY <3>2, <4>1, RoundedBetween
      <4> QED BY <3>3, <4>2 DEF a, Whole
    <3>4. CASE a # 0
      <4> DEFINE x == 1000 * a
                 low == 1
                 high == 40000
      <4>1. x \in Int /\ low \in Int /\ high \in Int
        BY <3>2
      <4>2. low * total <= x /\ x <= high * total
        BY <1>5, <3>1, <3>2, <3>4
      <4>3. ASSUME NEW r \in low..high
            PROVE  r \in Nat /\ r > 0
        OBVIOUS
      <4> HIDE DEF low, high, x
      <4>4. Rounded(x, total) \in low..high
        BY <3>2, <4>1, <4>2, RoundedBetween
      <4>5. Rounded(x, total) \in Nat /\ Rounded(x, total) > 0
        BY ONLY <4>3, <4>4
      <4> QED BY <4>5 DEF a, x, Whole
    <3> QED BY <3>3, <3>4
  <2>3. "valuation" \in Dimensions /\ "growth" \in Dimensions /\ "relevance" \in Dimensions /\ "sentiment" \in Dimensions
    BY DEF Dimensions
  <2> QED BY <1>3, <2>1, <2>2, <2>3
<1> QED BY <1>7, <1>8

\* A dimension is measured only from a source that answered.
LEMMA MeasuredAnswered ==
  ASSUME FoundInv, NEW c \in DOMAIN Metrics
  PROVE  /\ Scores(c)["valuation"] # Unmeasured \/ Scores(c)["growth"] # Unmeasured => ScoreMetrics
         /\ Scores(c)["relevance"] # Unmeasured \/ Scores(c)["sentiment"] # Unmeasured => HasVector
<1>1. Scores(c)["valuation"] # Unmeasured \/ Scores(c)["growth"] # Unmeasured => ScoreMetrics
  BY DEF Scores, Dimensions
<1>2. /\ Scores(c)["relevance"] = RelevanceScore(About(c), Similarity)
      /\ Scores(c)["sentiment"] = SentimentScore(About(c), Positive, Negative)
  BY DEF Scores, Dimensions
<1>3. About(c) = {} => RelevanceScore(About(c), Similarity) = Unmeasured
  BY DEF RelevanceScore
<1>4. About(c) = {} => SentimentScore(About(c), Positive, Negative) = Unmeasured
  BY SumOfNone DEF SentimentScore
<1>5. About(c) # {} => HasVector
  BY DEF About, HasVector
<1> QED BY <1>1, <1>2, <1>3, <1>4, <1>5

\* So what the scorer writes down of a company is fair.
LEMMA SheetFair ==
  ASSUME FoundInv, NEW c \in DOMAIN Metrics, NEW said \in Opinions
  PROVE  Fair(Sheet(c, said))
<1>1. /\ Sheet(c, said).scores = Scores(c) /\ Sheet(c, said).weights = ScoreWeights
      /\ Sheet(c, said).llm = Opinion(said, c)
      /\ Sheet(c, said).final = Blended(Composite(Scores(c), ScoreWeights), Opinion(said, c), BlendWeight)
  BY DEF Sheet
<1>2. \A d \in MeasuredIn(Scores(c)) : ScoreWeights[d] > 0
  BY MeasuredAnswered, WeightsRight DEF MeasuredIn, Dimensions
<1>3. Opinion(said, c) \in Int
  BY RankingAssumption DEF Opinion, Unmeasured
<1> QED BY <1>1, <1>2, <1>3, ScoresType, WeightsRight DEF Fair

\* The dimensions of the table are measured for SQL's own questions, or when
\* its query returned a row, or when the branch left nothing and is misread.
RowsBehind(row) ==
  MeasuredIn(row.scores) \cap {"valuation", "growth"} # {} /\ ~SqlLeftNothing =>
    intent \in SqlIntents \/ (sqlResult.db.kind = "rows" /\ sqlResult.db.rows # <<>>)

\* So they are when the scorer writes them down.
LEMMA SheetHasRows ==
  ASSUME FoundInv, NEW c \in DOMAIN Metrics, NEW said
  PROVE  RowsBehind(Sheet(c, said))
<1>1. Sheet(c, said).scores = Scores(c)
  BY DEF Sheet
<1>2. SUFFICES ASSUME MeasuredIn(Scores(c)) \cap {"valuation", "growth"} # {}, ~SqlLeftNothing,
                      intent \notin SqlIntents
               PROVE  sqlResult.db.kind = "rows" /\ sqlResult.db.rows # <<>>
  BY <1>1 DEF RowsBehind
<1>3. ScoreMetrics
  BY <1>2, MeasuredAnswered DEF MeasuredIn
<1>4. SqlRows # <<>> /\ intent \notin VectorIntents
  BY <1>2, <1>3 DEF ScoreMetrics, HasSql
<1>5. intent = "MIXED"
  BY <1>2, <1>4, RetrievalAssumption DEF FoundInv
<1>6. sqlResult.db.kind \in {"unset", "error", "prose", "rows"}
  BY DEF FoundInv, Results
<1>7. sqlResult.db.kind \notin {"unset", "prose", "error"}
  BY <1>2, <1>4, <1>5 DEF SqlLeftNothing, SqlRows
<1> QED BY <1>4, <1>6, <1>7 DEF SqlRows

\* What is written down of each company reported is fair, with rows behind it.
SheetInv == \A c \in Range(ranked) : Fair(sheet[c]) /\ RowsBehind(sheet[c])

\* Only the scorer writes it, and what the branches left is not touched after.
LEMMA SheetNext ==
  ASSUME SheetInv, FoundInv, EvidenceInv, EvidenceInv', [Next]_vars
  PROVE  SheetInv'
<1>1. CASE Score
  <2>1. PICK said \in Opinions : sheet' = [c \in Range(ranked') |-> Sheet(c, said)]
    BY <1>1 DEF Score
  <2>2. Range(ranked') \subseteq DOMAIN Metrics
    BY DEF EvidenceInv, Range
  <2>3. ASSUME NEW c \in Range(ranked')
        PROVE  Fair(sheet'[c]) /\ RowsBehind(sheet'[c])
    BY <2>1, <2>2, <2>3, SheetFair, SheetHasRows
  <2>4. UNCHANGED <<intent, sqlResult>>
    BY <1>1 DEF Score
  <2> QED BY <2>3, <2>4 DEF SheetInv, Fair, RowsBehind, SqlLeftNothing
<1>2. CASE FanIn
  <2>1. ranked' = <<>>
    BY <1>2 DEF FanIn, Serving, EvidenceInv
  <2> QED BY <2>1 DEF SheetInv, Range
<1>3. CASE UNCHANGED <<intent, sqlResult, ranked, sheet>>
  BY <1>3 DEF SheetInv, Fair, RowsBehind, SqlLeftNothing
<1>4. CASE Retrieving /\ UNCHANGED rankingVars
  <2>1. UNCHANGED <<intent, sqlResult, ranked, sheet>>
    BY <1>4 DEF Retrieving, rankingVars, Plan, SqlWorks, VectorAnswers, MarketRuns, MarketGivesUp, Tick,
            LoopIsHeld, TimersFire, OverallTimerFires, retrievalVars
  <2> QED BY <1>3, <2>1
<1> QED BY <1>1, <1>2, <1>3, <1>4 DEF Next, retrievalVars, rankingVars, vars, Rerank, Done

\* What was not measured neither raises nor lowers a company: the score it is
\* reported with lies among those measured and the model's opinion, and what
\* comes from the table was asked of SQL or returned by it, the branch that
\* left nothing excepted.
THEOREM ScoreBetween == Spec => []ScoreIsAMean
<1>1. Init => SheetInv
  BY DEF Init, SheetInv, Range
<1>2. SheetInv => ScoreIsAMean
  <2> SUFFICES ASSUME SheetInv, NEW c \in Range(ranked)
               PROVE  LET row == sheet[c]
                          measured == MeasuredIn(row.scores)
                          voices == {row.scores[d] : d \in measured} \cup ({row.llm} \ {Unmeasured})
                      IN /\ measured # {} => row.final \in Min(voices) .. Max(voices)
                         /\ measured \cap {"valuation", "growth"} # {} /\ ~SqlLeftNothing =>
                              intent \in SqlIntents \/ (sqlResult.db.kind = "rows" /\ sqlResult.db.rows # <<>>)
    BY DEF ScoreIsAMean, Reported
  <2>1. Fair(sheet[c]) /\ RowsBehind(sheet[c])
    BY DEF SheetInv
  <2> QED BY <2>1, FinalBetween DEF RowsBehind
<1> QED
  BY <1>1, <1>2, NamedInit, NamedNext, FoundInit, FoundNext, EvidenceInit, EvidenceNext, SheetNext, PTL DEF Spec

===============================================================================
