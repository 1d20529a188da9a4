---------------------------- MODULE RefinementProofs ----------------------------
(***************************************************************************)
(* RankedEvidence implements FinancialGraph: for every value of the        *)
(* constants, what the nodes for retrieval, scoring and reranking do, with *)
(* all their calls, timers and rows, is one step each of the graph's model. *)
(* The mapping is the one of RankedEvidence's instance Graph.              *)
(***************************************************************************)
EXTENDS EvidenceProofs

-----------------------------------------------------------------------------
(* The graph's model. *)

\* The kinds of evidence a company has, as the graph's model sees them.
Kinds(S) == {IF x.source = "metrics" THEN "metrics" ELSE "retrieved" : x \in S}

\* The companies the rows of SQL name are companies of the table.
LEMMA TickersAreCompanies ==
  ASSUME FoundInv
  PROVE  /\ SqlTickers \in SUBSET Companies
         /\ intent \in VectorIntents => SqlTickers = {}
<1>1. SqlRows \in Seq(Companies \cup {NoTicker})
  BY SqlRowsAreRows DEF Rows
<1>2. Range(SqlRows) \subseteq Companies \cup {NoTicker}
  BY <1>1 DEF Range
<1> QED BY <1>2 DEF SqlTickers

\* Something retrieved is about a company exactly when a branch found it.
LEMMA FoundMatches ==
  ASSUME FoundInv, NEW c \in Companies
  PROVE  Matching(Items, c) # {} <=>
           \/ c \in SqlTickers
           \/ c \in UNION {x.about : x \in VectorItems}
           \/ c \in market.data
<1>1. c # NoTicker
  BY SqlAssumption
<1>2. SqlRows \in Seq(Companies \cup {NoTicker})
  BY SqlRowsAreRows DEF Rows
<1>3. Matching(SqlItems, c) # {} <=> c \in SqlTickers
  <2>1. CASE intent \in VectorIntents
    BY <2>1 DEF SqlItems, SqlTickers, Matching
  <2>2. CASE intent \notin VectorIntents
    <3>1. c \in SqlTickers <=> \E i \in 1..Len(SqlRows) : SqlRows[i] = c
      BY <1>1, <1>2, <2>2 DEF SqlTickers, Range
    <3>2. \A i : Item("sql", i, {SqlRows[i]} \cap Companies, Whole).about = {SqlRows[i]} \cap Companies
      BY DEF Item
    <3>3. Matching(SqlItems, c) # {} <=>
            \E i \in 1..Len(SqlRows) : c \in Item("sql", i, {SqlRows[i]} \cap Companies, Whole).about
      BY <2>2 DEF SqlItems, Matching
    <3> QED BY <3>1, <3>2, <3>3
  <2> QED BY <2>1, <2>2
<1>4. Matching(VectorItems, c) # {} <=> c \in UNION {x.about : x \in VectorItems}
  BY DEF Matching
<1>5. Matching(MarketItems, c) # {} <=> c \in market.data
  <2> DEFINE quote(m) == Item("market", m, {m}, market.confidence * 100)
  <2>1. \A m : quote(m).about = {m}
    BY DEF Item
  <2>2. MarketItems = {quote(m) : m \in market.data}
    BY DEF MarketItems
  <2> HIDE DEF quote
  <2> QED BY <2>1, <2>2 DEF Matching
<1>6. Matching(Items, c) = Matching(SqlItems, c) \cup Matching(VectorItems, c) \cup Matching(MarketItems, c)
  BY DEF Items, Matching
<1> QED BY <1>3, <1>4, <1>5, <1>6

\* What is attached to a company in the table: its numbers, and something
\* retrieved exactly when a branch found it.
LEMMA AttachedKinds ==
  ASSUME FoundInv, NEW records \in SUBSET Items, NEW c \in Companies
  PROVE  Kinds(Attached(c, records)) =
           {"metrics"} \cup (IF Matching(Items, c) # {} THEN {"retrieved"} ELSE {})
<1> DEFINE given == IF Matching(records, c) # {} THEN Matching(records, c) ELSE Matching(Items, c)
<1>1. \A x \in given : x.source # "metrics"
  BY ItemsScored DEF Matching, AllSources
<1>2. given # {} <=> Matching(Items, c) # {}
  BY DEF Matching
<1>3. Attached(c, records) = {Item("metrics", c, {c}, 0)} \cup given
  BY DEF Attached
<1>4. Item("metrics", c, {c}, 0).source = "metrics"
  BY DEF Item
<1> HIDE DEF given
<1> QED BY <1>1, <1>2, <1>3, <1>4 DEF Kinds

\* The mapped state: nothing found but from the fan-in until the evidence is given.
LEMMA NothingFound ==
  ASSUME stage \notin {"score", "rerank"}
  PROVE  Found = [s \in AllSources |-> {}]
BY DEF Found

\* What the branches found, by source.
LEMMA FoundBySource ==
  ASSUME stage \in {"score", "rerank"}
  PROVE  /\ Found \in [AllSources -> {SqlTickers, UNION {x.about : x \in VectorItems}, market.data}]
         /\ Found["sql"] = SqlTickers
         /\ Found["vector"] = UNION {x.about : x \in VectorItems}
         /\ Found["market"] = market.data
BY DEF Found, AllSources

\* A plan is a plan of the graph's.
LEMMA PlanPlans ==
  ASSUME FoundInv, Plan, UNCHANGED rankingVars
  PROVE  Graph!Plan
<1>1. Node = "planner" /\ Node' = "retrieval"
  BY DEF Plan, Node
<1>2. Found' = Found
  BY NothingFound DEF Plan, Found
<1>3. UNCHANGED <<ranked, evidence, intent>> /\ Reported' = Reported
  BY DEF Plan, rankingVars, Reported
<1>4. cohort' \in (UNION {{q.theme, q.named, q.sector} : q \in Questions}) \cup {{}}
  <2>1. question \in Questions
    BY DEF FoundInv
  <2>2. cohort' \in {question.theme, question.named, question.sector, {}}
    <3>1. PICK r \in ThemeCompanies \X NamedCompanies \X SectorCompanies :
            cohort' = IF r[1] # {} THEN r[1] ELSE IF r[2] # {} THEN r[2] ELSE r[3]
      BY DEF Plan, Resolutions
    <3>2. r[1] \in {question.theme, {}} /\ r[2] \in {question.named, {}} /\ r[3] \in {question.sector, {}}
      BY DEF ThemeCompanies, NamedCompanies, SectorCompanies, Lookup
    <3> QED BY <3>1, <3>2
  <2> DEFINE S == {{q.theme, q.named, q.sector} : q \in Questions}
  <2>3. {question.theme, question.named, question.sector}
          \in S
    BY <2>1
  <2> HIDE DEF S
  <2>4. cohort' \in (UNION S) \cup {{}}
    BY <2>2, <2>3
  <2> QED BY <2>4 DEF S
<1> QED BY <1>1, <1>2, <1>3, <1>4 DEF Graph!Plan

\* A branch finds companies of the table, and one the intent does not ask
\* nobody.
FoundRight ==
  /\ Found \in [AllSources -> SUBSET Companies]
  /\ \A s \in AllSources \ Graph!Branches : Found[s] = {}

\* What the branches leave is so.
LEMMA FoundIsRight == FoundInv => FoundRight
<1> SUFFICES ASSUME FoundInv
             PROVE  FoundRight
  OBVIOUS
<1>1. CASE stage \in {"score", "rerank"}
  <2>1. SqlTickers \in SUBSET Companies /\ market.data \in SUBSET Companies
    BY TickersAreCompanies DEF FoundInv
  <2>2. UNION {x.about : x \in VectorItems} \in SUBSET Companies
    <3>1. \A x \in VectorItems : x.about \in SUBSET Companies
      <4>1. SUFFICES ASSUME NEW d \in vector.chunks
                     PROVE  {Owner[d]} \cup Mentions[d] \in SUBSET Companies
        BY DEF VectorItems, Item
      <4>2. d \in Chunks
        BY DEF FoundInv
      <4> QED BY <4>2, RetrievalAssumption, RankingAssumption
    <3> QED BY <3>1
  <2>3. Found \in [AllSources -> SUBSET Companies]
    BY <1>1, <2>1, <2>2, FoundBySource
  <2>4. intent \in AskedIntents /\ AskedIntents \subseteq {"VALUATION", "GROWTH", "SENTIMENT", "MIXED"}
    BY RetrievalAssumption DEF FoundInv, SqlIntents, VectorIntents
  <2>5. CASE intent = "MIXED"
    BY <2>3, <2>5 DEF FoundRight, Graph!Branches, Graph!MetricsIntents, Graph!Sources, AllSources
  <2>6. CASE intent = "SENTIMENT"
    <3>1. Found["sql"] = {} /\ Found["market"] = {}
      <4>1. SqlTickers = {}
        BY <2>6, TickersAreCompanies DEF VectorIntents
      <4>2. market.data = {}
        BY <2>6 DEF FoundInv, NoMarket, Market
      <4> QED BY <1>1, <4>1, <4>2, FoundBySource
    <3>2. Graph!Branches = {"vector"}
      BY <2>6 DEF Graph!Branches, Graph!MetricsIntents
    <3> QED BY <2>3, <3>1, <3>2 DEF FoundRight, AllSources
  <2>7. CASE intent \in {"VALUATION", "GROWTH"}
    <3>1. Found["vector"] = {} /\ Found["market"] = {}
      <4>1. vector.chunks = {} /\ market.data = {}
        BY <2>7 DEF FoundInv, NoVector, Vector, NoMarket, Market, SqlIntents
      <4>2. VectorItems = {}
        BY <4>1 DEF VectorItems
      <4> QED BY <1>1, <4>1, <4>2, FoundBySource
    <3>2. Graph!Branches = {"sql"}
      BY <2>7 DEF Graph!Branches, Graph!MetricsIntents
    <3> QED BY <2>3, <3>1, <3>2 DEF FoundRight, AllSources
  <2> QED BY <2>4, <2>5, <2>6, <2>7
<1>2. CASE stage \notin {"score", "rerank"}
  BY <1>2, NothingFound DEF FoundRight
<1> QED BY <1>1, <1>2

\* The fan-in is the retrieval of the graph's model.
LEMMA FanInRetrieves ==
  ASSUME FoundRight', FanIn
  PROVE  Graph!Retrieve
<1>1. Node = "retrieval" /\ Node' = "scoring"
  BY DEF FanIn, Serving, Node
<1>2. UNCHANGED <<ranked, evidence, intent, cohort>> /\ Reported' = Reported
  BY DEF FanIn, Reported
<1>3. Graph!Branches' = Graph!Branches
  BY <1>2 DEF Graph!Branches, Graph!MetricsIntents, Graph!Sources
<1>4. Found' \in [AllSources -> SUBSET Companies] /\ \A s \in AllSources \ Graph!Branches : Found'[s] = {}
  BY <1>3 DEF FoundRight
<1> QED BY <1>1, <1>2, <1>4 DEF Graph!Retrieve, Graph!Sources, AllSources

\* The timer around them all is a retrieval that fails.
LEMMA TimerFails ==
  ASSUME OverallTimerFires, UNCHANGED rankingVars
  PROVE  Graph!Retrieve
<1>1. Node = "retrieval" /\ Node' = "failed" /\ intent = "MIXED"
  BY DEF OverallTimerFires, Node
<1>2. UNCHANGED <<ranked, evidence, intent, cohort>> /\ Reported' = Reported
  BY DEF OverallTimerFires, rankingVars, Reported
<1>3. Found' = Found
  BY DEF OverallTimerFires, Found
<1> QED BY <1>1, <1>2, <1>3 DEF Graph!Retrieve, Graph!Fails

\* A list names no more companies than it has places.
LEMMA FewNamed ==
  ASSUME NEW S, NEW r \in Seq(S)
  PROVE  Cardinality(Range(r)) <= Len(r) /\ Range(r) \in SUBSET S
<1>1. Len(r) \in Nat /\ r \in Surjection(1..Len(r), Range(r))
  BY DEF Surjection, Range
<1>2. IsFiniteSet(1..Len(r)) /\ Cardinality(1..Len(r)) = Len(r)
  <2> DEFINE n == Len(r)
  <2>1. n \in Nat
    BY <1>1
  <2> HIDE DEF n
  <2>2. IsFiniteSet(1..n) /\ Cardinality(1..n) = n
    BY <2>1, FS_Interval
  <2> QED BY <2>2 DEF n
<1>3. Cardinality(Range(r)) <= Cardinality(1..Len(r))
  BY <1>1, <1>2, FS_Surjection
<1> QED BY <1>2, <1>3 DEF Range

\* The scorer ranks out of the population of the graph's model.
LEMMA ScoreFromPopulation ==
  ASSUME FoundInv, Score
  PROVE  \E P \in Graph!Population : Reported' \in SUBSET P
<1>0. PICK S \in Candidates :
        \E companies \in Listed(S), said \in Opinions : ranked' \in Rankings(companies, said)
  BY DEF Score
<1>1. PICK companies \in Listed(S) : \E said \in Opinions : ranked' \in Rankings(companies, said)
  BY <1>0
<1>2. Reported' \subseteq companies
  BY <1>1 DEF Reported, Range, Rankings
<1>3. companies \subseteq DOMAIN Metrics /\ (S # {} => companies \subseteq S)
  BY <1>1 DEF Listed, First
<1>4. companies \subseteq Companies
  BY <1>3, RankingAssumption
<1>5. Found["market"] \cup Found["sql"] = SqlTickers \cup market.data
  BY FoundBySource DEF Score
<1>6. CASE cohort # {}
  BY <1>1, <1>2, <1>3, <1>6 DEF Candidates, Graph!Population
<1>7. CASE cohort = {} /\ SqlTickers \cup market.data # {}
  BY <1>1, <1>2, <1>3, <1>5, <1>7 DEF Candidates, Graph!Population
<1>8. CASE cohort = {} /\ SqlTickers \cup market.data = {}
  <2> DEFINE named == {{q.theme, q.named, q.sector} : q \in Questions}
  <2>1. S \in {question.sector, {}}
    BY <1>1, <1>8 DEF Candidates
  <2>2. {question.theme, question.named, question.sector} \in named
    BY DEF FoundInv
  <2>3. Graph!Population = (UNION named) \cup {Companies}
    BY <1>5, <1>8 DEF Graph!Population
  <2> HIDE DEF named
  <2>4. CASE S = {}
    BY <1>2, <1>4, <2>3, <2>4
  <2>5. CASE S # {}
    <3>1. S \in UNION named /\ companies \subseteq S
      BY <1>3, <2>1, <2>2, <2>5
    <3> QED BY <1>2, <2>3, <3>1
  <2> QED BY <2>4, <2>5
<1> QED BY <1>6, <1>7, <1>8

\* What the scorer attaches is what the graph's model attaches, and by MIXED
\* nothing yet.
LEMMA GraphEvidence ==
  ASSUME FoundInv, stage \in {"score", "rerank"}, NEW c \in DOMAIN Metrics, NEW records \in SUBSET Items
  PROVE  Kinds(Attached(c, records)) = Graph!Evidence(c)
<1>1. c \in Companies
  BY RankingAssumption
<1>2. Matching(Items, c) # {} <=> \E s \in AllSources : c \in Found[s]
  BY <1>1, FoundMatches, FoundBySource DEF AllSources
<1>3. Graph!Evidence(c) = {"metrics"} \cup (IF \E s \in AllSources : c \in Found[s] THEN {"retrieved"} ELSE {})
  BY DEF Graph!Evidence, Graph!Sources, AllSources
<1> QED BY <1>1, <1>2, <1>3, AttachedKinds

\* The evidence as the graph's model sees it.
GraphsEvidence == [c \in Companies |-> Kinds(evidence[c])]

\* To count is the same in the graph's model.
LEMMA CountsAlike == \A S : Graph!Cardinality(S) = Cardinality(S)
BY DEF Graph!Cardinality, Cardinality

\* The scorer scores as in the graph's model.
LEMMA ScoreScores ==
  ASSUME FoundInv, EvidenceInv, EvidenceInv', Score
  PROVE  Graph!Score
<1>1. PICK P \in Graph!Population : Reported' \in SUBSET P
  BY ScoreFromPopulation
<1>2. Cardinality(Reported') <= TopLimit /\ Reported' \in SUBSET DOMAIN Metrics
  <2>1. ranked' \in Seq(DOMAIN Metrics) /\ Len(ranked') <= TopLimit /\ TopLimit \in Nat
    BY RankingAssumption DEF EvidenceInv
  <2>2. Cardinality(Range(ranked')) <= Len(ranked') /\ Range(ranked') \in SUBSET DOMAIN Metrics
    BY <2>1, FewNamed
  <2>3. IsFiniteSet(Range(ranked'))
    BY <2>2, RankingAssumption, RetrievalAssumption, FS_Subset
  <2>4. Cardinality(Range(ranked')) \in Nat /\ Len(ranked') \in Nat
    BY <2>1, <2>3, FS_CardinalityType
  <2> QED BY <2>1, <2>2, <2>4 DEF Reported
<1>3. UNCHANGED <<intent, cohort>> /\ stage = "score" /\ Node = "scoring"
  BY DEF Score, Node
<1>4. /\ Node' = IF intent = "MIXED" THEN "reranker" ELSE "analysis"
      /\ Found' = IF intent = "MIXED" THEN Found ELSE [s \in AllSources |-> {}]
  <2>1. CASE intent = "MIXED"
    <3>1. stage' = "rerank" /\ UNCHANGED <<vector, market, sqlResult>>
      BY <2>1 DEF Score
    <3>2. SqlTickers' = SqlTickers /\ VectorItems' = VectorItems
      BY <1>3, <3>1 DEF SqlTickers, SqlRows, VectorItems
    <3>3. Found' = Found
      BY <1>3, <3>1, <3>2 DEF Found
    <3> QED BY <2>1, <3>1, <3>3 DEF Node
  <2>2. CASE intent # "MIXED"
    <3>1. stage' = "done"
      BY <2>2 DEF Score
    <3> QED BY <2>2, <3>1 DEF Node, Found
  <2> QED BY <2>1, <2>2
<1>5. GraphsEvidence' =
        [c \in Companies |-> IF c \in Reported' /\ intent # "MIXED" THEN Graph!Evidence(c) ELSE {}]
  <2>1. SUFFICES ASSUME NEW c \in Companies
                 PROVE  Kinds(evidence'[c]) =
                          IF c \in Reported' /\ intent # "MIXED" THEN Graph!Evidence(c) ELSE {}
    BY DEF GraphsEvidence, Kinds
  <2>2. Kinds({}) = {}
    BY DEF Kinds
  <2>3. CASE intent = "MIXED"
    <3>1. evidence'[c] = {}
      BY <1>3, <2>3 DEF Score, EvidenceInv, NoEvidence
    <3> QED BY <2>2, <2>3, <3>1
  <2>4. CASE intent # "MIXED"
    <3>1. evidence'[c] = IF c \in Reported' THEN Attached(c, {}) ELSE {}
      BY <2>4 DEF Score, Reported
    <3>2. CASE c \in Reported'
      <4>1. Kinds(Attached(c, {})) = Graph!Evidence(c)
        BY <1>2, <1>3, <3>2, GraphEvidence
      <4> QED BY <2>4, <3>1, <3>2, <4>1
    <3>3. CASE c \notin Reported'
      BY <2>2, <3>1, <3>3
    <3> QED BY <3>2, <3>3
  <2> QED BY <2>3, <2>4
<1>6. \E Q \in Graph!Population : \E T \in SUBSET Q :
        /\ Cardinality(T) <= TopLimit
        /\ Reported' = T
        /\ GraphsEvidence' = [c \in Companies |->
                               IF c \in T /\ intent # "MIXED" THEN Graph!Evidence(c) ELSE {}]
  BY <1>1, <1>2, <1>5, Zenon
<1> QED BY <1>3, <1>4, <1>6, CountsAlike, Zenon DEF Graph!Score, Graph!Sources, AllSources, GraphsEvidence, Kinds

\* The reranker reranks as in the graph's model.
LEMMA RerankReranks ==
  ASSUME FoundInv, EvidenceInv, Rerank
  PROVE  Graph!Rerank
<1>1. UNCHANGED <<intent, cohort, ranked>> /\ Reported' = Reported
      /\ Node = "reranker" /\ Node' = "analysis" /\ stage = "rerank"
  BY DEF Rerank, Node, Reported
<1>2. Found' = [s \in AllSources |-> {}]
  BY DEF Rerank, Found
<1>3. Reported \in SUBSET DOMAIN Metrics
  BY FewNamed DEF EvidenceInv, Reported
<1>4. GraphsEvidence' = [c \in Companies |-> IF c \in Reported THEN Graph!Evidence(c) ELSE {}]
  <2>1. SUFFICES ASSUME NEW c \in Companies
                 PROVE  Kinds(evidence'[c]) = IF c \in Reported THEN Graph!Evidence(c) ELSE {}
    BY DEF GraphsEvidence, Kinds
  <2>2. Kinds({}) = {}
    BY DEF Kinds
  <2>3. evidence'[c] = IF c \in Reported THEN Attached(c, selected') ELSE {}
    BY DEF Rerank, Reported
  <2>4. CASE c \in Reported
    <3>1. Kinds(Attached(c, selected')) = Graph!Evidence(c)
      BY <1>1, <1>3, <2>4, RerankSelects, GraphEvidence
    <3> QED BY <2>3, <2>4, <3>1
  <2>5. CASE c \notin Reported
    BY <2>2, <2>3, <2>5
  <2> QED BY <2>4, <2>5
<1> QED BY <1>1, <1>2, <1>4 DEF Graph!Rerank, Graph!Sources, AllSources, GraphsEvidence, Kinds

\* Every step is one of the graph's model, or one it does not see.
LEMMA StepIsGraphs ==
  ASSUME FoundInv, EvidenceInv, EvidenceInv', FoundRight', [Next]_vars
  PROVE  \/ Graph!Plan \/ Graph!Retrieve \/ Graph!Score \/ Graph!Rerank
         \/ UNCHANGED <<Node, cohort, Found, Reported, evidence>>
<1>1. CASE Retrieving /\ UNCHANGED rankingVars
  <2>1. CASE Plan
    BY <1>1, <2>1, PlanPlans
  <2>2. CASE OverallTimerFires
    BY <1>1, <2>2, TimerFails
  <2>3. CASE SqlWorks \/ VectorAnswers \/ MarketRuns \/ MarketGivesUp \/ Tick \/ LoopIsHeld \/ TimersFire
    <3>1. stage = "retrieve" /\ UNCHANGED <<stage, cohort, intent>>
      BY <2>3 DEF SqlWorks, VectorAnswers, MarketRuns, MarketGivesUp, Tick, LoopIsHeld, TimersFire, Serving,
              retrievalVars
    <3>2. UNCHANGED <<ranked, evidence>>
      BY <1>1 DEF rankingVars
    <3>3. Node' = Node /\ Found' = Found /\ Reported' = Reported
      BY <3>1, <3>2 DEF Node, Found, Reported
    <3> QED BY <3>1, <3>2, <3>3
  <2> QED BY <1>1, <2>1, <2>2, <2>3 DEF Retrieving
<1>2. CASE UNCHANGED vars
  <2>1. UNCHANGED <<stage, cohort, intent, vector, market, sqlResult, ranked, evidence>>
    BY <1>2 DEF vars, retrievalVars, rankingVars
  <2>2. SqlTickers' = SqlTickers /\ VectorItems' = VectorItems
    BY <2>1 DEF SqlTickers, SqlRows, VectorItems
  <2>3. Node' = Node /\ Found' = Found /\ Reported' = Reported
    BY <2>1, <2>2 DEF Node, Found, Reported
  <2> QED BY <2>1, <2>3
<1> QED BY <1>1, <1>2, FanInRetrieves, ScoreScores, RerankReranks DEF Next, Done

\* Retrieval, scoring and reranking implement the nodes the graph's model takes
\* them for: one step each, however many calls, timers and rows it takes.
THEOREM GraphImplemented == Spec => ImplementsGraph
<1>1. FoundInv /\ EvidenceInv /\ EvidenceInv' /\ FoundRight' /\ [Next]_vars
        => [Graph!Plan \/ Graph!Retrieve \/ Graph!Score \/ Graph!Rerank]_<<Node, cohort, Found, Reported, evidence>>
  BY StepIsGraphs
<1> QED
  BY <1>1, NamedInit, NamedNext, FoundInit, FoundNext, EvidenceInit, EvidenceNext, FoundIsRight, PTL
     DEF Spec, ImplementsGraph
===============================================================================
