---------------------------- MODULE RankedEvidence ----------------------------
(***************************************************************************)
(* What becomes of a retrieval: the fan-in (retrieval/hybrid_retrieval.py), *)
(* the ranking of the companies (scoring/, nodes/scoring_node.py) and the  *)
(* evidence each one is reported with (nodes/reranker_node.py).            *)
(***************************************************************************)
EXTENDS HybridRetrieval, Scoring

CONSTANTS
  Metrics,     \* the companies with a row in financial_metrics, and the row
  PriceChange, \* the provider's price change, in per cent
  ByGrowth,    \* the companies in the order the table lists them
  Ordering,    \* the queries with an ORDER BY
  Mentions,    \* the companies a chunk's text matches by name or ticker
  Similarity, Positive, Negative, \* of each chunk: closeness, keyword counts
  Opinions,    \* what a model may answer when asked to score; a bound
  BlendWeight, \* llm_blend_weight, in tenths
  DbLimit,     \* companies one scoring query returns (20)
  TopLimit,    \* TOP_COMPANIES_LIMIT (5)
  TopKFloor, EvidencePerCompany,      \* TOP_K_FLOOR (8), EVIDENCE_PER_COMPANY (5)
  MinEvidence, MinDocuments           \* MIN_EVIDENCE_PER_COMPANY (2), MIN_DOCUMENTS_... (1)

ASSUME RankingAssumption ==
  /\ DOMAIN Metrics \subseteq Companies
  /\ Metrics \in [DOMAIN Metrics -> [pe : Int, growth : Int, eps : Int]]
  /\ PriceChange \in [Companies -> Int]
  /\ Range(ByGrowth) = DOMAIN Metrics
  /\ Ordering \subseteq SqlTexts
  /\ Mentions \in [Chunks -> SUBSET Companies]
  /\ Similarity \in [Chunks -> Int]
  /\ Positive \in [Chunks -> Nat] /\ Negative \in [Chunks -> Nat]
  /\ \A said \in Opinions : \A c \in DOMAIN said : said[c] \in Int
  /\ BlendWeight \in 0..10
  /\ {DbLimit, TopLimit, TopKFloor, EvidencePerCompany, MinEvidence, MinDocuments} \subseteq Nat

VARIABLES
  sqlResult, \* sql_result: db_result and generated_sql
  ranked,    \* ranked_companies, best first
  sheet,     \* the scores, weights and composite of each ranked company
  orderedBy, \* which rule ordered them
  selected,  \* reranked_context_records
  evidence   \* the evidence attached to each company

rankingVars == <<sqlResult, ranked, sheet, orderedBy, selected, evidence>>

vars == <<sqlVars, retrievalVars, rankingVars>>

NoSqlResult == [db |-> Unset, sql |-> NoSql]
NoEvidence == [c \in Companies |-> {}]

Init ==
  /\ RetrievalInit
  /\ sqlResult = NoSqlResult
  /\ ranked = <<>>
  /\ sheet = <<>>
  /\ orderedBy = "none"
  /\ selected = {}
  /\ evidence = NoEvidence

\* combine_results, and retrieval_node: what each branch returned, an absent
\* branch included. The confidences it weighs are read by nobody.
FanIn ==
  /\ Serving
  /\ AllAnswered
  /\ sqlResult' = [db |-> dbResult, sql |-> lastSql]
  /\ stage' = "score"
  /\ SqlForgets
  /\ now' = 0 /\ held' = FALSE
  /\ UNCHANGED <<question, intent, cohort, vector, market,
                 ranked, sheet, orderedBy, selected, evidence>>

-----------------------------------------------------------------------------
\* Who is ranked.

\* extract_sql_rows: a dictionary without a list in it is taken for a row, an
\* empty one included.
SqlRows ==
  CASE sqlResult.db.kind = "rows"  -> sqlResult.db.rows
    [] sqlResult.db.kind = "error" -> <<>>
    [] OTHER                       -> <<NoTicker>>

\* sql_returned_rows. A question without an SQL branch has no sql_result.
HasSql == intent \notin VectorIntents /\ SqlRows # <<>>
HasVector == vector.chunks # {}
HasMarket == market.data # {}

\* _extract_sql_tickers
SqlTickers == IF intent \in VectorIntents THEN {} ELSE Range(SqlRows) \ {NoTicker}

\* Mutant: the cohort is used only when no branch found anybody.
Candidates_CohortLast ==
  LET found == SqlTickers \cup market.data
  IN IF found # {} THEN {found} ELSE IF cohort # {} THEN {cohort} ELSE {question.sector, {}}

\* The cohort, or whoever the branches found, or a sector the question names,
\* or (empty) the whole table.
Candidates ==
  LET found == SqlTickers \cup market.data
  IN IF cohort # {} THEN {cohort} ELSE IF found # {} THEN {found} ELSE {question.sector, {}}

Grows(c, d) == Before(ByGrowth, c, d)

\* get_companies_from_db: those with metrics, most growth first, at most
\* DbLimit; nobody when the query fails.
Listed(S) == {First(DbLimit, {c \in DOMAIN Metrics : S = {} \/ c \in S}, Grows), {}}

-----------------------------------------------------------------------------
\* In which order.

\* The chunks record_matches_company and the scorers give a company.
About(c) == {d \in vector.chunks : c = Owner[d] \/ c \in Mentions[d]}

ScoreMetrics == HasSql \/ intent \in SqlIntents

Scores(c) ==
  [d \in Dimensions |->
     CASE d = "valuation" ->
            IF ScoreMetrics
            THEN ValuationScore(Metrics[c].pe, IF c \in market.data THEN PriceScore(PriceChange[c])
                                               ELSE NeutralPrice)
            ELSE Unmeasured
       [] d = "growth" ->
            IF ScoreMetrics THEN GrowthScore(Metrics[c].growth, Metrics[c].eps) ELSE Unmeasured
       [] d = "relevance" -> RelevanceScore(About(c), Similarity)
       [] d = "sentiment" -> SentimentScore(About(c), Positive, Negative)]

ScoreWeights == Weights(ScoreMetrics, HasVector, HasMarket)

\* llm_rerank_companies: an opinion on some of the companies, or none.
Opinion(said, c) == IF c \in DOMAIN said THEN said[c] ELSE Unmeasured

Sheet(c, said) ==
  [scores |-> Scores(c), weights |-> ScoreWeights, llm |-> Opinion(said, c),
   final |-> Blended(Composite(Scores(c), ScoreWeights), Opinion(said, c), BlendWeight)]

\* _sql_order_is_authoritative: SQL alone returned something, and ordered it.
SqlOrders ==
  /\ HasSql /\ ~HasVector /\ ~HasMarket
  /\ SqlTickers # {}
  /\ sqlResult.sql \in Ordering

\* The first row that names c, or the place after the last.
FirstRow(c) == Min({i \in 1..Len(SqlRows) : SqlRows[i] = c} \cup {Len(SqlRows) + 1})

\* What the companies are sorted by, smallest first; the sort is stable.
SortKey(c, said) == IF SqlOrders THEN FirstRow(c) ELSE -Sheet(c, said).final

Ahead(c, d, said) ==
  \/ SortKey(c, said) < SortKey(d, said)
  \/ SortKey(c, said) = SortKey(d, said) /\ Grows(c, d)

\* The first TopLimit of the companies, in their order; there is one such.
Rankings(companies, said) ==
  {r \in [1..Smaller(TopLimit, Cardinality(companies)) -> companies] :
     \A i \in DOMAIN r : Cardinality({d \in companies : Ahead(d, r[i], said)}) = i - 1}

-----------------------------------------------------------------------------
\* The evidence.

\* One item a branch retrieved: which companies it matches, and the score its
\* source gave it. The rows of SQL come first, then chunks, then prices.
Item(source, key, about, score) ==
  [source |-> source, key |-> key, about |-> about, score |-> score]

SqlItems ==
  IF intent \in VectorIntents THEN {}
  ELSE {Item("sql", i, {SqlRows[i]} \cap Companies, Whole) : i \in 1..Len(SqlRows)}

VectorItems == {Item("vector", d, {Owner[d]} \cup Mentions[d], Similarity[d]) : d \in vector.chunks}

MarketItems == {Item("market", c, {c}, market.confidence * 100) : c \in market.data}

\* build_hybrid_candidates
Items == SqlItems \cup VectorItems \cup MarketItems

Matching(S, c) == {x \in S : c \in x.about}

\* attach_company_evidence: the numbers the ranker read, and what was selected
\* of the company, or everything retrieved of it when nothing was.
Attached(c, records) ==
  {Item("metrics", c, {c}, 0)}
    \cup (IF Matching(records, c) # {} THEN Matching(records, c) ELSE Matching(Items, c))

\* The n best of a pool by their source's own score.
Best(pool, n) ==
  CHOOSE S \in SUBSET pool :
    /\ Cardinality(S) = Smaller(n, Cardinality(pool))
    /\ \A x \in S, y \in pool \ S : x.score >= y.score

\* What S has of c from these sources, made up to the floor by the best of the
\* rest.
Covered(S, c, floor, sources) ==
  LET mine == {x \in Matching(S, c) : x.source \in sources}
      rest == {x \in Matching(Items, c) \ S : x.source \in sources}
  IN IF Cardinality(mine) >= floor THEN S ELSE S \cup Best(rest, floor - Cardinality(mine))

\* _backfill_company_coverage: company by company.
Backfilled(chosen, companies, floor, sources) ==
  LET after[i \in 0..Len(companies)] ==
        IF i = 0 THEN chosen ELSE Covered(after[i - 1], companies[i], floor, sources)
  IN after[Len(companies)]

AllSources == {"sql", "vector", "market"}

\* Mutant: only the floor for evidence of any kind.
Floored_AnySource(chosen, companies) ==
  Backfilled(chosen, companies, MinEvidence, AllSources)

\* _apply_coverage_floors
Floored(chosen, companies) ==
  Backfilled(Backfilled(chosen, companies, MinEvidence, AllSources),
             companies, MinDocuments, {"vector"})

-----------------------------------------------------------------------------
\* The nodes.

\* scoring_node: nothing ranked, or when it raises; MIXED's evidence is
\* attached by the node after it.
Score ==
  /\ stage = "score"
  /\ \E S \in Candidates : \E companies \in Listed(S) : \E said \in Opinions :
       /\ ranked' \in Rankings(companies, said)
       /\ sheet' = [c \in Range(ranked') |-> Sheet(c, said)]
  /\ orderedBy' = IF ranked' # <<>> /\ SqlOrders THEN "sql_order" ELSE "composite"
  /\ IF intent = "MIXED"
     THEN stage' = "rerank" /\ UNCHANGED evidence
     ELSE /\ stage' = "done"
          /\ evidence' = [c \in Companies |->
                            IF c \in Range(ranked') THEN Attached(c, {}) ELSE {}]
  /\ UNCHANGED <<question, intent, cohort, now, held, vector, market, sqlResult, selected, sqlVars>>

TopK == Larger(TopKFloor, EvidencePerCompany * Len(ranked))

\* What the model leaves after the cut: any of the items, or, when it fails or
\* names none, the best by their source's score.
Picks ==
  {S \in SUBSET Items : S # {} /\ Cardinality(S) <= TopK} \cup {Best(Items, TopK)}

\* reranker_node, for MIXED only.
Rerank ==
  /\ stage = "rerank"
  /\ \E chosen \in Picks : selected' = Floored(chosen, ranked)
  /\ evidence' = [c \in Companies |-> IF c \in Range(ranked) THEN Attached(c, selected') ELSE {}]
  /\ stage' = "done"
  /\ UNCHANGED <<question, intent, cohort, now, held, vector, market,
                 sqlResult, ranked, sheet, orderedBy, sqlVars>>

Retrieving ==
  \/ Plan \/ SqlWorks \/ VectorAnswers \/ MarketRuns \/ MarketGivesUp
  \/ Tick \/ LoopIsHeld \/ TimersFire \/ OverallTimerFires

Done == stage \in {"done", "failed"} /\ UNCHANGED vars

Next ==
  \/ Retrieving /\ UNCHANGED rankingVars
  \/ FanIn
  \/ Score
  \/ Rerank
  \/ Done

\* The event loop serves what is ready. A model, a database or an index that
\* was asked may never answer; the fetch needs nobody's answer to begin.
Fairness ==
  /\ WF_vars(Plan /\ UNCHANGED rankingVars)
  /\ WF_vars(Tick /\ UNCHANGED rankingVars)
  /\ WF_vars(TimersFire /\ UNCHANGED rankingVars)
  /\ WF_vars(OverallTimerFires /\ UNCHANGED rankingVars)
  /\ WF_vars(market.status = "fetching" /\ MarketRuns /\ UNCHANGED rankingVars)
  /\ WF_vars(FanIn) /\ WF_vars(Score) /\ WF_vars(Rerank)

Spec == Init /\ [][Next]_vars /\ Fairness

-----------------------------------------------------------------------------
(* Properties. *)

Reported == Range(ranked)

\* A question that names a cohort is answered about that cohort: every chunk
\* retrieved is filed under a member of it, and so is every company reported,
\* whatever the branches found (resolve_candidates, run_vector_retrieval, rerank).
ReportStaysInCohort == ChunksStayInCohort /\ (cohort # {} => Reported \subseteq cohort)

\* No company is reported without the evidence that was there for it: however
\* the model spent its selection, each keeps its floor of items, and a document
\* when one was retrieved about it (reranker_node.py, MIN_..._PER_COMPANY).
EvidenceReachesEveryCompany ==
  stage = "done" => \A c \in Reported :
    LET kept == evidence[c] \ {Item("metrics", c, {c}, 0)}
        OfDocuments(S) == {x \in S : x.source = "vector"}
    IN /\ Cardinality(kept) >= Smaller(MinEvidence, Cardinality(Matching(Items, c)))
       /\ Cardinality(OfDocuments(kept))
            >= Smaller(MinDocuments, Cardinality(OfDocuments(Matching(Items, c))))

\* The SQL branch of a MIXED question ended without a result of any kind, as a
\* timeout leaves it.
SqlLeftNothing == intent = "MIXED" /\ sqlResult.db.kind \in {"unset", "prose"}

\* What was not measured neither raises nor lowers a company: with anything
\* measured, the score it is reported with lies among the scores measured and
\* the model's opinion, if there is one (ranker.py: renormalised, then blended).
\* Valuation and growth are measured only for SQL's own questions or when its
\* query returned a row. One case is excepted because the code gets it wrong: a
\* SQL branch that left nothing is read as one row, and the two dimensions weigh
\* as though it had answered, against sql_returned_rows (ranker.py:148).
ScoreIsAMean ==
  \A c \in Reported :
    LET row == sheet[c]
        measured == MeasuredIn(row.scores)
        voices == {row.scores[d] : d \in measured} \cup ({row.llm} \ {Unmeasured})
    IN /\ measured # {} => row.final \in Min(voices) .. Max(voices)
       /\ measured \cap {"valuation", "growth"} # {} /\ ~SqlLeftNothing =>
            intent \in SqlIntents \/ (sqlResult.db.kind = "rows" /\ sqlResult.db.rows # <<>>)

\* Of its branches none can keep a MIXED question waiting: each has a timer,
\* and so have they together (hybrid_retrieval.py).
MixedIsAnswered == intent = "MIXED" ~> stage \in {"done", "failed"}

\* The companies each branch found, as the graph's model sees them: from the
\* fan-in until the evidence is attached.
Found ==
  IF stage \in {"score", "rerank"}
  THEN [sql |-> SqlTickers, vector |-> UNION {x.about : x \in VectorItems}, market |-> market.data]
  ELSE [s \in AllSources |-> {}]

Node ==
  CASE stage = "plan" -> "planner" [] stage = "retrieve" -> "retrieval"
    [] stage = "score" -> "scoring" [] stage = "rerank" -> "reranker"
    [] stage = "done" -> "analysis" [] stage = "failed" -> "failed"

Graph ==
  INSTANCE FinancialGraph WITH
    Intents <- AskedIntents, Measured <- DOMAIN Metrics,
    Cohorts <- UNION {{q.theme, q.named, q.sector} : q \in Questions},
    CompanyDrafts <- {}, Claims <- {}, MaxRetries <- 0,
    node <- Node, candidates <- cohort, found <- Found, ranked <- Reported,
    evidence <- [c \in Companies |->
                   {IF x.source = "metrics" THEN "metrics" ELSE "retrieved" : x \in evidence[c]}],
    draft <- "none", feedback <- {}, previous <- {}, retries <- 0, report <- "none"

\* Retrieval, scoring and reranking are what the graph's model takes their
\* nodes for: one step each, however many calls, timers and rows it takes.
ImplementsGraph ==
  [][Graph!Plan \/ Graph!Retrieve \/ Graph!Score \/ Graph!Rerank]_<<Node, cohort, Found, Reported, evidence>>

===============================================================================
