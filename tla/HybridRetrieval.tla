---------------------------- MODULE HybridRetrieval ----------------------------
(***************************************************************************)
(* Retrieval for one question (nodes/planner_node.py, retrieval/): the     *)
(* cohort is resolved, the branches of the intent run in one event loop,   *)
(* and what they return is combined.  Of the branches only MIXED's have    *)
(* timers. The market branch is synchronous from its first cache read to   *)
(* its last cache write, the others in single calls: while such a call     *)
(* lasts, the loop serves nobody, and no timer fires.                      *)
(***************************************************************************)
EXTENDS SqlAgent

CONSTANTS
  Questions,   \* whom a question's theme, names and sector pick out; a bound
  AskedIntents,
  ChunkOrder,  \* the indexed chunks, closest first
  Owner,       \* the company a chunk's document is filed under
  Publications, \* the chunks a source or document type leaves; a bound
  BaseTopK,    \* top_k of run_vector_retrieval (5)
  ChunksPerCompany, \* CHUNKS_PER_COMPANY (5)
  MaxTime      \* how far the clock is followed; a bound

SqlIntents == {"VALUATION", "GROWTH"}
VectorIntents == {"SENTIMENT"}

\* MARKET_TIMEOUT (8 s), VECTOR_TIMEOUT (10), SQL_TIMEOUT (45) and the timer
\* around them all (60): only their order matters.
MarketTimeout == 1
VectorTimeout == 2
SqlTimeout == 3
OverallTimeout == 4

Chunks == Range(ChunkOrder)

ASSUME RetrievalAssumption ==
  /\ IsFiniteSet(Companies) /\ IsFiniteSet(Chunks)
  /\ AskedIntents \subseteq SqlIntents \cup VectorIntents \cup {"MIXED"}
  /\ Questions \subseteq [theme : SUBSET Companies, named : SUBSET Companies,
                          sector : SUBSET Companies]
  /\ Owner \in [Chunks -> Companies]
  /\ Publications \subseteq SUBSET Chunks
  /\ BaseTopK \in Nat \ {0} /\ ChunksPerCompany \in Nat /\ MaxTime \in Nat

VARIABLES
  stage,    \* how far the question is
  question,
  intent,
  cohort,   \* candidate_tickers and candidate_company_ids
  now,      \* the clock, in timeouts passed
  held,     \* whether one synchronous call held the loop past every timer
  vector,   \* the vector branch and what it returned
  market    \* the market branch and what it returned

retrievalVars == <<stage, question, intent, cohort, now, held, vector, market>>

Vector(status, chunks) == [status |-> status, chunks |-> chunks]
Market(status, data, confidence) == [status |-> status, data |-> data, confidence |-> confidence]

NoVector == Vector("off", {})
NoMarket == Market("off", {}, 0)

RetrievalInit ==
  /\ SqlInit
  /\ stage = "plan"
  /\ question \in Questions
  /\ intent \in AskedIntents
  /\ cohort = {}
  /\ now = 0
  /\ held = FALSE
  /\ vector = NoVector
  /\ market = NoMarket

-----------------------------------------------------------------------------
\* The cohort.

\* A lookup in the companies table; one that fails finds nobody.
Lookup(found) == {found, {}}

\* resolve_theme_companies: the members of the curated theme whose alias the
\* question contains.
ThemeCompanies == Lookup(question.theme)

\* resolve_named_companies: those whose name, or an alias of it, it contains.
NamedCompanies == Lookup(question.named)

\* resolve_sector_companies, for the intents that rank a cohort.
SectorCompanies == IF intent \in {"SENTIMENT", "MIXED"} THEN Lookup(question.sector) ELSE {{}}

\* resolve_candidates: the theme, or the names, or the sector.
Resolutions ==
  {IF c[1] # {} THEN c[1] ELSE IF c[2] # {} THEN c[2] ELSE c[3] :
     c \in ThemeCompanies \X NamedCompanies \X SectorCompanies}

\* planner_node, and the branches hybrid_retrieve_async starts: the market
\* one is handed the cohort's tickers, or asks a model whom the plan's market
\* query is about, or has nothing to ask.
Plan ==
  /\ stage = "plan"
  /\ cohort' \in Resolutions
  /\ stage' = "retrieve"
  /\ IF intent \in VectorIntents THEN UNCHANGED sqlVars ELSE SqlStarts
  /\ vector' = IF intent \in SqlIntents THEN NoVector ELSE Vector("running", {})
  /\ \/ intent # "MIXED" /\ market' = NoMarket
     \/ intent = "MIXED" /\ cohort' # {} /\ market' = Market("fetching", {}, 0)
     \/ intent = "MIXED" /\ cohort' = {} /\ market' \in {NoMarket, Market("asking", {}, 0)}
  /\ UNCHANGED <<question, intent, now, held>>

-----------------------------------------------------------------------------
\* The branches.

\* Mutant: the SQL branch has no timer of its own.
SqlLate_Never == SqlRunning /\ now > OverallTimeout

SqlLate == SqlRunning /\ now >= SqlTimeout
VectorLate == vector.status = "running" /\ now >= VectorTimeout
MarketLate == market.status = "asking" /\ now >= MarketTimeout

\* A timer has expired: it is served before anything else the loop does.
TimerDue == intent = "MIXED" /\ (SqlLate \/ VectorLate \/ MarketLate \/ now >= OverallTimeout)

Serving == stage = "retrieve" /\ ~TimerDue

SqlWorks ==
  /\ Serving
  /\ SqlStep
  /\ UNCHANGED retrievalVars

\* extract_filters: the companies a model says the question is about, those of
\* them the table knows, or no filter when it fails.
Extracted == SUBSET Companies

Smaller(m, n) == IF m < n THEN m ELSE n
Larger(m, n) == IF m > n THEN m ELSE n

\* Mutant: the companies the model read stand, whatever the cohort.
Scope_Extracted == Extracted

\* run_vector_retrieval: the cohort replaces the companies the model read.
Scope == IF cohort # {} THEN {cohort} ELSE Extracted

\* c comes before d in s.
Before(s, c, d) == \E i, j \in 1..Len(s) : i < j /\ s[i] = c /\ s[j] = d

\* The n of S that come first.
First(n, S, before(_, _)) == {c \in S : Cardinality({d \in S : before(d, c)}) < n}

\* search_similar_chunks_raw: the n closest chunks in scope.
Closest(n, companies, listed) ==
  First(n, {d \in listed : companies = {} \/ Owner[d] \in companies},
        LAMBDA c, d : Before(ChunkOrder, c, d))

\* bm25_rerank over the keywords a model drew from the question: any n of the
\* chunks; the closest, when there are no keywords to rank by.
Reranked(dense, n) == {S \in SUBSET dense : Cardinality(S) = Smaller(n, Cardinality(dense))}

\* search_similar_chunks
SearchResults(companies, listed) ==
  LET topK == IF companies = {} THEN BaseTopK
              ELSE Larger(BaseTopK, ChunksPerCompany * Cardinality(companies))
  IN Reranked(Closest(4 * topK, companies, listed), topK)

VectorAnswers ==
  /\ Serving
  /\ vector.status = "running"
  /\ \/ \E companies \in Scope, listed \in Publications \cup {Chunks} :
          \E found \in SearchResults(companies, listed) :
            vector' = Vector("done", found)
     \/ vector' = Vector("done", {})
  /\ UNCHANGED <<stage, question, intent, cohort, now, held, market, sqlVars>>

\* What run_market_retrieval makes of its confidence, in tenths.
MarketConfidence(tickers, cached, data) ==
  IF data = {} THEN 0
  ELSE IF data # tickers THEN 6
  ELSE IF cached # {} THEN 8 ELSE 9

\* fetch_market_data_bulk: a ticker that fails is answered with nothing.
Quoted(tickers) == SUBSET tickers

\* A call that does not give up the loop, from now until time.
Holds(time) ==
  /\ time \in now..MaxTime
  /\ now' = time
  /\ held' = (time >= OverallTimeout)

\* run_market_retrieval, in one piece: Redis is asked for every ticker, the
\* provider for the rest, and neither call gives up the loop. A ticker Redis
\* cannot be read for is a miss; as the provider's failures are quotes left
\* out, neither the retries nor the second read of the cache ever run.
Fetch(tickers) ==
  /\ \E cached \in SUBSET tickers : \E fetched \in Quoted(tickers \ cached) :
       market' = Market("done", cached \cup fetched,
                        MarketConfidence(tickers, cached, cached \cup fetched))
  /\ \E time \in now..MaxTime : Holds(time)

\* extract_tickers_from_query: a list of tickers is taken as it is, of another
\* query a model reads some.
ReadTickers == IF market.status = "fetching" THEN {cohort} ELSE SUBSET Companies \ {{}}

MarketRuns ==
  /\ Serving
  /\ market.status \in {"fetching", "asking"}
  /\ \E tickers \in ReadTickers : Fetch(tickers)
  /\ UNCHANGED <<stage, question, intent, cohort, vector, sqlVars>>

\* The model raises, or reads no ticker in the question.
MarketGivesUp ==
  /\ Serving
  /\ market.status = "asking"
  /\ market' = Market("done", {}, 0)
  /\ UNCHANGED <<stage, question, intent, cohort, now, held, vector, sqlVars>>

-----------------------------------------------------------------------------
\* The clock.

\* Time passes while a branch waits. A fetch that is ready to run is not
\* waiting.
Tick ==
  /\ Serving
  /\ intent = "MIXED"
  /\ SqlRunning \/ vector.status = "running" \/ market.status = "asking"
  /\ market.status # "fetching"
  /\ now < MaxTime
  /\ now' = now + 1
  /\ UNCHANGED <<stage, question, intent, cohort, held, vector, market, sqlVars>>

\* The loop is held by a call that settles no branch: Redis asked for an
\* embedding, or given one, by a client without a timeout of its own
\* (embedding_cache.py); the schema read for a repair (sql_executor.py); any
\* such call of another question of the process.
LoopIsHeld ==
  /\ Serving
  /\ intent = "MIXED"
  /\ market.status # "fetching"
  /\ \E time \in now..MaxTime : Holds(time)
  /\ UNCHANGED <<stage, question, intent, cohort, vector, market, sqlVars>>

\* Mutant: a search that is late is asked again, with every timer set anew.
TimersFire_Retried ==
  /\ stage = "retrieve"
  /\ intent = "MIXED"
  /\ now < OverallTimeout
  /\ SqlLate \/ VectorLate \/ MarketLate
  /\ IF SqlLate THEN SqlRaises ELSE UNCHANGED sqlVars
  /\ now' = IF VectorLate THEN 0 ELSE now
  /\ market' = IF MarketLate THEN Market("done", {}, 0) ELSE market
  /\ UNCHANGED <<stage, question, intent, cohort, vector, held>>

\* Every expired timer of a branch is served in one turn of the loop; the
\* branch's wrapper returns an empty payload.
TimersFire ==
  /\ stage = "retrieve"
  /\ intent = "MIXED"
  /\ now < OverallTimeout
  /\ SqlLate \/ VectorLate \/ MarketLate
  /\ IF SqlLate THEN SqlRaises ELSE UNCHANGED sqlVars
  /\ vector' = IF VectorLate THEN Vector("done", {}) ELSE vector
  /\ market' = IF MarketLate THEN Market("done", {}, 0) ELSE market
  /\ UNCHANGED <<stage, question, intent, cohort, now, held>>

\* The outer timer: the payloads that stand in for the branches lack what
\* combine_results reads of them, and the node raises.
OverallTimerFires ==
  /\ stage = "retrieve"
  /\ intent = "MIXED"
  /\ now >= OverallTimeout
  /\ stage' = "failed"
  /\ SqlForgets
  /\ vector' = NoVector
  /\ market' = NoMarket
  /\ UNCHANGED <<question, intent, cohort, now, held>>

AllAnswered ==
  /\ ~SqlRunning
  /\ vector.status # "running"
  /\ market.status \notin {"asking", "fetching"}

-----------------------------------------------------------------------------
(* Properties. *)

\* A question loses everything its branches found only when one synchronous
\* call held the event loop from before any running timer was due until the one
\* around them all was: no branch that waits, and no sequence of shorter holds
\* and waits, gets there (hybrid_retrieval.py: 8, 10 and 45 s inside 60).
LostOnlyWhenHeld == stage = "failed" => held

\* With a cohort resolved, no chunk filed under another company is retrieved.
ChunksStayInCohort ==
  cohort # {} => \A d \in vector.chunks : Owner[d] \in cohort

===============================================================================
