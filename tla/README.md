# Verification of the financial intelligence platform

TLA+ models of the backend under `src/backend`, the TLC configurations that
check them on small instances, and theorems about them that the TLA+ proof
system checks for every value of the constants. The repository is the
reference: every definition is a translation of the lines that the `map` of
`PROJECT.json` names for it, and line numbers below are of `src/backend` unless
another directory is given.

## 1. The system

Users ask a question about companies; a LangGraph pipeline classifies it,
retrieves from SQL, a vector index and a market API, ranks companies, lets one
language model write a report and another judge it, and answers, or withholds
the answer and queues it for a person. Beside it run an ingestion pipeline that
fills the corpus, a benchmark harness that runs the same graph over stored
questions, and an administration API.

Processes: one API process (FastAPI, one event loop, background tasks in the
same loop) and one queue worker (`infrastructure/production/compute.tf`,
`desired_count = 1` for both). Shared state: PostgreSQL (READ COMMITTED),
Redis, SQS with a dead-letter queue, S3.

| Component | State | Operations | What is hard | What makes it correct |
|---|---|---|---|---|
| Queue worker and document pipeline (`ingestion/`) | queue messages, `documents`, `document_chunks`, `ingestion_events` | receive, read object, look for a duplicate, insert, embed, mark ready, record, delete | at-least-once delivery, a lapsed visibility timeout, crash between two commits, races with the API's own ingestion | no announced document is lost, `ready` means searchable, nothing is stored twice, the log is true |
| Ingestion routes and background tasks (`api/ingestion_routes.py`, `api/vector_routes.py`) | the same tables; an in-memory job status | upload, file one filing, collect many, reindex, reseed | no queue behind them; same rows as the worker | the same |
| Agent graph, analysis and review (`graph/`, `nodes/`) | `FinancialState`: intent, cohort, ranking, evidence, draft, feedback, retry count, report | one node each; a retry edge from reviewer to analysis | two models whose output is arbitrary, partial retrieval, a loop that must stop | what is shown is ranked, in the cohort and backed by evidence; a retry is worth its cost; every run ends |
| Hybrid retrieval (`retrieval/`, `graph/sql_graph.py`, `nodes/sql_node.py`, `nodes/market_node.py`) | the SQL agent's messages, last query and result; three branches and their timers | resolve the cohort, ask and run the model's tools, search, fetch prices, combine | a model that drives a loop, four timers, a branch that holds the event loop, lookups that fail | results belong to the query reported; nothing leaves the cohort; a question is answered in time |
| Ranking and evidence (`scoring/`, `nodes/scoring_node.py`, `nodes/reranker_node.py`) | none | choose candidates, score, order, select, backfill | missing dimensions, empty sources, a model that selects | scores compare what was measured; no company is reported without its evidence |
| Query route (`api/financial_routes.py`, `security/`, `observability/query_log.py`) | Redis counters, permits in the process, `escalations`, `retrieval_logs` | admit, run, validate, file, log, release | exits through exceptions and cancellation at every await; INCR and EXPIRE are two calls | permits are never leaked nor given away; the rate limit holds; answers are on record |
| Escalation review (`api/escalation_routes.py`, `escalation/`) | `escalations` | file, resolve, dismiss, reopen | a failure of filing is swallowed | the queue holds withheld reports only |
| Benchmark runs (`api/evaluation_routes.py`, `evaluation/benchmark_runner.py`) | `benchmark_runs`, `question_results`, `evaluation_metrics`; a background task | create, execute, cancel, sweep at start | check-then-insert, a flag read between questions, failing writes, restart | a run ends, once, and is on record as it was scored |
| Grading and claims (`evaluation/`) | question results, claim rows, human labels | grade a question, audit its claims, write, aggregate, label | evaluators and judges that fail, failing writes, people labelling meanwhile | no question passes on what it lacks; every claim counts; totals agree with rows; labels stand |
| LLM provider configuration (`llm/`, `api/admin_llm_routes.py`) | `llm_providers`, `llm_models`, runtimes resolved from them | create, enable, make default, delete; add, change, drop a model; resolve | requests that decide on what they read, runtimes that outlive it | the default can be used; a runtime has every tier |
| EDGAR client (`ingestion/edgar.py`) | the clock of a limiter | fetch | concurrent callers of one limiter | requests are spaced |
| Application start, seeds (`main.py`, `startup_migration.py`, `seeds/`) | schema version, all tables | migrate, sweep, truncate and load | two replicas at once; ingestion in flight | one migrates; identities are not reused under a writer |
| Authentication, feeds, logging, console, infrastructure | none of their own | read-only or declarative | nothing interleaves | - |

How they interact: the collector and the upload route publish objects to S3,
whose events reach the worker through SQS; the worker and the API's background
tasks write the same document tables, which retrieval reads; the query route
and the benchmark runner both call the graph; the route files escalations, which
an administrator closes; the lifespan of the API process sweeps benchmark rows.
`PROJECT.json` lists every component with its sources and status, and under
`hazards` what in this code is hard to test, each at the line where it bites.

## 2. The modules

| Module | Models |
|---|---|
| `DocumentIntake` | abstract: what ingestion promises to whoever puts an object into the bucket |
| `Ingestion` | the worker, the API's ingestion tasks, the queue, the three tables |
| `FinancialGraph` | one question through the graph, with the review loop |
| `QueryRoute` | many requests around the graph: admission, filing, logging, release |
| `SqlAgent` | the SQL branch: model, tools, capture |
| `HybridRetrieval` | cohort, branches, timers; extends `SqlAgent` |
| `Scoring` | the arithmetic of the ranker |
| `RankedEvidence` | fan-in, ranking, evidence; composes the three above and implements `FinancialGraph` up to its analysis node |
| `BenchmarkRun` | benchmark runs from request to final row |
| `Providers` | the LLM configuration and its administrators |
| `Evaluators` | what each evaluator makes of an answer, and the verdict on a question |
| `Grading` | one run from inside: its models, its questions, its claims; composes the two above |
| `MC...` | the sets and functions TLC needs for an instance of each |
| `...Proofs` | theorems and proofs about each; `RetrievalProofs`, `EvidenceProofs` and `RefinementProofs`, each on top of the one before, are about `RankedEvidence` |

### Ingestion
A process (a worker, or a slot for a background task of the API) is a program
counter and the local variables the code holds across awaits: the document, the
row `_persist_document` returned, the chunk sets its `DELETE` saw, the outcome
it is about to record. Labels follow the awaits: `refs` (the loop over the
objects of a message), `check`, `insert`, `embed`, `commit`, `mark`, `note`,
`delete`. Each action is a transaction or a call to the queue. `copies[d]` is
the set of chunk *generations* a row has, each written by one transaction: one
when all is well. A `DELETE` of READ COMMITTED removes what was committed when
it ran, so `EmbedBegin` takes a snapshot and `EmbedCommit` replaces the
snapshot, not the present contents. The queue gives each receive a new handle;
deleting with the handle of an earlier receive may or may not delete, as SQS
says of it. `Refs[m] = {}` is the S3 test event. What becomes of an object's text is
data (`Kind`): files that are blank or do not parse are skipped, a JSON object that
does not parse raises at every receive (`handler.py:160`), and so does the indexing of a
text that leaves no chunk (`indexing_service.py:82`), which leaves its row in `processing`.
The tables begin with the rows of the seed (`Seeded`): `ready`, which is the column's
default, and without chunks. A commit can raise before it took effect or after.

### FinancialGraph
One action per node; a node's model answers are chosen freely within its
schema, a database or provider failure is a disjunct. A draft is, for each
company, what it cites and what it says of it; a flag is the check it failed
and what it is about. `Decision` is the order of the tests in `run_reviewer`:
unavailable judge, retry limit, weak confidence, repeated flags, quality
failure. `feedback` is the working field the analysis node empties and
`previous` the one that outlives it.

### SqlAgent, HybridRetrieval, Scoring, RankedEvidence
One question from the planner to the evidence attached to each company. The SQL
graph is `Ask`, `RunTools`, `Capture`: which tools the model calls and which text
it drafts is free, what a tool may return follows from the executor (validated,
run, repaired once and validated again). A tool message is the query it
carries and the result; `Captured` folds the messages of a round into `last_sql` and
`db_result`. The branches are `running` until they answer, fail, or their timer
fires. Time passes only in `Tick`, in timeouts passed, and in calls that hold the event
loop (`Holds`): the market branch from its first quote to its last cache write (`Fetch`), and,
settling no branch, the embedding cache's two calls of Redis, the schema read for a
repair, or any such call of another question (`LoopIsHeld`). The clock may jump any
distance in one of them, and whatever fell due is served first afterwards (`TimerDue`).
The other synchronous calls of the SQL branch are tools without `async`, which LangGraph
runs in a thread. Only MIXED runs under timers. A lookup of the cohort, the extraction of companies and a
scoring query can each fail, which the code turns into "nobody".

Scores are in thousandths, as the code rounds them. The candidates, the companies
the table lists, the order, the model's selection and the floors of
`_apply_coverage_floors` are operators named for the functions they translate.
`RankedEvidence` maps onto `FinancialGraph` (`Graph`, `ImplementsGraph`): planner,
retrieval, scoring and reranker take one step each of the graph's model, however
many calls it takes, and produce only what that model allows them to.

### QueryRoute
One request is a program counter through the awaits of `financial_retrieval`; a
client that hangs up cancels it at any of them (`Cancel`). The permit is taken
without an await and released in the `finally`. A caller's counter and expiry
are two calls of a blocking Redis client, with no await between them; either may
fail, the first perhaps after it took effect, and the limiter then lets the
request in. Expiry has the granularity of the clock: that a key lapses between
the two calls is left out. Time is `Tick`, in units of the window.
`age` and `metered` are history, kept for the properties. What the guards find
is free; what the graph does is reduced to its outcome (`report`), which
`FinancialGraph` models.

### BenchmarkRun
A call of `POST /run` and the task it leaves behind are two program counters.
`Create` and the last write can fail *after* their commit took effect, which the
code cannot tell from before. `FindActive` and `RequestCancel` are the two
halves of the cancel route: the run may end between them. `Crash` empties the
process, `Boot` is the sweep of `lifespan`. The model keeps the assumption
`fail_orphaned_runs` states, one API process; see *Not modelled*.

### Providers, Evaluators, Grading
A request of an administrator reads one row (`Ask`), decides on it, and commits
(`Create`, `Enable`, ...); the ORM writes the columns that differ from what was
read, so a second request in between is not seen, and one that assigns what it
read writes nothing. `overlapped` is history: two requests were under way at once.
`Grading` is a run as its task sees it. The provider is resolved twice, by the
trigger and by the task (`FindProvider`, `Enqueue`, `LoadRuntime`). For each question the
graph raises or leaves an execution (`Executions`), each evaluator of the
question's route gives a verdict or takes the question down, the splitter and
the judge give what they give, and the row and its claims are written, or the
write fails and is logged. `Finish` writes everything again. `Label` is a person
at any time. What an evaluator can say of an execution (`Opinions`) is the range
of the function in `Evaluators` over the scores a comparison or a judge may
return; a verdict is its score, whether it passes, whether it went wrong.
`BenchmarkRun` has the life of the run instead: cancellation, crash, restart.

## 3. What the runs show

Bounds are constants of the modules, and every counter that is bounded is
bounded by one of them.

| Run | Checks | Shows |
|---|---|---|
| `ingest_queue` | `NothingStoredTwice`, `EveryMessageSettles`, `EveryDocumentArrives` | the worker as deployed: two messages with a shared text, batches of two, three receives, two faults at any step, and two objects that fail at every attempt. Every notification is deleted or dead-lettered (the one with those two objects always is), every document with text arrives although an attempt died half-way and left its row behind, and although what is announced with it fails for good |
| `ingest_shared` | `OnlySeedsAreUseless`, `RowsLeftOnlyByFault`, `StoredOncePerProcess`, `NothingLost`, `LogTellsTruth`, `KeepsIntakePromise` | the worker and an API task racing on a text that comes under a URL and without one, beside a seeded row, one fault: `Ingestion` implements `DocumentIntake`, what the race can store twice it stores once for each of them, and a ready row without chunks is a seeded one |
| `ingest_twice` (violation) | `NothingStoredTwice` | two collections of one filing at once store its chunks twice |
| `review` | `TypeOK`, `GroundedUnlessRepeating`, `EligibleUnlessRepeating`, `EndsWithReason`, `OnlyMuteRetriesRepeat`, `EveryRunEnds` | whatever the models write, what is shown is ranked, eligible and backed, except in the case of `review_repeat`; a retry that repeats the one before carries nothing, which takes a draft to which only the judge objects |
| `review_repeat` (violation) | `RejectedIsNeverShown` | a draft rejected twice with the same flags is approved and shown |
| `query` | `PermitsMatch`, `NeverOverCommitted`, `WindowHolds`, `OnRecordUnlessFault`, `QueueHoldsWithheld`, `RefusalIsRecent`, `PermitsComeBack` | three requests of one caller, two permits, a rate of two in a window of two ticks, one fault |
| `query_paced` (violation) | `RefusedOnlyOverRate` | a caller within the rate is refused, because every call re-arms the window |
| `retrieval` | `RowsNameTheirQuery`, `LostOnlyWhenHeld`, `ReportStaysInCohort`, `EvidenceReachesEveryCompany`, `ScoreIsAMean`, `MixedIsAnswered`, `ImplementsGraph` | one question of each kind: two companies, two valid queries and one that is refused, two chunks of which the closer mentions the other company, a model that scores nobody or contradicts the numbers; any synchronous call may hold the loop for any time |
| `grading` | `EveryClaimCounts`, `PassedIsSound`, `TotalsAddUp`, `DefaultIsUsable`, `HumanLabelsStand` | three runs: one whose provider two administrators change, one of a mixed question with every verdict its evaluators can reach, RAGAS with a metric that raised included, one of two questions |
| `bench_snapshot` (violation) | `SnapshotNamesTheModels` | a model renamed between the trigger and the task is measured under its old name |
| `bench` | `EndedRunIsWhole`, `TotalsNeverLag`, `StrandedOnlyByFault`, `FinalIsFinal`, `AcceptedRunEnds`, `CancelIsHeard` | two runs of one configuration, two questions, two faults |
| `bench_double` (violation) | `NoIdenticalRuns` | two simultaneous calls are both queued |

Why these bounds are enough for what they show. The races of ingestion are
between two processes on one row, or on two rows with one identity: one worker
and one task with a text under a URL, the same text without one, an object that is
skipped and a seeded row have all of them (a shared URL is the same case to
`Same`); three receives are the deployed redrive policy, and two faults exhaust
all but the last. A second delivery comes to the one worker after the first, as
deployed; that two workers hold deliveries of one message at once is left to the
theorems, which are for any number. The graph needs two companies to tell
"ranked" from "invented" and "in the cohort" from "outside", two retries to
tell a first repetition from the limit. The route needs one request more than
permits and than the rate allows, and a window of two ticks so that a call can
be older than another and still inside. A run needs two questions to be
stopped between them, and two faults so that the handling of the first can
fail. Retrieval needs two companies to tell the cohort from the rest, a chunk
filed under one and mentioning the other, a query that fails validation, and
two rounds of one tool call so that a draft can follow a result; one fix reaches
the retry limit. `MaxTime` is the last timer. Grading needs two questions for the
totals, two claims so that the judge can skip one, two requests so that one can
come between the trigger and the task, or overlap. Providers and model names
are symmetric (`Symmetric`): no action tells them apart, and the run has no
liveness property.

### Fairness
`Ingestion`: weak fairness of a worker's own step (it polls in a loop and awaits
nothing but its own calls) and of a message becoming visible again (SQS). No
fairness of the API's tasks, of senders, or of anything at all in `ingest_shared`.
`FinancialGraph`: weak fairness of the next node: LangGraph runs a node when the
one before it returned, and every model call has a timeout and a limit of
retries (`llm/llm_factory.py:10-26`). `QueryRoute`: weak
fairness of each handler; nothing is assumed of callers, of time, or of
administrators. `RankedEvidence`: weak fairness of the nodes, of the clock and of the timers, and of the market
fetch when it was handed its tickers; none of a model, the database or the
index, which may never answer. `BenchmarkRun`: weak fairness of each task, which the event
loop resumes, and of the restart, which ECS performs; none of requests or of
cancellation. No strong fairness anywhere.

`CHECK_DEADLOCK FALSE` is in every configuration but `retrieval` because the systems
do stop: all messages settled, the graph at its end, all requests answered, all
runs over. `RankedEvidence` has a step for the question that is done, and `retrieval`
checks that it is never stuck before.

## 4. What is proved

All for every value of the constants that satisfies the module's named
assumption (finite sets where something is counted, naturals where something is
numbered).

* **`IngestionProofs`**: `TypeCorrect`, `UselessAreSeeds`, `NoDocumentLost`,
  `LogIsTrue`, and `ImplementsIntake`, the refinement of `DocumentIntake`. None of
  the properties is inductive: that a deleted message has its documents answered
  rests on what the worker knows before it deletes. `ProcessOK` says what each
  label guarantees about the row in a process's hands, whoever else rewrites
  it; `LoopOK` that while every ref was handled, each is still to do, in
  hand, or answered from. Each step has a lemma for the process that moves
  and one for the processes that look on.
  `OneCopyPerProcess` bounds what a race stores. `CopyInv` gives each set of chunks of a
  document to a process, no two to one, such that a process about to commit has its
  own in the snapshot of its `DELETE`: what it adds replaces what it had before.
  `OneWriterStoresOnce` is the case of one process; `ingest_twice` shows that it is the only
  one in which nothing is stored twice. `LeftByFault` counts the rows left in
  `processing` with nobody to finish them: a step adds some only if it is a fault, and then at
  most the rows of one process of the API. Seeded rows are excepted by name where the
  code takes them for indexed: `New` are the documents that match none.
* **`FinancialGraphProofs`**: `TypeCorrect`, `ShownIsGrounded`, `ShownIsEligible`,
  `EndsExplained`, `RepeatsAreMute`. What is shown is decided in one step, but whether it is right depends
  on every node before: the invariant adds that nothing is ranked before scoring,
  that a cohort once named bounds the ranking, and that nothing is shown before
  the end. The work is in the lemmas about the checks: what a verdict and what the
  reviewer sends back can contain, and that a draft without quality failure
  cites only evidence attached to a ranked company. `EndsExplained` is inductive by
  itself, given that the database is finite: a draft that covers somebody then has a
  first few to show. `RepeatsAreMute` goes back from an empty list of flags to the checks
  that left it empty and to the judge's verdict that rejected the draft all the same.
* **`QueryRouteProofs`**: `PermitsAccounted`, `BoundHolds`, `RateHolds`,
  `QueueIsWithheld`, `AnswersRecorded`, `RefusalsAreRecent`. The rate limit is the
  hard one: that no window of time, wherever it begins, has more counted calls than
  the limit needs that a key outlives the window of every call it counted
  (`WindowInv`: what is left of a call's window is at most what is left of the
  expiry), so that the count bounds them. `StageInv` orders report before answer,
  and `Slipped` counts what will be missing from the record before it is.
* **`BenchmarkRunProofs`**: `TypeCorrect`, `EndedIsWhole`, `TotalsKeepUp`,
  `StrandedByFault`, `FinalStays`, `CancelHeard`. `Step` says for one run how its row, its question
  rows and the runner's own count agree at each label of its task; `Alive`
  that tasks die with their process, without which the sweep could fail a
  run that is being written. `StrandedByFault` counts: a step adds at most
  one row to those nobody advances, and is then a fault. `CancelHeard` nests one
  "always" in another: `Heard`, what a flagged run has paid for, is reached whenever
  the flag is up and kept from then on, so that every moment begins its own invariant.
* **`GradingProofs`**: `LabelsStand`, `DefaultUsable`, `PassesSound`, `ClaimsCounted`,
  `TotalsRight`. The labels are an action
  property: every write of the run is `UpsertClaims`, which keeps them. `ConfigInv` says
  that what a lone administrator has read is still so, and one lemma for each request
  shows that the default stays usable; two administrators at once do break it, which
  is why the property excepts them. `PassesSound` goes from the verdict back to the
  execution: `PassSays` and `PassMeets` are what the pass of each evaluator implies, of what
  it graded and of its score, `SheetSound` that they imply it together, and `RunInv` that the
  results are those of the questions before the current one, in order. `ClaimsCounted` and `TotalsRight` need in addition where rows may
  be missing: `RowsInv` says that the rows are always of results, and that at the end every
  result and every claim has one, as it was judged, because the last write goes over all
  of them. `TotalsRight` counts over sets: one row for each id of the suite, and the
  routes and the failed are a partition of the rows.
* **`RetrievalProofs`**: `LossIsHeld`, `CohortHolds`, `RowsNamed`. `ClockInv`: without a hold time
  passes only while a branch that waits has a timer still to come, and each of those is
  due before the outer one; a hold passes them only if it reaches the outer one by
  itself, and says so in `held`. `CohortInv`: nothing is found
  before the plan has a cohort; from then on the search and the candidate pool take
  the cohort and nothing else when it is not empty. `RowsNamed` is about a loop over the tool
  messages of a round: `CapturedStays` shows that no message takes query and rows apart
  without setting `redrafted`, whatever came before it, and `SqlInv` that the
  messages in flight carry the query their rows came from. `FoundInv`, what the branches can
  leave, is used by the next two.
* **`EvidenceProofs`**: `EvidenceReaches`, `ScoreBetween`. The first is about the floors of the
  reranker: the best of a pool exist and are in it (`BestIs`), topping up a company
  meets its floor and takes from nobody (`CoveredMeets`, `MeetsGrows`), so the loop over all
  companies meets all floors (`BackfilledMeets`), the second loop for documents too
  (`FlooredMeets`). `EvidenceInv` carries it to the report. The second is about the
  arithmetic: what is measured has a positive weight, also after renormalising and
  rounding (`WeightsRight`), a weighted sum lies between its bounds
  (`WeightedBetween`), rounding a quotient does not leave them (`RoundedBetween`), nor does
  blending in an opinion (`BlendBetween`, `FinalBetween`); and `SheetHasRows` goes back from a
  weighed figure of the table to the rows, or to the branch that left nothing.
* **`RefinementProofs`**: `GraphImplemented`, the refinement `ImplementsGraph`. One lemma for each
  node that is a step of the graph (`PlanPlans`, `FanInRetrieves`, `TimerFails`,
  `ScoreScores`, `RerankReranks`); all other steps, the calls of the branches and the clock,
  stutter. What the graph's model leaves free has to be shown reachable: that a ranking
  follows from some result of retrieval (`ScoreFromPopulation`) and that the evidence
  attached is of kinds it allows (`AttachedKinds`).

Loops and sums. No module has a RECURSIVE operator: the code's loops are folds of the
community modules, or recursive functions. Facts about them are proved without the
induction theorems of the library, which take an operator as a parameter: `Least`
says that a set of naturals has a least member, `EveryTurn` that what holds at the first
turn of a loop and from turn to turn holds at each, `EveryPick` the same for
a finite set that is emptied member by member, each stated with a set for the
property. That the recursive function exists is a lemma for each loop
(`CapturesExist`, `CoverageExists`, `SumsExist`).

Assumptions on constants that the code does not state but its types do: companies,
chunks, processes, requests and runs are finite in number; figures of the table,
similarities and price changes are integers (in the model's unit), counts of phrases
naturals; limits and floors are naturals, and the blend of scores is in tenths.

Every safety property that a passing run checks is proved. Only model-checked: the
liveness properties (`EveryMessageSettles`, `EveryDocumentArrives`, `EveryRunEnds`,
`PermitsComeBack`, `MixedIsAnswered`, `AcceptedRunEnds`), because fairness and `ENABLED` are outside
the prover. `NothingStoredTwice` holds for one process and is violated by two, and
is proved for one.

## 5. Where code and documentation disagree

With a run, in `PROJECT.json` under `findings`:

1. `ingest_twice`: "running it twice changes nothing" (`api/ingestion_routes.py:642`).
2. `review_repeat`: a rejected report is presented as reviewed, against
   `src/tests/test_reviewer_fails_closed.py:2`.
3. `query_paced`: the fixed window that every call, refused ones included,
   extends (`security/rate_limit.py:49`).
4. `bench_double`: the duplicate guard against "a retried request"
   (`api/evaluation_routes.py:308`).
5. `bench_snapshot`: the "immutable snapshot of the resolved runtime"
   (`api/evaluation_routes.py:473`) is of another resolution than the one that is run.

Met while reading, without a run:

Ingestion and review:

* `_mark_ready` is outside the `try` that records how a document ended
  (`ingestion/queue_worker.py:235`), against "Every ending is recorded" (194): `MarkReady` in
  `Ingestion` can end without a line in the log.
* A seeded row is `ready` (the column's default, `models/db_models.py:184`) before
  anything is indexed (`src/seeds/seed_data.py:802`), against "indexed and retrievable"
  (`db_models.py:180`); what arrives with its text is skipped as a duplicate, "a document
  already safely indexed" (`queue_worker.py:115`). `OnlySeedsAreUseless` has such rows, and
  shows that of what `list_documents` warns of (`api/ingestion_routes.py:340`, "a document can be
  `ready` and useless") the seed is the only source; the properties about what
  ingestion promises (`NothingLost`, `LogTellsTruth`, `EveryDocumentArrives`) are about documents
  that match no seeded row.
* A text that leaves no chunk fails at every receive and is dead-lettered with what is
  announced beside it; its row stays in `processing` without any fault, so that
  `RowsLeftOnlyByFault` does not count it.
* The judge may return a high rate with an empty list: the retry then has nothing to say,
  twice running too, against `nodes/reviewer_node.py:99` ("can no longer be dispatched with
  nothing to say") and `src/tests/test_reviewer_fails_closed.py:207` ("an empty-feedback
  retry unreachable"), where the rate is not among the triggers tried.
  `OnlyMuteRetriesRepeat` states exactly this case.

Benchmarks:

* The duplicate guard is "matched on the configuration the run record actually
  stores" (`api/evaluation_routes.py:312`), yet `llm_blend_weight` is stored and
  not compared: an arm that differs only in it is refused.
* "Failure here must not fail the run" (`_replace_retrieved_evidence`) and "Failure
  is swallowed" (`_replace_model_costs`): an error of the database aborts the
  PostgreSQL transaction the caller then commits, so the run does fail.
* When the aggregation of a run raises, the runner returns no metrics and the last
  write sets `total_cost` to 0.0, the loss `persist_one` was written against.
* The cancel route refuses a finished run because "the flag would misreport how
  the run actually ended"; a run that ends between the look and the commit is
  flagged all the same.
* A RAGAS metric that raises is swallowed, and the question can pass with a gating
  metric unmeasured, against `ragas_evaluator.py` (near 53), "an unmeasured question is not
  a passing one"; with none measured the score is 0 without an error, and the
  `unmeasured` tag cannot be reached. `Evaluators` models it (`RagasMean`), the run `grading`
  has it, and `PassedIsSound` holds RAGAS to what it measured.
* Two administrators at once can leave a disabled default, against
  `api/admin_llm_routes.py` (near 83), "A disabled provider cannot be default"; every query is
  then refused for want of a runtime. This is the case `DefaultIsUsable` excepts.
* SQL results are compared after sorting whole rows, columns nobody asked for
  included; NDCG exceeds 1 when a company is ranked twice, and the schema then
  turns the question into an error.
* The claims summary reads at most 2000 rows; the page and its total are two
  statements, against "the header can never promise rows the list does not hold".
* Costs are looked up by model name, whatever provider served it.

Graph and route:

* The graph's module comment and `README.md:46` route a retry to retrieval; the
  code routes it to analysis.
* A confidence of null raises in `_check_confidence`, while the comment of
  `decide_escalation` (66-70) expects it.
* `README.md:152` names four terminals; `withheld_empty_draft` is a fifth.
* A withheld response still carries `ranked_companies` (`api/financial_routes.py`,
  near 349), which the reviewer's node withholds.
* `query_log.build_row` (46-50) counts failed queries; the route never logs one.
* `README.md:133` calls the rate limiter process-local; it is in Redis.

Retrieval:

* The per-service timeouts of hybrid retrieval do not apply to routes with a single
  branch, and the fallback of the overall timeout lacks `retrieved_chunks`: the node
  raises (`OverallTimerFires`).
* The market fetch is synchronous, so `MARKET_TIMEOUT` can fire only while tickers are
  still being extracted; a fetch that takes a minute loses what the other branches
  found, and so does any other call that holds the loop that long, such as one of the
  embedding cache to a Redis that does not answer (`LostOnlyWhenHeld`). The retries
  around the fetch never run, nor does the arm that would serve a stale cache.
* A branch that timed out leaves `{}` for a result, `extract_sql_rows` reads it as one
  row, and SQL counts as having answered, against the docstring of `sql_returned_rows`
  (`scoring/ranker.py:148`) and `src/tests/test_sql_availability_reads_rows.py`. `SqlRows` models it, and
  `ScoreIsAMean` excepts it by name (`SqlLeftNothing`).
* The retrieval settings are not passed to the search (`retrieval/vector_search.py:209`), so
  hybrid fusion and the cross-encoder never run.
* A repair inside the executor is asked in the agent's wording, not in the
  question's; a fix counts as a retry only when it is the last message; the fix
  prompt allows `WITH`, which the validator refuses.
* The scoring query lists at most 20 companies by growth, and so can drop members of
  the cohort, or rows SQL put first; the model scores only the first ten.
* Records match a company by substring of its name or ticker.
* `build_score_breakdown` promises parts that add up to the composite; the blend with
  the model's opinion breaks it.
* A failed SQL branch is reported with a confidence of 0.9.

Ingestion, again:

* `_ingest_uploaded_file` says "Nothing raises out of here"; a failure of the
  status update or of the persist does. `/api/index/documents` leaves a row
  `processing`. The worker records an unreadable object as `empty`.

## 6. Not modelled

* Text: parsing, chunking, prompts, patterns of the guards, masking. They are
  data that the models choose freely.
* The EDGAR limiter, start-up migration, the reseed against ingestion in flight, the
  in-memory job status: see the plan.
* Rank fusion, lexical search and the cross-encoder, which no request reaches.
* Costs, latencies, retrieval diagnostics, and the metrics of agreement between
  people and the judge: they are reported and decide nothing.
* The texts of `evaluation/datasets/` and `seeds/`, which are data.
* Two API processes at once. A rolling deployment (`compute.tf:570`, ECS defaults of
  100 and 200 percent) overlaps two for a while; the sweep of the new one then
  fails live runs, as the docstring of `fail_orphaned_runs` says. The permits of
  the route are per process for the same reason.
* SQS retention (four days), and loss of Redis or PostgreSQL contents.
* Authentication, feeds, logging, the console and the infrastructure: stateless,
  read-only or declarative.

## 7. Plan

Done so far: the modules of section 2. Left, in this order:

1. Reseed: `TRUNCATE ... RESTART IDENTITY` (`seeds/seed_data.py`, `seeds/snapshot.py`) while a worker
   holds the id of a row. `Ingestion` names a row by its document; it would have to
   hold ids, and a row of an id be another document's afterwards. Property:
   `OnlySeedsAreUseless` through a reseed, which the code does not promise.
2. `Startup`: two replicas, stamp or upgrade, the sweep; extends `BenchmarkRun` to two
   processes.
3. `EdgarLimiter`: concurrent callers of one spaced clock. Theorem: any two
   requests are at least one interval apart.
4. The composition of `QueryRoute` with the graph: a run that ends in one of its
   terminals implements the route's `RunGraph`.

Theorems: with each of these its safety properties; `TypeOK` of the retrieval and
grading modules, of which the present proofs use the parts they need.

## 8. How to run it

In this directory, with TLC and the community modules, and with tlapm 1.4.5 (Z3,
Zenon, LS4):

    tlc -workers 2 -config bench.cfg MCBenchmarkRun
    tlapm BenchmarkRunProofs.tla

`PROJECT.json` names the module and configuration of each run. The definitions
marked "Mutant" in the modules are plausible bugs: put in place of the
definition that follows, each makes the property `PROJECT.json` pairs it with
fail. They are part of no specification.
