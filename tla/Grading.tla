-------------------------------- MODULE Grading --------------------------------
(***************************************************************************)
(* One benchmark run seen from inside (evaluation/benchmark_runner.py and  *)
(* the writes of api/evaluation_routes.py): the models it is run with, the *)
(* grading of each question, the audit of its claims, and the labels people *)
(* put on them meanwhile. The life of the run is module BenchmarkRun.      *)
(***************************************************************************)
EXTENDS Providers, Evaluators

CONSTANTS
  Scenarios,   \* the bounds of a run, see GradingAssumption
  NoIntent,
  RagasSheets, \* what RAGAS can measure of an answer; a bound
  HumanLabels  \* what a person answers; a bound

SqlRoutes == {"VALUATION", "GROWTH", "MIXED"}
RagasRoutes == {"SENTIMENT", "MIXED"}
Labels == {"SUPPORTED", "UNSUPPORTED", "INSUFFICIENT_EVIDENCE"}
Unlabelled == "none"

ValuationQuestion(id, ranking) == [id |-> id, intent |-> "VALUATION", ranking |-> ranking]
GrowthQuestion(id, ranking) == [id |-> id, intent |-> "GROWTH", ranking |-> ranking]
SentimentQuestion(id, ranking) == [id |-> id, intent |-> "SENTIMENT", ranking |-> ranking]
MixedQuestion(id, ranking) == [id |-> id, intent |-> "MIXED", ranking |-> ranking]

\* A scenario: how many requests administrators make, the question set, the
\* intents a question can be taken for, the companies it can rank, what a
\* comparison or a judge can score, and how many statements an answer makes.
ASSUME GradingAssumption ==
  /\ \A s \in Scenarios :
       /\ s.requests \in 0..MaxRequests
       /\ s.statements \in Nat
       /\ s.grades \subseteq 0..Whole
       /\ Len(s.suite) \in Nat
       /\ \A i \in 1..Len(s.suite) : s.suite[i].intent \in SqlRoutes \cup RagasRoutes
       /\ \A i, j \in 1..Len(s.suite) : s.suite[i].id = s.suite[j].id => i = j
  /\ HumanLabels \subseteq Labels

VARIABLES
  scenario,
  at,        \* where the run is
  provider,  \* the provider it was asked for
  snapshot,  \* model, on the run's row
  runtime,   \* llm_runtime: the models by tier
  next,      \* the question the runner is at
  execution, \* PipelineExecution
  verdicts,  \* evaluator_results
  results,   \* question_results
  stored,    \* the rows of question_results, by question
  rows,      \* the rows of claim_evaluations, by question and index
  summary    \* the aggregate on record

runVars == <<scenario, at, provider, snapshot, runtime, next, execution, verdicts, results,
             stored, rows, summary>>
vars == <<providerVars, runVars>>

Nothing == <<>>

Init ==
  /\ ProvidersInit
  /\ scenario \in Scenarios
  /\ asked = MaxRequests - scenario.requests
  /\ at = "trigger"
  /\ provider \in Provider
  /\ snapshot = Nothing /\ runtime = Nothing
  /\ next = 1
  /\ execution = Nothing /\ verdicts = Nothing
  /\ results = <<>>
  /\ stored = Nothing /\ rows = Nothing /\ summary = Nothing

question == scenario.suite[next]
InSuite == next <= Len(scenario.suite)

-----------------------------------------------------------------------------
\* The runtime, for the trigger and again for the background task: the
\* provider's row (LLMConfigService), then its models.

FindProvider(from, to, otherwise) ==
  /\ at = from
  /\ at' \in {otherwise} \cup (IF Usable(provider) THEN {to} ELSE {})
  /\ UNCHANGED <<providerVars, scenario, provider, snapshot, runtime, next, execution, verdicts,
                 results, stored, rows, summary>>

\* trigger_benchmark_run: the run's row takes the names, or is not written.
Enqueue ==
  /\ at = "triggered"
  /\ \/ Builds(EnabledModels(provider)) /\ at' = "queued" /\ snapshot' = EnabledModels(provider)
     \/ at' = "refused" /\ UNCHANGED snapshot
  /\ UNCHANGED <<providerVars, scenario, provider, runtime, next, execution, verdicts, results,
                 stored, rows, summary>>

\* _execute_benchmark, which is given the provider and not the runtime.
LoadRuntime ==
  /\ at = "loading"
  /\ \/ Builds(EnabledModels(provider)) /\ at' = "ask" /\ runtime' = EnabledModels(provider)
     \/ at' = "failed" /\ UNCHANGED runtime
  /\ UNCHANGED <<providerVars, scenario, provider, snapshot, next, execution, verdicts, results,
                 stored, rows, summary>>

-----------------------------------------------------------------------------
\* run and _run_question.

Failed(q, why) ==
  [id |-> q.id, error |-> why, execution |-> Nothing, verdicts |-> Nothing,
   asserted |-> 0, claims |-> Nothing, passed |-> FALSE]

\* The channels whose results a run of an intent can leave in the state.
Channels(intent) ==
  CASE intent \in {"VALUATION", "GROWTH"} -> {{"sql"}}
    [] intent = "SENTIMENT" -> {{}, {"vector"}}
    [] intent = "MIXED" -> {{"sql"} \cup c : c \in SUBSET {"vector", "market"}}
    [] OTHER -> {{}}

\* _extract_execution: only MIXED reranks, and what it reranked is evidence.
\* A query may have found no rows.
Executions ==
  {e \in [intent : scenario.intents, found : SUBSET {"sql", "vector", "market"},
          reranked : BOOLEAN, answered : BOOLEAN, evidence : BOOLEAN] :
     /\ e.found \in Channels(e.intent)
     /\ e.reranked => e.intent = "MIXED"
     /\ e.found \ {"sql"} # {} \/ e.reranked => e.evidence
     /\ e.evidence => e.found # {}}

\* _execute_pipeline: the graph raises, or it ends.
Execute ==
  /\ at = "ask" /\ InSuite
  /\ \/ /\ results' = Append(results, Failed(question, "graph"))
        /\ at' = "persist"
        /\ UNCHANGED execution
     \/ /\ execution' \in Executions
        /\ at' = "evaluate"
        /\ UNCHANGED results
  /\ UNCHANGED <<providerVars, scenario, provider, snapshot, runtime, next, verdicts,
                 stored, rows, summary>>

\* The evaluators a question's route selects: every question names its tools
\* and its companies.
Applicable(q) ==
  {"intent", "tool", "ranking"}
    \cup (IF q.intent \in SqlRoutes THEN {"sql"} ELSE {})
    \cup (IF q.intent \in RagasRoutes THEN {"ragas"} ELSE {})
    \cup (IF q.intent = "MIXED" THEN {"market"} ELSE {})

\* The pipeline may have written no query, or one that does not only read.
SqlOpinions(e) ==
  {SqlVerdict(query, a, v) :
     query \in IF "sql" \in e.found THEN {"none", "writes", "reads"} ELSE {"none"},
     a, v \in scenario.grades \cup {NotMeasured}}

\* A sentiment question is graded on what was retrieved, a mixed one on what
\* was reranked.
RagasContexts(q, e) == IF q.intent = "MIXED" THEN e.reranked ELSE "vector" \in e.found

RagasOpinions(q, e) ==
  {Broken} \cup {RagasVerdict(e.answered, RagasContexts(q, e), m) : m \in RagasSheets}

MarketOpinions(e) ==
  IF "market" \in e.found
  THEN {MarketVerdict(c, f, degraded) : c, f \in scenario.grades, degraded \in BOOLEAN}
  ELSE {NoMarketVerdict}

\* What an evaluator can say of an execution.
Opinions(q, e, evaluator) ==
  CASE evaluator = "intent" -> {IntentVerdict(q.intent, e.intent, NoIntent)}
    [] evaluator = "tool" -> {Broken} \cup {ToolVerdict(g, f) : g, f \in scenario.grades}
    [] evaluator = "ranking" -> {RankingVerdict(r, q.ranking) : r \in scenario.rankings}
    [] evaluator = "sql" -> SqlOpinions(e)
    [] evaluator = "ragas" -> RagasOpinions(q, e)
    [] evaluator = "market" -> MarketOpinions(e)

Said(q, e, x) == IF x \in Applicable(q) THEN Opinions(q, e, x) ELSE {Broken}

\* A verdict of each evaluator the route selects.
Sheet(q, i, t, k, s, g, m) ==
  [x \in Applicable(q) |->
     CASE x = "intent" -> i [] x = "tool" -> t [] x = "ranking" -> k
       [] x = "sql" -> s [] x = "ragas" -> g [] x = "market" -> m]

\* An evaluator answers, or raises and takes the question with it.
Evaluate ==
  /\ at = "evaluate"
  /\ \/ /\ LET said(x) == Said(question, execution, x) IN
            \E i \in said("intent"), t \in said("tool"), k \in said("ranking"),
               s \in said("sql"), g \in said("ragas"), m \in said("market") :
              verdicts' = Sheet(question, i, t, k, s, g, m)
        /\ at' = "audit"
        /\ UNCHANGED <<results, execution>>
     \/ /\ results' = Append(results, Failed(question, "evaluator"))
        /\ execution' = Nothing
        /\ at' = "persist"
        /\ UNCHANGED verdicts
  /\ UNCHANGED <<providerVars, scenario, provider, snapshot, runtime, next, stored, rows, summary>>

-----------------------------------------------------------------------------
\* The audit of the claims (evaluation/claims/).

\* What the splitter makes of the answer: nothing, if it fails.
Statements ==
  {Nothing} \cup (IF execution.answered THEN SeqOf({"fact", "hedge"}, scenario.statements) ELSE {})

\* What the judge returns for n claims: a label for some of them.
Judgements(n) == UNION {[S -> Labels] : S \in SUBSET (1..n) \ {{}}}

\* Mutant: as received.
VerdictsFor_AsReceived(n, judged) == judged

\* verdicts_for: a claim the judge skipped stays in the denominator.
VerdictsFor(n, judged) ==
  [i \in 1..n |-> IF i \in DOMAIN judged THEN judged[i] ELSE "INSUFFICIENT_EVIDENCE"]

\* audit_answer looks every claim up, then finalize_question_result. The judge
\* may fail, and is not asked without evidence.
Audit ==
  /\ at = "audit"
  /\ \E s \in Statements :
       LET n == Cardinality({i \in DOMAIN s : s[i] = "fact"}) IN
       \E judged \in {Nothing} \cup (IF execution.evidence THEN Judgements(n) ELSE {}) :
         results' = Append(results,
           IF 1..n \subseteq DOMAIN VerdictsFor(n, judged)
           THEN [id |-> question.id, error |-> "none", execution |-> execution,
                 verdicts |-> verdicts, asserted |-> n, claims |-> VerdictsFor(n, judged),
                 passed |-> Passes(verdicts)]
           ELSE Failed(question, "audit"))
  /\ execution' = Nothing /\ verdicts' = Nothing
  /\ at' = "persist"
  /\ UNCHANGED <<providerVars, scenario, provider, snapshot, runtime, next, stored, rows, summary>>

-----------------------------------------------------------------------------
\* The writes.

ClaimKeys(R) == UNION {{r.id} \X DOMAIN r.claims : r \in R}

\* Mutant: a row is written anew.
UpsertClaims_Fresh(R) ==
  LET label(k) == (CHOOSE r \in R : r.id = k[1]).claims[k[2]] IN
  [k \in DOMAIN rows \cup ClaimKeys(R) |->
     IF k \notin ClaimKeys(R) THEN rows[k] ELSE [label |-> label(k), human |-> Unlabelled]]

\* upsert_claims: the evaluator's columns of the rows there are.
UpsertClaims(R) ==
  LET label(k) == (CHOOSE r \in R : r.id = k[1]).claims[k[2]] IN
  [k \in DOMAIN rows \cup ClaimKeys(R) |->
     IF k \notin ClaimKeys(R) THEN rows[k]
     ELSE [label |-> label(k), human |-> IF k \in DOMAIN rows THEN rows[k].human ELSE Unlabelled]]

\* _upsert_question_results
UpsertQuestions(R) ==
  [q \in DOMAIN stored \cup {r.id : r \in R} |->
     IF \E r \in R : r.id = q THEN (CHOOSE r \in R : r.id = q).passed ELSE stored[q]]

\* persist_one: a write that fails is logged.
Persist ==
  /\ at = "persist"
  /\ LET written == {results[Len(results)]} IN
       \/ stored' = UpsertQuestions(written) /\ rows' = UpsertClaims(written)
       \/ UNCHANGED <<stored, rows>>
  /\ next' = next + 1
  /\ at' = "ask"
  /\ UNCHANGED <<providerVars, scenario, provider, snapshot, runtime, execution, verdicts, results,
                 summary>>

\* Mutant: questions that failed are not left out.
Completed_All(R) == R

\* Questions that failed count against the pass rate and in no route.
Completed(R) == {r \in R : r.error = "none"}

RouteTaken(r) ==
  IF r.execution = Nothing THEN Route({}, NoIntent)
  ELSE Route(r.execution.found \cup (IF r.execution.reranked THEN {"vector"} ELSE {}),
             r.execution.intent)

\* aggregate_benchmark_run
Aggregate(R) ==
  [total |-> Cardinality(R),
   passed |-> Cardinality({r \in R : r.passed}),
   route |-> [c \in Routes |-> Cardinality({r \in Completed(R) : RouteTaken(r) = c})]]

\* The end, after the last question or before one when the run is cancelled:
\* everything again, in one transaction.
Finish ==
  /\ at = "ask"
  /\ \/ /\ summary' = Aggregate(Range(results))
        /\ stored' = UpsertQuestions(Range(results))
        /\ rows' = UpsertClaims(Range(results))
        /\ at' = "end"
     \/ at' = "failed" /\ UNCHANGED <<summary, stored, rows>>
  /\ UNCHANGED <<providerVars, scenario, provider, snapshot, runtime, next, execution, verdicts,
                 results>>

\* save_human_label
Label ==
  /\ \E k \in DOMAIN rows, l \in HumanLabels : rows' = [rows EXCEPT ![k].human = l]
  /\ UNCHANGED <<providerVars, scenario, at, provider, snapshot, runtime, next, execution,
                 verdicts, results, stored, summary>>

Benchmark ==
  \/ FindProvider("trigger", "triggered", "refused") \/ Enqueue
  \/ FindProvider("queued", "loading", "failed") \/ LoadRuntime
  \/ Execute \/ Evaluate \/ Audit \/ Persist \/ Finish

Next ==
  \/ Administer /\ UNCHANGED runVars
  \/ Benchmark
  \/ Label

Spec == Init /\ [][Next]_vars

-----------------------------------------------------------------------------
\* What a person said of a claim outlives every later write of the run, which
\* writes each row twice (claims/store.py, "Evaluator columns only").
HumanLabelsStand ==
  [][at' # at => \A k \in DOMAIN rows : k \in DOMAIN rows' /\ rows'[k].human = rows[k].human]_vars

\* However the judge and the writes during the run failed, a finished run has
\* one row for every claim the splitter made of an answer (none where it failed),
\* none of them judged on evidence that was not there, and the audit cost no
\* question.
EveryClaimCounts ==
  at = "end" =>
    \A r \in Range(results) :
      /\ r.error # "audit"
      /\ {k[2] : k \in {j \in DOMAIN rows : j[1] = r.id}} = 1..r.asserted
      /\ \A i \in 1..r.asserted : rows[r.id, i].label # "INSUFFICIENT_EVIDENCE" => r.execution.evidence

\* No evaluator is outvoted: in a question that passes none of those its route
\* selects broke, each scored above its own bar, however good the mean of the
\* others, and what they graded is an answer to the question asked, on evidence
\* that was there (finalize_question_result). RAGAS is held to what it measured:
\* of its gating metrics at least one, and where others raised the code lets
\* the question pass, against ragas_evaluator.py:55.
PassedIsSound ==
  \A i \in 1..Len(results) :
    LET r == results[i]
        q == scenario.suite[i]
    IN r.passed =>
         /\ \A x \in Applicable(q) : ~r.verdicts[x].wrong /\ r.verdicts[x].score >= Bar(x)
         /\ r.execution.intent = q.intent
         /\ q.intent \in RagasRoutes => r.execution.answered /\ r.execution.evidence
         /\ q.intent = "MIXED" => r.execution.reranked /\ "market" \in r.execution.found

\* The aggregate on record is that of the rows on record: each question is
\* one row, passed where the row says so, and in one route or none.
TotalsAddUp ==
  at = "end" =>
    /\ summary.total = Cardinality(DOMAIN stored)
    /\ summary.passed = Cardinality({q \in DOMAIN stored : stored[q]})
    /\ summary.total = summary.route["SqlOnly"] + summary.route["VectorOnly"]
                         + summary.route["Hybrid"] + summary.route["Unclassified"]
                         + Cardinality({r \in Range(results) : r.error # "none"})

\* The names on the run's row are those of the models it is run with
\* (evaluation_routes.py, "Store a readable immutable snapshot of the resolved
\* runtime"). The runtime is resolved again afterwards, and may differ.
SnapshotNamesTheModels == runtime # Nothing => runtime = snapshot

===============================================================================
