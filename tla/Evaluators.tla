------------------------------ MODULE Evaluators ------------------------------
(***************************************************************************)
(* How a benchmark question is graded (evaluation/evaluators/,             *)
(* evaluation/aggregation.py). Scores are in thousandths. An evaluator     *)
(* gives a verdict: its score, whether it passes, whether it went wrong.   *)
(***************************************************************************)
EXTENDS Integers, Sequences, FiniteSets, FiniteSetsExt, SequencesExt

Whole == 1000
PassMark == 700    \* PASS_THRESHOLD, of every evaluator but the ranking's
RankingMark == 500
NotMeasured == -1

Verdict(score, passed, wrong) == [score |-> score, passed |-> passed, wrong |-> wrong]

\* The score below which no evaluator passes: rows against rows are three
\* quarters of SQL's.
Bar(evaluator) ==
  CASE evaluator = "intent" -> Whole
    [] evaluator = "ranking" -> RankingMark
    [] evaluator = "sql" -> (75 * PassMark) \div 100
    [] OTHER -> PassMark

\* An evaluator that raised inside itself.
Broken == Verdict(0, FALSE, TRUE)

Share(a, b) == (2 * Whole * a + b) \div (2 * b)
Mean(S, value(_)) == MapThenSumSet(value, S) \div Cardinality(S)

\* IntentEvaluator: a run that names no intent is an error too.
IntentVerdict(expected, actual, none) ==
  Verdict(IF actual = expected THEN Whole ELSE 0, actual = expected, actual = none)

\* ToolEvaluator, of RAGAS's accuracy and F1 of the tool calls.
ToolVerdict(accuracy, f1) ==
  Verdict((accuracy + f1) \div 2, accuracy >= PassMark /\ f1 >= PassMark, FALSE)

\* SQLEvaluator: rows against rows, 3 : 1 with the query against the query,
\* of which the first decides. A comparison that fails is an error, and so is
\* a query that is missing or does more than read.
SqlVerdict(query, accuracy, equivalence) ==
  LET compared == IF query = "none" THEN NotMeasured ELSE equivalence
      primary == IF accuracy # NotMeasured THEN accuracy ELSE compared
      score == CASE primary = NotMeasured -> 0
                 [] accuracy # NotMeasured /\ compared # NotMeasured -> (75 * accuracy + 25 * compared) \div 100
                 [] OTHER -> primary
      wrong == query # "reads" \/ accuracy = NotMeasured \/ equivalence = NotMeasured
  IN Verdict(score, query = "reads" /\ primary >= PassMark /\ ~wrong, wrong)

\* 1000 / log2(i + 1) of the first positions.
Discount == <<1000, 631, 500>>

Gain(expected, c) ==
  IF \E i \in 1..Len(expected) : expected[i] = c
  THEN Len(expected) + 1 - (CHOOSE i \in 1..Len(expected) : expected[i] = c)
  ELSE 0

DiscountedGain(s, expected) ==
  MapThenSumSet(LAMBDA i : Gain(expected, s[i]) * Discount[i],
                1 .. (IF Len(s) < Len(expected) THEN Len(s) ELSE Len(expected)))

\* RankingEvaluator: graded relevance over as many places as were expected.
RankingVerdict(ranked, expected) ==
  LET ndcg == Share(DiscountedGain(ranked, expected), DiscountedGain(expected, expected))
      places == SubSeq(ranked, 1, IF Len(ranked) < Len(expected) THEN Len(ranked) ELSE Len(expected))
  IN Verdict(ndcg, Range(places) \cap Range(expected) # {} /\ ndcg >= RankingMark, FALSE)

\* MarketEvaluator: of the expected companies' quotes how many came, and how
\* full they are; no benchmark gives it golden values.
MarketVerdict(coverage, completeness, degraded) ==
  LET accuracy == (80 * coverage + 20 * completeness) \div 100
      score == IF degraded THEN (75 * accuracy) \div 100 ELSE accuracy
  IN Verdict(score, score >= PassMark, FALSE)
NoMarketVerdict == Verdict(0, FALSE, TRUE)

Gating == {"faithfulness", "response_relevancy", "context_precision",
           "context_recall", "noise_sensitivity"}

\* The metrics that decide; one that raised does not vote, noise counts
\* against the answer.
RagasMean(measures) ==
  LET measured == {m \in Gating : measures[m] # NotMeasured}
      quality(m) == IF m = "noise_sensitivity" THEN Whole - measures[m] ELSE measures[m]
  IN IF measured = {} THEN 0 ELSE Mean(measured, quality)

\* RagasEvaluator; without an answer or a context it does not ask.
RagasVerdict(answered, contexts, measures) ==
  IF ~answered \/ ~contexts THEN Broken
  ELSE Verdict(RagasMean(measures), RagasMean(measures) >= PassMark, FALSE)

\* Mutant: the mean decides.
Passes_ScoreAlone(verdicts) ==
  Mean(DOMAIN verdicts, LAMBDA e : verdicts[e].score) >= PassMark

\* finalize_question_result
Passes(verdicts) ==
  /\ Mean(DOMAIN verdicts, LAMBDA e : verdicts[e].score) >= PassMark
  /\ \A e \in DOMAIN verdicts : verdicts[e].passed /\ ~verdicts[e].wrong

\* classify_execution_route: by the channels that left something, or by the
\* intent when none did.
Route(ran, intent) ==
  CASE Cardinality(ran) >= 2 \/ ran = {"market"} -> "Hybrid"
    [] ran = {"sql"} -> "SqlOnly"
    [] ran = {"vector"} -> "VectorOnly"
    [] intent \in {"VALUATION", "GROWTH"} -> "SqlOnly"
    [] intent = "SENTIMENT" -> "VectorOnly"
    [] intent = "MIXED" -> "Hybrid"
    [] OTHER -> "Unclassified"

Routes == {"SqlOnly", "VectorOnly", "Hybrid", "Unclassified"}

===============================================================================
