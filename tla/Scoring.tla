-------------------------------- MODULE Scoring --------------------------------
(***************************************************************************)
(* The arithmetic of scoring/ranker.py and scoring/score_normalizer.py.    *)
(* Scores are in thousandths, as the code rounds them to three decimals;   *)
(* a dimension without evidence is Unmeasured.                             *)
(***************************************************************************)
EXTENDS Integers, FiniteSets, FiniteSetsExt

Dimensions == {"valuation", "growth", "relevance", "sentiment"}

Unmeasured == -1
Whole == 1000

\* round(a / b, 3) of an a in thousandths.
Rounded(a, b) == (2 * a + b) \div (2 * b)

Between(low, x, high) == IF x < low THEN low ELSE IF x > high THEN high ELSE x

\* normalize_pe_ratio: nothing for a loss, nothing from 200 up.
PeScore(pe) == IF pe <= 0 THEN 0 ELSE Whole - Between(0, Rounded(Whole * pe, 200), Whole)

\* normalize_price_change: -10 % to +10 % onto the scale.
PriceScore(change) == Between(0, Rounded(Whole * (change + 10), 20), Whole)
NeutralPrice == 500

\* score_company_valuation
ValuationScore(pe, price) == Rounded(7 * PeScore(pe) + 3 * price, 10)

\* score_company_growth, of a growth in thousandths.
GrowthScore(growth, eps) ==
  Rounded(7 * Between(0, growth, Whole) + 3 * (IF eps > 0 THEN Whole ELSE 0), 10)

\* score_company_relevance: the mean similarity of the chunks about a company.
RelevanceScore(chunks, similarity) ==
  IF chunks = {} THEN Unmeasured
  ELSE Rounded(SumFunctionOnSet(similarity, chunks), Cardinality(chunks))

\* score_company_sentiment: the share of its keywords that are positive.
SentimentScore(chunks, positive, negative) ==
  LET good == SumFunctionOnSet(positive, chunks)
      bad == SumFunctionOnSet(negative, chunks)
  IN IF good + bad = 0 THEN Unmeasured ELSE Rounded(Whole * good, good + bad)

\* get_dynamic_weights: shares of what the sources can speak to.
Weights(hasSql, hasVector, hasMarket) ==
  LET base == [d \in Dimensions |->
        CASE d = "valuation" -> IF hasSql THEN 40 ELSE 0
          [] d = "growth"    -> IF hasSql THEN 30 ELSE 0
          [] d = "relevance" -> IF hasVector THEN 20 ELSE 0
          [] d = "sentiment" -> (IF hasVector THEN 10 ELSE 0) + (IF hasMarket THEN 10 ELSE 0)]
      total == SumFunctionOnSet(base, Dimensions)
  IN IF total = 0 THEN base ELSE [d \in Dimensions |-> Rounded(Whole * base[d], total)]

MeasuredIn(scores) == {d \in Dimensions : scores[d] # Unmeasured}

\* Mutant: an unmeasured dimension keeps its share of the weight.
ActiveWeight_All(scores, weights) == SumFunctionOnSet(weights, Dimensions)

ActiveWeight(scores, weights) == SumFunctionOnSet(weights, MeasuredIn(scores))

\* The weighted mean over the dimensions that were measured.
Composite(scores, weights) ==
  IF ActiveWeight(scores, weights) = 0 THEN 0
  ELSE Rounded(SumFunctionOnSet([d \in Dimensions |-> scores[d] * weights[d]], MeasuredIn(scores)),
               ActiveWeight(scores, weights))

\* blend_llm_score, of a weight in tenths; a model that said nothing about the
\* company leaves the composite alone.
Blended(composite, opinion, weight) ==
  IF opinion = Unmeasured THEN composite
  ELSE Rounded(composite * (10 - weight) + opinion * weight, 10)
===============================================================================
