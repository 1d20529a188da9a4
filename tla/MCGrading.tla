------------------------------- MODULE MCGrading -------------------------------
(* Three runs: one by a provider that two administrators change, one of a      *)
(* single mixed question in detail, one of two questions.                      *)
EXTENDS Grading

CONSTANTS c1, c2

\* Providers and models are alike.
Symmetric == Permutations(Provider) \cup Permutations(ModelNames)

MCRagasSheets ==
  {[m \in Gating |-> IF m = "noise_sensitivity" THEN n ELSE g] : n \in {0, 1000}, g \in {0, 1000}}
    \cup {[m \in Gating |-> NotMeasured],
          [m \in Gating |-> IF m = "faithfulness" THEN 1000 ELSE NotMeasured]}

Watched ==
  [requests |-> 2, suite |-> <<ValuationQuestion("V1", <<c1>>)>>, intents |-> {"VALUATION"},
   rankings |-> {<<c1>>}, grades |-> {1000}, statements |-> 0]

Mixed ==
  [requests |-> 0, suite |-> <<MixedQuestion("M1", <<c1, c2>>)>>,
   intents |-> {"MIXED", NoIntent},
   rankings |-> {<<c1, c2>>, <<>>}, grades |-> {0, 1000}, statements |-> 2]

Two ==
  [requests |-> 0, suite |-> <<SentimentQuestion("S1", <<c1, c2>>), GrowthQuestion("G1", <<c1>>)>>,
   intents |-> {"SENTIMENT", "GROWTH"}, rankings |-> {<<c2, c1>>}, grades |-> {1000}, statements |-> 1]

MCScenarios == {Watched, Mixed, Two}
================================================================================
