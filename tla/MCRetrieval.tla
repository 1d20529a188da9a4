------------------------------ MODULE MCRetrieval ------------------------------
(***************************************************************************)
(* Instances of RankedEvidence for TLC.                                    *)
(***************************************************************************)
EXTENDS RankedEvidence

CONSTANTS a, b, q1, q2, q3, d1, d2

\* A question with a theme, a name and a sector; each lookup can also fail.
MCQuestions == {[theme |-> {a}, named |-> {b}, sector |-> {b}]}

\* A query returns both companies or nothing; the rows that name nobody are
\* those a branch without a result leaves.
MCRowSets == {<<>>, <<b, a>>}

\* The closest document is b's, and mentions a.
MCChunkOrder == <<d1, d2>>
MCOwner == (d1 :> b) @@ (d2 :> a)
MCMentions == (d1 :> {a}) @@ (d2 :> {})
MCSimilarity == (d1 :> 900) @@ (d2 :> 400)
MCPositive == (d1 :> 2) @@ (d2 :> 0)
MCNegative == (d1 :> 1) @@ (d2 :> 0)

MCMetrics == (a :> [pe |-> 30, growth |-> 150, eps |-> 2]) @@ (b :> [pe |-> 90, growth |-> 900, eps |-> 1])
MCPriceChange == (a :> 4) @@ (b :> -3)
MCByGrowth == <<b, a>>

\* The model scores nobody, or contradicts the numbers.
MCOpinions == {<<>>, (a :> 1000) @@ (b :> 100)}

===============================================================================
