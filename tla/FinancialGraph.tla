---------------------------- MODULE FinancialGraph ----------------------------
(***************************************************************************)
(* One question on its way through the agent graph (graph/                 *)
(* financial_graph.py): classified, planned, retrieved for, scored, drafted *)
(* by a model and reviewed by another, with the retry loop between the     *)
(* last two. Everything a model returns is chosen freely: the graph's own  *)
(* checks are what the properties rest on.                                 *)
(***************************************************************************)
EXTENDS Naturals, FiniteSets

CONSTANTS
  Intents,       \* what intent_node can answer; GROWTH goes VALUATION's way
  Companies,     \* the companies of the database
  Measured,      \* those with a number in financial_metrics
  Cohorts,       \* what the theme, name and sector lookups can answer
  CompanyDrafts, \* what a model can write of a company; a bound
  Claims,        \* the sentences the judge can flag; a bound
  TopLimit,      \* TOP_COMPANIES_LIMIT, TOP_N_FINAL and MAX_COMPANIES (5)
  MaxRetries     \* MAX_RETRIES (3)

Sources == {"sql", "vector", "market"}

\* An item of evidence is a row of numbers or something retrieved; a citation
\* that is neither names no item, or is left out.
EvidenceKinds == {"metrics", "retrieved"}
Citations == EvidenceKinds \cup {"bogus", "missing"}

\* A model names a company, makes a claim about it, and may flag it itself.
Remarks == {"name", "claim", "flag"}

MetricsIntents == {"VALUATION", "GROWTH"}
Confidences == {"unreadable", "weak", "fair"}

ASSUME GraphAssumption ==
  /\ Intents \subseteq {"VALUATION", "GROWTH", "SENTIMENT", "MIXED", "OUT_OF_SCOPE"}
  /\ IsFiniteSet(Companies) /\ Measured \subseteq Companies
  /\ Cohorts \subseteq SUBSET Companies
  /\ CompanyDrafts \subseteq [cites : SUBSET Citations, says : SUBSET Remarks]
  /\ TopLimit \in Nat \ {0} /\ MaxRetries \in Nat

VARIABLES
  node,       \* the node the graph is about to run
  intent,
  candidates, \* candidate_tickers: the cohort the question named
  found,      \* the companies each retrieval branch returned something about
  ranked,     \* ranked_companies
  evidence,   \* the kinds of evidence attached to each of them
  draft,      \* draft_report
  feedback,   \* review_feedback
  previous,   \* previous_review_feedback
  retries,    \* retry_count
  report      \* final_report

vars == <<node, intent, candidates, found, ranked, evidence, draft, feedback, previous,
          retries, report>>

\* A draft covers the companies it names, and names an intent.
Absent == [cites |-> {}, says |-> {}]

EmptyDraft(origin) ==
  [companies |-> [c \in Companies |-> Absent], confidence |-> "weak", intent |-> "MIXED",
   origin |-> origin]

Drafts ==
  [companies : [Companies -> CompanyDrafts \cup {Absent}], confidence : Confidences,
   intent : {"VALUATION", "MIXED"}, origin : {"model"}]

NoReport == [decision |-> "none", shown |-> {}, withheld |-> FALSE]

Init ==
  /\ node = "intent"
  /\ intent = "none"
  /\ candidates = {}
  /\ found = [s \in Sources |-> {}]
  /\ ranked = {}
  /\ evidence = [c \in Companies |-> {}]
  /\ draft = EmptyDraft("model")
  /\ feedback = {}
  /\ previous = {}
  /\ retries = 0
  /\ report = NoReport

\* A node raises: the invocation fails and the caller gets the exception.
Fails == node' = "failed"

-----------------------------------------------------------------------------
\* Before the draft.

\* intent_node. A model call that raises takes the run down; a refused
\* question is answered here.
Classify ==
  /\ node = "intent"
  /\ \/ /\ \E i \in Intents : intent' = i
        /\ IF intent' = "OUT_OF_SCOPE"
           THEN node' = "end" /\ report' = [decision |-> "OUT_OF_SCOPE", shown |-> {}, withheld |-> FALSE]
           ELSE node' = "planner" /\ UNCHANGED report
     \/ Fails /\ UNCHANGED <<intent, report>>
  /\ UNCHANGED <<candidates, found, ranked, evidence, draft, feedback, previous, retries>>

\* planner_node: plan_query falls back when its model fails, the resolver
\* answers with nobody when the database does.
Plan ==
  /\ node = "planner"
  /\ candidates' \in Cohorts \cup {{}}
  /\ node' = "retrieval"
  /\ UNCHANGED <<intent, found, ranked, evidence, draft, feedback, previous, retries, report>>

\* The branches hybrid_retrieve_async runs for an intent: the market one only
\* when the plan or the cohort gives it something to ask for.
Branches ==
  CASE intent \in MetricsIntents -> {"sql"}
    [] intent = "SENTIMENT"      -> {"vector"}
    [] OTHER                     -> Sources

\* retrieval_node: a branch that fails, times out or is not asked contributes
\* nothing, and the others go on. The timer around all of MIXED's branches
\* raises.
Retrieve ==
  /\ node = "retrieval"
  /\ \/ /\ found' \in [Sources -> SUBSET Companies]
        /\ \A s \in Sources \ Branches : found'[s] = {}
        /\ node' = "scoring"
     \/ intent = "MIXED" /\ Fails /\ UNCHANGED found
  /\ UNCHANGED <<intent, candidates, ranked, evidence, draft, feedback, previous, retries, report>>

\* Mutant: the cohort is used only when no branch found anybody.
Population_CohortLast ==
  IF found["market"] \cup found["sql"] # {} THEN {found["market"] \cup found["sql"]}
  ELSE IF candidates # {} THEN {candidates} ELSE Cohorts \cup {Companies}

\* Whom rerank ranks: the cohort; without one whom the branches found; without
\* those a sector named in the question, or the whole database.
Population ==
  IF candidates # {} THEN {candidates}
  ELSE IF found["market"] \cup found["sql"] # {} THEN {found["market"] \cup found["sql"]}
  ELSE Cohorts \cup {Companies}

\* attach_company_evidence, from the raw retrieval results.
Evidence(c) ==
  (IF c \in Measured THEN {"metrics"} ELSE {})
    \cup (IF \E s \in Sources : c \in found[s] THEN {"retrieved"} ELSE {})

\* scoring_node: the best of the population, and nobody when it raises. What
\* was retrieved is read again only by the reranker.
Score ==
  /\ node = "scoring"
  /\ \E P \in Population : \E T \in SUBSET P :
       /\ Cardinality(T) <= TopLimit
       /\ ranked' = T
       /\ evidence' = [c \in Companies |-> IF c \in T /\ intent # "MIXED" THEN Evidence(c) ELSE {}]
  /\ node' = IF intent = "MIXED" THEN "reranker" ELSE "analysis"
  /\ found' = IF intent = "MIXED" THEN found ELSE [s \in Sources |-> {}]
  /\ UNCHANGED <<intent, candidates, draft, feedback, previous, retries, report>>

\* reranker_node attaches the evidence for MIXED: the records a model selected,
\* or the raw results for a company it selected none for.
Rerank ==
  /\ node = "reranker"
  /\ evidence' = [c \in Companies |-> IF c \in ranked THEN Evidence(c) ELSE {}]
  /\ node' = "analysis"
  /\ found' = [s \in Sources |-> {}]
  /\ UNCHANGED <<intent, candidates, ranked, draft, feedback, previous, retries, report>>

-----------------------------------------------------------------------------
\* The loop.

\* analysis_node: nothing to analyse; a refused call; an answer that does not
\* parse; a draft.
Analyse ==
  /\ node = "analysis"
  /\ IF ranked = {}
     THEN draft' = EmptyDraft("model") /\ UNCHANGED feedback
     ELSE /\ feedback' = {}
          /\ draft' \in {EmptyDraft("refusal"), EmptyDraft("model")} \cup Drafts
  /\ node' = "reviewer"
  /\ UNCHANGED <<intent, candidates, found, ranked, evidence, previous, retries, report>>

Covered == {c \in Companies : "name" \in draft.companies[c].says}

\* A flag is a sentence: which check raised it, and about what.
Flag(check, about, item) == [check |-> check, about |-> about, item |-> item]

\* _check_missing_evidence
MissingEvidence ==
  {Flag("uncited", c, "none") : c \in {c \in Covered : draft.companies[c].cites = {}}}

\* _check_retrieval_evidence looks at the ranking, and at the intent the draft
\* names: numbers alone do for a question about numbers.
RetrievalEvidence ==
  {Flag("unretrieved", c, "none") : c \in
     {c \in ranked : \/ evidence[c] = {}
                     \/ evidence[c] = {"metrics"} /\ draft.intent \notin MetricsIntents}}

\* _check_company_flags
CompanyFlags ==
  {Flag("company", c, "none") : c \in {c \in Covered : "flag" \in draft.companies[c].says}}

\* Mutant: only the shape of a citation is checked.
Citable_Anything(c) == EvidenceKinds \cup {"bogus"}

\* The citation ids a company's evidence has.
Citable(c) == IF c \in ranked THEN evidence[c] ELSE {}

\* _check_citations
CitationFlags ==
  UNION {{Flag("citation", c, s) : s \in draft.companies[c].cites \ Citable(c)} : c \in Covered}

\* _llm_hallucination_check: no claims, no finding; claims and no evidence, the
\* worst one; otherwise the judge's verdict, or none when it cannot be had.
Verdicts ==
  IF \A c \in Covered : "claim" \notin draft.companies[c].says
  THEN {[rate |-> "low", flags |-> {}]}
  ELSE IF \A c \in ranked : evidence[c] = {}
  THEN {[rate |-> "high", flags |-> {Flag("claim", "all", "none")}]}
  ELSE [rate : {"low", "high"}, flags : SUBSET {Flag("claim", x, "none") : x \in Claims}]
       \cup {[rate |-> "unavailable", flags |-> {}]}

EvidenceFlags == MissingEvidence \cup RetrievalEvidence

\* actionable_feedback
Actionable(verdict) == verdict.flags \cup EvidenceFlags \cup CitationFlags \cup CompanyFlags

QualityFailure(verdict) ==
  verdict.rate = "high" \/ EvidenceFlags # {} \/ CitationFlags # {}

\* Mutant: the flags are compared with the field that the analysis node has
\* emptied.
Repeats_WorkingField(verdict) == Actionable(verdict) # {} /\ Actionable(verdict) = feedback

\* This attempt would be sent back with exactly what the last one was.
Repeats(verdict) == Actionable(verdict) # {} /\ Actionable(verdict) = previous

\* Mutant: one attempt too many.
Decision_OneMore(verdict) ==
  IF verdict.rate = "unavailable" THEN "withheld_review_unavailable"
  ELSE IF QualityFailure(verdict) /\ retries > MaxRetries THEN "forced_pass"
  ELSE IF QualityFailure(verdict) /\ ~Repeats(verdict) THEN "retry"
  ELSE "approved"

\* run_reviewer
Decision(verdict) ==
  IF verdict.rate = "unavailable" THEN "withheld_review_unavailable"
  ELSE IF QualityFailure(verdict) /\ retries >= MaxRetries THEN "forced_pass"
  ELSE IF QualityFailure(verdict) /\ ~Repeats(verdict) THEN "retry"
  ELSE "approved"

\* Mutant: only a weak draft is withheld.
Withheld_WeakOnly(decision) == draft.confidence = "weak"

\* Why build_final_output withholds; decide_escalation is its first reason.
Withheld(decision) ==
  \/ draft.confidence = "weak"
  \/ decision \in {"forced_pass", "withheld_review_unavailable"}

FirstFew(S) == {T \in SUBSET S : Cardinality(T) = IF Cardinality(S) < TopLimit
                                                  THEN Cardinality(S) ELSE TopLimit}

\* reviewer_node stops: on a draft with nothing in it, or with a decision.
Stop(decision, shown, withheld) ==
  /\ report' = [decision |-> decision, shown |-> shown, withheld |-> withheld]
  /\ node' = "end"
  /\ feedback' = {}

ReviewEmpty ==
  /\ node = "reviewer" /\ Covered = {}
  /\ report' = [decision |-> IF draft.origin = "refusal" THEN "withheld_provider_unavailable"
                                              ELSE "withheld_empty_draft",
                shown |-> {}, withheld |-> TRUE]
  /\ node' = "end"
  /\ UNCHANGED <<intent, candidates, found, ranked, evidence, draft, feedback, previous, retries>>

\* Mutant: the attempt is not counted.
Resend_Uncounted(verdict) ==
  /\ node' = "analysis"
  /\ feedback' = Actionable(verdict)
  /\ previous' = Actionable(verdict)
  /\ UNCHANGED <<retries, report>>

\* The draft goes back to the analysis with the flags.
Resend(verdict) ==
  /\ node' = "analysis"
  /\ feedback' = Actionable(verdict)
  /\ previous' = Actionable(verdict)
  /\ retries' = retries + 1
  /\ UNCHANGED report

\* A confidence that is no number raises in _check_confidence, before anything
\* is decided.
Review ==
  /\ node = "reviewer" /\ Covered # {}
  /\ \/ /\ draft.confidence = "unreadable"
        /\ Fails /\ UNCHANGED <<feedback, previous, retries, report>>
     \/ /\ draft.confidence # "unreadable"
        /\ \E verdict \in Verdicts :
             LET decision == Decision(verdict) IN
             \/ decision = "retry" /\ Resend(verdict)
             \/ /\ decision # "retry"
                /\ \E shown \in IF Withheld(decision) THEN {{}} ELSE FirstFew(Covered) :
                     Stop(decision, shown, Withheld(decision))
                /\ UNCHANGED <<previous, retries>>
  /\ UNCHANGED <<intent, candidates, found, ranked, evidence, draft>>

Next ==
  \/ Classify
  \/ Plan
  \/ Retrieve
  \/ Score
  \/ Rerank
  \/ Analyse
  \/ ReviewEmpty
  \/ Review

Spec == Init /\ [][Next]_vars

\* The graph runs until its end: no node waits for another run.
FairSpec == Spec /\ WF_vars(Next)

-----------------------------------------------------------------------------
\* Properties.

Decisions ==
  {"none", "OUT_OF_SCOPE", "approved", "forced_pass", "withheld_review_unavailable",
   "withheld_provider_unavailable", "withheld_empty_draft"}

Flags ==
  [check : {"uncited", "unretrieved", "company", "citation", "claim"},
   about : Companies \cup Claims \cup {"all"}, item : Citations \cup {"none"}]

TypeOK ==
  /\ node \in {"intent", "planner", "retrieval", "scoring", "reranker", "analysis",
               "reviewer", "end", "failed"}
  /\ intent \in Intents \cup {"none"}
  /\ candidates \in SUBSET Companies
  /\ found \in [Sources -> SUBSET Companies]
  /\ ranked \subseteq Companies
  /\ evidence \in [Companies -> SUBSET EvidenceKinds]
  /\ draft \in Drafts \cup {EmptyDraft("model"), EmptyDraft("refusal")}
  /\ feedback \subseteq Flags
  /\ previous \subseteq Flags
  /\ retries \in 0 .. MaxRetries
  /\ report \in [decision : Decisions, shown : SUBSET Companies, withheld : BOOLEAN]

\* The ranking was rejected with the very flags the attempt before was
\* rejected with, so it was not sent back again.
StoppedRepeating == previous # {} /\ \E v \in Verdicts : QualityFailure(v) /\ Repeats(v)

\* Every company shown was ranked, the draft cites evidence for it, and cites
\* only evidence that is attached to it.
Grounded ==
  \A c \in report.shown :
    /\ c \in ranked
    /\ draft.companies[c].cites # {} /\ draft.companies[c].cites \subseteq evidence[c]

\* What is shown as reviewed is grounded, whatever the models write
\* (reviewer_node.py, run_reviewer): an invented company or citation is
\* withheld or sent back, unless the reviewer stopped for lack of anything new.
GroundedUnlessRepeating == Grounded \/ StoppedRepeating

\* A question that names a cohort is answered about that cohort, although the
\* branches retrieve and the models write about others (ranker.py, rerank).
EligibleUnlessRepeating ==
  candidates # {} => report.shown \subseteq candidates \/ StoppedRepeating

\* The reader is told why there is no ranking: a finished run shows companies
\* exactly when it is approved, and withholds exactly when it was started on
\* and is not.
EndsWithReason ==
  node = "end" =>
    /\ report.withheld <=> report.shown = {} /\ report.decision # "OUT_OF_SCOPE"
    /\ report.shown # {} => report.decision = "approved" /\ draft.confidence = "fair"

\* The draft passes every check that the code makes itself, and makes claims the
\* judge could look up.
OnlyTheJudgeObjects ==
  /\ EvidenceFlags \cup CitationFlags \cup CompanyFlags = {}
  /\ \E c \in Covered : "claim" \in draft.companies[c].says
  /\ \E c \in ranked : evidence[c] # {}

\* A retry that carries what the attempt before it carried is one that carries
\* nothing (reviewer_node.py, run_reviewer). Those do happen, although
\* actionable_feedback says of a retry that it can "no longer be dispatched with
\* nothing to say": the judge may rate a draft high and name no claim, twice
\* running as well. Nothing else sends back a mute retry, and all retries
\* together are at most MaxRetries.
OnlyMuteRetriesRepeat ==
  [][node = "reviewer" /\ node' = "analysis" =>
       /\ feedback' = previous => feedback' = {}
       /\ feedback' = {} => OnlyTheJudgeObjects
       /\ retries' > retries /\ retries' <= MaxRetries]_vars

\* Every question is answered, declined, withheld or failed in the end.
EveryRunEnds == <>(node \in {"end", "failed"})

\* The reviewer never shows as reviewed what it rejected (reviewer_node.py,
\* unresolved_flag_notice and build_final_output).
RejectedIsNeverShown == Grounded

=============================================================================
