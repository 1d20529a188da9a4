------------------------- MODULE FinancialGraphProofs -------------------------
(***************************************************************************)
(* What the reviewer guarantees, for any database, any cohort, any retry   *)
(* limit and anything the models write.                                    *)
(***************************************************************************)
EXTENDS FinancialGraph, FiniteSetTheorems, TLAPS

\* A cohort, once the question has named it, bounds the ranking.
RankedEligible == candidates # {} => ranked \subseteq candidates

\* Where nothing has been ranked yet.
BeforeRanking == {"intent", "planner", "retrieval", "scoring"}

IInv ==
  /\ TypeOK
  /\ node \in BeforeRanking => ranked = {}
  /\ RankedEligible
  /\ node # "end" => report.shown = {}
  /\ GroundedUnlessRepeating

-----------------------------------------------------------------------------
\* The retry limit is a number.
LEMMA RetryLimit == MaxRetries \in Nat
BY GraphAssumption

\* A company of a draft cites citations.
LEMMA CitesCitations ==
  ASSUME TypeOK, NEW c \in Companies
  PROVE  draft.companies[c].cites \subseteq Citations
<1>1. draft.companies \in [Companies -> CompanyDrafts \cup {Absent}]
  BY DEF TypeOK, Drafts, EmptyDraft
<1>2. draft.companies[c] \in CompanyDrafts \cup {Absent}
  BY <1>1
<1>3. CompanyDrafts \subseteq
        [cites : SUBSET Citations, says : SUBSET Remarks]
  BY GraphAssumption
<1> QED BY <1>2, <1>3 DEF Absent

\* A flag names a check, what it is about, and the citation it rejects.
LEMMA FlagType ==
  ASSUME NEW check \in {"uncited", "unretrieved", "company", "citation", "claim"},
         NEW about \in Companies \cup Claims \cup {"all"}, NEW item \in Citations \cup {"none"}
  PROVE  Flag(check, about, item) \in Flags
BY DEF Flag, Flags

\* What the judge says is flags.
LEMMA VerdictFlags ==
  ASSUME NEW verdict \in Verdicts
  PROVE  verdict.flags \subseteq Flags
<1>1. Flag("claim", "all", "none") \in Flags
  BY FlagType
<1>2. {Flag("claim", c, "none") : c \in Claims} \subseteq Flags
  BY FlagType
<1>3. CASE \A c \in Covered : "claim" \notin draft.companies[c].says
  BY <1>3 DEF Verdicts
<1>4. CASE ~(\A c \in Covered : "claim" \notin draft.companies[c].says) /\ \A c \in ranked : evidence[c] = {}
  <2>1. verdict \in {[rate |-> "high", flags |-> {Flag("claim", "all", "none")}]}
    BY <1>4 DEF Verdicts
  <2> QED BY <1>1, <2>1
<1>5. CASE ~(\A c \in Covered : "claim" \notin draft.companies[c].says) /\ ~(\A c \in ranked : evidence[c] = {})
  <2>1. \/ verdict \in [rate : {"low", "high"},
                        flags : SUBSET {Flag("claim", c, "none") : c \in Claims}]
        \/ verdict = [rate |-> "unavailable", flags |-> {}]
    BY <1>5 DEF Verdicts
  <2> QED BY <1>2, <2>1
<1> QED BY <1>3, <1>4, <1>5

\* What is sent back is flags.
LEMMA ActionableTypes ==
  ASSUME TypeOK, NEW verdict \in Verdicts
  PROVE  Actionable(verdict) \subseteq Flags
<1>1. Covered \subseteq Companies /\ ranked \subseteq Companies
  BY DEF TypeOK, Covered
<1>2. MissingEvidence \subseteq Flags
  <2>1. \A c \in Covered : Flag("uncited", c, "none") \in Flags
    BY <1>1, FlagType
  <2> QED BY <2>1 DEF MissingEvidence
<1>3. RetrievalEvidence \subseteq Flags
  <2>1. \A c \in ranked : Flag("unretrieved", c, "none") \in Flags
    BY <1>1, FlagType
  <2> QED BY <2>1 DEF RetrievalEvidence
<1>4. CompanyFlags \subseteq Flags
  <2>1. \A c \in Covered : Flag("company", c, "none") \in Flags
    BY <1>1, FlagType
  <2> QED BY <2>1 DEF CompanyFlags
<1>5. CitationFlags \subseteq Flags
  <2>1. ASSUME NEW c \in Covered, NEW s \in draft.companies[c].cites
        PROVE  Flag("citation", c, s) \in Flags
    BY <1>1, CitesCitations, FlagType
  <2> QED BY <2>1 DEF CitationFlags
<1> QED BY <1>2, <1>3, <1>4, <1>5, VerdictFlags DEF Actionable, EvidenceFlags

\* A retry is decided only on a draft that is not good, below the limit, and
\* never on repeated flags.
LEMMA RetryDecided ==
  ASSUME NEW verdict, Decision(verdict) = "retry"
  PROVE  QualityFailure(verdict) /\ ~Repeats(verdict) /\ ~(retries >= MaxRetries)
<1>1. verdict.rate # "unavailable"
  BY DEF Decision
<1>2. CASE QualityFailure(verdict)
  BY <1>1, <1>2 DEF Decision
<1>3. CASE ~QualityFailure(verdict)
  BY <1>1, <1>3 DEF Decision
<1> QED BY <1>2, <1>3

\* A draft the reviewer has nothing against is grounded in the ranking.
LEMMA CleanDraftIsGrounded ==
  ASSUME EvidenceFlags = {}, CitationFlags = {}, NEW c \in Covered
  PROVE  /\ c \in ranked
         /\ draft.companies[c].cites # {} /\ draft.companies[c].cites \subseteq evidence[c]
<1>1. draft.companies[c].cites # {}
  BY DEF EvidenceFlags, MissingEvidence
<1>2. draft.companies[c].cites \subseteq Citable(c)
  BY DEF CitationFlags
<1> QED BY <1>1, <1>2 DEF Citable

-----------------------------------------------------------------------------
\* The initial state satisfies the invariant.
LEMMA InitInvariant == Init => IInv
<1> SUFFICES ASSUME Init PROVE IInv
  OBVIOUS
<1>1. TypeOK
  <2>1. retries \in 0 .. MaxRetries
    BY RetryLimit DEF Init
  <2>2. report \in [decision : Decisions, shown : SUBSET Companies, withheld : BOOLEAN]
    BY DEF Init, NoReport, Decisions
  <2>3. evidence \in [Companies -> SUBSET EvidenceKinds] /\ found \in [Sources -> SUBSET Companies]
    BY DEF Init
  <2> QED BY <2>1, <2>2, <2>3 DEF Init, TypeOK
<1> QED BY <1>1 DEF Init, NoReport, IInv, RankedEligible, GroundedUnlessRepeating, Grounded

\* The verdict that lets a draft through either found nothing against it or
\* found what was found before.
LEMMA ReviewKept ==
  ASSUME IInv, Review
  PROVE  IInv'
<1> USE DEF IInv
<1>0. /\ node = "reviewer" /\ report.shown = {}
      /\ UNCHANGED <<intent, candidates, found, ranked, evidence, draft>>
  BY DEF Review
<1>1. RankedEligible'
  BY <1>0 DEF RankedEligible
<1>2. ASSUME node' = "failed", UNCHANGED <<feedback, previous, retries, report>>
      PROVE  IInv'
  BY <1>0, <1>1, <1>2 DEF TypeOK, BeforeRanking, GroundedUnlessRepeating, Grounded
<1>3. ASSUME NEW verdict \in Verdicts, Decision(verdict) = "retry", Resend(verdict)
      PROVE  IInv'
  <2>1. Actionable(verdict) \subseteq Flags
    BY ActionableTypes
  <2>2. retries < MaxRetries
    BY <1>3, RetryDecided, RetryLimit DEF TypeOK
  <2>3. TypeOK'
    <3>1. retries' \in 0 .. MaxRetries
      BY <1>3, <2>2, RetryLimit DEF TypeOK, Resend
    <3>2. feedback' \subseteq Flags /\ previous' \subseteq Flags
      BY <1>3, <2>1 DEF Resend
    <3> QED BY <1>0, <1>3, <3>1, <3>2 DEF TypeOK, Resend
  <2> QED BY <1>0, <1>1, <1>3, <2>3 DEF Resend, BeforeRanking, GroundedUnlessRepeating, Grounded
<1>4. ASSUME NEW verdict \in Verdicts, Decision(verdict) # "retry",
             NEW shown \in IF Withheld(Decision(verdict)) THEN {{}} ELSE FirstFew(Covered),
             Stop(Decision(verdict), shown, Withheld(Decision(verdict))),
             UNCHANGED <<previous, retries>>
      PROVE  IInv'
  <2>1. shown \subseteq Covered
    BY DEF FirstFew
  <2>2. Covered \subseteq Companies
    BY DEF Covered
  <2>3. Decision(verdict) \in Decisions /\ Withheld(Decision(verdict)) \in BOOLEAN
    BY <1>4 DEF Decision, Decisions, Withheld
  <2>4. TypeOK'
    BY <1>0, <1>4, <2>1, <2>2, <2>3 DEF TypeOK, Stop
  <2>5. report'.shown = shown /\ node' = "end"
    BY <1>4 DEF Stop
  <2>6. CASE Withheld(Decision(verdict))
    BY <1>0, <1>1, <1>4, <2>4, <2>5, <2>6 DEF BeforeRanking, GroundedUnlessRepeating, Grounded
  <2>7. CASE ~Withheld(Decision(verdict))
    <3>1. Decision(verdict) = "approved"
      BY <1>4, <2>7 DEF Decision, Withheld
    <3>2. QualityFailure(verdict) => Repeats(verdict)
      BY <3>1 DEF Decision
    <3>3. ASSUME QualityFailure(verdict) PROVE StoppedRepeating'
      <4>1. previous # {}
        BY <3>2, <3>3 DEF Repeats
      <4>2. Verdicts' = Verdicts
        BY <1>0 DEF Verdicts, Covered
      <4>3. Actionable(verdict)' = Actionable(verdict) /\ QualityFailure(verdict)'
        BY <1>0, <3>3
        DEF Actionable, QualityFailure, EvidenceFlags, MissingEvidence, RetrievalEvidence,
            CitationFlags, CompanyFlags, Covered, Citable, Flag
      <4>4. Repeats(verdict)'
        BY <1>4, <3>2, <3>3, <4>3 DEF Repeats
      <4> QED BY <1>4, <4>1, <4>2, <4>3, <4>4 DEF StoppedRepeating
    <3>4. ASSUME ~QualityFailure(verdict) PROVE Grounded'
      <4>1. EvidenceFlags = {} /\ CitationFlags = {}
        BY <3>4 DEF QualityFailure
      <4>2. \A c \in Covered :
               /\ c \in ranked
               /\ draft.companies[c].cites # {} /\ draft.companies[c].cites \subseteq evidence[c]
        BY <4>1, CleanDraftIsGrounded
      <4> QED BY <1>0, <2>1, <2>5, <4>2 DEF Grounded
    <3> QED BY <1>0, <1>1, <2>4, <2>5, <3>3, <3>4 DEF BeforeRanking, GroundedUnlessRepeating
  <2> QED BY <2>6, <2>7
<1> QED BY <1>2, <1>3, <1>4 DEF Review, Fails

\* Every step preserves the invariant.
LEMMA NextInvariant == IInv /\ [Next]_vars => IInv'
<1> SUFFICES ASSUME IInv, [Next]_vars PROVE IInv'
  OBVIOUS
<1> USE DEF IInv, BeforeRanking
<1>a. ASSUME report'.shown = {} PROVE GroundedUnlessRepeating'
  BY <1>a DEF GroundedUnlessRepeating, Grounded
<1>b. TypeOK /\ GraphAssumption
  BY GraphAssumption
<1>1. CASE Classify
  <2>1. report'.shown = {}
    BY <1>1 DEF Classify, Fails
  <2>2. TypeOK'
    <3>1. intent' \in Intents \cup {"none"} /\ node' \in {"end", "planner", "failed"}
      BY <1>b, <1>1 DEF Classify, Fails, TypeOK
    <3>2. report' \in [decision : Decisions, shown : SUBSET Companies, withheld : BOOLEAN]
      <4>1. \/ report' = report
            \/ report' = [decision |-> "OUT_OF_SCOPE", shown |-> {}, withheld |-> FALSE]
        BY <1>1 DEF Classify
      <4>2. report \in [decision : Decisions, shown : SUBSET Companies, withheld : BOOLEAN]
        BY <1>b DEF TypeOK
      <4>3. "OUT_OF_SCOPE" \in Decisions
        BY DEF Decisions
      <4>4. [decision |-> "OUT_OF_SCOPE", shown |-> {}, withheld |-> FALSE]
               \in [decision : Decisions, shown : SUBSET Companies, withheld : BOOLEAN]
        BY <4>3
      <4> QED BY <4>1, <4>2, <4>4
    <3> QED BY <1>b, <1>1, <3>1, <3>2 DEF Classify, TypeOK
  <2> QED BY <1>1, <1>a, <2>1, <2>2 DEF Classify, Fails, RankedEligible
<1>2. CASE Plan
  <2>1. TypeOK'
    BY <1>b, <1>2 DEF Plan, TypeOK
  <2> QED BY <1>2, <1>a, <2>1 DEF Plan, RankedEligible
<1>3. CASE Retrieve
  <2>1. TypeOK'
    BY <1>b, <1>3 DEF Retrieve, Fails, TypeOK
  <2> QED BY <1>3, <1>a, <2>1 DEF Retrieve, Fails, RankedEligible
<1>4. CASE Score
  <2>1. PICK P \in Population : ranked' \subseteq P
    BY <1>4 DEF Score
  <2>2. P \subseteq Companies
    BY <1>b DEF Population, TypeOK, Sources
  <2>3. evidence' \in [Companies -> SUBSET EvidenceKinds]
    BY <1>4 DEF Score, Evidence, EvidenceKinds
  <2>4. found' \in [Sources -> SUBSET Companies]
    BY <1>4, <1>b DEF Score, TypeOK
  <2>5. TypeOK'
    BY <1>b, <1>4, <2>1, <2>2, <2>3, <2>4 DEF Score, TypeOK
  <2>6. RankedEligible'
    BY <1>4, <2>1 DEF RankedEligible, Population, Score
  <2> QED BY <1>4, <1>a, <2>5, <2>6 DEF Score
<1>5. CASE Rerank
  <2>1. evidence' \in [Companies -> SUBSET EvidenceKinds]
    BY <1>5 DEF Rerank, Evidence, EvidenceKinds
  <2>2. TypeOK'
    BY <1>b, <1>5, <2>1 DEF Rerank, TypeOK
  <2> QED BY <1>5, <1>a, <2>2 DEF Rerank, RankedEligible
<1>6. CASE Analyse
  <2>1. TypeOK'
    BY <1>b, <1>6 DEF Analyse, TypeOK
  <2> QED BY <1>6, <1>a, <2>1 DEF Analyse, RankedEligible
<1>7. CASE ReviewEmpty
  <2>1. report'.shown = {} /\ TypeOK'
    BY <1>b, <1>7 DEF ReviewEmpty, TypeOK, Decisions
  <2> QED BY <1>7, <1>a, <2>1 DEF ReviewEmpty, RankedEligible
<1>8. CASE Review
  BY <1>8, ReviewKept
<1>9. CASE UNCHANGED vars
  <2>1. TypeOK' /\ RankedEligible' /\ (node' # "end" => report'.shown = {})
    BY <1>9 DEF vars, TypeOK, RankedEligible
  <2>2. Grounded' <=> Grounded
    BY <1>9 DEF vars, Grounded
  <2>3. Verdicts' = Verdicts
    BY <1>9 DEF vars, Verdicts, Covered, Flag
  <2>4. ASSUME NEW v PROVE (QualityFailure(v) /\ Repeats(v))' <=> QualityFailure(v) /\ Repeats(v)
    BY <1>9
    DEF vars, QualityFailure, Repeats, Actionable, EvidenceFlags, MissingEvidence,
        RetrievalEvidence, CitationFlags, CompanyFlags, Citable, Covered, Flag
  <2>5. StoppedRepeating' <=> StoppedRepeating
    BY <1>9, <2>3, <2>4 DEF vars, StoppedRepeating
  <2> QED BY <1>9, <2>1, <2>2, <2>5 DEF vars, GroundedUnlessRepeating
<1> QED BY <1>1, <1>2, <1>3, <1>4, <1>5, <1>6, <1>7, <1>8, <1>9 DEF Next

\* The inductive invariant of a run.
THEOREM Invariant == Spec => []IInv
BY InitInvariant, NextInvariant, PTL DEF Spec

\* Every variable keeps its type; in particular retry_count its bound.
THEOREM TypeCorrect == Spec => []TypeOK
<1>1. IInv => TypeOK
  BY DEF IInv
<1> QED BY <1>1, Invariant, PTL

\* No company is shown that was not ranked, and no citation that is not of the
\* evidence attached to it, unless the reviewer stopped on repeated feedback.
THEOREM ShownIsGrounded == Spec => []GroundedUnlessRepeating
<1>1. IInv => GroundedUnlessRepeating
  BY DEF IInv
<1> QED BY <1>1, Invariant, PTL

\* A question about a cohort is answered about that cohort.
THEOREM ShownIsEligible == Spec => []EligibleUnlessRepeating
<1>1. IInv => EligibleUnlessRepeating
  BY DEF IInv, GroundedUnlessRepeating, Grounded, RankedEligible, EligibleUnlessRepeating
<1> QED BY <1>1, Invariant, PTL

\* The first few of a draft that covers somebody are somebody.
LEMMA FirstFewAreSome ==
  ASSUME Covered # {}, NEW shown \in FirstFew(Covered)
  PROVE  shown # {}
<1>1. IsFiniteSet(Covered)
  BY GraphAssumption, FS_Subset DEF Covered
<1>2. Cardinality(Covered) \in Nat /\ Cardinality(Covered) # 0
  BY <1>1, FS_EmptySet, FS_CardinalityType
<1>3. Cardinality(shown) # 0
  BY <1>2, GraphAssumption DEF FirstFew
<1> QED BY <1>3, FS_EmptySet

\* A run ends in three places, and each of them says why nobody is shown.
LEMMA EndKept ==
  ASSUME TypeOK, EndsWithReason, [Next]_vars
  PROVE  EndsWithReason'
<1> USE DEF EndsWithReason
<1>1. CASE Classify
  BY <1>1 DEF Classify, Fails
<1>2. CASE Plan \/ Retrieve \/ Score \/ Rerank \/ Analyse
  BY <1>2 DEF Plan, Retrieve, Score, Rerank, Analyse, Fails
<1>3. CASE ReviewEmpty
  BY <1>3 DEF ReviewEmpty
<1>4. CASE Review
  <2>1. CASE node' # "end"
    BY <2>1
  <2>2. CASE node' = "end"
    <3>1. PICK verdict \in Verdicts :
            /\ draft.confidence # "unreadable"
            /\ Decision(verdict) # "retry"
            /\ \E shown \in IF Withheld(Decision(verdict)) THEN {{}} ELSE FirstFew(Covered) :
                 Stop(Decision(verdict), shown, Withheld(Decision(verdict)))
      BY <1>4, <2>2 DEF Review, Resend, Fails
    <3>2. PICK shown \in IF Withheld(Decision(verdict)) THEN {{}} ELSE FirstFew(Covered) :
            Stop(Decision(verdict), shown, Withheld(Decision(verdict)))
      BY <3>1
    <3>3. report' = [decision |-> Decision(verdict), shown |-> shown,
                     withheld |-> Withheld(Decision(verdict))]
      BY <3>2 DEF Stop
    <3>4. Decision(verdict) # "OUT_OF_SCOPE" /\ Covered # {} /\ draft' = draft
      BY <1>4 DEF Decision, Review
    <3>5. CASE Withheld(Decision(verdict))
      <4>1. shown = {}
        BY <3>2, <3>5
      <4>2. report'.withheld /\ report'.shown = {} /\ report'.decision # "OUT_OF_SCOPE"
        BY <3>3, <3>4, <3>5, <4>1
      <4> QED BY <4>2
    <3>6. CASE ~Withheld(Decision(verdict))
      <4>1. shown # {}
        BY <3>2, <3>4, <3>6, FirstFewAreSome
      <4>2. Decision(verdict) = "approved" /\ draft.confidence # "weak"
        BY <3>1, <3>6 DEF Withheld, Decision
      <4>3. ~report'.withheld /\ report'.shown # {} /\ report'.decision = "approved"
        BY <3>3, <3>6, <4>1, <4>2
      <4>4. draft.confidence \in Confidences
        BY DEF TypeOK, Drafts, EmptyDraft, Confidences
      <4>5. draft'.confidence = "fair"
        BY <3>1, <3>4, <4>2, <4>4 DEF Confidences
      <4> QED BY <4>3, <4>5
    <3> QED BY <3>5, <3>6
  <2> QED BY <2>1, <2>2
<1>5. CASE UNCHANGED vars
  BY <1>5 DEF vars
<1> QED BY <1>1, <1>2, <1>3, <1>4, <1>5 DEF Next

\* A finished run shows companies exactly when it was approved with a fair
\* confidence, and withholds exactly when it was started on and was not.
THEOREM EndsExplained == Spec => []EndsWithReason
<1>1. Init => EndsWithReason
  BY DEF Init, EndsWithReason
<1> QED BY <1>1, EndKept, TypeCorrect, PTL DEF Spec

\* A retry that repeats the one before carries no flag, only the judge's bare
\* rate sends one back without, and there are at most MaxRetries of them.
THEOREM RepeatsAreMute == Spec => OnlyMuteRetriesRepeat
<1>1. TypeOK /\ [Next]_vars =>
        [node = "reviewer" /\ node' = "analysis" =>
           /\ feedback' = previous => feedback' = {}
           /\ feedback' = {} => OnlyTheJudgeObjects
           /\ retries' > retries /\ retries' <= MaxRetries]_vars
  <2> SUFFICES ASSUME TypeOK, Next, node = "reviewer", node' = "analysis"
               PROVE  /\ feedback' = previous => feedback' = {}
                      /\ feedback' = {} => OnlyTheJudgeObjects
                      /\ retries' > retries /\ retries' <= MaxRetries
    OBVIOUS
  <2>1. PICK verdict \in Verdicts : Decision(verdict) = "retry" /\ Resend(verdict)
    BY DEF Next, Classify, Plan, Retrieve, Score, Rerank, Analyse, ReviewEmpty, Review, Stop, Fails
  <2>2. QualityFailure(verdict) /\ ~Repeats(verdict) /\ ~(retries >= MaxRetries)
    BY <2>1, RetryDecided
  <2>3. feedback' = Actionable(verdict)
    BY <2>1 DEF Resend
  <2>4. feedback' = previous => feedback' = {}
    BY <2>2, <2>3 DEF Repeats
  <2>5. ASSUME feedback' = {} PROVE OnlyTheJudgeObjects
    <3>1. /\ verdict.flags = {} /\ EvidenceFlags = {} /\ CitationFlags = {}
          /\ EvidenceFlags \cup CitationFlags \cup CompanyFlags = {}
      BY <2>3, <2>5 DEF Actionable
    <3>2. verdict.rate = "high"
      BY <2>2, <3>1 DEF QualityFailure
    <3>3. \E c \in Covered : "claim" \in draft.companies[c].says
      <4>1. CASE \A c \in Covered : "claim" \notin draft.companies[c].says
        <5>1. Verdicts = {[rate |-> "low", flags |-> {}]}
          BY <4>1 DEF Verdicts
        <5> QED BY <3>2, <5>1
      <4> QED BY <4>1
    <3>4. \E c \in ranked : evidence[c] # {}
      <4>1. CASE \A c \in ranked : evidence[c] = {}
        <5>1. Verdicts = {[rate |-> "high", flags |-> {Flag("claim", "all", "none")}]}
          BY <3>3, <4>1 DEF Verdicts
        <5>2. verdict.flags # {}
          BY <5>1
        <5> QED BY <3>1, <5>2
      <4> QED BY <4>1
    <3> QED BY <3>1, <3>3, <3>4 DEF OnlyTheJudgeObjects
  <2>6. retries \in Nat /\ MaxRetries \in Nat /\ retries' = retries + 1
    BY <2>1, RetryLimit DEF Resend, TypeOK
  <2> QED BY <2>2, <2>4, <2>5, <2>6
<1> QED BY <1>1, TypeCorrect, PTL DEF Spec, OnlyMuteRetriesRepeat
=============================================================================
