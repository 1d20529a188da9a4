----------------------------- MODULE GradingProofs -----------------------------
(***************************************************************************)
(* Theorems about Grading: what people say of claims stands, no evaluator   *)
(* of a question that passes was outvoted, a finished run has a row for     *)
(* every claim and totals that are those of its rows, and administrators    *)
(* who take turns leave no default that cannot be used.                     *)
(***************************************************************************)
EXTENDS Grading, FiniteSetTheorems, TLAPS

-----------------------------------------------------------------------------
(* The labels of people. *)

\* Writing claims keeps the rows there are and what people said of them.
LEMMA UpsertKeepsHuman ==
  ASSUME NEW R, NEW k \in DOMAIN rows
  PROVE  k \in DOMAIN UpsertClaims(R) /\ UpsertClaims(R)[k].human = rows[k].human
BY DEF UpsertClaims

\* A step that moves the run on changes no label of a person.
LEMMA StepKeepsHuman ==
  ASSUME Next, at' # at, NEW k \in DOMAIN rows
  PROVE  k \in DOMAIN rows' /\ rows'[k].human = rows[k].human
<1>1. CASE Administer /\ UNCHANGED runVars
  BY <1>1 DEF runVars
<1>2. CASE Label
  BY <1>2 DEF Label
<1>3. CASE Persist
  BY <1>3, UpsertKeepsHuman DEF Persist
<1>4. CASE Finish
  BY <1>4, UpsertKeepsHuman DEF Finish
<1>5. CASE \/ FindProvider("trigger", "triggered", "refused") \/ Enqueue
           \/ FindProvider("queued", "loading", "failed") \/ LoadRuntime
           \/ Execute \/ Evaluate \/ Audit
  BY <1>5 DEF FindProvider, Enqueue, LoadRuntime, Execute, Evaluate, Audit
<1> QED BY <1>1, <1>2, <1>3, <1>4, <1>5 DEF Next, Benchmark

\* What a person said of a claim outlives every later write of the run.
THEOREM LabelsStand == Spec => HumanLabelsStand
<1>1. ASSUME [Next]_vars
      PROVE  [at' # at => \A k \in DOMAIN rows : k \in DOMAIN rows' /\ rows'[k].human = rows[k].human]_vars
  BY <1>1, StepKeepsHuman
<1> QED BY <1>1, PTL DEF Spec, HumanLabelsStand

-----------------------------------------------------------------------------
(* The default provider. *)

\* What a request read is still so.
Current(a) ==
  LET r == pending[a] IN
  /\ r.op = "create" => r.p \in Provider /\ (r.dflt => r.on)
  /\ r.op = "enable" =>
       /\ r.p \in Present
       /\ r.sawOn <=> r.p \in enabled
       /\ r.sawDefault <=> r.p \in default
  /\ r.op = "default" => r.p \in Present \cap enabled
  /\ r.op = "delete" => r.p \notin default

\* While no two requests were ever under way at once, the one that is has
\* read what is still so.
ConfigInv ==
  /\ row \in [Provider -> {"new", "there", "gone"}]
  /\ DOMAIN pending = Admins
  /\ ~overlapped =>
       /\ default \subseteq enabled \cap Present
       /\ \A a, b \in Admins : ~Free(a) /\ ~Free(b) => a = b
       /\ \A a \in Admins : Current(a)

\* The seeded provider is enabled and the default.
LEMMA ConfigInit == Init => ConfigInv
BY DEF Init, ProvidersInit, ConfigInv, Current, Free, Idle, Present

\* A request that takes what it reads.
LEMMA AskKeeps ==
  ASSUME ConfigInv, NEW a \in Admins, Ask(a)
  PROVE  ConfigInv'
<1>1. PICK r \in Creations \cup Switches \cup Promotions \cup Deletions
                \cup Additions \cup Patches \cup Drops : pending' = [pending EXCEPT ![a] = r]
  BY DEF Ask
<1>2. UNCHANGED <<row, enabled, default>>
  BY DEF Ask, configVars
<1>3. ASSUME ~overlapped'
      PROVE  ~overlapped /\ \A b \in Admins \ {a} : Free(b)
  BY <1>3 DEF Ask
<1>4. \A b \in Admins \ {a} : pending'[b] = pending[b]
  BY <1>1 DEF ConfigInv
<1>5. pending'[a] = r
  BY <1>1 DEF ConfigInv
<1>6. Present' = Present
  BY <1>2 DEF Present
<1>7. Current(a)'
  <2>1. CASE r \in Creations
    <3>1. r.op = "create" /\ r.p \in Provider /\ (r.dflt => r.on)
      BY <2>1 DEF Creations
    <3> QED BY <1>5, <3>1 DEF Current
  <2>2. CASE r \in Switches
    <3>1. PICK p \in Present, to \in BOOLEAN :
            r = [op |-> "enable", p |-> p, to |-> to, sawOn |-> p \in enabled, sawDefault |-> p \in default]
      BY <2>2 DEF Switches
    <3>2. r.op = "enable" /\ r.p = p
      BY <3>1
    <3>3. r.sawOn <=> p \in enabled
      BY <3>1, Zenon
    <3>4. r.sawDefault <=> p \in default
      BY <3>1, Zenon
    <3> QED BY <1>2, <1>5, <1>6, <3>2, <3>3, <3>4 DEF Current
  <2>3. CASE r \in Promotions \cup Deletions \cup Additions \cup Patches \cup Drops
    BY <1>2, <1>5, <1>6, <2>3 DEF Current, Promotions, Deletions, Additions, Patches, Drops
  <2> QED BY <2>1, <2>2, <2>3
<1>8. ASSUME ~overlapped', NEW b \in Admins \ {a}
      PROVE  Free(b)' /\ Current(b)'
  BY <1>2, <1>3, <1>4, <1>6, <1>8 DEF Current, Free, Idle, ConfigInv
<1> QED BY <1>1, <1>2, <1>3, <1>6, <1>7, <1>8 DEF ConfigInv

\* A request that ends, with or without its commit, leaves its slot free, and
\* while requests take turns every other slot with it.
LEMMA AnswerKeeps ==
  ASSUME ConfigInv, NEW a \in Admins, ~Free(a), Answer(a),
         row' \in [Provider -> {"new", "there", "gone"}],
         ~overlapped => (default \subseteq enabled \cap Present)'
  PROVE  ConfigInv'
<1>1. DOMAIN pending' = Admins
  BY DEF ConfigInv, Answer
<1>2. overlapped' = overlapped
  BY DEF Answer
<1>3. ASSUME ~overlapped, NEW b \in Admins
      PROVE  pending'[b] = Idle
  BY <1>3 DEF ConfigInv, Answer, Free
<1>4. ASSUME ~overlapped, NEW b \in Admins
      PROVE  Free(b)' /\ Current(b)'
  BY <1>3, <1>4 DEF Free, Idle, Current
<1> QED BY <1>1, <1>2, <1>4 DEF ConfigInv

\* The commit of create_provider.
LEMMA CreateKeeps ==
  ASSUME ConfigInv, NEW a \in Admins, Create(a)
  PROVE  ConfigInv'
<1>1. ~Free(a) /\ Answer(a)
  BY DEF Create, Free, Idle
<1>2. row' \in [Provider -> {"new", "there", "gone"}]
  BY DEF Create, ConfigInv
<1>3. ASSUME ~overlapped
      PROVE  (default \subseteq enabled \cap Present)'
  <2>1. Current(a) /\ default \subseteq enabled \cap Present
    BY <1>3 DEF ConfigInv
  <2>2. pending[a].p \in Provider /\ (pending[a].dflt => pending[a].on)
    BY <2>1 DEF Current, Create
  <2>3. Present' = Present \cup {pending[a].p}
    BY <2>2 DEF Create, Present, ConfigInv
  <2>4. CASE pending[a].dflt
    BY <2>2, <2>3, <2>4 DEF Create
  <2>5. CASE ~pending[a].dflt
    BY <2>1, <2>3, <2>5 DEF Create
  <2> QED BY <2>4, <2>5
<1> QED BY <1>1, <1>2, <1>3, AnswerKeeps

\* The commit of update_provider and of toggle_provider.
LEMMA EnableKeeps ==
  ASSUME ConfigInv, NEW a \in Admins, Enable(a)
  PROVE  ConfigInv'
<1>1. ~Free(a) /\ Answer(a)
  BY DEF Enable, Free, Idle
<1>2. row' \in [Provider -> {"new", "there", "gone"}] /\ Present' = Present
  BY DEF Enable, ConfigInv, Present
<1>3. ASSUME ~overlapped
      PROVE  (default \subseteq enabled \cap Present)'
  <2>1. Current(a) /\ default \subseteq enabled \cap Present
    BY <1>3 DEF ConfigInv
  <2>2. /\ pending[a].sawOn <=> pending[a].p \in enabled
        /\ pending[a].sawDefault <=> pending[a].p \in default
    BY <2>1 DEF Current, Enable
  <2>3. CASE pending[a].to
    <3>1. enabled \subseteq enabled' /\ default' = default
      BY <2>3 DEF Enable
    <3> QED BY <1>2, <2>1, <3>1
  <2>4. CASE ~pending[a].to /\ pending[a].sawDefault
    <3>1. default' = default \ {pending[a].p} /\ enabled \ {pending[a].p} \subseteq enabled'
      BY <2>4 DEF Enable
    <3> QED BY <1>2, <2>1, <3>1
  <2>5. CASE ~pending[a].to /\ ~pending[a].sawDefault
    <3>1. default' = default /\ enabled \ {pending[a].p} \subseteq enabled' /\ pending[a].p \notin default
      BY <2>2, <2>5 DEF Enable
    <3> QED BY <1>2, <2>1, <3>1
  <2> QED BY <2>3, <2>4, <2>5
<1> QED BY <1>1, <1>2, <1>3, AnswerKeeps

\* The commits of set_default_provider and of delete_provider.
LEMMA MoveKeeps ==
  ASSUME ConfigInv, NEW a \in Admins, SetDefault(a) \/ Delete(a)
  PROVE  ConfigInv'
<1>1. ~Free(a) /\ Answer(a)
  BY DEF SetDefault, Delete, Free, Idle
<1>2. row' \in [Provider -> {"new", "there", "gone"}]
  BY DEF SetDefault, Delete, ConfigInv
<1>3. ASSUME ~overlapped
      PROVE  (default \subseteq enabled \cap Present)'
  <2>1. Current(a) /\ default \subseteq enabled \cap Present
    BY <1>3 DEF ConfigInv
  <2>2. CASE SetDefault(a)
    BY <2>1, <2>2 DEF SetDefault, Current, Present
  <2>3. CASE Delete(a)
    <3>1. pending[a].p \notin default
      BY <2>1, <2>3 DEF Current, Delete
    <3>2. Present \ {pending[a].p} \subseteq Present'
      BY <2>3 DEF Delete, Present, ConfigInv
    <3> QED BY <2>1, <2>3, <3>1, <3>2 DEF Delete
  <2> QED BY <2>2, <2>3
<1> QED BY <1>1, <1>2, <1>3, AnswerKeeps

\* The requests that fail, and those about models.
LEMMA OtherKeeps ==
  ASSUME ConfigInv, NEW a \in Admins,
         RequestFails(a) \/ AddModel(a) \/ PatchModel(a) \/ DropModel(a)
  PROVE  ConfigInv'
<1>1. ~Free(a) /\ Answer(a)
  BY DEF RequestFails, AddModel, PatchModel, DropModel, Free, Idle
<1>2. UNCHANGED <<row, enabled, default>>
  BY DEF RequestFails, AddModel, PatchModel, DropModel, configVars
<1> QED BY <1>1, <1>2, AnswerKeeps DEF ConfigInv, Present

\* Every step of an administrator keeps the invariant; the others do not
\* touch the configuration.
LEMMA ConfigNext ==
  ASSUME ConfigInv, [Next]_vars
  PROVE  ConfigInv'
<1>1. CASE Administer
  BY <1>1, AskKeeps, CreateKeeps, EnableKeeps, MoveKeeps, OtherKeeps DEF Administer
<1>2. CASE UNCHANGED providerVars
  BY <1>2 DEF ConfigInv, Current, Free, Present, providerVars
<1> QED
  BY <1>1, <1>2 DEF Next, Benchmark, Label, FindProvider, Enqueue, LoadRuntime, Execute, Evaluate,
     Audit, Persist, Finish, vars

\* Unless two administrators were at work at once, the default is a provider
\* that is there and enabled, so that a query finds a runtime.
THEOREM DefaultUsable == Spec => []DefaultIsUsable
<1>1. ConfigInv => DefaultIsUsable
  BY DEF ConfigInv, DefaultIsUsable
<1> QED BY ConfigInit, ConfigNext, <1>1, PTL DEF Spec

-----------------------------------------------------------------------------
(* What a question passes on. *)

\* What a pass of evaluator x says of execution e.
Speaks(x, q, e) ==
  /\ x = "intent" => e.intent = q.intent
  /\ x = "ragas" => e.answered /\ RagasContexts(q, e)
  /\ x = "market" => "market" \in e.found

\* No evaluator passes an execution that lacks what it grades.
LEMMA PassSays ==
  ASSUME NEW q, NEW e, NEW x \in Applicable(q), NEW v \in Opinions(q, e, x), v.passed, ~v.wrong
  PROVE  Speaks(x, q, e)
<1>1. ASSUME x = "intent"
      PROVE  e.intent = q.intent
  <2>1. v = IntentVerdict(q.intent, e.intent, NoIntent)
    BY <1>1 DEF Opinions
  <2> QED BY <2>1 DEF IntentVerdict, Verdict
<1>2. ASSUME x = "ragas"
      PROVE  e.answered /\ RagasContexts(q, e)
  <2>1. v \in RagasOpinions(q, e)
    BY <1>2 DEF Opinions
  <2>2. v = Broken \/ \E m \in RagasSheets : v = RagasVerdict(e.answered, RagasContexts(q, e), m)
    BY <2>1, Zenon DEF RagasOpinions
  <2>3. ~Broken.passed
    BY DEF Broken, Verdict
  <2> QED BY <2>2, <2>3, Zenon DEF RagasVerdict
<1>3. ASSUME x = "market"
      PROVE  "market" \in e.found
  <2>1. v \in MarketOpinions(e)
    BY <1>3 DEF Opinions
  <2>2. ~NoMarketVerdict.passed
    BY DEF NoMarketVerdict, Verdict
  <2>3. "market" \notin e.found => v = NoMarketVerdict
    BY <2>1 DEF MarketOpinions
  <2> QED BY <2>2, <2>3
<1> QED BY <1>1, <1>2, <1>3 DEF Speaks

\* No evaluator passes an execution it scores below its bar.
LEMMA PassMeets ==
  ASSUME scenario.grades \subseteq 0..Whole,
         NEW q, NEW e, NEW x \in Applicable(q), NEW v \in Opinions(q, e, x), v.passed
  PROVE  v.score >= Bar(x)
<1>1. x \in {"intent", "tool", "ranking", "sql", "ragas", "market"}
  BY DEF Applicable
<1>2. CASE x = "intent"
  <2>1. v = IntentVerdict(q.intent, e.intent, NoIntent)
    BY <1>2 DEF Opinions
  <2>2. e.intent = q.intent
    BY <2>1 DEF IntentVerdict, Verdict
  <2>3. v.score = Whole
    BY <2>1, <2>2 DEF IntentVerdict, Verdict
  <2> QED BY <1>2, <2>3 DEF Bar, Whole
<1>3. CASE x = "tool"
  <2>1. v \in {Broken} \cup {ToolVerdict(g, f) : g, f \in scenario.grades}
    BY <1>3 DEF Opinions
  <2>2. PICK g \in scenario.grades, f \in scenario.grades : v = ToolVerdict(g, f)
    BY <2>1 DEF Broken, Verdict
  <2>3. g >= PassMark /\ f >= PassMark
    BY <2>2, Zenon DEF ToolVerdict, Verdict
  <2>4. v.score = (g + f) \div 2
    BY <2>2 DEF ToolVerdict, Verdict
  <2>5. g \in 0..1000 /\ f \in 0..1000
    BY DEF Whole
  <2>6. v.score >= 700
    BY <2>3, <2>4, <2>5 DEF PassMark
  <2> QED BY <1>3, <2>6 DEF Bar, PassMark
<1>4. CASE x = "ranking"
  <2>1. PICK r \in scenario.rankings : v = RankingVerdict(r, q.ranking)
    BY <1>4 DEF Opinions
  <2> QED BY <1>4, <2>1 DEF RankingVerdict, Verdict, Bar
<1>5. CASE x = "sql"
  <2>1. v \in SqlOpinions(e)
    BY <1>5 DEF Opinions
  <2>2. PICK query \in {"none", "writes", "reads"}, a \in scenario.grades \cup {NotMeasured},
             g \in scenario.grades \cup {NotMeasured} : v = SqlVerdict(query, a, g)
    BY <2>1 DEF SqlOpinions
  <2>3. query = "reads" /\ a # NotMeasured /\ g # NotMeasured
    BY <2>2, Zenon DEF SqlVerdict, Verdict
  <2>4. a >= PassMark
    BY <2>2, <2>3, Zenon DEF SqlVerdict, Verdict
  <2>5. v.score = (75 * a + 25 * g) \div 100
    BY <2>2, <2>3 DEF SqlVerdict, Verdict
  <2>6. a \in 0..1000 /\ g \in 0..1000
    BY <2>3 DEF Whole
  <2>7. v.score >= 525
    BY <2>4, <2>5, <2>6 DEF PassMark
  <2>8. Bar("sql") = 525
    BY DEF Bar, PassMark
  <2> QED BY <1>5, <2>7, <2>8
<1>6. CASE x = "ragas"
  <2>1. v \in RagasOpinions(q, e)
    BY <1>6 DEF Opinions
  <2>2. v = Broken \/ \E m \in RagasSheets : v = RagasVerdict(e.answered, RagasContexts(q, e), m)
    BY <2>1, Zenon DEF RagasOpinions
  <2>3. ~Broken.passed
    BY DEF Broken, Verdict
  <2>4. PICK m \in RagasSheets : v = RagasVerdict(e.answered, RagasContexts(q, e), m)
    BY <2>2, <2>3, Zenon
  <2>5. v = Verdict(RagasMean(m), RagasMean(m) >= PassMark, FALSE)
    BY <2>3, <2>4, Zenon DEF RagasVerdict
  <2> QED BY <1>6, <2>5 DEF Verdict, Bar
<1>7. CASE x = "market"
  <2>1. v \in MarketOpinions(e)
    BY <1>7 DEF Opinions
  <2>2. ~NoMarketVerdict.passed
    BY DEF NoMarketVerdict, Verdict
  <2>3. PICK c, f, d : v = MarketVerdict(c, f, d)
    BY <2>1, <2>2 DEF MarketOpinions
  <2> QED BY <1>7, <2>3 DEF MarketVerdict, Verdict, Bar
<1> QED BY <1>1, <1>2, <1>3, <1>4, <1>5, <1>6, <1>7

\* The verdicts on question q, each of them one its evaluator could reach.
Vouched(v, q, e) ==
  /\ DOMAIN v = Applicable(q)
  /\ \A x \in Applicable(q) : v[x].passed /\ ~v[x].wrong => Speaks(x, q, e) /\ v[x].score >= Bar(x)

\* A sheet has a verdict of every evaluator the route selects, and no other.
LEMMA SheetVouches ==
  ASSUME scenario.grades \subseteq 0..Whole, NEW q, NEW e,
         NEW i \in Said(q, e, "intent"), NEW t \in Said(q, e, "tool"), NEW k \in Said(q, e, "ranking"),
         NEW s \in Said(q, e, "sql"), NEW g \in Said(q, e, "ragas"), NEW m \in Said(q, e, "market")
  PROVE  Vouched(Sheet(q, i, t, k, s, g, m), q, e)
<1> DEFINE v == Sheet(q, i, t, k, s, g, m)
<1>1. DOMAIN v = Applicable(q)
  BY DEF Sheet
<1>2. ASSUME NEW x \in Applicable(q)
      PROVE  v[x] \in Opinions(q, e, x)
  <2>1. x \in {"intent", "tool", "ranking", "sql", "ragas", "market"}
    BY DEF Applicable
  <2>2. v[x] = CASE x = "intent" -> i [] x = "tool" -> t [] x = "ranking" -> k
                 [] x = "sql" -> s [] x = "ragas" -> g [] x = "market" -> m
    BY DEF Sheet
  <2>3. v[x] \in Said(q, e, x)
    BY <2>1, <2>2
  <2> QED BY <2>3 DEF Said
<1> QED BY <1>1, <1>2, PassSays, PassMeets, Zenon DEF Vouched

\* What was retrieved beyond rows, or reranked, is evidence.
Grounded(e) == e.found \ {"sql"} # {} \/ e.reranked => e.evidence

\* What the verdicts that pass a question say of its execution.
LEMMA SheetSound ==
  ASSUME NEW q, NEW e, NEW v, Grounded(e), Vouched(v, q, e), Passes(v)
  PROVE  /\ \A x \in Applicable(q) : ~v[x].wrong /\ v[x].score >= Bar(x)
         /\ e.intent = q.intent
         /\ q.intent \in RagasRoutes => e.answered /\ e.evidence
         /\ q.intent = "MIXED" => e.reranked /\ "market" \in e.found
<1>1. DOMAIN v = Applicable(q)
  BY DEF Vouched
<1>2. ASSUME NEW x \in Applicable(q)
      PROVE  Speaks(x, q, e) /\ ~v[x].wrong /\ v[x].score >= Bar(x)
  BY <1>1, <1>2, Zenon DEF Passes, Vouched
<1>3. e.intent = q.intent
  <2>1. "intent" \in Applicable(q)
    BY DEF Applicable
  <2> QED BY <1>2, <2>1 DEF Speaks
<1>5. ASSUME q.intent \in RagasRoutes
      PROVE  e.answered /\ RagasContexts(q, e)
  <2>1. "ragas" \in Applicable(q)
    BY <1>5 DEF Applicable
  <2> QED BY <1>2, <2>1, Zenon DEF Speaks
<1>6. ASSUME q.intent = "MIXED"
      PROVE  "market" \in e.found
  <2>1. "market" \in Applicable(q)
    BY <1>6 DEF Applicable
  <2> QED BY <1>2, <2>1 DEF Speaks
<1>7. ASSUME q.intent \in RagasRoutes
      PROVE  e.evidence
  <2>1. CASE q.intent = "MIXED"
    BY <1>5, <1>7, <2>1, Zenon DEF RagasContexts, Grounded
  <2>2. CASE q.intent # "MIXED"
    <3>1. "vector" \in e.found
      BY <1>5, <1>7, <2>2, Zenon DEF RagasContexts
    <3>2. "vector" \in e.found \ {"sql"}
      BY <3>1
    <3> QED BY <3>2, Zenon DEF Grounded
  <2> QED BY <2>1, <2>2
<1>8. ASSUME q.intent = "MIXED"
      PROVE  e.reranked
  <2>1. q.intent \in RagasRoutes
    BY <1>8 DEF RagasRoutes
  <2> QED BY <1>5, <1>8, <2>1, Zenon DEF RagasContexts
<1> QED BY <1>2, <1>3, <1>5, <1>6, <1>7, <1>8, Zenon

\* What a result must show to have passed question q.
Earned(r, q) ==
  r.passed =>
    /\ \A x \in Applicable(q) : ~r.verdicts[x].wrong /\ r.verdicts[x].score >= Bar(x)
    /\ r.execution.intent = q.intent
    /\ q.intent \in RagasRoutes => r.execution.answered /\ r.execution.evidence
    /\ q.intent = "MIXED" => r.execution.reranked /\ "market" \in r.execution.found

\* The runner works on one question at a time, and the results so far are
\* those of the questions before it, in their order.
RunInv ==
  /\ scenario \in Scenarios
  /\ next \in Nat \ {0}
  /\ \E S : results \in Seq(S)
  /\ Len(results) = IF at = "persist" THEN next ELSE next - 1
  /\ at \in {"evaluate", "audit"} => Grounded(execution)
  /\ at = "audit" => Vouched(verdicts, question, execution)
  /\ \A i \in 1..Len(results) : Earned(results[i], scenario.suite[i])

\* A question's result joins those of the questions before it.
LEMMA AppendKeeps ==
  ASSUME RunInv, at # "persist", at' = "persist", UNCHANGED <<scenario, next>>, NEW r,
         results' = Append(results, r), Earned(r, question)
  PROVE  RunInv'
<1>1. PICK S : results \in Seq(S)
  BY DEF RunInv
<1>2. results \in Seq(S \cup {r})
  BY <1>1
<1>3. results' \in Seq(S \cup {r})
  BY <1>2
<1>4. Len(results) = next - 1 /\ next \in Nat \ {0}
  BY DEF RunInv
<1>5. Len(results') = next /\ results'[next] = r /\ \A i \in 1..(next - 1) : results'[i] = results[i]
  BY <1>2, <1>4
<1>6. ASSUME NEW i \in 1..Len(results')
      PROVE  Earned(results'[i], scenario'.suite[i])
  <2>1. CASE i = next
    BY <1>5, <2>1 DEF question
  <2>2. CASE i # next
    <3>1. i \in 1..Len(results) /\ results'[i] = results[i]
      BY <1>4, <1>5, <2>2
    <3>2. Earned(results[i], scenario.suite[i])
      BY <3>1 DEF RunInv
    <3> QED BY <3>1, <3>2
  <2> QED BY <2>1, <2>2
<1>7. at' # "evaluate" /\ at' # "audit"
  OBVIOUS
<1>8. (\E T : results \in Seq(T))'
  BY <1>3
<1> QED BY <1>4, <1>5, <1>6, <1>7, <1>8 DEF RunInv

\* A question that failed passes nothing.
LEMMA FailedEarns == ASSUME NEW p, NEW why, NEW q PROVE Earned(Failed(p, why), q)
BY DEF Failed, Earned

\* A step that leaves results and question alone.
LEMMA QuietKeeps ==
  ASSUME RunInv, UNCHANGED <<scenario, next, results>>, at # "persist", at' # "persist",
         at' \in {"evaluate", "audit"} => Grounded(execution'),
         at' = "audit" => Vouched(verdicts', question, execution')
  PROVE  RunInv'
<1>1. question' = question
  BY DEF question
<1>2. \A i \in 1..Len(results') : Earned(results'[i], scenario'.suite[i])
  BY DEF RunInv
<1> QED BY <1>1, <1>2 DEF RunInv

\* Every step of the run keeps the invariant.
LEMMA BenchmarkKeeps ==
  ASSUME RunInv, Benchmark
  PROVE  RunInv'
<1>1. CASE \/ FindProvider("trigger", "triggered", "refused") \/ Enqueue
           \/ FindProvider("queued", "loading", "failed") \/ LoadRuntime \/ Finish
  BY <1>1, QuietKeeps DEF FindProvider, Enqueue, LoadRuntime, Finish
<1>2. CASE Execute
  <2>1. CASE results' = Append(results, Failed(question, "graph")) /\ at' = "persist"
    BY <1>2, <2>1, AppendKeeps, FailedEarns DEF Execute
  <2>2. CASE execution' \in Executions /\ at' = "evaluate" /\ UNCHANGED results
    <3>1. Grounded(execution')
      BY <2>2, Zenon DEF Executions, Grounded
    <3> QED BY <1>2, <2>2, <3>1, QuietKeeps DEF Execute
  <2> QED BY <1>2, <2>1, <2>2 DEF Execute
<1>3. CASE Evaluate
  <2>1. CASE /\ \E i \in Said(question, execution, "intent"), t \in Said(question, execution, "tool"),
                   k \in Said(question, execution, "ranking"), s \in Said(question, execution, "sql"),
                   g \in Said(question, execution, "ragas"), m \in Said(question, execution, "market") :
                  verdicts' = Sheet(question, i, t, k, s, g, m)
             /\ at' = "audit"
             /\ UNCHANGED <<results, execution>>
    <3>0. scenario.grades \subseteq 0..Whole
      BY GradingAssumption DEF RunInv
    <3>1. Vouched(verdicts', question, execution)
      BY <2>1, <3>0, SheetVouches
    <3>2. Grounded(execution)
      BY <1>3 DEF Evaluate, RunInv
    <3> QED BY <1>3, <2>1, <3>1, <3>2, QuietKeeps DEF Evaluate
  <2>2. CASE results' = Append(results, Failed(question, "evaluator")) /\ at' = "persist"
    BY <1>3, <2>2, AppendKeeps, FailedEarns DEF Evaluate
  <2> QED BY <1>3, <2>1, <2>2 DEF Evaluate
<1>4. CASE Audit
  <2>1. Grounded(execution) /\ Vouched(verdicts, question, execution)
    BY <1>4 DEF Audit, RunInv
  <2>2. PICK n, c :
          \/ results' = Append(results, [id |-> question.id, error |-> "none",
               execution |-> execution, verdicts |-> verdicts, asserted |-> n, claims |-> c,
               passed |-> Passes(verdicts)])
          \/ results' = Append(results, Failed(question, "audit"))
    BY <1>4, Zenon DEF Audit
  <2> DEFINE r == [id |-> question.id, error |-> "none", execution |-> execution,
                   verdicts |-> verdicts, asserted |-> n, claims |-> c, passed |-> Passes(verdicts)]
  <2>3. r.passed => Passes(verdicts)
    BY Zenon
  <2>4. r.execution = execution /\ r.verdicts = verdicts
    OBVIOUS
  <2> HIDE DEF r
  <2>5. Earned(r, question)
    BY <2>1, <2>3, <2>4, SheetSound, Zenon DEF Earned
  <2>6. results' = Append(results, r) \/ results' = Append(results, Failed(question, "audit"))
    BY <2>2 DEF r
  <2>7. at # "persist" /\ at' = "persist" /\ UNCHANGED <<scenario, next>>
    BY <1>4 DEF Audit
  <2> QED BY <2>5, <2>6, <2>7, AppendKeeps, FailedEarns
<1>5. CASE Persist
  BY <1>5 DEF Persist, RunInv
<1> QED BY <1>1, <1>2, <1>3, <1>4, <1>5 DEF Benchmark

\* Administrators and people who label claims do not touch the results.
LEMMA RunNext ==
  ASSUME RunInv, [Next]_vars
  PROVE  RunInv'
<1>1. CASE Benchmark
  BY <1>1, BenchmarkKeeps
<1>2. CASE UNCHANGED <<scenario, at, next, execution, verdicts, results>>
  BY <1>2 DEF RunInv, question
<1> QED BY <1>1, <1>2 DEF Next, Label, vars, runVars

\* No evaluator is outvoted: a question of any suite passes only if none of
\* those its route selects broke or scored below its bar, and what they graded
\* is an answer to the question asked, on evidence that was there.
THEOREM PassesSound == Spec => []PassedIsSound
<1>1. Init => RunInv
  BY DEF Init, RunInv
<1>2. RunInv => PassedIsSound
  BY DEF RunInv, PassedIsSound, Earned
<1> QED BY <1>1, <1>2, RunNext, PTL DEF Spec

-----------------------------------------------------------------------------
(* The rows of a run. *)

Ids(R) == {r.id : r \in R}

\* No two results are of one question.
Identified(R) == \A r, s \in R : r.id = s.id => r = s

\* A result whose audit cost nothing: a label for every claim, and none that
\* rests on evidence that was not there.
Audited(r) ==
  /\ r.error # "audit"
  /\ r.asserted \in Nat
  /\ DOMAIN r.claims = 1..r.asserted
  /\ \A i \in 1..r.asserted : r.claims[i] # "INSUFFICIENT_EVIDENCE" => r.execution.evidence

\* The result of a question that failed before its audit.
LEMMA FailedAudited ==
  ASSUME NEW q, NEW why, why # "audit"
  PROVE  Audited(Failed(q, why)) /\ Failed(q, why).id = q.id
BY DEF Audited, Failed, Nothing

\* The result of a question that was answered and audited.
Scored(q, e, v, n, c) ==
  [id |-> q.id, error |-> "none", execution |-> e, verdicts |-> v, asserted |-> n, claims |-> c,
   passed |-> Passes(v)]

\* What the audit can learn of n claims.
Judged(e, n) == {Nothing} \cup (IF e.evidence THEN Judgements(n) ELSE {})

\* The labels the judge gave, and the one for the claims it skipped.
LEMMA VerdictsAudited ==
  ASSUME NEW n \in Nat, NEW e, NEW q, NEW v,
         NEW judged \in Judged(e, n)
  PROVE  /\ Audited(Scored(q, e, v, n, VerdictsFor(n, judged)))
         /\ Scored(q, e, v, n, VerdictsFor(n, judged)).id = q.id
<1> DEFINE r == Scored(q, e, v, n, VerdictsFor(n, judged))
<1>1. DOMAIN VerdictsFor(n, judged) = 1..n
  BY DEF VerdictsFor
<1>2. ASSUME NEW i \in 1..n, VerdictsFor(n, judged)[i] # "INSUFFICIENT_EVIDENCE"
      PROVE  e.evidence
  <2>1. i \in DOMAIN judged
    BY <1>2 DEF VerdictsFor
  <2>2. judged # Nothing
    BY <2>1 DEF Nothing
  <2> QED BY <2>2, Zenon DEF Judged
<1>3. r.error = "none" /\ r.asserted = n /\ r.claims = VerdictsFor(n, judged) /\ r.execution = e
      /\ r.id = q.id
  BY DEF Scored
<1> HIDE DEF r
<1> QED BY <1>1, <1>2, <1>3, Zenon DEF Audited, r

\* One result is as good as its identifier.
LEMMA ChosenById ==
  ASSUME NEW R, Identified(R), NEW r \in R
  PROVE  (CHOOSE s \in R : s.id = r.id) = r
BY DEF Identified

\* A write of results R leaves a row for each of their claims, beside those
\* there were; the label is the result's.
LEMMA UpsertClaimsSays ==
  ASSUME NEW R, Identified(R), NEW r \in R, NEW i \in DOMAIN r.claims
  PROVE  /\ <<r.id, i>> \in DOMAIN UpsertClaims(R)
         /\ UpsertClaims(R)[<<r.id, i>>].label = r.claims[i]
<1> DEFINE k == <<r.id, i>>
<1>1. k \in ClaimKeys(R)
  BY DEF ClaimKeys
<1>2. k[1] = r.id /\ k[2] = i
  OBVIOUS
<1>3. UpsertClaims(R)[k] =
        [label |-> (CHOOSE s \in R : s.id = k[1]).claims[k[2]],
         human |-> IF k \in DOMAIN rows THEN rows[k].human ELSE Unlabelled]
  <2> HIDE DEF k
  <2> QED BY <1>1 DEF UpsertClaims
<1>4. k \in DOMAIN UpsertClaims(R)
  <2> HIDE DEF k
  <2> QED BY <1>1 DEF UpsertClaims
<1>5. (CHOOSE s \in R : s.id = k[1]).claims[k[2]] = r.claims[i]
  <2>1. (CHOOSE s \in R : s.id = r.id) = r
    BY ChosenById
  <2> QED BY <1>2, <2>1
<1> QED BY <1>3, <1>4, <1>5

\* It writes whole rows, of its claims and of those there were.
LEMMA UpsertClaimsTo ==
  ASSUME NEW R, \A k \in DOMAIN rows : "label" \in DOMAIN rows[k]
  PROVE  /\ DOMAIN UpsertClaims(R) = DOMAIN rows \cup ClaimKeys(R)
         /\ \A k \in DOMAIN UpsertClaims(R) : "label" \in DOMAIN UpsertClaims(R)[k]
BY DEF UpsertClaims

\* The same of the rows of questions.
LEMMA UpsertQuestionsSays ==
  ASSUME NEW R
  PROVE  /\ DOMAIN UpsertQuestions(R) = DOMAIN stored \cup Ids(R)
         /\ Identified(R) => \A r \in R : UpsertQuestions(R)[r.id] = r.passed
<1>1. DOMAIN UpsertQuestions(R) = DOMAIN stored \cup Ids(R)
  BY DEF UpsertQuestions, Ids
<1>2. ASSUME Identified(R), NEW r \in R
      PROVE  UpsertQuestions(R)[r.id] = r.passed
  <2>1. r.id \in DOMAIN stored \cup {s.id : s \in R}
    OBVIOUS
  <2>2. UpsertQuestions(R)[r.id] =
          IF \E s \in R : s.id = r.id THEN (CHOOSE s \in R : s.id = r.id).passed ELSE stored[r.id]
    BY <2>1, Zenon DEF UpsertQuestions
  <2>3. UpsertQuestions(R)[r.id] = (CHOOSE s \in R : s.id = r.id).passed
    BY <2>2, Zenon
  <2> QED BY <1>2, <2>3, ChosenById, Zenon
<1> QED BY <1>1, <1>2

\* The results are of the first questions of the suite, in order, and none was
\* lost to its audit. Rows are only of results; at the end, of all of them and
\* as they are.
RowsInv ==
  /\ scenario \in Scenarios
  /\ at \in {"evaluate", "audit", "persist"} => InSuite
  /\ \A i \in 1..Len(results) :
       /\ i \in 1..Len(scenario.suite)
       /\ results[i].id = scenario.suite[i].id
       /\ Audited(results[i])
  /\ DOMAIN stored \subseteq Ids(Range(results))
  /\ DOMAIN rows \subseteq ClaimKeys(Range(results))
  /\ \A k \in DOMAIN rows : "label" \in DOMAIN rows[k]
  /\ at = "end" =>
       /\ \A r \in Range(results) : r.id \in DOMAIN stored /\ stored[r.id] = r.passed
       /\ \A r \in Range(results), i \in Nat :
            i \in DOMAIN r.claims =>
              <<r.id, i>> \in DOMAIN rows /\ rows[<<r.id, i>>].label = r.claims[i]
       /\ summary = Aggregate(Range(results))

\* What follows of the results for the set of them.
LEMMA ResultsOfSuite ==
  ASSUME RunInv, RowsInv
  PROVE  /\ Identified(Range(results))
         /\ \A r \in Range(results) : Audited(r)
         /\ IsFiniteSet(Range(results))
<1>1. PICK S : results \in Seq(S)
  BY DEF RunInv
<1>2. DOMAIN results = 1..Len(results) /\ Len(results) \in Nat
  BY <1>1
<1>3. \A r \in Range(results) : \E i \in 1..Len(results) : r = results[i]
  BY <1>2 DEF Range
<1>4. Identified(Range(results))
  <2>1. SUFFICES ASSUME NEW r \in Range(results), NEW s \in Range(results), r.id = s.id
                 PROVE  r = s
    BY DEF Identified
  <2>2. PICK i \in 1..Len(results) : r = results[i]
    BY <1>3
  <2>3. PICK j \in 1..Len(results) : s = results[j]
    BY <1>3
  <2>4. i \in 1..Len(scenario.suite) /\ j \in 1..Len(scenario.suite)
        /\ scenario.suite[i].id = scenario.suite[j].id
    BY <2>1, <2>2, <2>3 DEF RowsInv
  <2>5. i = j
    BY <2>4, GradingAssumption DEF RowsInv
  <2> QED BY <2>2, <2>3, <2>5
<1>5. ASSUME NEW r \in Range(results)
      PROVE  Audited(r)
  BY <1>3 DEF RowsInv
<1>6. IsFiniteSet(Range(results))
  <2> DEFINE f == [i \in 1..Len(results) |-> results[i]]
  <2>1. f \in Surjection(1..Len(results), Range(results))
    BY <1>2 DEF Surjection, Range
  <2>2. IsFiniteSet(1..Len(results))
    BY <1>2, FS_Interval
  <2> HIDE DEF f
  <2> QED BY <2>1, <2>2, FS_Surjection
<1> QED BY <1>4, <1>5, <1>6

\* The number of statements that assert something is a number.
LEMMA CountOfClaims ==
  ASSUME RowsInv, NEW s \in Statements
  PROVE  Cardinality({i \in DOMAIN s : s[i] = "fact"}) \in Nat
<1>1. PICK m \in Nat : DOMAIN s = 1..m
  <2>1. CASE s = Nothing
    BY <2>1 DEF Nothing
  <2>2. CASE s \in SeqOf({"fact", "hedge"}, scenario.statements)
    <3>1. scenario.statements \in Nat
      BY GradingAssumption DEF RowsInv
    <3> QED BY <2>2, <3>1 DEF SeqOf
  <2> QED BY <2>1, <2>2, Zenon DEF Statements
<1>2. IsFiniteSet(1..m)
  BY <1>1, FS_Interval
<1>3. {i \in DOMAIN s : s[i] = "fact"} \in SUBSET (1..m)
  BY <1>1
<1>4. IsFiniteSet({i \in DOMAIN s : s[i] = "fact"})
  BY <1>2, <1>3, FS_Subset
<1> QED BY <1>4, FS_CardinalityType

\* Another result, of the question the runner is at.
LEMMA AppendRows ==
  ASSUME RunInv, RowsInv, InSuite, at # "persist", at' = "persist",
         UNCHANGED <<scenario, next, stored, rows, summary>>,
         NEW r, results' = Append(results, r), Audited(r), r.id = question.id
  PROVE  RowsInv'
<1>1. PICK S : results \in Seq(S)
  BY DEF RunInv
<1>2. results \in Seq(S \cup {r})
  BY <1>1
<1>3. Len(results) = next - 1 /\ next \in Nat \ {0}
  BY DEF RunInv
<1>4. Len(results') = next /\ results'[next] = r /\ \A i \in 1..(next - 1) : results'[i] = results[i]
  BY <1>2, <1>3
<1>5. Range(results) \subseteq Range(results')
  <2>1. DOMAIN results = 1..(next - 1) /\ DOMAIN results' = 1..next
    BY <1>2, <1>3, <1>4
  <2> QED BY <1>3, <1>4, <2>1 DEF Range
<1>6. next \in 1..Len(scenario.suite)
  BY <1>3, GradingAssumption DEF InSuite, RowsInv
<1>7. ASSUME NEW i \in 1..Len(results')
      PROVE  /\ i \in 1..Len(scenario'.suite)
             /\ results'[i].id = scenario'.suite[i].id
             /\ Audited(results'[i])
  <2>1. CASE i = next
    BY <1>4, <1>6, <2>1 DEF question
  <2>2. CASE i # next
    BY <1>3, <1>4, <2>2 DEF RowsInv
  <2> QED BY <2>1, <2>2
<1>8. (DOMAIN stored \subseteq Ids(Range(results)))'
  BY <1>5 DEF RowsInv, Ids
<1>9. (DOMAIN rows \subseteq ClaimKeys(Range(results)))'
  BY <1>5 DEF RowsInv, ClaimKeys
<1>10. InSuite'
  BY DEF InSuite
<1> QED BY <1>7, <1>8, <1>9, <1>10 DEF RowsInv

\* A step that touches neither results nor rows, and does not end the run.
LEMMA QuietRows ==
  ASSUME RowsInv, UNCHANGED <<scenario, next, results, stored, rows, summary>>,
         at' # "end", at' \in {"evaluate", "audit", "persist"} => InSuite
  PROVE  RowsInv'
BY DEF RowsInv, InSuite

\* The write of one result.
LEMMA PersistRows ==
  ASSUME RunInv, RowsInv, Persist
  PROVE  RowsInv'
<1> DEFINE R == {results[Len(results)]}
<1>1. PICK S : results \in Seq(S)
  BY DEF RunInv
<1>2. Len(results) = next /\ next \in Nat \ {0} /\ DOMAIN results = 1..next
  BY <1>1 DEF RunInv, Persist
<1>3. R \subseteq Range(results)
  <2>1. Len(results) \in DOMAIN results
    BY <1>2
  <2> QED BY <2>1 DEF Range
<1>4. Ids(R) \subseteq Ids(Range(results)) /\ ClaimKeys(R) \subseteq ClaimKeys(Range(results))
  <2> HIDE DEF R
  <2> QED BY <1>3 DEF Ids, ClaimKeys
<1>5. UNCHANGED <<scenario, results>> /\ at' = "ask"
  BY DEF Persist
<1>6. \/ stored' = UpsertQuestions(R) /\ rows' = UpsertClaims(R)
      \/ UNCHANGED <<stored, rows>>
  BY DEF Persist
<1> HIDE DEF R
<1>7. /\ DOMAIN UpsertClaims(R) = DOMAIN rows \cup ClaimKeys(R)
      /\ \A k \in DOMAIN UpsertClaims(R) : "label" \in DOMAIN UpsertClaims(R)[k]
  BY UpsertClaimsTo DEF RowsInv
<1>8. DOMAIN UpsertQuestions(R) = DOMAIN stored \cup Ids(R)
  BY UpsertQuestionsSays
<1>9. /\ DOMAIN stored' \subseteq Ids(Range(results))
      /\ DOMAIN rows' \subseteq ClaimKeys(Range(results))
      /\ \A k \in DOMAIN rows' : "label" \in DOMAIN rows'[k]
  <2>1. CASE stored' = UpsertQuestions(R) /\ rows' = UpsertClaims(R)
    BY <1>4, <1>7, <1>8, <2>1 DEF RowsInv
  <2>2. CASE UNCHANGED <<stored, rows>>
    BY <2>2 DEF RowsInv
  <2> QED BY <1>6, <2>1, <2>2
<1> QED BY <1>5, <1>9 DEF RowsInv

\* The last write, of everything.
LEMMA FinishRows ==
  ASSUME RunInv, RowsInv, Finish
  PROVE  RowsInv'
<1> DEFINE R == Range(results)
<1>1. CASE at' = "failed" /\ UNCHANGED <<summary, stored, rows>>
  BY <1>1, QuietRows DEF Finish
<1>2. CASE /\ summary' = Aggregate(R)
           /\ stored' = UpsertQuestions(R)
           /\ rows' = UpsertClaims(R)
           /\ at' = "end"
  <2>1. Identified(R)
    BY ResultsOfSuite
  <2>2. UNCHANGED <<scenario, results, next>>
    BY DEF Finish
  <2>3. DOMAIN rows' = DOMAIN rows \cup ClaimKeys(R)
        /\ \A k \in DOMAIN rows' : "label" \in DOMAIN rows'[k]
    BY <1>2, UpsertClaimsTo DEF RowsInv
  <2>4. DOMAIN stored' = DOMAIN stored \cup Ids(R)
        /\ \A r \in R : stored'[r.id] = r.passed
    BY <1>2, <2>1, UpsertQuestionsSays
  <2>5. ASSUME NEW r \in R, NEW i \in Nat, i \in DOMAIN r.claims
        PROVE  <<r.id, i>> \in DOMAIN rows' /\ rows'[<<r.id, i>>].label = r.claims[i]
    BY <1>2, <2>1, <2>5, UpsertClaimsSays
  <2>6. R' = R
    BY <2>2
  <2> HIDE DEF R
  <2>7. DOMAIN rows' \subseteq ClaimKeys(R) /\ DOMAIN stored' \subseteq Ids(R)
    BY <2>3, <2>4 DEF RowsInv, R
  <2>8. \A r \in R : r.id \in DOMAIN stored' /\ stored'[r.id] = r.passed
    BY <2>4 DEF Ids
  <2>9. Aggregate(R)' = Aggregate(R)
    BY <2>6 DEF Aggregate, Completed, RouteTaken
  <2>10. summary' = Aggregate(Range(results))'
    BY <1>2, <2>9 DEF R
  <2>11. at' = "end"
    BY <1>2
  <2>12. \A i \in 1..Len(results) :
       /\ i \in 1..Len(scenario.suite)
       /\ results[i].id = scenario.suite[i].id
       /\ Audited(results[i])
    BY DEF RowsInv
  <2>13. scenario \in Scenarios
    BY DEF RowsInv
  <2> QED BY <2>2, <2>3, <2>5, <2>7, <2>8, <2>10, <2>11, <2>12, <2>13 DEF RowsInv, R
<1> QED BY <1>1, <1>2 DEF Finish

\* A label of a person touches no other column.
LEMMA LabelRows ==
  ASSUME RowsInv, Label
  PROVE  RowsInv'
<1>1. PICK k \in DOMAIN rows, l \in HumanLabels : rows' = [rows EXCEPT ![k].human = l]
  BY DEF Label
<1>2. DOMAIN rows' = DOMAIN rows
  BY <1>1
<1>3. ASSUME NEW j \in DOMAIN rows
      PROVE  "label" \in DOMAIN rows'[j] /\ rows'[j].label = rows[j].label
  <2>1. "label" \in DOMAIN rows[j]
    BY DEF RowsInv
  <2>2. CASE j = k
    BY <1>1, <2>1, <2>2
  <2>3. CASE j # k
    BY <1>1, <2>1, <2>3
  <2> QED BY <2>2, <2>3
<1>4. UNCHANGED <<scenario, at, next, results, stored, summary>>
  BY DEF Label
<1>5. Aggregate(Range(results))' = Aggregate(Range(results))
  BY <1>4 DEF Aggregate, Completed, RouteTaken
<1>6. Range(results)' = Range(results)
  BY <1>4
<1> QED BY <1>2, <1>3, <1>4, <1>5, <1>6 DEF RowsInv, InSuite

\* Every step keeps it.
LEMMA RowsNext ==
  ASSUME RunInv, RowsInv, [Next]_vars
  PROVE  RowsInv'
<1>1. CASE \/ FindProvider("trigger", "triggered", "refused") \/ Enqueue
           \/ FindProvider("queued", "loading", "failed") \/ LoadRuntime
  BY <1>1, QuietRows DEF FindProvider, Enqueue, LoadRuntime
<1>2. CASE Execute
  <2>1. CASE results' = Append(results, Failed(question, "graph")) /\ at' = "persist"
    BY <1>2, <2>1, AppendRows, FailedAudited DEF Execute
  <2>2. CASE at' = "evaluate" /\ UNCHANGED results
    BY <1>2, <2>2, QuietRows DEF Execute
  <2> QED BY <1>2, <2>1, <2>2 DEF Execute
<1>3. CASE Evaluate
  <2>1. CASE at' = "audit" /\ UNCHANGED <<results, execution>>
    BY <1>3, <2>1, QuietRows DEF Evaluate, RowsInv
  <2>2. CASE results' = Append(results, Failed(question, "evaluator")) /\ at' = "persist"
    <3>1. InSuite
      BY <1>3 DEF Evaluate, RowsInv
    <3> QED BY <1>3, <2>2, <3>1, AppendRows, FailedAudited DEF Evaluate
  <2> QED BY <1>3, <2>1, <2>2 DEF Evaluate
<1>4. CASE Audit
  <2>1. PICK n, judged :
          /\ n \in Nat
          /\ judged \in {Nothing} \cup (IF execution.evidence THEN Judgements(n) ELSE {})
          /\ results' = Append(results,
               IF 1..n \subseteq DOMAIN VerdictsFor(n, judged)
               THEN [id |-> question.id, error |-> "none", execution |-> execution,
                     verdicts |-> verdicts, asserted |-> n, claims |-> VerdictsFor(n, judged),
                     passed |-> Passes(verdicts)]
               ELSE Failed(question, "audit"))
    BY <1>4, CountOfClaims, Zenon DEF Audit
  <2>2. DOMAIN VerdictsFor(n, judged) = 1..n
    BY DEF VerdictsFor
  <2> DEFINE r == Scored(question, execution, verdicts, n, VerdictsFor(n, judged))
  <2>3. results' = Append(results, r)
    BY <2>1, <2>2 DEF Scored
  <2>4. Audited(r) /\ r.id = question.id
    <3>1. n \in Nat /\ judged \in Judged(execution, n)
      BY <2>1, Zenon DEF Judged
    <3> QED BY <3>1, VerdictsAudited
  <2> HIDE DEF r
  <2>5. InSuite /\ at # "persist" /\ at' = "persist"
        /\ UNCHANGED <<scenario, next, stored, rows, summary>>
    BY <1>4 DEF Audit, RowsInv
  <2> QED BY <2>3, <2>4, <2>5, AppendRows
<1>5. CASE UNCHANGED <<scenario, at, next, results, stored, rows, summary>>
  <2>1. Aggregate(Range(results))' = Aggregate(Range(results))
    BY <1>5 DEF Aggregate, Completed, RouteTaken
  <2> QED BY <1>5, <2>1 DEF RowsInv, InSuite
<1>6. CASE Persist \/ Finish \/ Label
  BY <1>6, PersistRows, FinishRows, LabelRows
<1> QED BY <1>1, <1>2, <1>3, <1>4, <1>5, <1>6 DEF Next, Benchmark, vars, runVars

\* At the start there are no results and no rows.
LEMMA RowsInit == Init => RowsInv
<1> SUFFICES ASSUME Init
             PROVE  RowsInv
  OBVIOUS
<1>1. results = <<>> /\ stored = <<>> /\ rows = <<>> /\ at = "trigger" /\ scenario \in Scenarios
  BY DEF Init, Nothing
<1>2. Len(results) = 0 /\ DOMAIN stored = {} /\ DOMAIN rows = {}
  BY <1>1
<1> QED BY <1>1, <1>2 DEF RowsInv

\* However the splitter, the judge and the writes failed, a finished run has one
\* row for every claim an answer made, none of them supported by evidence that
\* was not there, and the audit cost no question.
THEOREM ClaimsCounted == Spec => []EveryClaimCounts
<1>1. Init => RunInv
  BY DEF Init, RunInv
<1>2. ASSUME RunInv, RowsInv
      PROVE  EveryClaimCounts
  <2>1. SUFFICES ASSUME at = "end", NEW r \in Range(results)
                 PROVE  /\ r.error # "audit"
                        /\ {k[2] : k \in {j \in DOMAIN rows : j[1] = r.id}} = 1..r.asserted
                        /\ \A i \in 1..r.asserted :
                             rows[r.id, i].label # "INSUFFICIENT_EVIDENCE" => r.execution.evidence
    BY Zenon DEF EveryClaimCounts
  <2>2. Audited(r) /\ Identified(Range(results))
    BY <1>2, ResultsOfSuite
  <2>3. \A i \in 1..r.asserted :
          <<r.id, i>> \in DOMAIN rows /\ rows[<<r.id, i>>].label = r.claims[i]
    BY <1>2, <2>1, <2>2 DEF RowsInv, Audited
  <2>4. ASSUME NEW j \in DOMAIN rows, j[1] = r.id
        PROVE  j[2] \in 1..r.asserted
    <3>1. PICK s \in Range(results) : j \in {s.id} \X DOMAIN s.claims
      BY <1>2 DEF RowsInv, ClaimKeys
    <3>2. s.id = r.id
      BY <2>4, <3>1
    <3>3. s = r
      BY <2>2, <3>2 DEF Identified
    <3>4. j[2] \in DOMAIN s.claims
      BY <3>1
    <3> QED BY <2>2, <3>3, <3>4 DEF Audited
  <2>5. {k[2] : k \in {j \in DOMAIN rows : j[1] = r.id}} = 1..r.asserted
    <3>1. ASSUME NEW i \in 1..r.asserted
          PROVE  \E k \in {j \in DOMAIN rows : j[1] = r.id} : k[2] = i
      <4>1. <<r.id, i>> \in {j \in DOMAIN rows : j[1] = r.id} /\ <<r.id, i>>[2] = i
        BY <2>3
      <4> QED BY <4>1
    <3> QED BY <2>4, <3>1
  <2>6. ASSUME NEW i \in 1..r.asserted, rows[r.id, i].label # "INSUFFICIENT_EVIDENCE"
        PROVE  r.execution.evidence
    <3>1. r.claims[i] # "INSUFFICIENT_EVIDENCE"
      <4>1. rows[<<r.id, i>>].label = r.claims[i]
        BY <2>3
      <4> QED BY <2>6, <4>1, Zenon
    <3> QED BY <2>2, <3>1, Zenon DEF Audited
  <2> QED BY <2>2, <2>5, <2>6, Zenon DEF Audited
<1> QED BY <1>1, <1>2, RowsInit, RunNext, RowsNext, PTL DEF Spec

-----------------------------------------------------------------------------
(* The totals. *)

\* As many identifiers as results.
LEMMA OneIdEach ==
  ASSUME NEW R, IsFiniteSet(R), Identified(R)
  PROVE  IsFiniteSet(Ids(R)) /\ Cardinality(Ids(R)) = Cardinality(R)
<1> DEFINE f == [r \in R |-> r.id]
<1>1. f \in Surjection(R, Ids(R))
  BY DEF Surjection, Ids
<1>2. f \in Injection(R, Ids(R))
  <2>1. \A r \in R : f[r] = r.id
    OBVIOUS
  <2>2. \A r, s \in R : f[r] = f[s] => r = s
    BY <2>1 DEF Identified
  <2>3. f \in [R -> Ids(R)]
    BY DEF Ids
  <2> HIDE DEF f
  <2> QED BY <2>2, <2>3, Zenon DEF Injection, IsInjective
<1> HIDE DEF f
<1> QED BY <1>1, <1>2, FS_Surjection

\* The size of the union of two sets that have nothing in common.
LEMMA Apart ==
  ASSUME NEW S, NEW T, IsFiniteSet(S), IsFiniteSet(T), S \cap T = {}
  PROVE  IsFiniteSet(S \cup T) /\ Cardinality(S \cup T) = Cardinality(S) + Cardinality(T)
BY FS_Union, FS_EmptySet, FS_CardinalityType

\* Every result counts once: in the route it took, or with those that failed.
LEMMA RoutesPartition ==
  ASSUME NEW R, IsFiniteSet(R)
  PROVE  Cardinality(R) =
           Aggregate(R).route["SqlOnly"] + Aggregate(R).route["VectorOnly"]
             + Aggregate(R).route["Hybrid"] + Aggregate(R).route["Unclassified"]
             + Cardinality({r \in R : r.error # "none"})
<1> DEFINE Took(c) == {r \in Completed(R) : RouteTaken(r) = c}
           lost == {r \in R : r.error # "none"}
<1>1. \A r : RouteTaken(r) \in Routes
  BY DEF RouteTaken, Route, Routes
<1>2. /\ Aggregate(R).route["SqlOnly"] = Cardinality(Took("SqlOnly"))
      /\ Aggregate(R).route["VectorOnly"] = Cardinality(Took("VectorOnly"))
      /\ Aggregate(R).route["Hybrid"] = Cardinality(Took("Hybrid"))
      /\ Aggregate(R).route["Unclassified"] = Cardinality(Took("Unclassified"))
  BY DEF Aggregate, Routes
<1>3. lost \in SUBSET R /\ \A c : Took(c) \in SUBSET R
  BY DEF Completed
<1>4. R = (((Took("SqlOnly") \cup Took("VectorOnly")) \cup Took("Hybrid")) \cup Took("Unclassified")) \cup lost
  BY <1>1 DEF Completed, Routes
<1>5. \A c, d : c # d => Took(c) \cap Took(d) = {}
  OBVIOUS
<1>6. \A c : Took(c) \cap lost = {}
  BY DEF Completed
<1>7. IsFiniteSet(lost) /\ \A c : IsFiniteSet(Took(c))
  BY <1>3, FS_Subset
<1> HIDE DEF Took, lost
<1> DEFINE A == Took("SqlOnly") \cup Took("VectorOnly")
           B == A \cup Took("Hybrid")
           C == B \cup Took("Unclassified")
<1>9. A \cap Took("Hybrid") = {} /\ B \cap Took("Unclassified") = {} /\ C \cap lost = {}
  <2>1. A \cap Took("Hybrid") = {}
    BY <1>5
  <2>2. B \cap Took("Unclassified") = {}
    BY <1>5
  <2>3. C \cap lost = {}
    BY <1>6
  <2> QED BY <2>1, <2>2, <2>3
<1>10. R = C \cup lost
  BY <1>4
<1>11. IsFiniteSet(A) /\ Cardinality(A) = Cardinality(Took("SqlOnly")) + Cardinality(Took("VectorOnly"))
  BY <1>5, <1>7, Apart
<1> HIDE DEF A
<1>12. IsFiniteSet(B) /\ Cardinality(B) = Cardinality(A) + Cardinality(Took("Hybrid"))
  BY <1>7, <1>9, <1>11, Apart
<1> HIDE DEF B
<1>13. IsFiniteSet(C) /\ Cardinality(C) = Cardinality(B) + Cardinality(Took("Unclassified"))
  BY <1>7, <1>9, <1>12, Apart
<1> HIDE DEF C
<1>14. Cardinality(R) = Cardinality(C) + Cardinality(lost)
  BY <1>7, <1>9, <1>10, <1>13, Apart
<1> QED BY <1>2, <1>11, <1>12, <1>13, <1>14 DEF lost

\* The aggregate on record is that of the rows on record: each question is one
\* row, passed where the row says so, and in one route or none.
THEOREM TotalsRight == Spec => []TotalsAddUp
<1>1. Init => RunInv
  BY DEF Init, RunInv
<1>2. ASSUME RunInv, RowsInv
      PROVE  TotalsAddUp
  <2> DEFINE R == Range(results)
             P == {r \in R : r.passed}
  <2>1. SUFFICES ASSUME at = "end"
                 PROVE  /\ summary.total = Cardinality(DOMAIN stored)
                        /\ summary.passed = Cardinality({q \in DOMAIN stored : stored[q]})
                        /\ summary.total = summary.route["SqlOnly"] + summary.route["VectorOnly"]
                              + summary.route["Hybrid"] + summary.route["Unclassified"]
                              + Cardinality({r \in R : r.error # "none"})
    BY DEF TotalsAddUp
  <2>2. summary = Aggregate(R) /\ \A r \in R : r.id \in DOMAIN stored /\ stored[r.id] = r.passed
    BY <1>2, <2>1 DEF RowsInv
  <2>3. Identified(R) /\ IsFiniteSet(R)
    BY <1>2, ResultsOfSuite
  <2>4. DOMAIN stored = Ids(R)
    BY <1>2, <2>2, Zenon DEF RowsInv, Ids
  <2>5. {q \in DOMAIN stored : stored[q]} = Ids(P)
    <3>1. \A q : q \in Ids(R) /\ stored[q] <=> q \in Ids(P)
      BY <2>2, Zenon DEF Ids
    <3> QED BY <2>4, <3>1, Zenon
  <2>6. IsFiniteSet(P) /\ Identified(P)
    <3>1. P \in SUBSET R
      OBVIOUS
    <3>2. IsFiniteSet(P)
      BY <2>3, <3>1, FS_Subset
    <3> QED BY <2>3, <3>1, <3>2 DEF Identified
  <2>7. summary.total = Cardinality(R) /\ summary.passed = Cardinality(P)
    BY <2>2, Zenon DEF Aggregate
  <2> HIDE DEF R, P
  <2>8. Cardinality(R) = Cardinality(Ids(R)) /\ Cardinality(P) = Cardinality(Ids(P))
    BY <2>3, <2>6, OneIdEach
  <2>9. Cardinality(R) = summary.route["SqlOnly"] + summary.route["VectorOnly"]
                           + summary.route["Hybrid"] + summary.route["Unclassified"]
                           + Cardinality({r \in R : r.error # "none"})
    BY <2>2, <2>3, RoutesPartition
  <2> QED BY <2>4, <2>5, <2>7, <2>8, <2>9
<1> QED BY <1>1, <1>2, RowsInit, RunNext, RowsNext, PTL DEF Spec
=============================================================================
