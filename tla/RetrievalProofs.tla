---------------------------- MODULE RetrievalProofs ----------------------------
(***************************************************************************)
(* Theorems about RankedEvidence: a question loses what its branches found *)
(* only when one synchronous call held the event loop; a question that names *)
(* a cohort is answered about that cohort; and the rows the SQL branch     *)
(* reports are those of the query it reports.                              *)
(***************************************************************************)
EXTENDS RankedEvidence, WellFoundedInduction, TLAPS

-----------------------------------------------------------------------------
(* The timers. *)

\* The clock reaches the timer around all branches only while the loop is held.
ClockInv ==
  /\ now \in Nat
  /\ now >= OverallTimeout => held
  /\ stage = "failed" => held

\* Time passes by itself only while every branch that waits has a timer of its
\* own still to come, all of which are due before the outer one.
LEMMA TickKeeps ==
  ASSUME ClockInv, Tick
  PROVE  ClockInv'
<1>1. now < SqlTimeout
  <2>1. CASE SqlRunning
    BY <2>1 DEF Tick, Serving, TimerDue, SqlLate, ClockInv, SqlTimeout
  <2>2. CASE vector.status = "running"
    BY <2>2 DEF Tick, Serving, TimerDue, VectorLate, ClockInv, SqlTimeout, VectorTimeout
  <2>3. CASE market.status = "asking"
    BY <2>3 DEF Tick, Serving, TimerDue, MarketLate, ClockInv, SqlTimeout, MarketTimeout
  <2> QED BY <2>1, <2>2, <2>3 DEF Tick
<1>2. now' \in Nat /\ now' < OverallTimeout
  BY <1>1 DEF Tick, ClockInv, SqlTimeout, OverallTimeout
<1> QED BY <1>2 DEF Tick, ClockInv, OverallTimeout

\* A synchronous call says when it held the loop past every timer, whoever made
\* it: the market branch, another branch, or another question.
LEMMA HoldKeeps ==
  ASSUME ClockInv, MarketRuns \/ LoopIsHeld
  PROVE  ClockInv'
<1>1. PICK time \in now..MaxTime : now' = time /\ held' = (time >= OverallTimeout)
  BY DEF MarketRuns, Fetch, LoopIsHeld, Holds
<1>2. now' \in Nat
  BY <1>1, RetrievalAssumption DEF ClockInv
<1>3. now' >= OverallTimeout => held'
  BY <1>1, Zenon
<1>4. stage' # "failed"
  BY DEF MarketRuns, LoopIsHeld, Serving
<1> QED BY <1>2, <1>3, <1>4 DEF ClockInv

\* Every other step leaves the clock alone, or sets it back.
LEMMA ClockNext ==
  ASSUME ClockInv, [Next]_vars
  PROVE  ClockInv'
<1>1. CASE Plan \/ SqlWorks \/ VectorAnswers \/ MarketGivesUp \/ TimersFire
  BY <1>1 DEF ClockInv, Plan, SqlWorks, VectorAnswers, MarketGivesUp, TimersFire, retrievalVars
<1>2. CASE OverallTimerFires
  BY <1>2 DEF ClockInv, OverallTimerFires
<1>3. CASE FanIn
  BY <1>3 DEF ClockInv, FanIn, OverallTimeout
<1>4. CASE Score \/ Rerank
  BY <1>4 DEF ClockInv, Score, Rerank
<1>5. CASE UNCHANGED vars
  BY <1>5 DEF ClockInv, vars, retrievalVars
<1> QED BY <1>1, <1>2, <1>3, <1>4, <1>5, TickKeeps, HoldKeeps DEF Next, Retrieving, Done

\* A question loses everything its branches found only when one synchronous
\* call held the loop until the timer around them all was due: however branches
\* wait, and however often the loop is held for less, their own timers come first.
THEOREM LossIsHeld == Spec => []LostOnlyWhenHeld
<1>1. Init => ClockInv
  BY DEF Init, RetrievalInit, ClockInv, OverallTimeout
<1>2. ClockInv => LostOnlyWhenHeld
  BY DEF ClockInv, LostOnlyWhenHeld
<1> QED BY <1>1, <1>2, ClockNext, PTL DEF Spec

-----------------------------------------------------------------------------
(* The cohort. *)

\* Nothing is found before there is a cohort to find it in, and nobody ranked.
CohortInv ==
  /\ stage = "plan" => vector.chunks = {} /\ Range(ranked) = {}
  /\ ReportStaysInCohort

\* A search in a scope answers with chunks filed in that scope.
LEMMA SearchStaysInScope ==
  ASSUME NEW companies, companies # {}, NEW listed, NEW S \in SearchResults(companies, listed),
         NEW d \in S
  PROVE  Owner[d] \in companies
<1>1. PICK n : d \in Closest(n, companies, listed)
  BY DEF SearchResults, Reranked
<1> QED BY <1>1 DEF Closest, First

\* The vector branch searches the cohort.
LEMMA VectorKeeps ==
  ASSUME CohortInv, VectorAnswers, UNCHANGED rankingVars
  PROVE  CohortInv'
<1>1. stage' # "plan"
  BY DEF VectorAnswers, Serving
<1>2. Range(ranked)' = Range(ranked) /\ cohort' = cohort
  BY DEF VectorAnswers, rankingVars, Range
<1>3. ASSUME cohort # {}, NEW d \in vector'.chunks
      PROVE  Owner[d] \in cohort
  <2>1. PICK companies \in Scope, listed \in Publications \cup {Chunks} :
          d \in vector'.chunks /\ \E found \in SearchResults(companies, listed) :
                                    vector' = Vector("done", found)
    BY <1>3 DEF VectorAnswers, Vector
  <2>2. companies = cohort
    BY <1>3, <2>1 DEF Scope
  <2> QED BY <1>3, <2>1, <2>2, SearchStaysInScope DEF Vector
<1> QED BY <1>1, <1>2, <1>3 DEF CohortInv, ReportStaysInCohort, ChunksStayInCohort, Reported

\* Whoever the branches found, the cohort is whom the scorer asks the table for.
LEMMA ScoreKeeps ==
  ASSUME CohortInv, Score
  PROVE  CohortInv'
<1>1. stage' # "plan" /\ UNCHANGED <<cohort, vector>>
  BY DEF Score
<1>2. ASSUME cohort # {}
      PROVE  Range(ranked') \subseteq cohort
  <2>1. PICK S \in Candidates : \E companies \in Listed(S), said \in Opinions :
               ranked' \in Rankings(companies, said)
    BY DEF Score
  <2>2. S = cohort
    BY <1>2, <2>1 DEF Candidates
  <2>3. PICK companies \in Listed(S), said \in Opinions : ranked' \in Rankings(companies, said)
    BY <2>1
  <2>4. companies \subseteq cohort
    BY <1>2, <2>2 DEF Listed, First
  <2>5. ranked' \in [1..Smaller(TopLimit, Cardinality(companies)) -> companies]
    BY <2>3 DEF Rankings
  <2> QED BY <2>4, <2>5 DEF Range
<1> QED BY <1>1, <1>2 DEF CohortInv, ReportStaysInCohort, ChunksStayInCohort, Reported

\* Every other step leaves chunks and ranking alone, or drops the chunks.
LEMMA CohortNext ==
  ASSUME CohortInv, [Next]_vars
  PROVE  CohortInv'
<1> USE DEF CohortInv, ReportStaysInCohort, ChunksStayInCohort, Reported, Range
<1>1. CASE Plan /\ UNCHANGED rankingVars
  BY <1>1 DEF Plan, NoVector, Vector, rankingVars
<1>2. CASE (SqlWorks \/ MarketRuns \/ MarketGivesUp \/ Tick \/ LoopIsHeld) /\ UNCHANGED rankingVars
  BY <1>2 DEF SqlWorks, MarketRuns, MarketGivesUp, Tick, LoopIsHeld, Serving, retrievalVars, rankingVars
<1>3. CASE VectorAnswers /\ UNCHANGED rankingVars
  BY <1>3, VectorKeeps
<1>4. CASE (TimersFire \/ OverallTimerFires) /\ UNCHANGED rankingVars
  BY <1>4 DEF TimersFire, OverallTimerFires, NoVector, Vector, rankingVars
<1>5. CASE FanIn \/ Rerank
  BY <1>5 DEF FanIn, Rerank
<1>6. CASE Score
  BY <1>6, ScoreKeeps
<1>7. CASE UNCHANGED vars
  BY <1>7 DEF vars, retrievalVars, rankingVars
<1> QED BY <1>1, <1>2, <1>3, <1>4, <1>5, <1>6, <1>7 DEF Next, Retrieving, Done

\* A question that names a cohort is searched for and answered about it alone.
THEOREM CohortHolds == Spec => []ReportStaysInCohort
<1>1. Init => CohortInv
  <2>1. Range(<<>>) = {}
    BY DEF Range
  <2> QED
    BY <2>1 DEF Init, RetrievalInit, NoVector, Vector, CohortInv, ReportStaysInCohort,
                ChunksStayInCohort, Reported
<1>2. CohortInv => ReportStaysInCohort
  BY DEF CohortInv
<1> QED BY <1>1, <1>2, CohortNext, PTL DEF Spec


-----------------------------------------------------------------------------
(* Loops. The code's loops over a list are recursive functions; what holds of *)
(* their last value is shown by induction on the number of turns, for want of *)
(* a least turn at which it fails.                                            *)

\* A set of naturals that is not empty has a least member.
LEMMA Least ==
  ASSUME NEW S \in SUBSET Nat, S # {}
  PROVE  \E n \in S : \A m \in S : n <= m
<1> DEFINE R == {ss \in Nat \X Nat : ss[1] < ss[2]}
<1>1. IsWellFoundedOn(R, Nat)
  BY NatLessThanWellFounded DEF OpToRel
<1>2. PICK n \in S : \A m \in S : <<m, n>> \notin R
  <2> HIDE DEF R
  <2> QED BY <1>1, WFMin
<1>3. ASSUME NEW m \in S
      PROVE  n <= m
  <2>1. m \in Nat /\ n \in Nat
    OBVIOUS
  <2>2. ~(m < n)
    BY <1>2, <2>1
  <2> HIDE DEF R
  <2> QED BY <2>1, <2>2
<1> HIDE DEF R
<1> QED BY <1>3

\* What holds before the first turn, and after each if it did before it, holds
\* to the end.
LEMMA EveryTurn ==
  ASSUME NEW n \in Nat, NEW G, 0 \in G, \A i \in 1..n : i - 1 \in G => i \in G
  PROVE  0..n \subseteq G
<1> DEFINE S == (0..n) \ G
<1>1. SUFFICES ASSUME S # {}
               PROVE  FALSE
  OBVIOUS
<1>2. S \in SUBSET Nat
  OBVIOUS
<1>3. PICK i \in S : \A m \in S : i <= m
  <2> HIDE DEF S
  <2> QED BY <1>1, <1>2, Least
<1>4. i \in 1..n /\ i - 1 \in 0..n /\ i - 1 \notin S
  <2>1. i # 0 /\ i \in 0..n
    OBVIOUS
  <2>2. i - 1 \in 0..n
    BY <2>1
  <2>3. ~(i <= i - 1)
    BY <2>1
  <2>4. i - 1 \notin S
    <3> HIDE DEF S
    <3> QED BY <1>3, <2>3
  <2> QED BY <2>1, <2>2, <2>4
<1>5. i - 1 \in G
  BY <1>4
<1> QED BY <1>4, <1>5

-----------------------------------------------------------------------------
(* The SQL branch. *)

\* f is what is captured after each message of one reply.
CaptureLoop(f, s, messages, n) ==
  f = [i \in 0..n |-> IF i = 0 THEN s ELSE Captured(f[i - 1], messages[i])]

\* The loop over the messages of one reply is a function.
LEMMA CapturesExist ==
  ASSUME NEW s, NEW messages, NEW n \in Nat
  PROVE  \E f : CaptureLoop(f, s, messages, n)
<1> DEFINE Runs(f, m) == CaptureLoop(f, s, messages, m)
           G == {m \in 0..n : \E f : Runs(f, m)}
<1>1. 0 \in G
  <2>1. Runs([i \in 0..0 |-> s], 0)
    BY DEF CaptureLoop
  <2> HIDE DEF Runs
  <2> QED BY <2>1
<1>2. ASSUME NEW m \in 1..n, m - 1 \in G
      PROVE  m \in G
  <2>1. PICK f : Runs(f, m - 1)
    BY <1>2
  <2> DEFINE g == [i \in 0..m |-> IF i = m THEN Captured(f[m - 1], messages[m]) ELSE f[i]]
  <2>2. ASSUME NEW i \in 0..m
        PROVE  g[i] = IF i = 0 THEN s ELSE Captured(g[i - 1], messages[i])
    <3>1. CASE i = m
      <4>1. g[i - 1] = f[m - 1]
        BY <3>1
      <4> QED BY <3>1, <4>1
    <3>2. CASE i # m
      <4>1. i \in 0..(m - 1) /\ g[i] = f[i] /\ (i # 0 => g[i - 1] = f[i - 1])
        BY <3>2
      <4> QED BY <2>1, <4>1 DEF CaptureLoop
    <3> QED BY <3>1, <3>2
  <2>3. Runs(g, m)
    BY <2>2 DEF CaptureLoop
  <2> HIDE DEF Runs, g
  <2> QED BY <2>3
<1>3. 0..n \subseteq G
  <2> HIDE DEF G
  <2> QED BY <1>1, <1>2, EveryTurn
<1> QED BY <1>3

\* A reply that was taken in leaves what the first message found, each of them
\* in turn applied: whatever set of states one message stays in, all do.
LEMMA CapturesStay ==
  ASSUME NEW G, NEW messages, Len(messages) \in Nat, NEW s \in G,
         \A r \in G, i \in 1..Len(messages) : Captured(r, messages[i]) \in G
  PROVE  AllCaptured(s, messages) \in G
<1> DEFINE n == Len(messages)
           after[i \in 0..n] == IF i = 0 THEN s ELSE Captured(after[i - 1], messages[i])
           K == {i \in 0..n : after[i] \in G}
<1>1. after = [i \in 0..n |-> IF i = 0 THEN s ELSE Captured(after[i - 1], messages[i])]
  <2>1. n \in Nat
    OBVIOUS
  <2>2. PICK f : CaptureLoop(f, s, messages, n)
    <3> HIDE DEF n
    <3> QED BY <2>1, CapturesExist
  <2>3. \E g : g = [i \in 0..n |-> IF i = 0 THEN s ELSE Captured(g[i - 1], messages[i])]
    BY <2>2, Zenon DEF CaptureLoop
  <2> QED BY <2>3, Zenon
<1>2. AllCaptured(s, messages) = after[n]
  BY DEF AllCaptured
<1> HIDE DEF after
<1>3. 0 \in K
  BY <1>1
<1>4. ASSUME NEW i \in 1..n, i - 1 \in K
      PROVE  i \in K
  <2>1. after[i] = Captured(after[i - 1], messages[i]) /\ after[i - 1] \in G
    BY <1>1, <1>4
  <2> QED BY <2>1
<1>5. 0..n \subseteq K
  <2> HIDE DEF K
  <2> QED BY <1>3, <1>4, EveryTurn
<1>6. after[n] \in G
  BY <1>5
<1> QED BY <1>2, <1>6

Rows == Seq(Companies \cup {NoTicker})
Results == {r \in [kind : {"unset", "error", "prose", "rows"}, sql : SqlTexts \cup {NoSql}, rows : Rows] :
              r.kind = "rows" => r.sql # NoSql}

\* What a tool can answer: rows come with the query they are of.
Messages ==
  {m \in [tool : {"schema", "generate", "fix", "execute"}, sql : SqlTexts \cup {NoSql}, result : Results] :
     m.tool = "execute" /\ m.result.kind = "rows" => m.sql = m.result.sql}

\* The query on record is that of the rows, unless a draft came after them.
NamedStates ==
  {s \in [sql : SqlTexts \cup {NoSql}, result : Results, redrafted : BOOLEAN] :
     s.result.kind = "rows" /\ ~s.redrafted => s.sql = s.result.sql}

\* A message keeps it so.
LEMMA CapturedStays ==
  ASSUME NEW s \in NamedStates, NEW m \in Messages
  PROVE  Captured(s, m) \in NamedStates
<1>1. /\ s \in [sql : SqlTexts \cup {NoSql}, result : Results, redrafted : BOOLEAN]
      /\ s.result.kind = "rows" /\ ~s.redrafted => s.sql = s.result.sql
  BY DEF NamedStates
<1>2. m.sql \in SqlTexts \cup {NoSql} /\ m.result \in Results
  BY DEF Messages
<1>3. CASE m.tool \in {"generate", "fix"}
  <2>1. Captured(s, m) = [s EXCEPT !.sql = m.sql, !.redrafted = TRUE]
    BY <1>3 DEF Captured
  <2>2. Captured(s, m) \in [sql : SqlTexts \cup {NoSql}, result : Results, redrafted : BOOLEAN]
    BY <1>1, <1>2, <2>1
  <2>3. Captured(s, m).redrafted = TRUE
    BY <1>1, <2>1
  <2> QED BY <2>2, <2>3 DEF NamedStates
<1>4. CASE m.tool = "execute"
  <2>1. Captured(s, m) = [s EXCEPT !.result = m.result, !.redrafted = FALSE,
                                   !.sql = IF m.sql # NoSql THEN m.sql ELSE s.sql]
    BY <1>4 DEF Captured
  <2>2. Captured(s, m) \in [sql : SqlTexts \cup {NoSql}, result : Results, redrafted : BOOLEAN]
    BY <1>1, <1>2, <2>1
  <2>3. /\ Captured(s, m).result = m.result
        /\ Captured(s, m).sql = IF m.sql # NoSql THEN m.sql ELSE s.sql
    BY <1>1, <2>1
  <2>4. m.result.kind = "rows" => m.sql = m.result.sql /\ m.result.sql # NoSql
    BY <1>2, <1>4 DEF Messages, Results
  <2> QED BY <2>2, <2>3, <2>4 DEF NamedStates
<1>5. CASE m.tool \notin {"generate", "fix", "execute"}
  BY <1>5 DEF Captured
<1> QED BY <1>3, <1>4, <1>5

\* The tools answer with such messages.
LEMMA AnswersAreMessages ==
  ASSUME NEW c \in Calls
  PROVE  Answers(c) \subseteq Messages
<1>1. <<>> \in Rows /\ RowSets \subseteq Rows
  BY SqlAssumption DEF Rows
<1>2. Unset \in Results /\ Failure \in Results /\ Prose \in Results
  BY <1>1 DEF Unset, Failure, Prose, Results
<1>3. \A q \in SqlTexts : NoSql # q
  BY SqlAssumption
<1>4. \A q \in SqlTexts, r \in RowSets : Returned(q, r) \in Results
  BY <1>1, <1>3 DEF Returned, Results
<1>5. ASSUME NEW m \in Answers(c)
      PROVE  m \in Messages
  <2>1. CASE m \in {Message("schema", NoSql, Unset)} \cup Generated \cup Repairs
    BY <1>2, <2>1 DEF Message, Generated, Repairs, Messages
  <2>2. CASE m \in {Message("execute", NoSql, Prose), Message("execute", NoSql, Failure)}
    BY <1>2, <2>2 DEF Message, Messages, Prose, Failure
  <2>3. CASE \E f \in SqlTexts, r \in RowSets : m = Message("execute", f, Returned(f, r))
    BY <1>4, <2>3 DEF Message, Messages, Returned
  <2>4. m \in Execution(c.sql) =>
          \/ m = Message("execute", NoSql, Failure)
          \/ \E f \in SqlTexts, r \in RowSets : m = Message("execute", f, Returned(f, r))
    BY SqlAssumption DEF Execution
  <2> QED BY <2>1, <2>2, <2>3, <2>4 DEF Answers, Calls, Call
<1> QED BY <1>5

\* What the agent's graph has captured.
captured == [sql |-> lastSql, result |-> dbResult, redrafted |-> redrafted]

\* Its calls, its messages, and what it captured of them.
SqlInv ==
  /\ calls \in Seq(Calls)
  /\ outputs \in Seq(Messages)
  /\ captured \in NamedStates

\* A graph that has captured nothing names nothing.
LEMMA NothingNamed == [sql |-> NoSql, result |-> Unset, redrafted |-> FALSE] \in NamedStates
BY DEF NamedStates, Results, Rows, Unset

\* A graph that starts, raises or is dropped has captured nothing.
LEMMA ForgottenNamed ==
  ASSUME lastSql' = NoSql, dbResult' = Unset, redrafted' = FALSE, calls' = <<>>, outputs' = <<>>
  PROVE  SqlInv'
<1>1. captured' = [sql |-> NoSql, result |-> Unset, redrafted |-> FALSE]
  BY Zenon DEF captured
<1>2. calls' \in Seq(Calls) /\ outputs' \in Seq(Messages)
  OBVIOUS
<1> QED BY <1>1, <1>2, NothingNamed DEF SqlInv

\* A reply of the model, or its failure.
LEMMA AskNamed ==
  ASSUME SqlInv, Ask
  PROVE  SqlInv'
<1>1. CASE SqlRaises
  BY <1>1, ForgottenNamed DEF SqlRaises
<1>2. CASE calls' \in Batches /\ UNCHANGED <<outputs, lastSql, dbResult, redrafted>>
  <2>1. calls' \in Seq(Calls)
    BY <1>2, SqlAssumption DEF Batches
  <2> QED BY <1>2, <2>1 DEF SqlInv, captured
<1> QED BY <1>1, <1>2 DEF Ask

\* The tools that answer.
LEMMA ToolsNamed ==
  ASSUME SqlInv, RunTools
  PROVE  SqlInv'
<1>1. CASE SqlRaises
  BY <1>1, ForgottenNamed DEF SqlRaises
<1>2. CASE /\ \E S : outputs' \in [1..Len(calls) -> S]
           /\ \A i \in 1..Len(calls) : outputs'[i] \in Answers(calls[i])
           /\ calls' = <<>>
           /\ UNCHANGED <<lastSql, dbResult, redrafted>>
  <2>1. Len(calls) \in Nat /\ \A i \in 1..Len(calls) : calls[i] \in Calls
    BY DEF SqlInv
  <2>2. \A i \in 1..Len(calls) : outputs'[i] \in Messages
    BY <1>2, <2>1, AnswersAreMessages
  <2>3. outputs' \in [1..Len(calls) -> Messages]
    BY <1>2, <2>2
  <2>4. outputs' \in Seq(Messages)
    BY <2>1, <2>3
  <2> QED BY <1>2, <2>4 DEF SqlInv, captured
<1> QED BY <1>1, <1>2 DEF RunTools

\* The messages taken into the state.
LEMMA CaptureNamed ==
  ASSUME SqlInv, Capture
  PROVE  SqlInv'
<1> DEFINE r == AllCaptured(captured, outputs)
<1>1. r \in NamedStates
  <2>1. captured \in NamedStates /\ Len(outputs) \in Nat
    BY DEF SqlInv
  <2>2. \A i \in 1..Len(outputs) : outputs[i] \in Messages
    BY DEF SqlInv
  <2> QED BY <2>1, <2>2, CapturesStay, CapturedStays
<1>2. lastSql' = r.sql /\ dbResult' = r.result /\ redrafted' = r.redrafted
  BY DEF Capture, captured
<1> HIDE DEF r
<1>3. captured' = r
  BY <1>1, <1>2 DEF NamedStates, captured
<1>4. UNCHANGED calls /\ outputs' = <<>>
  BY DEF Capture
<1> QED BY <1>1, <1>3, <1>4 DEF SqlInv

\* The rest of retrieval starts the agent's graph anew, or drops its state.
LEMMA NamedNext ==
  ASSUME SqlInv, [Next]_vars
  PROVE  SqlInv'
<1>1. CASE SqlWorks
  BY <1>1, AskNamed, ToolsNamed, CaptureNamed DEF SqlWorks, SqlStep
<1>2. CASE Plan
  BY <1>2 DEF Plan, SqlStarts, sqlVars, SqlInv, captured
<1>3. CASE OverallTimerFires \/ FanIn
  BY <1>3, ForgottenNamed DEF OverallTimerFires, FanIn, SqlForgets
<1>4. CASE TimersFire
  <2>1. CASE SqlRaises
    BY <2>1, ForgottenNamed DEF SqlRaises
  <2>2. CASE UNCHANGED sqlVars
    BY <2>2 DEF sqlVars, SqlInv, captured
  <2> QED BY <1>4, <2>1, <2>2 DEF TimersFire
<1>5. CASE UNCHANGED sqlVars
  BY <1>5 DEF sqlVars, SqlInv, captured
<1> QED
  BY <1>1, <1>2, <1>3, <1>4, <1>5 DEF Next, Retrieving, VectorAnswers, MarketRuns, MarketGivesUp,
     Tick, LoopIsHeld, Score, Rerank, Done, vars

\* At the start the graph has run nothing.
LEMMA NamedInit == Init => SqlInv
<1> SUFFICES ASSUME Init
             PROVE  SqlInv
  OBVIOUS
<1>1. calls = <<>> /\ outputs = <<>> /\ lastSql = NoSql /\ dbResult = Unset /\ redrafted = FALSE
  BY DEF Init, RetrievalInit, SqlInit
<1>2. captured = [sql |-> NoSql, result |-> Unset, redrafted |-> FALSE]
  BY <1>1, Zenon DEF captured
<1>3. calls \in Seq(Calls) /\ outputs \in Seq(Messages)
  BY <1>1
<1> QED BY <1>2, <1>3, NothingNamed DEF SqlInv

\* What the SQL branch reports is one query and its own rows, unless the model
\* drafted again and never ran the draft.
THEOREM RowsNamed == Spec => []RowsNameTheirQuery
<1>1. ASSUME SqlInv
      PROVE  RowsNameTheirQuery
  <2>1. captured.result.kind = "rows" /\ ~captured.redrafted => captured.sql = captured.result.sql
    BY <1>1, Zenon DEF SqlInv, NamedStates
  <2>2. captured.sql = lastSql /\ captured.result = dbResult /\ captured.redrafted = redrafted
    BY Zenon DEF captured
  <2> QED BY <2>1, <2>2, Zenon DEF RowsNameTheirQuery
<1> QED BY <1>1, NamedInit, NamedNext, PTL DEF Spec

-----------------------------------------------------------------------------
(* What the branches leave. *)

\* Whatever the branches answer is about companies and chunks there are, and a
\* branch the intent does not ask leaves nothing.
FoundInv ==
  /\ intent \in AskedIntents /\ question \in Questions
  /\ cohort \in SUBSET Companies
  /\ vector.chunks \in SUBSET Chunks
  /\ market.data \in SUBSET Companies /\ market.confidence \in Nat
  /\ intent \in SqlIntents => vector = NoVector
  /\ intent # "MIXED" => market = NoMarket
  /\ sqlResult.db \in Results

\* The cohort is of companies in the table.
LEMMA PlanFinds ==
  ASSUME FoundInv, Plan, UNCHANGED rankingVars
  PROVE  FoundInv'
<1>1. question.theme \in SUBSET Companies /\ question.named \in SUBSET Companies
      /\ question.sector \in SUBSET Companies
  BY RetrievalAssumption DEF FoundInv
<1>2. ThemeCompanies \subseteq SUBSET Companies /\ NamedCompanies \subseteq SUBSET Companies
      /\ SectorCompanies \subseteq SUBSET Companies
  BY <1>1 DEF ThemeCompanies, NamedCompanies, SectorCompanies, Lookup
<1>3. cohort' \in SUBSET Companies
  BY <1>2 DEF Plan, Resolutions
<1>4. vector'.chunks = {} /\ (intent \in SqlIntents => vector' = NoVector)
  BY DEF Plan, Vector, NoVector
<1>5. market'.data = {} /\ market'.confidence = 0 /\ (intent # "MIXED" => market' = NoMarket)
  BY DEF Plan, Market, NoMarket
<1> QED BY <1>3, <1>4, <1>5 DEF FoundInv, Plan, rankingVars

\* A search answers with chunks of the listing it searches.
LEMMA VectorFinds ==
  ASSUME FoundInv, VectorAnswers, UNCHANGED rankingVars
  PROVE  FoundInv'
<1>1. intent \notin SqlIntents
  BY DEF VectorAnswers, FoundInv, NoVector, Vector
<1>2. vector'.chunks \in SUBSET Chunks
  <2>1. CASE vector' = Vector("done", {})
    BY <2>1 DEF Vector
  <2>2. ASSUME NEW companies \in Scope, NEW listed \in Publications \cup {Chunks},
               NEW found \in SearchResults(companies, listed), vector' = Vector("done", found)
        PROVE  vector'.chunks \in SUBSET Chunks
    <3>1. PICK n : found \subseteq Closest(n, companies, listed)
      BY DEF SearchResults, Reranked
    <3>2. found \subseteq listed
      BY <3>1 DEF Closest, First
    <3>3. listed \subseteq Chunks
      BY RetrievalAssumption
    <3> QED BY <2>2, <3>2, <3>3 DEF Vector
  <2> QED BY <2>1, <2>2 DEF VectorAnswers
<1> QED BY <1>1, <1>2 DEF FoundInv, VectorAnswers, rankingVars

\* The market branch is asked of companies, and quotes some of them.
LEMMA MarketFinds ==
  ASSUME FoundInv, MarketRuns \/ MarketGivesUp, UNCHANGED rankingVars
  PROVE  FoundInv'
<1>1. intent = "MIXED"
  BY DEF MarketRuns, MarketGivesUp, FoundInv, NoMarket, Market
<1>2. market'.data \in SUBSET Companies /\ market'.confidence \in Nat
  <2>1. CASE MarketGivesUp
    BY <2>1 DEF MarketGivesUp, Market
  <2>2. CASE MarketRuns
    <3>1. PICK tickers \in ReadTickers : Fetch(tickers)
      BY <2>2 DEF MarketRuns
    <3>2. tickers \in SUBSET Companies
      BY DEF ReadTickers, FoundInv
    <3>3. PICK cached \in SUBSET tickers, fetched \in SUBSET tickers :
            market' = Market("done", cached \cup fetched,
                             MarketConfidence(tickers, cached, cached \cup fetched))
      BY <3>1 DEF Fetch, Quoted
    <3>4. MarketConfidence(tickers, cached, cached \cup fetched) \in Nat
      BY DEF MarketConfidence
    <3> QED BY <3>2, <3>3, <3>4 DEF Market
  <2> QED BY <2>1, <2>2
<1>3. UNCHANGED <<question, intent, cohort, vector, sqlResult>>
  BY DEF MarketRuns, MarketGivesUp, rankingVars
<1> QED BY <1>1, <1>2, <1>3 DEF FoundInv

\* Timers leave a branch with nothing; the fan-in keeps what it left.
LEMMA FoundNext ==
  ASSUME FoundInv, SqlInv, [Next]_vars
  PROVE  FoundInv'
<1>1. CASE (SqlWorks \/ Tick \/ LoopIsHeld) /\ UNCHANGED rankingVars
  BY <1>1 DEF SqlWorks, Tick, LoopIsHeld, FoundInv, retrievalVars, rankingVars
<1>2. CASE TimersFire /\ UNCHANGED rankingVars
  <2>1. vector' = vector \/ (vector' = Vector("done", {}) /\ vector.status = "running")
    BY <1>2 DEF TimersFire, VectorLate
  <2>2. market' = market \/ (market' = Market("done", {}, 0) /\ market.status = "asking")
    BY <1>2 DEF TimersFire, MarketLate
  <2>3. UNCHANGED <<question, intent, cohort, sqlResult>>
    BY <1>2 DEF TimersFire, rankingVars
  <2>4. vector'.chunks \in SUBSET Chunks /\ (intent \in SqlIntents => vector' = NoVector)
    BY <2>1 DEF FoundInv, Vector, NoVector
  <2>5. market'.data \in SUBSET Companies /\ market'.confidence \in Nat
        /\ (intent # "MIXED" => market' = NoMarket)
    BY <2>2 DEF FoundInv, Market, NoMarket
  <2> QED BY <2>3, <2>4, <2>5 DEF FoundInv
<1>3. CASE OverallTimerFires /\ UNCHANGED rankingVars
  BY <1>3 DEF OverallTimerFires, FoundInv, NoVector, Vector, NoMarket, Market, rankingVars
<1>4. CASE FanIn
  <2>1. dbResult \in Results
    BY DEF SqlInv, captured, NamedStates
  <2> QED BY <1>4, <2>1 DEF FanIn, FoundInv
<1>5. CASE Score \/ Rerank
  BY <1>5 DEF Score, Rerank, FoundInv
<1>6. CASE UNCHANGED vars
  BY <1>6 DEF vars, retrievalVars, rankingVars, FoundInv
<1> QED
  BY <1>1, <1>2, <1>3, <1>4, <1>5, <1>6, PlanFinds, VectorFinds, MarketFinds DEF Next, Retrieving, Done

\* At the start nothing is found.
LEMMA FoundInit == Init => FoundInv
<1>1. Unset \in Results
  BY DEF Unset, Results, Rows
<1> QED
  BY <1>1 DEF Init, RetrievalInit, FoundInv, NoVector, Vector, NoMarket, Market, NoSqlResult
===============================================================================
