------------------------------- MODULE SqlAgent -------------------------------
(***************************************************************************)
(* The SQL branch of retrieval (graph/sql_graph.py): a model is asked what *)
(* to do, its tool calls are run, what they returned is captured, and the  *)
(* model is asked again. What the model calls, the SQL it writes and what  *)
(* the database makes of it are free; the graph's checks are not.          *)
(***************************************************************************)
EXTENDS Naturals, Sequences, FiniteSets, SequencesExt

CONSTANTS
  Companies,
  SqlTexts,      \* the queries a model can write; a bound
  Selects,       \* those validate_sql_query lets through
  NoSql,         \* no query: ""
  NoTicker,      \* a row without a usable ticker
  RowSets,       \* the rows a query can return; a bound
  MaxCalls,      \* tool calls in one reply of the model; a bound
  MaxRounds,     \* rounds before the framework's step limit raises
  MaxSqlRetries  \* MAX_SQL_RETRIES (3)

ASSUME SqlAssumption ==
  /\ Selects \subseteq SqlTexts
  /\ NoSql \notin SqlTexts /\ NoTicker \notin Companies
  /\ RowSets \subseteq Seq(Companies \cup {NoTicker})
  /\ MaxCalls \in Nat /\ MaxRounds \in Nat /\ MaxSqlRetries \in Nat

VARIABLES
  sqlPhase,  \* the node the SQL graph runs next, or how it ended
  calls,     \* the tool calls of the model's last message
  outputs,   \* the tool messages after it
  repaired,  \* whether the last of them was a fix
  fixes,     \* retry_count
  lastSql,   \* last_sql
  dbResult,  \* db_result
  redrafted, \* whether a draft was captured after the last result
  rounds     \* rounds of tools so far

sqlVars == <<sqlPhase, calls, outputs, repaired, fixes, lastSql, dbResult, redrafted, rounds>>

\* db_result as it starts; an error payload; rows and the query they came
\* from; the text ToolNode answers an ill-formed call with.
Unset == [kind |-> "unset", sql |-> NoSql, rows |-> <<>>]
Failure == [kind |-> "error", sql |-> NoSql, rows |-> <<>>]
Prose == [kind |-> "prose", sql |-> NoSql, rows |-> <<>>]
Returned(q, r) == [kind |-> "rows", sql |-> q, rows |-> r]

\* The tools and what a model can pass them. generate_sql_query and
\* fix_sql_error are asked in the caller's words whatever the model wrote.
Call(tool, sql) == [tool |-> tool, sql |-> sql]

Calls ==
  {Call("schema", NoSql), Call("generate", NoSql), Call("fix", NoSql)}
    \cup {Call("execute", q) : q \in SqlTexts \cup {NoSql}}

Batches == UNION {[1..n -> Calls] : n \in 0..MaxCalls}

SqlInit ==
  /\ sqlPhase = "off"
  /\ calls = <<>>
  /\ outputs = <<>>
  /\ repaired = FALSE
  /\ fixes = 0
  /\ lastSql = NoSql
  /\ dbResult = Unset
  /\ redrafted = FALSE
  /\ rounds = 0

\* run_sql_retrieval starts the graph on a state of its own.
SqlStarts ==
  /\ sqlPhase' = "agent"
  /\ UNCHANGED <<calls, outputs, repaired, fixes, lastSql, dbResult, redrafted, rounds>>

\* The state of a run that ended, or that was timed out, is dropped.
SqlForgets ==
  /\ sqlPhase' = "off"
  /\ calls' = <<>> /\ outputs' = <<>>
  /\ repaired' = FALSE /\ fixes' = 0 /\ rounds' = 0
  /\ lastSql' = NoSql /\ dbResult' = Unset /\ redrafted' = FALSE

\* An exception in any node is a payload with nothing in it.
SqlRaises ==
  /\ sqlPhase' = "failed"
  /\ lastSql' = NoSql /\ dbResult' = Unset /\ redrafted' = FALSE
  /\ calls' = <<>> /\ outputs' = <<>>
  /\ UNCHANGED <<repaired, fixes, rounds>>

-----------------------------------------------------------------------------
\* sql_agent_node and should_continue_sql: a fix counts when its message is
\* the last one; the reply ends the run when it calls nothing, or calls for
\* a fix too many.
Ask ==
  /\ sqlPhase = "agent"
  /\ \/ /\ fixes' = IF repaired THEN fixes + 1 ELSE fixes
        /\ repaired' = FALSE
        /\ \E batch \in Batches :
             /\ calls' = batch
             /\ sqlPhase' = IF \/ batch = <<>>
                               \/ Call("fix", NoSql) \in Range(batch) /\ fixes' >= MaxSqlRetries
                            THEN "answered" ELSE "tools"
        /\ UNCHANGED <<outputs, lastSql, dbResult, redrafted, rounds>>
     \/ SqlRaises

\* A tool message: the query it carries, and the result.
Message(tool, sql, result) == [tool |-> tool, sql |-> sql, result |-> result]

\* execute_sql_query: validated, run, and repaired once when it fails; the
\* repair is validated before it runs.
Execution(q) ==
  {Message("execute", NoSql, Failure)} \cup
  {Message("execute", f, Returned(f, r)) :
     f \in IF q \in Selects THEN Selects ELSE {}, r \in RowSets}

\* generate_sql_query: whatever the prompt asks for, any text can be drafted.
Generated == {Message("generate", q, Unset) : q \in SqlTexts}

\* fix_sql_error, and so is a repair.
Repairs == {Message("fix", q, Unset) : q \in SqlTexts}

\* What a call can come back with.
Answers(call) ==
  CASE call.tool = "schema"   -> {Message("schema", NoSql, Unset)}
    [] call.tool = "generate" -> Generated
    [] call.tool = "fix"      -> Repairs
    [] call.tool = "execute" /\ call.sql = NoSql -> {Message("execute", NoSql, Prose)}
    [] OTHER                  -> Execution(call.sql)

\* ToolNode runs the calls of one reply and keeps their order; a model or a
\* database that fails inside a tool raises, and so does the step limit.
RunTools ==
  /\ sqlPhase = "tools"
  /\ \/ /\ rounds < MaxRounds
        /\ outputs' \in {o \in [1..Len(calls) -> UNION {Answers(calls[i]) : i \in 1..Len(calls)}] :
                           \A i \in 1..Len(calls) : o[i] \in Answers(calls[i])}
        /\ rounds' = rounds + 1
        /\ calls' = <<>>
        /\ sqlPhase' = "capture"
        /\ UNCHANGED <<repaired, fixes, lastSql, dbResult, redrafted>>
     \/ SqlRaises

\* Mutant: an execution leaves last_sql to the drafts.
Captured_DraftStands(s, m) ==
  IF m.tool \in {"generate", "fix"} THEN [s EXCEPT !.sql = m.sql, !.redrafted = TRUE]
  ELSE IF m.tool = "execute" THEN [s EXCEPT !.result = m.result, !.redrafted = FALSE]
  ELSE s

\* One tool message taken into the state: a draft is the last query; so is a
\* query the database ran, together with its result.
Captured(s, m) ==
  IF m.tool \in {"generate", "fix"} THEN [s EXCEPT !.sql = m.sql, !.redrafted = TRUE]
  ELSE IF m.tool = "execute"
  THEN [s EXCEPT !.result = m.result, !.redrafted = FALSE,
                 !.sql = IF m.sql # NoSql THEN m.sql ELSE @]
  ELSE s

\* The messages taken into state s in turn.
AllCaptured(s, messages) ==
  LET after[i \in 0..Len(messages)] ==
        IF i = 0 THEN s ELSE Captured(after[i - 1], messages[i])
  IN after[Len(messages)]

\* capture_sql_tool_outputs
Capture ==
  /\ sqlPhase = "capture"
  /\ LET s == AllCaptured([sql |-> lastSql, result |-> dbResult, redrafted |-> redrafted], outputs)
     IN lastSql' = s.sql /\ dbResult' = s.result /\ redrafted' = s.redrafted
  /\ repaired' = (outputs # <<>> /\ Last(outputs).tool = "fix")
  /\ outputs' = <<>>
  /\ sqlPhase' = "agent"
  /\ UNCHANGED <<calls, fixes, rounds>>

SqlStep == Ask \/ RunTools \/ Capture

SqlRunning == sqlPhase \in {"agent", "tools", "capture"}

-----------------------------------------------------------------------------
(* Properties. *)

\* What the SQL branch reports to the scorer and the evaluators is one query
\* and its own rows, unless the model drafted again and never ran the draft.
RowsNameTheirQuery == dbResult.kind = "rows" /\ ~redrafted => lastSql = dbResult.sql

===============================================================================
