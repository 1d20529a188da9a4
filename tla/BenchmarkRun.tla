---------------------------- MODULE BenchmarkRun ----------------------------
(***************************************************************************)
(* The life of benchmark runs: POST /run creates a row and a background    *)
(* task of the API process (api/evaluation_routes.py), the runner asks its *)
(* questions one by one (evaluation/benchmark_runner.py), /cancel raises a *)
(* flag the runner reads between questions, and a process that starts      *)
(* fails every row the one before it left active.                          *)
(*                                                                         *)
(* One API process, as fail_orphaned_runs assumes. Requests and tasks      *)
(* interleave at awaits. A fault is a database call that fails, a provider *)
(* withdrawn between the request and its task, or the death of the         *)
(* process; MaxFaults of them in all.                                      *)
(***************************************************************************)
EXTENDS Naturals, FiniteSets

CONSTANTS
  Runs,       \* calls of POST /run, by the run_id each of them draws
  Config,     \* Config[r]: the configuration the duplicate guard compares
  Questions,  \* how many questions the question set holds
  MaxFaults   \* bound on the faults of a behaviour

ASSUME BenchmarkAssumption ==
  /\ IsFiniteSet(Runs)
  /\ Questions \in Nat
  /\ MaxFaults \in Nat

VARIABLES
  \* The database.
  status,   \* benchmark_runs.status; "none": no row
  flagged,  \* the runs with cancel_requested
  total,    \* benchmark_runs.total_requests
  rows,     \* question_results, by the number of the question
  metrics,  \* the runs with a row in evaluation_metrics
  \* The process.
  up,
  request,  \* where a call of POST /run has got to
  stopping, \* the runs of which a call of POST /cancel has read the row
  task,     \* where _execute_benchmark has got to
  scored,   \* how many question_results the runner holds
  ending,   \* result.status
  \* Bound.
  faults

dbVars   == <<status, flagged, total, rows, metrics>>
taskVars == <<task, scored, ending>>
vars     == <<dbVars, up, request, stopping, taskVars, faults>>

\* ACTIVE_RUN_STATUSES
Active == {"queued", "running"}

Final == {"completed", "failed", "cancelled"}

Init ==
  /\ status = [r \in Runs |-> "none"]
  /\ flagged = {}
  /\ total = [r \in Runs |-> 0]
  /\ rows = [r \in Runs |-> {}]
  /\ metrics = {}
  /\ up = TRUE
  /\ request = [r \in Runs |-> "new"]
  /\ stopping = {}
  /\ task = [r \in Runs |-> "none"]
  /\ scored = [r \in Runs |-> 0]
  /\ ending = [r \in Runs |-> "none"]
  /\ faults = 0

Fault == faults < MaxFaults /\ faults' = faults + 1
NoFault == UNCHANGED faults

Goto(r, label) == task' = [task EXCEPT ![r] = label]
Answer(r, how) == request' = [request EXCEPT ![r] = how]
SetStatus(r, s) == status' = [status EXCEPT ![r] = s]

-----------------------------------------------------------------------------
\* The routes.

\* _find_active_duplicate, and 409.
CheckDuplicate(r) ==
  /\ up /\ request[r] = "new"
  /\ \/ /\ \E q \in Runs : status[q] \in Active /\ Config[q] = Config[r]
        /\ Answer(r, "refused") /\ NoFault
     \/ /\ \A q \in Runs : ~(status[q] \in Active /\ Config[q] = Config[r])
        /\ Answer(r, "checked") /\ NoFault
     \/ Answer(r, "failed") /\ Fault
  /\ UNCHANGED <<dbVars, up, stopping, taskVars>>

\* The provider's models, the row, and the task. A provider that cannot be
\* loaded is 422. When the commit or the refresh after it raises, the row may
\* be there and no task is.
Create(r) ==
  /\ up /\ request[r] = "checked"
  /\ \/ /\ SetStatus(r, "queued")
        /\ Answer(r, "accepted") /\ Goto(r, "scheduled") /\ NoFault
     \/ /\ Answer(r, "refused")
        /\ NoFault /\ UNCHANGED <<status, task>>
     \/ /\ SetStatus(r, "queued") \/ UNCHANGED status
        /\ Answer(r, "failed")
        /\ Fault /\ UNCHANGED task
  /\ UNCHANGED <<flagged, total, rows, metrics, up, stopping, scored, ending>>

\* POST /run/{run_id}/cancel: a run that ended is refused (409).
FindActive(r) ==
  /\ up /\ status[r] \in Active
  /\ stopping' = stopping \cup {r}
  /\ UNCHANGED <<dbVars, up, request, taskVars, faults>>

\* Only the flag is written, and the run may have ended since.
RequestCancel(r) ==
  /\ r \in stopping
  /\ stopping' = stopping \ {r}
  /\ \/ flagged' = flagged \cup {r} /\ NoFault
     \/ (flagged' = flagged \cup {r} \/ UNCHANGED flagged) /\ Fault
  /\ UNCHANGED <<status, total, rows, metrics, up, request, taskVars>>

-----------------------------------------------------------------------------
\* The background task, _execute_benchmark.

\* The row is running; then the provider's models once more, which may be gone.
Begin(r) ==
  /\ task[r] = "scheduled"
  /\ \/ SetStatus(r, "running") /\ Goto(r, "ask") /\ NoFault
     \/ /\ SetStatus(r, "running") \/ UNCHANGED status
        /\ Goto(r, "fail")
        /\ Fault
  /\ UNCHANGED <<flagged, total, rows, metrics, up, request, stopping, scored, ending>>

\* Mutant: the runner does not ask.
Stops_Never(r) == FALSE

\* should_cancel
Stops(r) == r \in flagged

\* The status of a loop that was left without an exception.
LoopEnd(r) == IF scored[r] = Questions THEN "completed" ELSE "cancelled"

\* The head of the loop over the questions. A flag that cannot be read is down.
\* What raises before or after the loop makes the run failed, by its result.
AskCancel(r) ==
  /\ task[r] = "ask"
  /\ \/ /\ scored[r] = Questions \/ Stops(r)
        /\ Goto(r, "write")
        /\ ending' = [ending EXCEPT ![r] = LoopEnd(r)]
        /\ NoFault
     \/ /\ scored[r] < Questions /\ ~Stops(r)
        /\ Goto(r, "question") /\ NoFault /\ UNCHANGED ending
     \/ /\ scored[r] < Questions
        /\ Goto(r, "question") /\ Fault /\ UNCHANGED ending
     \/ /\ scored[r] \in {0, Questions} \/ Stops(r)
        /\ Goto(r, "write")
        /\ ending' = [ending EXCEPT ![r] = "failed"]
        /\ Fault
  /\ UNCHANGED <<dbVars, up, request, stopping, scored>>

\* _run_question, which never raises.
RunQuestion(r) ==
  /\ task[r] = "question"
  /\ scored' = [scored EXCEPT ![r] = @ + 1]
  /\ Goto(r, "persist")
  /\ UNCHANGED <<dbVars, up, request, stopping, ending, faults>>

\* Mutant: the row of the question without the totals of the run.
Persisted_RowOnly(r) == rows' = [rows EXCEPT ![r] = @ \cup {scored[r]}] /\ UNCHANGED total

\* One transaction: the row of the question, and the totals of the run.
Persisted(r) ==
  /\ rows' = [rows EXCEPT ![r] = @ \cup {scored[r]}]
  /\ total' = [total EXCEPT ![r] = scored[r]]

\* persist_one, whose failure is only logged.
PersistQuestion(r) ==
  /\ task[r] = "persist"
  /\ \/ Persisted(r) /\ NoFault
     \/ (Persisted(r) \/ UNCHANGED <<rows, total>>) /\ Fault
  /\ Goto(r, "ask")
  /\ UNCHANGED <<status, flagged, metrics, up, request, stopping, scored, ending>>

\* Mutant: the rows are left as the questions wrote them.
Recorded_RunOnly(r) ==
  /\ SetStatus(r, ending[r])
  /\ total' = [total EXCEPT ![r] = scored[r]]
  /\ metrics' = metrics \cup {r}
  /\ UNCHANGED rows

\* The last transaction: the row of the run, its metrics, and once more the
\* rows of all questions that were scored.
Recorded(r) ==
  /\ SetStatus(r, ending[r])
  /\ total' = [total EXCEPT ![r] = scored[r]]
  /\ metrics' = metrics \cup {r}
  /\ rows' = [rows EXCEPT ![r] = @ \cup 1 .. scored[r]]

WriteResult(r) ==
  /\ task[r] = "write"
  /\ \/ Recorded(r) /\ Goto(r, "done") /\ NoFault
     \/ /\ Recorded(r) \/ UNCHANGED <<status, total, rows, metrics>>
        /\ Goto(r, "fail") /\ Fault
  /\ UNCHANGED <<flagged, up, request, stopping, scored, ending>>

\* The except branch. An exception in it leaves the row as it is.
Fail(r) ==
  /\ task[r] = "fail"
  /\ Goto(r, "done")
  /\ \/ SetStatus(r, "failed") /\ NoFault
     \/ (SetStatus(r, "failed") \/ UNCHANGED status) /\ Fault
  /\ UNCHANGED <<flagged, total, rows, metrics, up, request, stopping, scored, ending>>

-----------------------------------------------------------------------------
\* The process dies, and every request and task with it.
Crash ==
  /\ up
  /\ up' = FALSE
  /\ request' = [r \in Runs |-> IF request[r] = "checked" THEN "failed" ELSE request[r]]
  /\ stopping' = {}
  /\ task' = [r \in Runs |-> "none"]
  /\ scored' = [r \in Runs |-> 0]
  /\ ending' = [r \in Runs |-> "none"]
  /\ Fault
  /\ UNCHANGED dbVars

\* Mutants of the next definition: the sweep knows one active status only; it
\* has lost its WHERE.
Swept_Running == {r \in Runs : status[r] = "running"}
Swept_All == {r \in Runs : status[r] # "none"}

\* The rows fail_orphaned_runs takes for abandoned.
Swept == {r \in Runs : status[r] \in Active}

\* The lifespan of the application: the sweep, before anything is served.
Boot ==
  /\ ~up
  /\ up' = TRUE
  /\ status' = [r \in Runs |-> IF r \in Swept THEN "failed" ELSE status[r]]
  /\ UNCHANGED <<flagged, total, rows, metrics, request, stopping, taskVars, faults>>

Serve(r) ==
  \/ CheckDuplicate(r)
  \/ Create(r)
  \/ FindActive(r)
  \/ RequestCancel(r)

Execute(r) ==
  \/ Begin(r)
  \/ AskCancel(r)
  \/ RunQuestion(r)
  \/ PersistQuestion(r)
  \/ WriteResult(r)
  \/ Fail(r)

Next ==
  \/ \E r \in Runs : Serve(r) \/ Execute(r)
  \/ Crash
  \/ Boot

Spec == Init /\ [][Next]_vars

\* The event loop runs every task that can go on, and the service is restarted.
FairSpec == Spec /\ (\A r \in Runs : WF_vars(Execute(r))) /\ WF_vars(Boot)

-----------------------------------------------------------------------------
\* Properties.

Labels == {"none", "scheduled", "ask", "question", "persist", "write", "fail", "done"}

TypeOK ==
  /\ status \in [Runs -> Active \cup Final \cup {"none"}]
  /\ flagged \in SUBSET Runs
  /\ total \in [Runs -> 0 .. Questions]
  /\ rows \in [Runs -> SUBSET (1 .. Questions)]
  /\ metrics \in SUBSET Runs
  /\ up \in BOOLEAN
  /\ stopping \in SUBSET Runs
  /\ request \in [Runs -> {"new", "checked", "accepted", "refused", "failed"}]
  /\ task \in [Runs -> Labels]
  /\ scored \in [Runs -> 0 .. Questions]
  /\ ending \in [Runs -> Final \cup {"none"}]
  /\ faults \in 0 .. MaxFaults

\* A run that ended without failing is on record as it was scored, whatever
\* went wrong while its questions were written one by one: a completed run has
\* every question, a cancelled one what it scored and fewer than all
\* (benchmark_runner.py, run; _upsert_question_results).
EndedRunIsWhole ==
  \A r \in Runs : status[r] \in {"completed", "cancelled"} =>
    /\ rows[r] = 1 .. total[r] /\ r \in metrics
    /\ status[r] = "completed" <=> total[r] = Questions
    /\ status[r] = "cancelled" => r \in flagged

\* The count of a run never falls behind its questions, however it died: it is
\* carried along with every one of them (evaluation_routes.py, persist_one).
TotalsNeverLag == \A r \in Runs : rows[r] \subseteq 1 .. total[r]

\* A row nobody will ever advance, which makes the guard refuse every run of
\* its configuration until the next restart (fail_orphaned_runs).
Stranded == {r \in Runs : up /\ status[r] \in Active /\ task[r] \in {"none", "done"}}

\* It takes a fault for each row that is stranded: neither a restart nor an
\* exception in a task leaves one behind by itself.
StrandedOnlyByFault == Cardinality(Stranded) <= faults

\* A run that ended stays as it ended (the dashboard stops polling it). Only
\* its own task, when its last commit raised, may still call it failed.
FinalIsFinal ==
  [][\A r \in Runs :
       status[r] \in Final /\ status'[r] # status[r] => task[r] = "fail"]_vars

\* Every run that was accepted ends, through exceptions and restarts, unless a
\* second fault hits the handling of the first.
AcceptedRunEnds ==
  \A r \in Runs : request[r] = "accepted" ~> status[r] \in Final \/ faults > 1

\* The questions of a run that are paid for: scored, or in flight.
Paid(r) == scored[r] + (IF task[r] = "question" THEN 1 ELSE 0)

\* A run that is flagged goes no further than the question in flight, and one
\* flagged before it begins scores nothing (cancel_benchmark_run;
\* test_run_cancel_endpoint.py), save a question for every flag that could not
\* be read.
CancelIsHeard ==
  \A r \in Runs, n \in 0 .. Questions :
    [](r \in flagged /\ Paid(r) = n => [](scored[r] <= n + faults))

\* An identical run already in flight makes this one redundant (evaluation_
\* routes.py, trigger_benchmark_run: a second tab or a retried request would
\* compete for the pipeline and bill the provider twice).
NoIdenticalRuns ==
  \A q, r \in Runs :
    status[q] \in Active /\ status[r] \in Active /\ Config[q] = Config[r] => q = r

=============================================================================
