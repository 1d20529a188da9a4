------------------------- MODULE BenchmarkRunProofs -------------------------
(***************************************************************************)
(* Theorems of BenchmarkRun, for any number of runs, questions and faults. *)
(* What a run has on record follows from where its task is: Step says, for *)
(* one run, how the row, its questions and the runner's own count agree at *)
(* each label, and every action moves one run from label to label.         *)
(***************************************************************************)
EXTENDS BenchmarkRun, FiniteSetTheorems, TLAPS

\* The labels of a task that holds its row in running.
Working == {"ask", "question", "persist", "write"}

\* How the task of a run stands to its row.
Task(r) ==
  /\ request[r] \in {"new", "checked"} => status[r] = "none"
  /\ status[r] = "none" => total[r] = 0 /\ rows[r] = {} /\ task[r] = "none"
  /\ task[r] = "scheduled" => status[r] = "queued" /\ total[r] = 0
  /\ task[r] \in Working => status[r] = "running" /\ total[r] <= scored[r]
  /\ task[r] = "question" => scored[r] < Questions
  /\ task[r] = "persist" => scored[r] > 0

\* How the loop was left.
Closing(r) ==
  task[r] = "write" =>
    /\ ending[r] # "none"
    /\ ending[r] = "completed" => scored[r] = Questions
    /\ ending[r] = "cancelled" => scored[r] # Questions /\ r \in flagged

\* What the tables hold of a run.
Whole(r) ==
  status[r] \in {"completed", "cancelled"} =>
    /\ rows[r] = 1 .. total[r] /\ r \in metrics
    /\ status[r] = "completed" <=> total[r] = Questions
    /\ status[r] = "cancelled" => r \in flagged

Step(r) ==
  /\ Task(r)
  /\ Closing(r)
  /\ rows[r] \subseteq 1 .. total[r]
  /\ Whole(r)

\* The inductive invariant. A task does not outlive its process.
Alive == \A r \in Runs : task[r] # "none" => up
Kept == TypeOK /\ \A r \in Runs : Step(r)
IInv == Kept /\ Alive

-----------------------------------------------------------------------------
\* A run none of whose fields changes keeps its invariant, whatever the others
\* do (each action is about one run).
LEMMA Untouched ==
  ASSUME NEW q \in Runs, Step(q),
         status'[q] = status[q], total'[q] = total[q], rows'[q] = rows[q],
         request'[q] = request[q], task'[q] = task[q],
         scored'[q] = scored[q], ending'[q] = ending[q],
         flagged \subseteq flagged', metrics \subseteq metrics'
  PROVE  Step(q)'
BY DEF Step, Task, Closing, Whole, Working

\* The initial states satisfy the invariant.
LEMMA InitHolds == ASSUME Init PROVE IInv
<1> USE BenchmarkAssumption
<1>1. TypeOK
  BY DEF Init, TypeOK, Labels, Active, Final
<1>2. \A r \in Runs : Step(r)
  BY DEF Init, Step, Task, Closing, Whole, Working
<1>3. Alive
  BY DEF Init, Alive
<1>. QED  BY <1>1, <1>2, <1>3 DEF IInv, Kept

\* A call of POST /run keeps the invariant.
LEMMA TriggerKeeps ==
  ASSUME Kept, NEW r \in Runs, CheckDuplicate(r) \/ Create(r)
  PROVE  Kept'
<1> USE BenchmarkAssumption
<1>. TypeOK /\ \A q \in Runs : Step(q)  BY DEF Kept
<1>1. CASE CheckDuplicate(r)
  <2>1. TypeOK'
    BY <1>1 DEF CheckDuplicate, TypeOK, dbVars, taskVars, Answer, Fault, NoFault
  <2>2. Step(r)'
    BY <1>1 DEF CheckDuplicate, TypeOK, dbVars, taskVars, Answer, Fault, NoFault,
                Step, Task, Closing, Whole, Working
  <2>3. ASSUME NEW q \in Runs, q # r  PROVE Step(q)'
    BY <1>1, <2>3, Untouched DEF CheckDuplicate, TypeOK, dbVars, taskVars, Answer
  <2>. QED  BY <2>1, <2>2, <2>3 DEF Kept
<1>2. CASE Create(r)
  <2>1. TypeOK'
    BY <1>2 DEF Create, TypeOK, Answer, Goto, SetStatus, Fault, NoFault, Active, Labels
  <2>2. Step(r)'
    BY <1>2 DEF Create, TypeOK, Answer, Goto, SetStatus, Fault, NoFault,
                Step, Task, Closing, Whole, Working
  <2>3. ASSUME NEW q \in Runs, q # r  PROVE Step(q)'
    BY <1>2, <2>3, Untouched DEF Create, TypeOK, Answer, Goto, SetStatus
  <2>. QED  BY <2>1, <2>2, <2>3 DEF Kept
<1>. QED  BY <1>1, <1>2

\* A call of POST /cancel keeps it: a flag, once up, stays up.
LEMMA CancelKeeps ==
  ASSUME Kept, NEW r \in Runs, FindActive(r) \/ RequestCancel(r)
  PROVE  Kept'
<1>. TypeOK /\ \A q \in Runs : Step(q)  BY DEF Kept
<1>1. TypeOK'
  BY BenchmarkAssumption
     DEF FindActive, RequestCancel, TypeOK, dbVars, taskVars, Fault, NoFault
<1>2. ASSUME NEW q \in Runs  PROVE Step(q)'
  BY Untouched DEF FindActive, RequestCancel, dbVars, taskVars
<1>. QED  BY <1>1, <1>2 DEF Kept

\* The first half of the task keeps it: until the loop is left.
LEMMA LoopKeeps ==
  ASSUME Kept, NEW r \in Runs, Begin(r) \/ AskCancel(r) \/ RunQuestion(r)
  PROVE  Kept'
<1> USE BenchmarkAssumption
<1>. TypeOK /\ \A q \in Runs : Step(q)  BY DEF Kept
<1>1. CASE Begin(r)
  <2>1. TypeOK'
    BY <1>1 DEF Begin, TypeOK, Goto, SetStatus, Fault, NoFault, Active, Labels
  <2>2. Step(r)'
    BY <1>1 DEF Begin, TypeOK, Goto, SetStatus, Step, Task, Closing, Whole, Working
  <2>3. ASSUME NEW q \in Runs, q # r  PROVE Step(q)'
    BY <1>1, <2>3, Untouched DEF Begin, TypeOK, Goto, SetStatus
  <2>. QED  BY <2>1, <2>2, <2>3 DEF Kept
<1>2. CASE AskCancel(r)
  <2>1. TypeOK'
    BY <1>2 DEF AskCancel, TypeOK, Goto, LoopEnd, Fault, NoFault, Final, Labels,
                dbVars
  <2>2. Step(r)'
    BY <1>2 DEF AskCancel, Stops, LoopEnd, TypeOK, Goto, dbVars,
                Step, Task, Closing, Whole, Working
  <2>3. ASSUME NEW q \in Runs, q # r  PROVE Step(q)'
    BY <1>2, <2>3, Untouched DEF AskCancel, TypeOK, Goto, dbVars
  <2>. QED  BY <2>1, <2>2, <2>3 DEF Kept
<1>3. CASE RunQuestion(r)
  <2>. scored[r] \in 0 .. Questions /\ scored[r] < Questions
    BY <1>3 DEF RunQuestion, Step, Task, TypeOK
  <2>1. TypeOK'
    BY <1>3 DEF RunQuestion, TypeOK, Goto, Labels, dbVars
  <2>2. Step(r)'
    BY <1>3 DEF RunQuestion, TypeOK, Goto, dbVars,
                Step, Task, Closing, Whole, Working
  <2>3. ASSUME NEW q \in Runs, q # r  PROVE Step(q)'
    BY <1>3, <2>3, Untouched DEF RunQuestion, TypeOK, Goto, dbVars
  <2>. QED  BY <2>1, <2>2, <2>3 DEF Kept
<1>. QED  BY <1>1, <1>2, <1>3

\* Writing the row of a question keeps it, also when the write is lost.
LEMMA PersistKeeps ==
  ASSUME Kept, NEW r \in Runs, PersistQuestion(r)
  PROVE  Kept'
<1> USE BenchmarkAssumption
<1>. TypeOK /\ \A q \in Runs : Step(q)  BY DEF Kept
<1>1. scored[r] \in 1 .. Questions /\ total[r] \in 0 .. scored[r]
  BY DEF PersistQuestion, Step, Task, TypeOK, Working
<1>2. /\ rows' = [rows EXCEPT ![r] = rows'[r]]
      /\ total' = [total EXCEPT ![r] = total'[r]]
      /\ rows'[r] \subseteq 1 .. total'[r]
      /\ total'[r] \in 0 .. scored[r]
  BY <1>1 DEF PersistQuestion, Persisted, TypeOK, Step
<1>3. TypeOK'
  <2>1. rows'[r] \subseteq 1 .. Questions /\ total'[r] \in 0 .. Questions
    BY <1>1, <1>2
  <2>. QED  BY <1>2, <2>1 DEF PersistQuestion, TypeOK, Goto, Labels, Fault, NoFault
<1>4. Step(r)'
  BY <1>1, <1>2 DEF PersistQuestion, TypeOK, Goto, Step, Task, Closing, Whole, Working
<1>5. ASSUME NEW q \in Runs, q # r  PROVE Step(q)'
  BY <1>2, <1>5, Untouched DEF PersistQuestion, TypeOK, Goto
<1>. QED  BY <1>3, <1>4, <1>5 DEF Kept

\* The last transaction makes the record whole, and keeps the invariant also
\* when its outcome is not known.
LEMMA WriteKeeps ==
  ASSUME Kept, NEW r \in Runs, WriteResult(r)
  PROVE  Kept'
<1> USE BenchmarkAssumption
<1>. TypeOK /\ \A q \in Runs : Step(q)  BY DEF Kept
<1>1. /\ scored[r] \in 0 .. Questions /\ total[r] \in 0 .. scored[r]
      /\ rows[r] \subseteq 1 .. scored[r]
  BY DEF WriteResult, Step, Task, TypeOK, Working
<1>2. ending[r] \in Final
  BY DEF WriteResult, Step, Closing, TypeOK
<1>3. CASE Recorded(r)
  <2>1. rows' = [rows EXCEPT ![r] = 1 .. scored[r]]
    BY <1>1, <1>3 DEF Recorded
  <2>2. TypeOK'
    <3>1. 1 .. scored[r] \subseteq 1 .. Questions
      BY <1>1
    <3>2. /\ status' \in [Runs -> Active \cup Final \cup {"none"}]
          /\ task' \in [Runs -> Labels]
      BY <1>2, <1>3 DEF WriteResult, Recorded, SetStatus, TypeOK, Goto, Labels
    <3>3. /\ rows' \in [Runs -> SUBSET (1 .. Questions)]
          /\ total' \in [Runs -> 0 .. Questions]
          /\ metrics' \in SUBSET Runs
      BY <1>1, <1>3, <2>1, <3>1 DEF Recorded, TypeOK
    <3>4. faults' \in 0 .. MaxFaults
      BY DEF WriteResult, TypeOK, Fault, NoFault
    <3>. QED
      BY <3>2, <3>3, <3>4 DEF WriteResult, TypeOK
  <2>3. Step(r)'
    BY <1>1, <1>2, <1>3, <2>1
       DEF WriteResult, Recorded, SetStatus, TypeOK, Goto,
           Step, Task, Closing, Whole, Working, Final
  <2>4. ASSUME NEW q \in Runs, q # r  PROVE Step(q)'
    BY <1>3, <2>1, <2>4, Untouched
       DEF WriteResult, Recorded, SetStatus, TypeOK, Goto
  <2>. QED  BY <2>2, <2>3, <2>4 DEF Kept
<1>4. CASE ~Recorded(r)
  <2>1. TypeOK'
    BY <1>4 DEF WriteResult, TypeOK, Goto, Labels, Fault
  <2>2. Step(r)'
    BY <1>4 DEF WriteResult, TypeOK, Goto, Step, Task, Closing, Whole, Working
  <2>3. ASSUME NEW q \in Runs, q # r  PROVE Step(q)'
    BY <1>4, <2>3, Untouched DEF WriteResult, TypeOK, Goto
  <2>. QED  BY <2>1, <2>2, <2>3 DEF Kept
<1>. QED  BY <1>3, <1>4

\* The except branch keeps it.
LEMMA FailKeeps ==
  ASSUME Kept, NEW r \in Runs, Fail(r)
  PROVE  Kept'
<1> USE BenchmarkAssumption
<1>. TypeOK /\ \A q \in Runs : Step(q)  BY DEF Kept
<1>1. TypeOK'
  BY DEF Fail, TypeOK, Goto, SetStatus, Labels, Final, Fault, NoFault
<1>2. Step(r)'
  BY DEF Fail, TypeOK, Goto, SetStatus, Step, Task, Closing, Whole, Working
<1>3. ASSUME NEW q \in Runs, q # r  PROVE Step(q)'
  BY <1>3, Untouched DEF Fail, TypeOK, Goto, SetStatus
<1>. QED  BY <1>1, <1>2, <1>3 DEF Kept

\* A death of the process and the sweep of the next one keep it.
LEMMA RestartKeeps ==
  ASSUME IInv, Crash \/ Boot
  PROVE  Kept'
<1> USE BenchmarkAssumption
<1>. TypeOK /\ \A q \in Runs : Step(q)  BY DEF IInv, Kept
<1>1. CASE Crash
  <2>1. request' \in [Runs -> {"new", "checked", "accepted", "refused", "failed"}]
    BY <1>1 DEF Crash, TypeOK
  <2>2. task' \in [Runs -> Labels] /\ scored' \in [Runs -> 0 .. Questions]
        /\ ending' \in [Runs -> Final \cup {"none"}]
    BY <1>1 DEF Crash, Labels
  <2>. up' \in BOOLEAN
    BY <1>1, Zenon DEF Crash
  <2>. faults' \in 0 .. MaxFaults
    BY <1>1 DEF Crash, TypeOK, Fault
  <2>3. TypeOK'
    BY <1>1, <2>1, <2>2 DEF Crash, TypeOK, dbVars
  <2>4. ASSUME NEW q \in Runs  PROVE Step(q)'
    BY <1>1 DEF Crash, TypeOK, dbVars, Step, Task, Closing, Whole, Working
  <2>. QED  BY <2>3, <2>4 DEF Kept
<1>2. CASE Boot
  <2>1. status' \in [Runs -> Active \cup Final \cup {"none"}]
    BY <1>2 DEF Boot, TypeOK, Final
  <2>. up' \in BOOLEAN
    BY <1>2, Zenon DEF Boot
  <2>. UNCHANGED <<flagged, total, rows, metrics, request, stopping, task, scored,
                   ending, faults>>
    BY <1>2 DEF Boot, taskVars
  <2>2. TypeOK'
    BY <2>1 DEF TypeOK
  <2>. \A q \in Runs : task[q] = "none"
    BY <1>2 DEF Boot, IInv, Alive
  <2>3. ASSUME NEW q \in Runs  PROVE Step(q)'
    BY <1>2 DEF Boot, TypeOK, taskVars, Swept, Active,
                Step, Task, Closing, Whole, Working
  <2>. QED  BY <2>2, <2>3 DEF Kept
<1>. QED  BY <1>1, <1>2

\* Only a process that is up has tasks.
LEMMA AliveKeeps == ASSUME IInv, [Next]_vars PROVE Alive'
<1>. TypeOK /\ Alive  BY DEF IInv, Kept
<1>1. CASE UNCHANGED vars
  BY <1>1 DEF Alive, vars, taskVars
<1>2. ASSUME NEW r \in Runs, Serve(r)  PROVE Alive'
  <2>1. CASE Create(r)
    BY <2>1 DEF Create, Alive
  <2>2. CASE ~Create(r)
    BY <1>2, <2>2
       DEF Serve, CheckDuplicate, FindActive, RequestCancel, Alive, taskVars
  <2>. QED  BY <2>1, <2>2
<1>3. ASSUME NEW r \in Runs, Execute(r)  PROVE Alive'
  <2>1. task[r] # "none" /\ UNCHANGED up
    BY <1>3 DEF Execute, Begin, AskCancel, RunQuestion, PersistQuestion, WriteResult, Fail
  <2>. QED  BY <2>1 DEF Alive
<1>4. CASE Crash
  BY <1>4 DEF Crash, Alive
<1>5. CASE Boot
  BY <1>5 DEF Boot, Alive
<1>. QED  BY <1>1, <1>2, <1>3, <1>4, <1>5 DEF Next

\* Every step keeps the invariant, one lemma for each part of the program.
LEMMA NextKeeps == ASSUME IInv, [Next]_vars PROVE IInv'
<1>. Kept  BY DEF IInv
<1>1. ASSUME UNCHANGED vars  PROVE Kept'
  <2>1. TypeOK'
    BY <1>1 DEF IInv, Kept, TypeOK, vars, dbVars, taskVars
  <2>2. ASSUME NEW q \in Runs  PROVE Step(q)'
    BY <1>1, Untouched DEF IInv, Kept, vars, dbVars, taskVars
  <2>. QED  BY <2>1, <2>2 DEF IInv, Kept
<1>2. ASSUME NEW r \in Runs, Serve(r)  PROVE Kept'
  BY <1>2, TriggerKeeps, CancelKeeps DEF Serve
<1>3. ASSUME NEW r \in Runs, Execute(r)  PROVE Kept'
  BY <1>3, LoopKeeps, PersistKeeps, WriteKeeps, FailKeeps DEF Execute
<1>4. ASSUME Crash \/ Boot  PROVE Kept'
  BY <1>4, RestartKeeps
<1>. QED  BY <1>1, <1>2, <1>3, <1>4, AliveKeeps DEF Next, IInv

-----------------------------------------------------------------------------
\* The invariant of the benchmark runs is inductive.
THEOREM Invariant == Spec => []IInv
<1>. QED  BY InitHolds, NextKeeps, PTL DEF Spec

\* Every variable keeps its type (benchmark_runs, question_results and what the
\* process holds), for any number of runs, questions and faults.
THEOREM TypeCorrect == Spec => []TypeOK
<1>1. IInv => TypeOK  BY DEF IInv, Kept
<1>. QED  BY <1>1, Invariant, PTL

\* A run that ended without failing is on record as it was scored
\* (_execute_benchmark).
THEOREM EndedIsWhole == Spec => []EndedRunIsWhole
<1>1. IInv => EndedRunIsWhole  BY DEF IInv, Kept, Step, Whole, EndedRunIsWhole
<1>. QED  BY <1>1, Invariant, PTL

\* The count of a run never falls behind its questions (persist_one).
THEOREM TotalsKeepUp == Spec => []TotalsNeverLag
<1>1. IInv => TotalsNeverLag  BY DEF IInv, Kept, Step, TotalsNeverLag
<1>. QED  BY <1>1, Invariant, PTL

\* A run that ended stays as it ended, unless its own last commit raised
\* (_execute_benchmark, fail_orphaned_runs).
THEOREM FinalStays == Spec => FinalIsFinal
<1>. DEFINE Stays(r) ==
       status[r] \in Final /\ status'[r] # status[r] => task[r] = "fail"
<1>1. ASSUME IInv, [Next]_vars, NEW q \in Runs  PROVE Stays(q)
  <2>. TypeOK /\ Task(q)  BY <1>1 DEF IInv, Kept, Step
  <2>1. CASE UNCHANGED vars
    BY <2>1 DEF vars, dbVars
  <2>2. ASSUME NEW r \in Runs, Serve(r)  PROVE Stays(q)
    BY <2>2 DEF Serve, CheckDuplicate, Create, FindActive, RequestCancel, SetStatus,
                dbVars, TypeOK, Task, Final
  <2>3. ASSUME NEW r \in Runs, Execute(r)  PROVE Stays(q)
    <3>1. CASE Begin(r)
      BY <3>1 DEF Begin, SetStatus, TypeOK, Task, Final
    <3>2. CASE AskCancel(r) \/ RunQuestion(r) \/ PersistQuestion(r)
      BY <3>2 DEF AskCancel, RunQuestion, PersistQuestion, dbVars
    <3>3. CASE WriteResult(r)
      BY <3>3 DEF WriteResult, Recorded, SetStatus, TypeOK, Task, Working, Final
    <3>4. CASE Fail(r)
      BY <3>4 DEF Fail, SetStatus, TypeOK
    <3>. QED  BY <2>3, <3>1, <3>2, <3>3, <3>4 DEF Execute
  <2>4. CASE Crash
    BY <2>4 DEF Crash, dbVars
  <2>5. CASE Boot
    BY <2>5 DEF Boot, Swept, Active, Final
  <2>. QED  BY <1>1, <2>1, <2>2, <2>3, <2>4, <2>5 DEF Next
<1>2. IInv /\ [Next]_vars => [\A r \in Runs : Stays(r)]_vars
  BY <1>1
<1>. QED  BY <1>2, Invariant, PTL DEF Spec, FinalIsFinal

\* The step that strands a row is a fault, and it strands one row.
LEMMA FaultStrands ==
  ASSUME IInv, [Next]_vars
  PROVE  \/ Stranded' \subseteq Stranded /\ faults' \in Nat /\ faults' >= faults
         \/ \E r \in Runs : Stranded' \subseteq Stranded \cup {r} /\ faults' = faults + 1
<1>. TypeOK /\ \A r \in Runs : Step(r)  BY DEF IInv, Kept
<1>. faults \in Nat  BY BenchmarkAssumption DEF TypeOK
<1>1. CASE UNCHANGED vars
  BY <1>1 DEF Stranded, vars, dbVars, taskVars
<1>2. ASSUME NEW r \in Runs, Serve(r)
      PROVE  \/ Stranded' \subseteq Stranded /\ faults' \in {faults, faults + 1}
             \/ Stranded' \subseteq Stranded \cup {r} /\ faults' = faults + 1
  <2>1. CASE CheckDuplicate(r)
    BY <2>1 DEF CheckDuplicate, Stranded, dbVars, taskVars, Fault, NoFault
  <2>2. CASE Create(r)
    BY <2>2 DEF Create, Goto, SetStatus, Stranded, TypeOK, Fault, NoFault
  <2>3. CASE FindActive(r) \/ RequestCancel(r)
    BY <2>3 DEF FindActive, RequestCancel, Stranded, dbVars, taskVars, Fault, NoFault
  <2>. QED  BY <1>2, <2>1, <2>2, <2>3 DEF Serve
<1>3. ASSUME NEW r \in Runs, Execute(r)
      PROVE  \/ Stranded' \subseteq Stranded /\ faults' \in {faults, faults + 1}
             \/ Stranded' \subseteq Stranded \cup {r} /\ faults' = faults + 1
  <2>1. CASE Begin(r)
    BY <2>1 DEF Begin, Goto, SetStatus, Stranded, TypeOK, Fault, NoFault
  <2>2. CASE AskCancel(r)
    BY <2>2 DEF AskCancel, Goto, Stranded, TypeOK, Fault, NoFault, dbVars
  <2>3. CASE RunQuestion(r)
    BY <2>3 DEF RunQuestion, Goto, Stranded, TypeOK, dbVars
  <2>4. CASE PersistQuestion(r)
    BY <2>4 DEF PersistQuestion, Goto, Stranded, TypeOK, Fault, NoFault
  <2>5. CASE WriteResult(r)
    <3>. Closing(r)  BY DEF Step
    <3>1. CASE Goto(r, "done") /\ Recorded(r)
      <4>1. ending[r] \in Final /\ Final \cap Active = {}
        BY <2>5 DEF WriteResult, Closing, TypeOK, Final, Active
      <4>. QED
        BY <2>5, <3>1, <4>1
           DEF WriteResult, Recorded, Goto, SetStatus, Stranded, TypeOK, Fault, NoFault
    <3>2. CASE ~(Goto(r, "done") /\ Recorded(r))
      BY <2>5, <3>2 DEF WriteResult, Recorded, Goto, SetStatus, Stranded, TypeOK, Fault
    <3>. QED  BY <3>1, <3>2
  <2>6. CASE Fail(r)
    BY <2>6 DEF Fail, Goto, SetStatus, Stranded, TypeOK, Fault, NoFault, Active
  <2>. QED  BY <1>3, <2>1, <2>2, <2>3, <2>4, <2>5, <2>6 DEF Execute
<1>4. CASE Crash
  BY <1>4 DEF Crash, Stranded, Fault
<1>5. CASE Boot
  BY <1>5 DEF Boot, Stranded, Swept, Active, TypeOK
<1>. QED  BY <1>1, <1>2, <1>3, <1>4, <1>5 DEF Next

\* A set that gains at most one element gains at most one in cardinality.
LEMMA OneMore ==
  ASSUME NEW S, IsFiniteSet(S), NEW x, NEW T, T \subseteq S \cup {x}
  PROVE  /\ IsFiniteSet(T)
         /\ Cardinality(T) \in Nat
         /\ Cardinality(T) <= Cardinality(S) + 1
<1>. DEFINE U == S \cup {x}
<1>1. Cardinality(S) \in Nat
  BY FS_CardinalityType
<1>2. IsFiniteSet(U) /\ Cardinality(U) = IF x \in S THEN Cardinality(S) ELSE Cardinality(S) + 1
  BY FS_AddElement, Zenon
<1>. HIDE DEF U
<1>3. IsFiniteSet(T) /\ Cardinality(T) <= Cardinality(U)
  BY <1>2, FS_Subset, Zenon DEF U
<1>4. Cardinality(T) \in Nat /\ Cardinality(U) \in Nat
  BY <1>2, <1>3, FS_CardinalityType
<1>. QED  BY <1>1, <1>2, <1>3, <1>4

\* Rows that nobody advances are at most as many as the faults: neither a
\* restart (fail_orphaned_runs) nor an exception in a task (_execute_benchmark)
\* leaves one behind by itself.
THEOREM StrandedByFault == Spec => []StrandedOnlyByFault
<1>. DEFINE Counted == IsFiniteSet(Stranded) /\ StrandedOnlyByFault
<1>1. Init => Counted
  <2>. SUFFICES ASSUME Init PROVE Counted
    OBVIOUS
  <2>1. Stranded = {} /\ faults = 0
    BY DEF Init, Stranded, Active
  <2>. QED  BY <2>1, FS_EmptySet DEF StrandedOnlyByFault
<1>2. IInv /\ Counted /\ [Next]_vars => Counted'
  <2>. SUFFICES ASSUME IInv, Counted, [Next]_vars PROVE Counted'
    OBVIOUS
  <2>. faults \in Nat /\ Cardinality(Stranded) \in Nat
    BY BenchmarkAssumption, FS_CardinalityType DEF IInv, Kept, TypeOK
  <2>1. CASE Stranded' \subseteq Stranded /\ faults' \in Nat /\ faults' >= faults
    <3>1. IsFiniteSet(Stranded') /\ Cardinality(Stranded') <= Cardinality(Stranded)
      BY <2>1, FS_Subset
    <3>2. Cardinality(Stranded') \in Nat
      BY <3>1, FS_CardinalityType
    <3>. QED  BY <2>1, <3>1, <3>2 DEF StrandedOnlyByFault
  <2>2. CASE \E r \in Runs : Stranded' \subseteq Stranded \cup {r} /\ faults' = faults + 1
    <3>. PICK r \in Runs : Stranded' \subseteq Stranded \cup {r} /\ faults' = faults + 1
      BY <2>2
    <3>1. IsFiniteSet(Stranded')
          /\ Cardinality(Stranded') \in Nat
          /\ Cardinality(Stranded') <= Cardinality(Stranded) + 1
      BY OneMore
    <3>. QED  BY <3>1 DEF StrandedOnlyByFault
  <2>. QED  BY <2>1, <2>2, FaultStrands
<1>. QED  BY <1>1, <1>2, Invariant, PTL DEF Spec

\* The questions of run r are those that n and the faults allow for.
Heard(r, n) == r \in flagged /\ Paid(r) <= n + faults

\* A flag that is up is read before the next question, unless the read fails:
\* what is allowed for stays so.
LEMMA HeardStays ==
  ASSUME IInv, [Next]_vars, NEW r \in Runs, NEW n \in 0 .. Questions, Heard(r, n)
  PROVE  Heard(r, n)'
<1>. /\ TypeOK /\ r \in flagged /\ Paid(r) <= n + faults
     /\ scored[r] \in Nat /\ faults \in Nat /\ n \in Nat
  BY BenchmarkAssumption DEF IInv, Kept, TypeOK, Heard
<1>1. r \in flagged' /\ faults' \in {faults, faults + 1}
  <2>1. ASSUME NEW q \in Runs, Serve(q)  PROVE r \in flagged' /\ faults' \in {faults, faults + 1}
    BY <2>1 DEF Serve, CheckDuplicate, Create, FindActive, RequestCancel, dbVars, Fault, NoFault
  <2>2. ASSUME NEW q \in Runs, Execute(q)  PROVE r \in flagged' /\ faults' \in {faults, faults + 1}
    BY <2>2 DEF Execute, Begin, AskCancel, RunQuestion, PersistQuestion, WriteResult,
                Fail, dbVars, Fault, NoFault
  <2>3. CASE Crash
    BY <2>3 DEF Crash, Fault, dbVars
  <2>4. CASE Boot
    BY <2>4 DEF Boot
  <2>5. CASE UNCHANGED vars
    BY <2>5 DEF vars, dbVars
  <2>. QED  BY <2>1, <2>2, <2>3, <2>4, <2>5 DEF Next
<1>2. CASE scored'[r] = scored[r] /\ (task'[r] = "question" => task[r] = "question")
  BY <1>1, <1>2 DEF Heard, Paid
<1>3. CASE task[r] = "question" /\ scored'[r] = scored[r] + 1 /\ task'[r] # "question"
  BY <1>1, <1>3 DEF Heard, Paid
<1>4. CASE scored'[r] = scored[r] /\ faults' = faults + 1
  BY <1>1, <1>4 DEF Heard, Paid
<1>5. CASE scored'[r] = 0 /\ task'[r] # "question"
  <2>1. Paid(r)' = 0
    BY <1>5 DEF Paid
  <2>2. faults' \in Nat
    BY <1>1
  <2>3. ASSUME NEW f \in Nat  PROVE 0 <= n + f
    OBVIOUS
  <2>. QED  BY <1>1, <2>1, <2>2, <2>3 DEF Heard
<1>6. CASE UNCHANGED taskVars
  BY <1>2, <1>6 DEF taskVars
<1>7. ASSUME NEW q \in Runs, Execute(q)  PROVE Heard(r, n)'
  <2>1. CASE q # r
    BY <1>2, <1>7, <2>1 DEF Execute, Begin, AskCancel, RunQuestion, PersistQuestion,
       WriteResult, Fail, Goto, TypeOK
  <2>2. CASE q = r /\ AskCancel(r)
    BY <1>2, <1>4, <2>2 DEF AskCancel, Stops, Goto, Fault, TypeOK
  <2>3. CASE q = r /\ RunQuestion(r)
    BY <1>3, <2>3 DEF RunQuestion, Goto, TypeOK
  <2>4. CASE q = r /\ (Begin(r) \/ PersistQuestion(r) \/ WriteResult(r) \/ Fail(r))
    BY <1>2, <2>4 DEF Begin, PersistQuestion, WriteResult, Fail, Goto, TypeOK
  <2>. QED  BY <1>7, <2>1, <2>2, <2>3, <2>4 DEF Execute
<1>8. ASSUME NEW q \in Runs, Serve(q)  PROVE Heard(r, n)'
  BY <1>2, <1>8 DEF Serve, CheckDuplicate, Create, FindActive, RequestCancel, Goto,
     taskVars, TypeOK
<1>9. CASE Crash
  BY <1>5, <1>9 DEF Crash
<1>10. CASE Boot
  BY <1>6, <1>10 DEF Boot
<1>11. CASE UNCHANGED vars
  BY <1>6, <1>11 DEF vars
<1>. QED  BY <1>7, <1>8, <1>9, <1>10, <1>11 DEF Next

\* A run that is flagged goes no further than the question in flight, save a
\* question for every flag that could not be read (cancel_benchmark_run, run of
\* benchmark_runner.py).
THEOREM CancelHeard == Spec => CancelIsHeard
<1>1. ASSUME NEW r \in Runs, NEW n \in 0 .. Questions
      PROVE  Spec => [](r \in flagged /\ Paid(r) = n => [](scored[r] <= n + faults))
  <2>. DEFINE P == r \in flagged /\ Paid(r) = n
              Q == scored[r] <= n + faults
              J == Heard(r, n)
  <2>1. IInv /\ P => J
    BY BenchmarkAssumption DEF IInv, Kept, TypeOK, Heard
  <2>2. IInv /\ J /\ [Next]_vars => J'
    BY HeardStays
  <2>3. IInv /\ J => Q
    BY BenchmarkAssumption DEF IInv, Kept, TypeOK, Heard, Paid
  <2>. HIDE DEF P, Q, J
  <2>4. Spec => [](P => []Q)
    BY <2>1, <2>2, <2>3, Invariant, PTL DEF Spec
  <2>. QED  BY <2>4 DEF P, Q
<1>. QED  BY <1>1 DEF CancelIsHeard

=============================================================================
