------------------------------ MODULE QueryRoute ------------------------------
(***************************************************************************)
(* POST /api/retrieve/financial: what stands around one run of the agent   *)
(* graph (api/financial_routes.py). A caller is limited over time by a     *)
(* counter in Redis (security/rate_limit.py), everybody at once by permits *)
(* held in the process (security/concurrency.py); a withheld answer goes   *)
(* to the escalation queue (escalation/service.py), an answered query to   *)
(* the query log (observability/query_log.py).                             *)
(*                                                                         *)
(* Requests run on one event loop: what lies between two awaits is one     *)
(* step. A fault is a Redis or database call that fails, a client that     *)
(* hangs up, or the death of the process; MaxFaults of them in all.        *)
(***************************************************************************)
EXTENDS Naturals, FiniteSets

CONSTANTS
  Requests,   \* the requests of a behaviour
  Callers,    \* client addresses
  Caller,     \* Caller[r]: where r comes from
  RateLimit,  \* SECURITY_RATE_LIMIT (20)
  Window,     \* SECURITY_RATE_WINDOW_SECONDS (60), in ticks
  Permits,    \* SECURITY_MAX_CONCURRENT_QUERIES (2)
  MaxFaults   \* bound on the faults of a behaviour

ASSUME RouteAssumption ==
  /\ Caller \in [Requests -> Callers]
  /\ RateLimit \in Nat /\ Window \in Nat \ {0} /\ Permits \in Nat \ {0}
  /\ MaxFaults \in Nat
  /\ IsFiniteSet(Requests)

VARIABLES
  \* Redis, one key for each caller.
  count,      \* its value; 0 when there is no key
  ttl,        \* what is left of its expiry; 0 when none is set
  \* The process.
  inFlight,   \* _in_flight
  \* Each request.
  pc,
  admitted,   \* its local variable of that name
  report,     \* what the graph returned
  answer,     \* how it was answered
  \* The database.
  escalation, \* the row of escalations a request filed, by its status
  logged,     \* the requests with a row in retrieval_logs
  \* History and bounds.
  age,        \* how long ago a request arrived, up to Window
  metered,    \* the requests the limiter counted and allowed
  faults

redisVars   == <<count, ttl, age, metered>>
requestVars == <<pc, admitted, report, answer>>
dbVars      == <<escalation, logged>>
vars        == <<redisVars, inFlight, requestVars, dbVars, faults>>

\* What the reader can be sent: a report, or the notice that it is withheld.
Reports == {"shown", "withheld"}

\* 200; 400 and 429; 500 and 503.
Answers == {"answered", "refused", "failed"}

Init ==
  /\ count = [c \in Callers |-> 0]
  /\ ttl = [c \in Callers |-> 0]
  /\ inFlight = 0
  /\ pc = [r \in Requests |-> "new"]
  /\ admitted = {}
  /\ report = [r \in Requests |-> "none"]
  /\ answer = [r \in Requests |-> "none"]
  /\ escalation = [r \in Requests |-> "none"]
  /\ logged = {}
  /\ age = [r \in Requests |-> Window]
  /\ metered = {}
  /\ faults = 0

Fault == faults < MaxFaults /\ faults' = faults + 1
NoFault == UNCHANGED faults

Goto(r, label) == pc' = [pc EXCEPT ![r] = label]

-----------------------------------------------------------------------------
\* The clock: keys expire, arrivals age.
Tick ==
  /\ ttl' = [c \in Callers |-> IF ttl[c] > 0 THEN ttl[c] - 1 ELSE 0]
  /\ count' = [c \in Callers |-> IF ttl[c] = 1 THEN 0 ELSE count[c]]
  /\ age' = [r \in Requests |-> IF age[r] < Window THEN age[r] + 1 ELSE Window]
  /\ UNCHANGED <<inFlight, requestVars, dbVars, metered, faults>>

\* Mutant: the first refusal comes one call late.
WithinLimit_OneMore(n) == n <= RateLimit + 1

WithinLimit(n) == n <= RateLimit

\* Mutant: the expiry is left as it was.
Expire_Never(c) == UNCHANGED ttl

\* Set on every call, refused ones included.
Expire(c) == ttl' = [ttl EXCEPT ![c] = Window]

\* Mutant: a permit too many.
Free_OneMore == inFlight <= Permits

\* try_acquire
Free == inFlight < Permits

\* Past the limiter: a permit, or 429.
Admit(r) ==
  IF Free
  THEN inFlight' = inFlight + 1 /\ admitted' = admitted \cup {r} /\ Goto(r, "graph")
  ELSE Goto(r, "busy") /\ UNCHANGED <<inFlight, admitted>>

\* RateLimiter.allow and acquire_or_raise, with no await between them. The
\* limiter fails open: INCR may have been applied, and EXPIRE not.
Arrive(r) ==
  LET c == Caller[r] IN
  /\ pc[r] = "new"
  /\ age' = [age EXCEPT ![r] = 0]
  /\ \/ /\ count' = [count EXCEPT ![c] = @ + 1]
        /\ Expire(c)
        /\ IF WithinLimit(count'[c])
           THEN Admit(r) /\ metered' = metered \cup {r}
           ELSE Goto(r, "limited") /\ UNCHANGED <<inFlight, admitted, metered>>
        /\ NoFault
     \/ /\ count' \in {count, [count EXCEPT ![c] = @ + 1]}
        /\ Admit(r)
        /\ Fault /\ UNCHANGED <<ttl, metered>>
  /\ UNCHANGED <<report, answer, dbVars>>

-----------------------------------------------------------------------------
\* Mutants of the next definition: the permit is given back by a request that
\* never had one; only an answered request gives it back.
Released_Always(r, status) == IF inFlight = 0 THEN 0 ELSE inFlight - 1
Released_OnSuccess(r, status) ==
  IF r \in admitted /\ status = "answered" THEN inFlight - 1 ELSE inFlight

\* The finally of the handler, and release, which stops at zero.
Released(r, status) ==
  IF r \in admitted /\ inFlight > 0 THEN inFlight - 1 ELSE inFlight

\* The handler is left, with an answer or, cancelled, with none.
Leave(r, status) ==
  /\ Goto(r, "done")
  /\ answer' = [answer EXCEPT ![r] = status]
  /\ inFlight' = Released(r, status)
  /\ admitted' = admitted \ {r}

\* 429, once the event is recorded; events.record never raises.
Refuse(r) ==
  /\ pc[r] \in {"limited", "busy"}
  /\ Leave(r, "refused")
  /\ UNCHANGED <<redisVars, report, dbVars, faults>>

\* The input guard, the provider's configuration, the graph, and the check of
\* what it wrote. None of them touches what requests share.
RunGraph(r) ==
  /\ pc[r] = "graph"
  /\ \/ \E status \in {"refused", "failed"} : Leave(r, status) /\ UNCHANGED report
     \/ \E kind \in Reports :
          /\ report' = [report EXCEPT ![r] = kind]
          /\ \/ Leave(r, "failed")
             \/ Goto(r, "file") /\ UNCHANGED <<answer, inFlight, admitted>>
  /\ UNCHANGED <<redisVars, dbVars, faults>>

\* Mutants of the next definition: the row is flushed and never committed; the
\* threshold is not looked at, and every report is filed.
Filed_Uncommitted(r) == UNCHANGED escalation
Filed_Everything(r) == escalation' = [escalation EXCEPT ![r] = "pending"]

\* record_escalation and the commit, for a report the reviewer withheld.
Filed(r) ==
  escalation' = [escalation EXCEPT ![r] = IF report[r] = "withheld" THEN "pending" ELSE "none"]

\* A write that fails is rolled back and forgotten; a rollback that fails too
\* is the general exception. The commit that raised may have been applied.
File(r) ==
  /\ pc[r] = "file"
  /\ \/ /\ Filed(r)
        /\ Goto(r, "log") /\ NoFault /\ UNCHANGED <<answer, inFlight, admitted>>
     \/ /\ report[r] = "withheld" /\ Fault
        /\ Filed(r) \/ UNCHANGED escalation
        /\ \/ Goto(r, "log") /\ UNCHANGED <<answer, inFlight, admitted>>
           \/ Leave(r, "failed")
  /\ UNCHANGED <<redisVars, report, logged>>

\* query_log.record, which never raises, and the response.
Log(r) ==
  /\ pc[r] = "log"
  /\ \/ logged' = logged \cup {r} /\ NoFault
     \/ UNCHANGED logged /\ Fault
  /\ Leave(r, "answered")
  /\ UNCHANGED <<redisVars, report, escalation>>

\* The request is cancelled at an await, of its row in the log perhaps.
Cancel(r) ==
  /\ pc[r] \notin {"new", "done"}
  /\ Leave(r, "none")
  /\ UNCHANGED logged \/ (pc[r] = "log" /\ logged' = logged \cup {r})
  /\ Fault
  /\ UNCHANGED <<redisVars, report, escalation>>

\* The process dies and starts again; Redis and the database stay.
Restart ==
  /\ \E r \in Requests : pc[r] \notin {"new", "done"}
  /\ pc' = [r \in Requests |-> IF pc[r] = "new" THEN "new" ELSE "done"]
  /\ inFlight' = 0
  /\ admitted' = {}
  /\ Fault
  /\ UNCHANGED <<redisVars, report, answer, dbVars>>

\* POST /admin/escalations/{id}/resolve: resolved or dismissed, and back.
Resolve(r) ==
  /\ escalation[r] # "none"
  /\ \E status \in {"pending", "closed"} :
       escalation' = [escalation EXCEPT ![r] = status]
  /\ UNCHANGED <<redisVars, inFlight, requestVars, logged, faults>>

Handle(r) == Refuse(r) \/ RunGraph(r) \/ File(r) \/ Log(r)

Next ==
  \/ Tick
  \/ \E r \in Requests : Arrive(r) \/ Handle(r) \/ Cancel(r) \/ Resolve(r)
  \/ Restart

Spec == Init /\ [][Next]_vars

\* The event loop runs every handler that can go on. That the graph returns is
\* EveryRunEnds of module FinancialGraph.
FairSpec == Spec /\ \A r \in Requests : WF_vars(Handle(r))

-----------------------------------------------------------------------------
\* Properties.

TypeOK ==
  /\ count \in [Callers -> Nat]
  /\ ttl \in [Callers -> 0 .. Window]
  /\ inFlight \in 0 .. Permits
  /\ pc \in [Requests -> {"new", "limited", "busy", "graph", "file", "log", "done"}]
  /\ admitted \in SUBSET Requests
  /\ report \in [Requests -> Reports \cup {"none"}]
  /\ answer \in [Requests -> Answers \cup {"none"}]
  /\ escalation \in [Requests -> {"none", "pending", "closed"}]
  /\ logged \in SUBSET Requests
  /\ age \in [Requests -> 0 .. Window]
  /\ metered \in SUBSET Requests
  /\ faults \in 0 .. MaxFaults

\* The requests inside the pipeline.
Running == {r \in Requests : pc[r] \in {"graph", "file", "log"}}

\* No permit leaks and none is given away (concurrency.py, release): the count
\* is the number of requests at work, whatever way each of them ends.
PermitsMatch == inFlight = Cardinality(Running)

\* Never more pipelines at once than permits (concurrency.py).
NeverOverCommitted == Cardinality(Running) <= Permits

\* One caller starts at most RateLimit counted queries in any window of time
\* (rate_limit.py), not only in windows that begin with a fresh counter.
WindowHolds ==
  \A c \in Callers : Cardinality({r \in metered : Caller[r] = c /\ age[r] < Window}) <= RateLimit

\* Waiting as long as the refusal says is enough (rate_limit.py, retry_after):
\* the limiter refuses only a caller that called within the last window.
\* Fewer lost EXPIREs than calls allowed cannot change that.
RefusalIsRecent ==
  [][\A r \in Requests :
       /\ MaxFaults < RateLimit
       /\ pc[r] = "new" /\ pc'[r] = "limited"
       => \E q \in Requests \ {r} : Caller[q] = Caller[r] /\ age[q] < Window]_vars

\* The limit is so many calls per window (rate_limit.py, allow: "a fixed
\* window"): a caller is refused only after that many calls within the window.
RefusedOnlyOverRate ==
  [][\A r \in Requests :
       pc[r] = "new" /\ pc'[r] = "limited" =>
         Cardinality({q \in Requests \ {r} : Caller[q] = Caller[r] /\ age[q] < Window})
           >= RateLimit]_vars

\* The answers with no row in the query log, or withheld with no row in the
\* administrators' queue.
Unrecorded ==
  {r \in Requests :
     /\ answer[r] = "answered"
     /\ r \notin logged \/ (report[r] = "withheld" /\ escalation[r] = "none")}

\* Filing is a side effect of answering, but only a failure of the database
\* may leave an answer off the record (financial_routes.py: one row for each
\* answered query, and for each report the demo declined to stand behind).
OnRecordUnlessFault == Cardinality(Unrecorded) <= faults

\* The administrators' queue holds withheld reports only, whatever was
\* cancelled, rolled back or resolved meanwhile (escalation/service.py).
QueueHoldsWithheld == \A r \in Requests : escalation[r] # "none" => report[r] = "withheld"

\* A full house does not stay full (concurrency.py, slot: a busy demo recovers,
\* a leaked permit does not).
PermitsComeBack == inFlight = Permits ~> inFlight < Permits

=============================================================================
