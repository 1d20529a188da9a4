-------------------------- MODULE QueryRouteProofs --------------------------
(***************************************************************************)
(* The query route keeps its bounds for any number of requests, callers,   *)
(* permits and faults, and for any limit and window.                       *)
(***************************************************************************)
EXTENDS QueryRoute, FiniteSetTheorems, TLAPS

\* The permits out are those of the requests inside the pipeline.
PermitsInv ==
  /\ admitted = Running
  /\ inFlight = Cardinality(admitted)

\* The requests the limiter let through for c in the window that ends now.
InWindow(c) == {r \in metered : Caller[r] = c /\ age[r] < Window}

\* The key outlives the window of every call it counted, so that its value
\* bounds their number.
WindowInv ==
  /\ \A r \in metered : age[r] < Window => Window - age[r] <= ttl[Caller[r]]
  /\ \A c \in Callers :
       /\ Cardinality(InWindow(c)) <= count[c]
       /\ Cardinality(InWindow(c)) <= RateLimit
  /\ \A r \in metered : pc[r] # "new"

\* A report comes before its answer, and neither comes early.
StageInv ==
  \A r \in Requests :
    /\ report[r] # "none" => pc[r] \in {"file", "log", "done"}
    /\ answer[r] # "none" => pc[r] = "done"

\* What will be, or is, missing from the record.
Slipped ==
  {r \in Requests :
     \/ /\ pc[r] = "log" \/ answer[r] = "answered"
        /\ report[r] = "withheld" /\ escalation[r] = "none"
     \/ answer[r] = "answered" /\ r \notin logged}

RecordInv == Cardinality(Slipped) <= faults

IInv ==
  /\ TypeOK
  /\ PermitsInv
  /\ WindowInv
  /\ StageInv
  /\ QueueHoldsWithheld
  /\ RecordInv

-----------------------------------------------------------------------------
\* Sets of requests are finite.
LEMMA FiniteRequests ==
  ASSUME NEW S \in SUBSET Requests
  PROVE  IsFiniteSet(S) /\ Cardinality(S) \in Nat
BY RouteAssumption, FS_Subset, FS_CardinalityType

\* A request that leaves gives back its own permit and no other.
LEMMA LeaveKeepsPermits ==
  ASSUME TypeOK, PermitsInv, NEW r \in Requests, NEW status, Leave(r, status)
  PROVE  PermitsInv' /\ inFlight' \in 0 .. Permits
<1>1. IsFiniteSet(admitted) /\ Cardinality(admitted) \in Nat
  BY FiniteRequests DEF TypeOK
<1>2. Running' = Running \ {r}
  BY DEF Leave, Goto, Running, TypeOK
<1>3. Cardinality(admitted \ {r}) = IF r \in admitted THEN inFlight - 1 ELSE inFlight
  BY <1>1, FS_RemoveElement DEF PermitsInv
<1>4. r \in admitted => inFlight > 0
  BY <1>1, FS_EmptySet DEF PermitsInv
<1>5. inFlight' = Cardinality(admitted \ {r})
  BY <1>3, <1>4 DEF Leave, Released
<1>6. inFlight' \in 0 .. Permits
  BY <1>3, <1>4, <1>5, RouteAssumption DEF TypeOK
<1> QED BY <1>2, <1>5, <1>6 DEF Leave, PermitsInv

\* A request that moves on inside the pipeline changes no permit.
LEMMA GotoKeepsPermits ==
  ASSUME TypeOK, PermitsInv, NEW r \in Running, NEW l \in {"graph", "file", "log"},
         Goto(r, l), UNCHANGED <<inFlight, admitted>>
  PROVE  PermitsInv' /\ inFlight' \in 0 .. Permits
<1>1. Running' = Running
  BY DEF Goto, Running, TypeOK
<1> QED BY <1>1 DEF PermitsInv, TypeOK

\* A request gets a permit only while one is free.
LEMMA AdmitKeepsPermits ==
  ASSUME TypeOK, PermitsInv, NEW r \in Requests, pc[r] = "new", Admit(r)
  PROVE  PermitsInv' /\ inFlight' \in 0 .. Permits
<1>1. IsFiniteSet(admitted) /\ Cardinality(admitted) \in Nat
  BY FiniteRequests DEF TypeOK
<1>2. CASE Free
  <2>1. r \notin admitted
    BY DEF PermitsInv, Running
  <2>2. Running' = Running \cup {r}
    BY <1>2 DEF Admit, Goto, Running, TypeOK
  <2>3. Cardinality(admitted \cup {r}) = inFlight + 1
    BY <1>1, <2>1, FS_AddElement DEF PermitsInv
  <2>4. PermitsInv'
    BY <1>2, <2>2, <2>3 DEF Admit, PermitsInv
  <2>5. inFlight' \in 0 .. Permits
    BY <1>2, RouteAssumption DEF Admit, Free, TypeOK
  <2> QED BY <2>4, <2>5
<1>3. CASE ~Free
  <2>1. Running' = Running
    BY <1>3 DEF Admit, Goto, Running, TypeOK
  <2> QED BY <1>3, <2>1 DEF Admit, PermitsInv, TypeOK
<1> QED BY <1>2, <1>3

\* Permits are neither leaked nor given away by any step.
LEMMA PermitsPreserved ==
  ASSUME TypeOK, PermitsInv, [Next]_vars
  PROVE  PermitsInv' /\ inFlight' \in 0 .. Permits
<1>1. ASSUME UNCHANGED <<pc, admitted, inFlight>>
      PROVE  PermitsInv' /\ inFlight' \in 0 .. Permits
  BY <1>1 DEF PermitsInv, Running, TypeOK
<1>2. ASSUME NEW r \in Requests, Arrive(r)
      PROVE  PermitsInv' /\ inFlight' \in 0 .. Permits
  <2>1. CASE Admit(r)
    BY <1>2, <2>1, AdmitKeepsPermits DEF Arrive
  <2>2. CASE Goto(r, "limited") /\ UNCHANGED <<inFlight, admitted>>
    <3>1. Running' = Running
      BY <1>2, <2>2 DEF Arrive, Goto, Running, TypeOK
    <3> QED BY <2>2, <3>1 DEF PermitsInv, TypeOK
  <2> QED BY <1>2, <2>1, <2>2 DEF Arrive
<1>3. ASSUME NEW r \in Requests, Handle(r)
      PROVE  PermitsInv' /\ inFlight' \in 0 .. Permits
  <2>1. ASSUME NEW status, Leave(r, status)
        PROVE  PermitsInv' /\ inFlight' \in 0 .. Permits
    BY <2>1, LeaveKeepsPermits
  <2>2. ASSUME NEW l \in {"graph", "file", "log"}, r \in Running,
               Goto(r, l), UNCHANGED <<inFlight, admitted>>
        PROVE  PermitsInv' /\ inFlight' \in 0 .. Permits
    BY <2>2, GotoKeepsPermits
  <2>3. CASE Refuse(r)
    BY <2>1, <2>3 DEF Refuse
  <2>4. CASE RunGraph(r)
    BY <2>1, <2>2, <2>4 DEF RunGraph, Running
  <2>5. CASE File(r)
    BY <2>1, <2>2, <2>5 DEF File, Running
  <2>6. CASE Log(r)
    BY <2>1, <2>6 DEF Log
  <2> QED BY <1>3, <2>3, <2>4, <2>5, <2>6 DEF Handle
<1>4. ASSUME NEW r \in Requests, Cancel(r)
      PROVE  PermitsInv' /\ inFlight' \in 0 .. Permits
  BY <1>4, LeaveKeepsPermits DEF Cancel
<1>5. ASSUME Restart PROVE PermitsInv' /\ inFlight' \in 0 .. Permits
  <2>1. Running' = {}
    BY <1>5 DEF Restart, Running
  <2> QED BY <1>5, <2>1, FS_EmptySet, RouteAssumption DEF Restart, PermitsInv
<1>6. CASE Tick
  BY <1>1, <1>6 DEF Tick, requestVars
<1>7. ASSUME NEW r \in Requests, Resolve(r)
      PROVE  PermitsInv' /\ inFlight' \in 0 .. Permits
  BY <1>1, <1>7 DEF Resolve, requestVars
<1>8. CASE UNCHANGED vars
  BY <1>1, <1>8 DEF vars, requestVars
<1> QED BY <1>2, <1>3, <1>4, <1>5, <1>6, <1>7, <1>8 DEF Next

-----------------------------------------------------------------------------
\* Nothing enters the window but a call the limiter allowed.
LEMMA WindowUnchanged ==
  ASSUME TypeOK, WindowInv, UNCHANGED redisVars,
         \A q \in Requests : pc'[q] = "new" => pc[q] = "new"
  PROVE  WindowInv'
<1>1. \A c \in Callers : InWindow(c)' = InWindow(c)
  BY DEF InWindow, redisVars
<1> QED BY <1>1 DEF WindowInv, redisVars, TypeOK

\* One tick: the window moves on, and a key that expires takes nothing that is
\* still in the window along.
LEMMA WindowTick ==
  ASSUME TypeOK, WindowInv, Tick
  PROVE  WindowInv'
<1> USE RouteAssumption
<1>1. \A r \in metered : age'[r] < Window => age'[r] = age[r] + 1 /\ age[r] < Window
  BY DEF Tick, TypeOK
<1>2. \A r \in metered : age'[r] < Window => Window - age'[r] <= ttl'[Caller[r]]
  BY <1>1 DEF Tick, TypeOK, WindowInv
<1>3. ASSUME NEW c \in Callers
      PROVE  /\ Cardinality(InWindow(c)') <= count'[c]
             /\ Cardinality(InWindow(c)') <= RateLimit
  <2>1. InWindow(c)' \in SUBSET InWindow(c) /\ InWindow(c) \in SUBSET Requests
    BY <1>1 DEF InWindow, Tick, TypeOK
  <2>2. /\ Cardinality(InWindow(c)') <= Cardinality(InWindow(c))
        /\ Cardinality(InWindow(c)') \in Nat /\ Cardinality(InWindow(c)) \in Nat
    BY <2>1, FiniteRequests, FS_Subset
  <2>3. CASE ttl[c] = 1
    <3>1. InWindow(c)' = {}
      <4> SUFFICES ASSUME NEW r \in metered, Caller[r] = c, age'[r] < Window PROVE FALSE
        BY DEF InWindow, Tick
      <4>1. Window - age'[r] <= 0
        <5>1. ttl'[c] = 0
          BY <2>3 DEF Tick
        <5> QED BY <1>2, <5>1
      <4>2. age'[r] = age[r] + 1 /\ age[r] \in 0 .. Window
        BY <1>1 DEF TypeOK
      <4> QED BY <4>1, <4>2
    <3> QED BY <2>3, <3>1, FS_EmptySet DEF Tick, TypeOK
  <2>4. CASE ttl[c] # 1
    BY <2>2, <2>4 DEF Tick, TypeOK, WindowInv
  <2> QED BY <2>3, <2>4
<1>4. \A r \in metered' : pc'[r] # "new"
  BY DEF Tick, requestVars, WindowInv
<1> QED BY <1>2, <1>3, <1>4 DEF WindowInv, Tick

\* A call: the limiter lets it in only while the key's value leaves room.
LEMMA WindowArrive ==
  ASSUME TypeOK, WindowInv, NEW r \in Requests, Arrive(r)
  PROVE  WindowInv'
<1> USE RouteAssumption
<1>0. r \notin metered /\ pc[r] = "new" /\ Caller[r] \in Callers
  BY DEF Arrive, WindowInv
<1>1. \A q \in Requests : q # r => age'[q] = age[q] /\ pc'[q] = pc[q]
  BY DEF Arrive, Admit, Goto, TypeOK
<1>2. pc'[r] # "new"
  BY DEF Arrive, Admit, Goto, TypeOK
<1>3. \A c \in Callers :
        /\ InWindow(c) \in SUBSET Requests /\ IsFiniteSet(InWindow(c))
        /\ Cardinality(InWindow(c)) \in Nat
  BY FiniteRequests DEF InWindow, TypeOK
<1>4. CASE metered' = metered
  <2>1. \A c \in Callers : InWindow(c)' = InWindow(c)
    BY <1>0, <1>1, <1>4 DEF InWindow, TypeOK
  <2>2. /\ \A c \in Callers : count[c] <= count'[c]
        /\ \A c \in Callers : ttl[c] <= ttl'[c]
    BY <1>0 DEF Arrive, Expire, TypeOK
  <2>3. \A c \in Callers :
          Cardinality(InWindow(c)') <= count'[c] /\ Cardinality(InWindow(c)') <= RateLimit
    BY <1>3, <2>1, <2>2 DEF WindowInv, Arrive, TypeOK
  <2>4. \A q \in metered : age'[q] < Window => Window - age'[q] <= ttl'[Caller[q]]
    <3> SUFFICES ASSUME NEW q \in metered, age'[q] < Window
                 PROVE  Window - age'[q] <= ttl'[Caller[q]]
      OBVIOUS
    <3>1. q \in Requests /\ q # r /\ Caller[q] \in Callers
      BY <1>0 DEF TypeOK
    <3>2. Window - age[q] <= ttl[Caller[q]]
      BY <1>1, <3>1 DEF WindowInv
    <3>3. ttl[Caller[q]] <= ttl'[Caller[q]] /\ ttl'[Caller[q]] \in 0 .. Window
      BY <1>0, <2>2, <3>1 DEF Arrive, Expire, TypeOK
    <3> QED BY <1>1, <3>1, <3>2, <3>3 DEF TypeOK
  <2> QED BY <1>0, <1>1, <1>4, <2>3, <2>4 DEF WindowInv, TypeOK
<1>5. CASE /\ metered' = metered \cup {r}
           /\ count' = [count EXCEPT ![Caller[r]] = @ + 1]
           /\ Expire(Caller[r])
           /\ WithinLimit(count'[Caller[r]])
  <2>1. ASSUME NEW c \in Callers
        PROVE  /\ Cardinality(InWindow(c)') <= count'[c]
               /\ Cardinality(InWindow(c)') <= RateLimit
    <3>1. CASE c = Caller[r]
      <4>1. InWindow(c)' = InWindow(c) \cup {r} /\ r \notin InWindow(c)
        BY <1>0, <1>1, <1>5, <3>1 DEF InWindow, Arrive, TypeOK
      <4>2. Cardinality(InWindow(c)') = Cardinality(InWindow(c)) + 1
        BY <1>3, <4>1, FS_AddElement
      <4> QED BY <1>3, <1>5, <3>1, <4>2 DEF WindowInv, WithinLimit, TypeOK
    <3>2. CASE c # Caller[r]
      <4>1. InWindow(c)' = InWindow(c)
        BY <1>0, <1>1, <1>5, <3>2 DEF InWindow, TypeOK
      <4> QED BY <1>5, <3>2, <4>1 DEF WindowInv, TypeOK
    <3> QED BY <3>1, <3>2
  <2>2. \A q \in metered' : age'[q] < Window => Window - age'[q] <= ttl'[Caller[q]]
    BY <1>0, <1>1, <1>5 DEF WindowInv, Arrive, Expire, TypeOK
  <2> QED BY <1>1, <1>2, <1>5, <2>1, <2>2 DEF WindowInv, TypeOK
<1> QED BY <1>4, <1>5 DEF Arrive

\* The window holds through every step.
LEMMA WindowPreserved ==
  ASSUME TypeOK, WindowInv, [Next]_vars
  PROVE  WindowInv'
<1>1. CASE Tick
  BY <1>1, WindowTick
<1>2. ASSUME NEW r \in Requests, Arrive(r) PROVE WindowInv'
  BY <1>2, WindowArrive
<1>3. ASSUME NEW r \in Requests, Handle(r) \/ Cancel(r) PROVE WindowInv'
  <2>1. UNCHANGED redisVars
    BY <1>3 DEF Handle, Refuse, RunGraph, File, Log, Cancel
  <2>2. \A q \in Requests : pc'[q] = "new" => pc[q] = "new"
    BY <1>3 DEF Handle, Refuse, RunGraph, File, Log, Cancel, Leave, Goto, TypeOK
  <2> QED BY <2>1, <2>2, WindowUnchanged
<1>4. ASSUME NEW r \in Requests, Resolve(r) PROVE WindowInv'
  BY <1>4, WindowUnchanged DEF Resolve, requestVars
<1>5. CASE Restart
  BY <1>5, WindowUnchanged DEF Restart
<1>6. CASE UNCHANGED vars
  BY <1>6, WindowUnchanged DEF vars, requestVars
<1> QED BY <1>1, <1>2, <1>3, <1>4, <1>5, <1>6 DEF Next

-----------------------------------------------------------------------------
\* Every variable keeps its type.
LEMMA TypePreserved ==
  ASSUME TypeOK, PermitsInv, [Next]_vars
  PROVE  TypeOK'
<1> USE RouteAssumption
<1> USE DEF TypeOK, Reports, Answers, redisVars, requestVars, dbVars
<1>1. inFlight' \in 0 .. Permits
  BY PermitsPreserved
<1>2. CASE Tick
  <2>1. ttl' \in [Callers -> 0 .. Window] /\ count' \in [Callers -> Nat]
    BY <1>2 DEF Tick
  <2>2. age' \in [Requests -> 0 .. Window]
    BY <1>2 DEF Tick
  <2> QED BY <1>2, <2>1, <2>2 DEF Tick
<1>3. ASSUME NEW r \in Requests, Arrive(r) PROVE TypeOK'
  <2>1. Caller[r] \in Callers
    OBVIOUS
  <2>2. count' \in [Callers -> Nat] /\ ttl' \in [Callers -> 0 .. Window]
    BY <1>3, <2>1 DEF Arrive, Expire
  <2>3. age' \in [Requests -> 0 .. Window] /\ metered' \in SUBSET Requests
    BY <1>3 DEF Arrive
  <2>4. /\ pc' \in [Requests -> {"new", "limited", "busy", "graph", "file", "log", "done"}]
        /\ admitted' \in SUBSET Requests
    BY <1>3 DEF Arrive, Admit, Goto
  <2>5. faults' \in 0 .. MaxFaults
    BY <1>3 DEF Arrive, Fault, NoFault
  <2> QED BY <1>1, <1>3, <2>2, <2>3, <2>4, <2>5 DEF Arrive
<1>4. ASSUME NEW r \in Requests, Handle(r) PROVE TypeOK'
  <2>1. CASE Refuse(r)
    BY <1>1, <2>1 DEF Refuse, Leave, Goto
  <2>2. CASE RunGraph(r)
    BY <1>1, <2>2 DEF RunGraph, Leave, Goto
  <2>3. CASE File(r)
    <3>1. /\ pc' \in [Requests -> {"new", "limited", "busy", "graph", "file", "log", "done"}]
          /\ admitted' \in SUBSET Requests
          /\ answer' \in [Requests -> Answers \cup {"none"}]
      BY <2>3 DEF File, Leave, Goto
    <3>2. escalation' \in [Requests -> {"none", "pending", "closed"}]
      BY <2>3 DEF File, Filed
    <3>3. faults' \in 0 .. MaxFaults
      BY <2>3 DEF File, Fault, NoFault
    <3> QED BY <1>1, <2>3, <3>1, <3>2, <3>3 DEF File
  <2>4. CASE Log(r)
    BY <1>1, <2>4 DEF Log, Leave, Goto, Fault, NoFault
  <2> QED BY <1>4, <2>1, <2>2, <2>3, <2>4 DEF Handle
<1>5. ASSUME NEW r \in Requests, Cancel(r) PROVE TypeOK'
  BY <1>1, <1>5 DEF Cancel, Leave, Goto, Fault
<1>6. ASSUME NEW r \in Requests, Resolve(r) PROVE TypeOK'
  BY <1>6 DEF Resolve
<1>7. CASE Restart
  BY <1>1, <1>7 DEF Restart, Fault
<1>8. CASE UNCHANGED vars
  BY <1>8 DEF vars
<1> QED BY <1>2, <1>3, <1>4, <1>5, <1>6, <1>7, <1>8 DEF Next

-----------------------------------------------------------------------------
\* Reports, answers and the administrators' queue, step by step.
LEMMA QueuePreserved ==
  ASSUME TypeOK, StageInv, QueueHoldsWithheld, [Next]_vars
  PROVE  StageInv' /\ QueueHoldsWithheld'
<1> USE DEF StageInv, QueueHoldsWithheld, TypeOK
<1>1. ASSUME UNCHANGED <<report, answer, escalation>>,
             \A q \in Requests : pc[q] \in {"file", "log", "done"} =>
               pc'[q] = pc[q] \/ pc'[q] = "done"
      PROVE  StageInv' /\ QueueHoldsWithheld'
  BY <1>1
<1>2. CASE Tick \/ Restart \/ UNCHANGED vars
  BY <1>1, <1>2 DEF Tick, Restart, vars, requestVars, dbVars
<1>3. ASSUME NEW r \in Requests, Arrive(r) PROVE StageInv' /\ QueueHoldsWithheld'
  BY <1>1, <1>3 DEF Arrive, Admit, Goto, dbVars
<1>4. ASSUME NEW r \in Requests, Refuse(r) \/ Log(r) \/ Cancel(r)
      PROVE  StageInv' /\ QueueHoldsWithheld'
  BY <1>4 DEF Refuse, Log, Cancel, Leave, Goto, dbVars
<1>5. ASSUME NEW r \in Requests, RunGraph(r) PROVE StageInv' /\ QueueHoldsWithheld'
  <2>1. StageInv'
    BY <1>5 DEF RunGraph, Leave, Goto
  <2>2. QueueHoldsWithheld'
    BY <1>5 DEF RunGraph, Leave, dbVars
  <2> QED BY <2>1, <2>2
<1>6. ASSUME NEW r \in Requests, File(r) PROVE StageInv' /\ QueueHoldsWithheld'
  <2>1. StageInv'
    BY <1>6 DEF File, Leave, Goto
  <2>2. QueueHoldsWithheld'
    BY <1>6 DEF File, Filed
  <2> QED BY <2>1, <2>2
<1>7. ASSUME NEW r \in Requests, Resolve(r) PROVE StageInv' /\ QueueHoldsWithheld'
  BY <1>7 DEF Resolve, requestVars
<1> QED BY <1>2, <1>3, <1>4, <1>5, <1>6, <1>7 DEF Next, Handle

\* At most one more answer goes missing, and only with one more fault.
LEMMA SlippedGrows ==
  ASSUME TypeOK, RecordInv, faults' \in Nat, Slipped' \in SUBSET Requests,
         \/ Slipped' \subseteq Slipped /\ faults <= faults'
         \/ /\ faults' = faults + 1
            /\ \E r \in Requests : Slipped' \subseteq Slipped \cup {r}
  PROVE  RecordInv'
<1>1. Slipped \in SUBSET Requests /\ IsFiniteSet(Slipped) /\ Cardinality(Slipped) \in Nat
  BY FiniteRequests DEF Slipped
<1>2. Cardinality(Slipped') \in Nat /\ faults \in Nat
  BY FiniteRequests DEF TypeOK
<1>3. CASE Slipped' \subseteq Slipped /\ faults <= faults'
  <2>1. Cardinality(Slipped') <= Cardinality(Slipped)
    BY <1>1, <1>3, FS_Subset
  <2> QED BY <1>1, <1>2, <1>3, <2>1 DEF RecordInv
<1>4. ASSUME NEW r \in Requests, Slipped' \subseteq Slipped \cup {r}, faults' = faults + 1
      PROVE  RecordInv'
  <2>1. /\ IsFiniteSet(Slipped \cup {r})
        /\ Cardinality(Slipped \cup {r}) <= Cardinality(Slipped) + 1
        /\ Cardinality(Slipped \cup {r}) \in Nat
    BY <1>1, FS_AddElement
  <2>2. Cardinality(Slipped') <= Cardinality(Slipped \cup {r})
    BY <1>4, <2>1, FS_Subset
  <2> QED BY <1>1, <1>2, <1>4, <2>1, <2>2 DEF RecordInv
<1> QED BY <1>3, <1>4

\* Only a fault keeps an answer off the record.
LEMMA RecordPreserved ==
  ASSUME TypeOK, StageInv, RecordInv, TypeOK', [Next]_vars
  PROVE  RecordInv'
<1>1. faults' \in Nat /\ Slipped' \in SUBSET Requests
  BY DEF TypeOK, Slipped
<1>2. ASSUME Slipped' \subseteq Slipped, faults <= faults' PROVE RecordInv'
  BY <1>1, <1>2, SlippedGrows
<1>3. ASSUME NEW r \in Requests, Slipped' \subseteq Slipped \cup {r}, faults' = faults + 1
      PROVE  RecordInv'
  BY <1>1, <1>3, SlippedGrows
<1>4. faults \in Nat
  BY DEF TypeOK
<1>5. ASSUME UNCHANGED <<report, answer, escalation, logged>>, faults <= faults',
             \A q \in Requests : pc'[q] = "log" => pc[q] = "log"
      PROVE  RecordInv'
  BY <1>2, <1>5 DEF Slipped
<1>6. CASE Tick \/ Restart \/ UNCHANGED vars
  BY <1>4, <1>5, <1>6 DEF Tick, Restart, Fault, vars, requestVars, dbVars
<1>7. ASSUME NEW r \in Requests, Arrive(r) PROVE RecordInv'
  <2>1. faults <= faults'
    BY <1>4, <1>7 DEF Arrive, Fault, NoFault
  <2> QED BY <1>5, <1>7, <2>1 DEF Arrive, Admit, Goto, dbVars, TypeOK
<1>8. ASSUME NEW r \in Requests, Refuse(r) \/ Cancel(r) PROVE RecordInv'
  <2>1. faults <= faults'
    BY <1>4, <1>8 DEF Refuse, Cancel, Fault
  <2>2. Slipped' \subseteq Slipped
    BY <1>8 DEF Slipped, Refuse, Cancel, Leave, Goto, dbVars, TypeOK
  <2> QED BY <1>2, <2>1, <2>2
<1>9. ASSUME NEW r \in Requests, RunGraph(r) PROVE RecordInv'
  <2>1. Slipped' \subseteq Slipped
    BY <1>9 DEF Slipped, RunGraph, Leave, Goto, StageInv, dbVars, TypeOK
  <2> QED BY <1>2, <1>4, <1>9, <2>1 DEF RunGraph
<1>10. ASSUME NEW r \in Requests, File(r) PROVE RecordInv'
  <2>1. CASE Filed(r) /\ Goto(r, "log") /\ NoFault /\ UNCHANGED answer
    <3>1. Slipped' \subseteq Slipped
      BY <1>10, <2>1 DEF Slipped, File, Filed, Goto, StageInv, TypeOK
    <3> QED BY <1>2, <1>4, <2>1, <3>1 DEF NoFault
  <2>2. CASE Fault
    <3>1. Slipped' \subseteq Slipped \cup {r}
      BY <1>10, <2>2 DEF Slipped, File, Filed, Leave, Goto, StageInv, TypeOK
    <3> QED BY <1>3, <2>2, <3>1 DEF Fault
  <2> QED BY <1>10, <2>1, <2>2 DEF File
<1>11. ASSUME NEW r \in Requests, Log(r) PROVE RecordInv'
  <2>1. CASE logged' = logged \cup {r} /\ NoFault
    <3>1. Slipped' \subseteq Slipped
      BY <1>11, <2>1 DEF Slipped, Log, Leave, Goto, TypeOK
    <3> QED BY <1>2, <1>4, <2>1, <3>1 DEF NoFault
  <2>2. CASE Fault
    <3>1. Slipped' \subseteq Slipped \cup {r}
      BY <1>11, <2>2 DEF Slipped, Log, Leave, Goto, TypeOK
    <3> QED BY <1>3, <2>2, <3>1 DEF Fault
  <2> QED BY <1>11, <2>1, <2>2 DEF Log
<1>12. ASSUME NEW r \in Requests, Resolve(r) PROVE RecordInv'
  <2>1. Slipped' \subseteq Slipped
    BY <1>12 DEF Slipped, Resolve, requestVars, TypeOK
  <2> QED BY <1>2, <1>4, <1>12, <2>1 DEF Resolve
<1> QED BY <1>6, <1>7, <1>8, <1>9, <1>10, <1>11, <1>12 DEF Next, Handle

-----------------------------------------------------------------------------
\* The strengthened invariant of the query route is inductive: permits, window,
\* stages and records hold together through every step, fault and restart.
THEOREM Invariant == Spec => []IInv
<1>1. Init => IInv
  <2> SUFFICES ASSUME Init PROVE IInv
    OBVIOUS
  <2> USE RouteAssumption DEF Init
  <2>1. TypeOK
    BY DEF TypeOK
  <2>2. PermitsInv
    BY FS_EmptySet DEF PermitsInv, Running
  <2>3. WindowInv
    <3>1. \A c \in Callers : InWindow(c) = {}
      BY DEF InWindow
    <3> QED BY <3>1, FS_EmptySet DEF WindowInv
  <2>4. StageInv /\ QueueHoldsWithheld
    BY DEF StageInv, QueueHoldsWithheld
  <2>5. RecordInv
    <3>1. Slipped = {}
      BY DEF Slipped
    <3> QED BY <3>1, FS_EmptySet DEF RecordInv
  <2> QED BY <2>1, <2>2, <2>3, <2>4, <2>5 DEF IInv
<1>2. IInv /\ [Next]_vars => IInv'
  BY TypePreserved, PermitsPreserved, WindowPreserved, QueuePreserved, RecordPreserved DEF IInv
<1> QED BY <1>1, <1>2, PTL DEF Spec

\* Every variable keeps its type; inFlight in particular its bound.
THEOREM TypeCorrect == Spec => []TypeOK
BY Invariant, PTL DEF IInv

\* No permit is leaked or given away (concurrency.py, release), however the
\* requests end, are cancelled, or die with the process.
THEOREM PermitsAccounted == Spec => []PermitsMatch
<1>1. IInv => PermitsMatch
  BY DEF IInv, PermitsInv, PermitsMatch
<1> QED BY <1>1, Invariant, PTL

\* Never more pipelines at once than permits (concurrency.py).
THEOREM BoundHolds == Spec => []NeverOverCommitted
<1>1. IInv => NeverOverCommitted
  BY RouteAssumption DEF IInv, PermitsInv, NeverOverCommitted, TypeOK
<1> QED BY <1>1, Invariant, PTL

\* At most RateLimit counted queries of one caller in any window, aligned or
\* not (rate_limit.py).
THEOREM RateHolds == Spec => []WindowHolds
<1>1. IInv => WindowHolds
  BY DEF IInv, WindowInv, InWindow, WindowHolds
<1> QED BY <1>1, Invariant, PTL

\* The administrators' queue holds withheld reports only.
THEOREM QueueIsWithheld == Spec => []QueueHoldsWithheld
BY Invariant, PTL DEF IInv

\* Every answer is on record but for as many as the database failed.
THEOREM AnswersRecorded == Spec => []OnRecordUnlessFault
<1>1. ASSUME IInv PROVE OnRecordUnlessFault
  <2>1. Slipped \in SUBSET Requests /\ Unrecorded \in SUBSET Slipped
    BY DEF Slipped, Unrecorded
  <2>2. /\ Cardinality(Unrecorded) <= Cardinality(Slipped)
        /\ Cardinality(Unrecorded) \in Nat /\ Cardinality(Slipped) \in Nat
    BY <2>1, FiniteRequests, FS_Subset
  <2>3. Cardinality(Slipped) <= faults /\ faults \in Nat
    BY <1>1 DEF IInv, RecordInv, TypeOK
  <2> QED BY <2>2, <2>3 DEF OnRecordUnlessFault
<1> QED BY <1>1, Invariant, PTL

-----------------------------------------------------------------------------
\* A key that expires has a recent call behind it, and one that does not was
\* only ever raised by calls whose EXPIRE was lost.
KeyInv ==
  \A c \in Callers :
    /\ ttl[c] = 0 => count[c] <= faults
    /\ ttl[c] > 0 => \E q \in Requests :
         pc[q] # "new" /\ Caller[q] = c /\ age[q] <= Window - ttl[c]

LEMMA KeyPreserved ==
  ASSUME TypeOK, KeyInv, [Next]_vars
  PROVE  KeyInv'
<1> USE RouteAssumption
<1>1. faults \in Nat
  BY DEF TypeOK
<1>2. CASE Tick
  <2> SUFFICES ASSUME NEW c \in Callers
               PROVE  /\ ttl'[c] = 0 => count'[c] <= faults'
                      /\ ttl'[c] > 0 => \E q \in Requests :
                           pc'[q] # "new" /\ Caller[q] = c /\ age'[q] <= Window - ttl'[c]
    BY DEF KeyInv
  <2>1. ttl'[c] = 0 => count'[c] <= faults'
    BY <1>1, <1>2 DEF Tick, KeyInv, TypeOK
  <2>2. ASSUME ttl'[c] > 0
        PROVE  \E q \in Requests :
                 pc'[q] # "new" /\ Caller[q] = c /\ age'[q] <= Window - ttl'[c]
    <3>1. ttl'[c] = ttl[c] - 1 /\ ttl[c] \in 0 .. Window /\ ttl[c] > 0
      BY <1>2, <2>2 DEF Tick, TypeOK
    <3>2. PICK q \in Requests : pc[q] # "new" /\ Caller[q] = c /\ age[q] <= Window - ttl[c]
      BY <3>1 DEF KeyInv
    <3>3. age'[q] = age[q] + 1 /\ age[q] \in 0 .. Window
      BY <1>2, <3>1, <3>2 DEF Tick, TypeOK
    <3>4. pc'[q] # "new"
      BY <1>2, <3>2 DEF Tick, requestVars
    <3> QED BY <3>1, <3>2, <3>3, <3>4
  <2> QED BY <2>1, <2>2
<1>3. ASSUME NEW r \in Requests, Arrive(r) PROVE KeyInv'
  <2> SUFFICES ASSUME NEW c \in Callers
               PROVE  /\ ttl'[c] = 0 => count'[c] <= faults'
                      /\ ttl'[c] > 0 => \E q \in Requests :
                           pc'[q] # "new" /\ Caller[q] = c /\ age'[q] <= Window - ttl'[c]
    BY DEF KeyInv
  <2>1. \A q \in Requests : pc[q] # "new" => pc'[q] # "new" /\ age'[q] = age[q]
    BY <1>3 DEF Arrive, Admit, Goto, TypeOK
  <2>2. pc'[r] # "new" /\ age'[r] = 0 /\ faults <= faults'
    BY <1>1, <1>3 DEF Arrive, Admit, Goto, Fault, NoFault, TypeOK
  <2>4. CASE Expire(Caller[r]) /\ c = Caller[r]
    <3>1. ttl'[c] = Window
      BY <2>4 DEF Expire, TypeOK
    <3> QED BY <2>2, <2>4, <3>1
  <2>5. CASE ttl' = ttl /\ Fault /\ count'[c] = count[c] + 1
    BY <1>1, <2>1, <2>5 DEF KeyInv, Fault, TypeOK
  <2>6. CASE ttl'[c] = ttl[c] /\ count'[c] = count[c]
    <3>1. count[c] \in Nat /\ ttl[c] \in 0 .. Window /\ faults' \in Nat
      BY <1>1, <1>3 DEF Arrive, Fault, NoFault, TypeOK
    <3>2. ttl'[c] = 0 => count'[c] <= faults'
      <4> SUFFICES ASSUME ttl[c] = 0 PROVE count[c] <= faults'
        BY <2>6
      <4>1. count[c] <= faults
        BY DEF KeyInv
      <4>2. faults <= faults'
        BY <2>2
      <4> QED BY <1>1, <3>1, <4>1, <4>2
    <3>3. ttl'[c] > 0 => \E q \in Requests :
            pc'[q] # "new" /\ Caller[q] = c /\ age'[q] <= Window - ttl'[c]
      <4> SUFFICES ASSUME ttl[c] > 0
                   PROVE  \E q \in Requests :
                            pc'[q] # "new" /\ Caller[q] = c /\ age'[q] <= Window - ttl[c]
        BY <2>6
      <4>1. PICK q \in Requests : pc[q] # "new" /\ Caller[q] = c /\ age[q] <= Window - ttl[c]
        BY DEF KeyInv
      <4> QED BY <2>1, <4>1
    <3> QED BY <3>2, <3>3
  <2> QED BY <1>3, <2>4, <2>5, <2>6 DEF Arrive, Expire, TypeOK
<1>4. ASSUME UNCHANGED redisVars, faults <= faults', faults' \in Nat,
             \A q \in Requests : pc[q] # "new" => pc'[q] # "new"
      PROVE  KeyInv'
  BY <1>1, <1>4 DEF KeyInv, redisVars, TypeOK
<1>5. ASSUME NEW r \in Requests, Handle(r) \/ Cancel(r) PROVE KeyInv'
  <2>1. UNCHANGED redisVars
    BY <1>5 DEF Handle, Refuse, RunGraph, File, Log, Cancel
  <2>2. \A q \in Requests : pc[q] # "new" => pc'[q] # "new"
    BY <1>5 DEF Handle, Refuse, RunGraph, File, Log, Cancel, Leave, Goto, TypeOK
  <2>3. faults <= faults' /\ faults' \in Nat
    BY <1>1, <1>5 DEF Handle, Refuse, RunGraph, File, Log, Cancel, Fault, NoFault
  <2> QED BY <1>4, <2>1, <2>2, <2>3
<1>6. ASSUME NEW r \in Requests, Resolve(r) PROVE KeyInv'
  BY <1>1, <1>4, <1>6 DEF Resolve, requestVars
<1>7. CASE Restart
  BY <1>1, <1>4, <1>7 DEF Restart, Fault
<1>8. CASE UNCHANGED vars
  BY <1>1, <1>4, <1>8 DEF vars, requestVars
<1> QED BY <1>2, <1>3, <1>5, <1>6, <1>7, <1>8 DEF Next

\* Waiting for a window is enough (rate_limit.py, retry_after): a refusal has
\* another call of the same caller within the last window.
THEOREM RefusalsAreRecent == Spec => RefusalIsRecent
<1>1. Init => KeyInv
  BY RouteAssumption DEF Init, KeyInv
<1>2. TypeOK /\ KeyInv /\ [Next]_vars => KeyInv'
  BY KeyPreserved
<1>3. ASSUME TypeOK, KeyInv, [Next]_vars, NEW r \in Requests, MaxFaults < RateLimit,
             pc[r] = "new", pc'[r] = "limited"
      PROVE  \E q \in Requests \ {r} : Caller[q] = Caller[r] /\ age[q] < Window
  <2>1. Arrive(r)
    <3>1. ASSUME NEW q \in Requests, Handle(q) \/ Cancel(q) PROVE FALSE
      BY <1>3, <3>1 DEF Handle, Refuse, RunGraph, File, Log, Cancel, Leave, Goto, TypeOK
    <3>2. ASSUME NEW q \in Requests, Resolve(q) PROVE FALSE
      BY <1>3, <3>2 DEF Resolve, requestVars
    <3>3. ~Tick /\ ~Restart /\ ~UNCHANGED vars
      BY <1>3 DEF Tick, Restart, vars, requestVars, TypeOK
    <3>4. ASSUME NEW q \in Requests, Arrive(q), q # r PROVE FALSE
      BY <1>3, <3>4 DEF Arrive, Admit, Goto, TypeOK
    <3> QED BY <1>3, <3>1, <3>2, <3>3, <3>4 DEF Next
  <2>2. Caller[r] \in Callers
    BY RouteAssumption
  <2>3. count[Caller[r]] + 1 > RateLimit
    BY <1>3, <2>1, <2>2, RouteAssumption DEF Arrive, Admit, Goto, WithinLimit, TypeOK
  <2>4. ttl[Caller[r]] \in 0 .. Window /\ ttl[Caller[r]] # 0
    BY <1>3, <2>2, <2>3, RouteAssumption DEF KeyInv, TypeOK
  <2>5. PICK q \in Requests :
          pc[q] # "new" /\ Caller[q] = Caller[r] /\ age[q] <= Window - ttl[Caller[r]]
    BY <1>3, <2>2, <2>4, RouteAssumption DEF KeyInv
  <2>6. age[q] < Window
    BY <1>3, <2>4, <2>5, RouteAssumption DEF TypeOK
  <2> QED BY <1>3, <2>5, <2>6
<1>4. TypeOK /\ KeyInv /\ [Next]_vars =>
        [\A r \in Requests :
           /\ MaxFaults < RateLimit
           /\ pc[r] = "new" /\ pc'[r] = "limited"
           => \E q \in Requests \ {r} : Caller[q] = Caller[r] /\ age[q] < Window]_vars
  BY <1>3
<1> QED BY <1>1, <1>2, <1>4, TypeCorrect, PTL DEF Spec, RefusalIsRecent

=============================================================================
