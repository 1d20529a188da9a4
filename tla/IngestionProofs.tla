--------------------------- MODULE IngestionProofs ---------------------------
(***************************************************************************)
(* Ingestion keeps its promises for any number of workers, background      *)
(* tasks, messages, documents, faults and receives.                        *)
(***************************************************************************)
EXTENDS Ingestion, FiniteSetTheorems, TLAPS

\* Where a process has a document, and where it has a row.
Persisting == {"check", "insert"}
Indexing   == {"embed", "commit", "mark"}

\* A message that can still be received has a receive left.
ReceivesLeft ==
  \A m \in Messages : message[m] \in {"unsent", "visible"} => receives[m] < MaxReceive

\* What a process knows of the document and the row in its hands.
ProcessOK(p) ==
  /\ pc[p] \in Persisting \cup {"note"} => doc[p] \in Docs
  /\ pc[p] \in Indexing => row[p] \in Docs /\ status[row[p]] # "none"
  /\ pc[p] \in Indexing /\ path[p] # "reindex" =>
       doc[p] \in Docs /\ Same(doc[p], row[p])
  /\ pc[p] = "mark" => copies[row[p]] # {} /\ path[p] # "reindex"
  /\ pc[p] \in Persisting => path[p] # "reindex"
  /\ pc[p] = "note" => outcome[p] \in Outcomes
  /\ pc[p] = "note" /\ Claims(outcome[p], doc[p]) => Answered(doc[p])

ProcessInv == \A p \in Procs : ProcessOK(p)

\* What a worker knows of the message in its hands: the refs it has been
\* through can be answered from, unless one of them failed.
LoopOK(w) ==
  /\ path[w] = "none"
  /\ pc[w] # "idle" => cur[w] \in Delivery
  /\ pc[w] = "delete" => todo[w] = {} /\ clean[w]
  /\ pc[w] = "note" =>
       \/ outcome[w] \in {"indexed", "duplicate", "failed"}
       \/ outcome[w] = "empty" /\ Kind[doc[w]] # "text"
  /\ pc[w] # "idle" /\ clean[w] =>
       \A d \in Refs[cur[w].msg] \cap Worthwhile :
         \/ d \in todo[w]
         \/ pc[w] \notin {"refs", "delete"} /\ d = doc[w]
         \/ Answered(d)

LoopInv == \A w \in Workers : LoopOK(w)

IInv ==
  /\ TypeOK
  /\ ReceivesLeft
  /\ ProcessInv
  /\ LoopInv
  /\ OnlySeedsAreUseless
  /\ NothingLost
  /\ LogTellsTruth

-----------------------------------------------------------------------------
\* What is worthwhile is new and has text.
LEMMA WorthwhileDocs ==
  ASSUME NEW d \in Worthwhile
  PROVE  d \in Docs /\ d \in New /\ Kind[d] = "text"
BY DEF Worthwhile, New

\* The process-local part of the type invariant, which Escapes, PersistFails
\* and IndexFails are about.
LocalTypes ==
  /\ pc \in [Procs -> Labels]
  /\ doc \in [Procs -> Docs \cup {NoDoc}]
  /\ row \in [Procs -> Docs \cup {NoDoc}]
  /\ seen \in [Procs -> SUBSET Generations]
  /\ outcome \in [Procs -> Outcomes \cup {"none"}]
  /\ path \in [Procs -> Paths \cup {"reindex", "none"}]
  /\ clean \in [Workers -> BOOLEAN]

\* The three ways a document can fail keep those types.
LEMMA FailureTypes ==
  ASSUME LocalTypes, NEW p \in Procs, Escapes(p) \/ PersistFails(p) \/ IndexFails(p)
  PROVE  LocalTypes'
<1> USE DEF LocalTypes, Labels, Outcomes, Goto, NoDoc
<1>1. ASSUME Escapes(p) PROVE LocalTypes'
  BY <1>1 DEF Escapes, Drop
<1>2. ASSUME GotoNote(p, "failed"), UNCHANGED clean PROVE LocalTypes'
  BY <1>2 DEF GotoNote
<1> QED BY <1>1, <1>2 DEF PersistFails, IndexFails

\* So do local variables that go out of scope.
LEMMA DropTypes ==
  ASSUME LocalTypes, NEW p \in Procs, Drop(p)
  PROVE  /\ doc' \in [Procs -> Docs \cup {NoDoc}]
         /\ row' \in [Procs -> Docs \cup {NoDoc}]
         /\ seen' \in [Procs -> SUBSET Generations]
         /\ outcome' \in [Procs -> Outcomes \cup {"none"}]
         /\ path' \in [Procs -> Paths \cup {"reindex", "none"}]
BY DEF LocalTypes, Drop, NoDoc

\* Every action preserves the types.
LEMMA TypePreserved ==
  ASSUME TypeOK, ReceivesLeft, ProcessInv, [Next]_vars
  PROVE  TypeOK'
<1> USE IngestionAssumption
<1> USE DEF TypeOK, Procs, Labels, Outcomes, queueVars, dbVars, localVars, loopVars, bounds,
            Fault, NoFault, Goto, Drop, GotoNote, NoDoc
<1>1. ASSUME NEW m \in Messages, Put(m) PROVE TypeOK'
  BY <1>1 DEF Put
<1>2. ASSUME NEW m \in Messages, VisibilityExpires(m) PROVE TypeOK'
  BY <1>2 DEF VisibilityExpires
<1>3. ASSUME NEW w \in Workers, Receive(w) PROVE TypeOK'
  BY <1>3 DEF Receive, ReceivesLeft, Delivery
<1>4. ASSUME NEW w \in Workers, TakeMessage(w) PROVE TypeOK'
  BY <1>4 DEF TakeMessage, Delivery
<1>5. ASSUME NEW w \in Workers, ReadObject(w) PROVE TypeOK'
  <2>0. doc' \in [Procs -> Docs \cup {NoDoc}]
    BY <1>5 DEF ReadObject
  <2>1. pc' \in [Procs -> Labels]
    <3>1. CASE Goto(w, "check")
      BY <3>1
    <3>2. CASE Goto(w, "note")
      BY <3>2
    <3> QED BY <1>5, <3>1, <3>2 DEF ReadObject
  <2>2. outcome' \in [Procs -> Outcomes \cup {"none"}]
    BY <1>5 DEF ReadObject
  <2>3. todo' \in [Workers -> SUBSET Docs]
    BY <1>5 DEF ReadObject
  <2>4. faults' \in 0 .. MaxFaults /\ starts' \in 0 .. MaxStarts
    BY <1>5 DEF ReadObject
  <2> QED BY <1>5, <2>0, <2>1, <2>2, <2>3, <2>4 DEF ReadObject
<1>6. ASSUME NEW w \in Workers, FinishMessage(w) PROVE TypeOK'
  <2>1. pc' \in [Procs -> Labels]
    BY <1>6 DEF FinishMessage
  <2>2. cur' \in [Workers -> Delivery \cup {NoDelivery}]
    BY <1>6 DEF FinishMessage
  <2>3. clean' \in [Workers -> BOOLEAN]
    BY <1>6 DEF FinishMessage
  <2> QED BY <1>6, <2>1, <2>2, <2>3 DEF FinishMessage
<1>7. ASSUME NEW w \in Workers, DeleteMessage(w) PROVE TypeOK'
  <2>1. /\ pc' \in [Procs -> Labels]
        /\ cur' \in [Workers -> Delivery \cup {NoDelivery}]
    BY <1>7 DEF DeleteMessage
  <2>2. message' \in [Messages -> {"unsent", "visible", "inflight", "deleted", "dead"}]
    BY <1>7 DEF DeleteMessage
  <2>3. batch' \in [Workers -> SUBSET Delivery]
    BY <1>7 DEF DeleteMessage
  <2>4. faults' \in 0 .. MaxFaults /\ starts' \in 0 .. MaxStarts
    BY <1>7 DEF DeleteMessage
  <2> QED BY <1>7, <2>1, <2>2, <2>3, <2>4 DEF DeleteMessage
<1>8. ASSUME NEW w \in Workers, WorkerCrash(w) PROVE TypeOK'
  BY <1>8 DEF WorkerCrash
<1>9. ASSUME NEW j \in Jobs, NEW d \in Docs, NEW via \in Paths, StartJob(j, d, via)
      PROVE TypeOK'
  <2>1. RefusalOutcome(via, Kind[d]) \in Outcomes /\ RefusalOutcome(via, "error") \in Outcomes
    BY DEF RefusalOutcome
  <2>2. doc' \in [Procs -> Docs \cup {NoDoc}] /\ path' \in [Procs -> Paths \cup {"reindex", "none"}]
    BY <1>9 DEF StartJob
  <2>3. pc' \in [Procs -> Labels]
    <3>1. CASE Goto(j, "check")
      BY <3>1
    <3>2. CASE Goto(j, "note")
      BY <3>2
    <3> QED BY <1>9, <3>1, <3>2 DEF StartJob
  <2>4. outcome' \in [Procs -> Outcomes \cup {"none"}]
    <3> HIDE DEF Outcomes, RefusalOutcome
    <3> QED BY <1>9, <2>1 DEF StartJob
  <2>5. faults' \in 0 .. MaxFaults /\ starts' \in 0 .. MaxStarts
    BY <1>9 DEF StartJob
  <2> QED BY <1>9, <2>2, <2>3, <2>4, <2>5 DEF StartJob
<1>10. ASSUME NEW j \in Jobs, NEW e \in Docs, StartReindex(j, e) PROVE TypeOK'
  BY <1>10 DEF StartReindex
<1>11. ASSUME NEW p \in Procs, CheckDuplicate(p) PROVE TypeOK'
  <2>1. LocalTypes'
    <3>1. CASE PersistFails(p)
      BY <3>1, FailureTypes DEF LocalTypes
    <3>2. CASE GotoNote(p, "duplicate") /\ UNCHANGED clean
      BY <3>2 DEF LocalTypes
    <3>3. CASE Goto(p, "insert") /\ UNCHANGED <<localVars, clean>>
      BY <3>3 DEF LocalTypes
    <3>4. CASE /\ \E e \in Docs : row' = [row EXCEPT ![p] = e]
               /\ Goto(p, "embed") /\ UNCHANGED <<doc, seen, outcome, path, clean>>
      BY <3>4 DEF LocalTypes
    <3> QED BY <1>11, <3>1, <3>2, <3>3, <3>4 DEF CheckDuplicate
  <2> QED BY <1>11, <2>1 DEF CheckDuplicate, LocalTypes
<1>12. ASSUME NEW p \in Procs, InsertRow(p) PROVE TypeOK'
  <2>1. LocalTypes'
    <3>1. CASE PersistFails(p)
      BY <3>1, FailureTypes DEF LocalTypes
    <3>2. CASE /\ row' = [row EXCEPT ![p] = doc[p]]
               /\ Goto(p, "embed") /\ UNCHANGED <<doc, seen, outcome, path, clean>>
      BY <3>2 DEF LocalTypes
    <3> QED BY <1>12, <3>1, <3>2 DEF InsertRow
  <2>2. status' \in [Docs -> {"none", "processing", "ready"}]
    <3>1. CASE UNCHANGED status
      BY <3>1
    <3>2. CASE status' = [status EXCEPT ![doc[p]] = "processing"]
      BY <3>2
    <3> QED BY <1>12, <3>1, <3>2 DEF InsertRow
  <2>3. faults' \in 0 .. MaxFaults /\ starts' \in 0 .. MaxStarts
    BY <1>12 DEF InsertRow
  <2> QED BY <1>12, <2>1, <2>2, <2>3 DEF InsertRow, LocalTypes
<1>13. ASSUME NEW p \in Procs, EmbedBegin(p) PROVE TypeOK'
  <2>1. CASE IndexFails(p)
    <3>1. LocalTypes'
      BY <2>1, FailureTypes DEF LocalTypes
    <3>2. NoFault \/ Fault
      BY <1>13 DEF EmbedBegin
    <3>3. faults' \in 0 .. MaxFaults /\ starts' \in 0 .. MaxStarts
      BY <3>2
    <3>4. UNCHANGED <<queueVars, dbVars, batch, cur, todo>>
      BY <1>13 DEF EmbedBegin
    <3> QED BY <3>1, <3>3, <3>4 DEF LocalTypes
  <2>2. CASE ~IndexFails(p)
    <3>1. copies[row[p]] \subseteq Generations
      BY <1>13 DEF EmbedBegin, ProcessInv, ProcessOK, Indexing
    <3>2. /\ seen' = [seen EXCEPT ![p] = copies[row[p]]] /\ Goto(p, "commit")
          /\ NoFault /\ UNCHANGED <<doc, row, outcome, path, clean>>
      BY <1>13, <2>2 DEF EmbedBegin
    <3>3. UNCHANGED <<queueVars, dbVars, batch, cur, todo>>
      BY <1>13 DEF EmbedBegin
    <3>4. seen' \in [Procs -> SUBSET Generations] /\ pc' \in [Procs -> Labels]
      BY <3>1, <3>2
    <3> QED BY <3>2, <3>3, <3>4
  <2> QED BY <2>1, <2>2
<1>14. ASSUME NEW p \in Procs, EmbedCommit(p) PROVE TypeOK'
  <2>1. copies' \in [Docs -> SUBSET Generations]
    <3>1. ASSUME NEW g \in Generations, copies' = [copies EXCEPT ![row[p]] = Rewritten(p, g)]
          PROVE  copies' \in [Docs -> SUBSET Generations]
      BY <1>14, <3>1 DEF EmbedCommit, Rewritten, ProcessInv, ProcessOK, Indexing
    <3> QED BY <1>14, <3>1 DEF EmbedCommit
  <2>2. faults' \in 0 .. MaxFaults /\ starts' \in 0 .. MaxStarts
    BY <1>14 DEF EmbedCommit
  <2>3. CASE IndexFails(p)
    <3>1. LocalTypes'
      BY <2>3, FailureTypes DEF LocalTypes
    <3> QED BY <1>14, <2>1, <2>2, <3>1 DEF EmbedCommit, LocalTypes
  <2>4. CASE ~IndexFails(p)
    <3>1. LocalTypes'
      <4>1. CASE Goto(p, "idle") /\ Drop(p) /\ UNCHANGED clean
        BY <4>1 DEF LocalTypes
      <4>2. CASE /\ Goto(p, "mark") /\ seen' = [seen EXCEPT ![p] = {}]
                 /\ UNCHANGED <<doc, row, outcome, path, clean>>
        BY <4>2 DEF LocalTypes
      <4> QED BY <1>14, <2>4, <4>1, <4>2 DEF EmbedCommit
    <3> QED BY <1>14, <2>1, <2>2, <3>1 DEF EmbedCommit, LocalTypes
  <2> QED BY <2>3, <2>4
<1>15. ASSUME NEW p \in Procs, MarkReady(p) PROVE TypeOK'
  <2>1. LocalTypes'
    <3>1. CASE Escapes(p)
      BY <3>1, FailureTypes DEF LocalTypes
    <3>2. CASE GotoNote(p, "indexed") /\ UNCHANGED clean
      BY <3>2 DEF LocalTypes
    <3> QED BY <1>15, <3>1, <3>2 DEF MarkReady
  <2> QED BY <1>15, <2>1 DEF MarkReady, LocalTypes
<1>16. ASSUME NEW p \in Procs, Note(p) PROVE TypeOK'
  <2>1. doc[p] \in Docs /\ outcome[p] \in Outcomes
    BY <1>16 DEF Note, ProcessInv, ProcessOK
  <2>2. log' \subseteq [doc : Docs, outcome : Outcomes]
    BY <1>16, <2>1 DEF Note
  <2>3. pc' \in [Procs -> Labels]
    <3>1. CASE Goto(p, "refs")
      BY <3>1
    <3>2. CASE Goto(p, "idle")
      BY <3>2
    <3> QED BY <1>16, <3>1, <3>2 DEF Note
  <2>4. clean' \in [Workers -> BOOLEAN]
    <3>1. clean' = clean \/ clean' = [clean EXCEPT ![p] = FALSE]
      BY <1>16 DEF Note
    <3>2. CASE clean' = [clean EXCEPT ![p] = FALSE]
      BY <3>2
    <3> QED BY <3>1, <3>2
  <2>5. /\ doc' \in [Procs -> Docs \cup {NoDoc}]
        /\ row' \in [Procs -> Docs \cup {NoDoc}]
        /\ seen' \in [Procs -> SUBSET Generations]
        /\ outcome' \in [Procs -> Outcomes \cup {"none"}]
        /\ path' \in [Procs -> Paths \cup {"reindex", "none"}]
    <3>1. LocalTypes
      BY DEF LocalTypes
    <3>2. Drop(p)
      BY <1>16 DEF Note
    <3> HIDE DEF Drop, NoDoc, Labels, Outcomes, TypeOK
    <3> QED BY <3>1, <3>2, DropTypes
  <2>6. faults' \in 0 .. MaxFaults /\ starts' \in 0 .. MaxStarts
    BY <1>16 DEF Note
  <2> QED BY <1>16, <2>2, <2>3, <2>4, <2>5, <2>6 DEF Note
<1>17. ASSUME ApiCrash PROVE TypeOK'
  BY <1>17 DEF ApiCrash, Cleared
<1>18. CASE UNCHANGED vars
  BY <1>18 DEF vars
<1>19. CASE Next
  BY <1>1, <1>2, <1>3, <1>4, <1>5, <1>6, <1>7, <1>8, <1>9, <1>10, <1>11, <1>12, <1>13,
     <1>14, <1>15, <1>16, <1>17, <1>19 DEF Next, Queue, Consume, Start, Ingest
<1> QED BY <1>18, <1>19

-----------------------------------------------------------------------------
\* The database only grows: rows stay, ready rows stay ready, and a row that
\* has chunks keeps having some.
DbGrows ==
  \A e \in Docs :
    /\ status[e] # "none" => status'[e] # "none"
    /\ status[e] = "ready" => status'[e] = "ready"
    /\ copies[e] # {} => copies'[e] # {}

\* No step shrinks the database.
LEMMA DatabaseGrows ==
  ASSUME TypeOK, ProcessInv, [Next]_vars
  PROVE  DbGrows
<1> USE DEF dbVars, DbGrows
<1>1. ASSUME NEW p \in Procs, InsertRow(p) PROVE DbGrows
  <2>1. CASE UNCHANGED status
    BY <1>1, <2>1 DEF InsertRow
  <2>2. CASE /\ \A e \in Held : ~Same(doc[p], e)
             /\ status' = [status EXCEPT ![doc[p]] = "processing"]
    <3>1. doc[p] \in Docs
      BY <1>1 DEF InsertRow, ProcessInv, ProcessOK, Persisting
    <3>2. doc[p] \notin Held
      BY <2>2 DEF Same, SameHash
    <3> QED BY <1>1, <2>2, <3>1, <3>2 DEF InsertRow, Held, TypeOK
  <2> QED BY <1>1, <2>1, <2>2 DEF InsertRow
<1>2. ASSUME NEW p \in Procs, EmbedCommit(p) PROVE DbGrows
  <2>1. CASE UNCHANGED copies
    BY <1>2, <2>1 DEF EmbedCommit
  <2>2. ASSUME NEW g \in Generations,
               copies' = [copies EXCEPT ![row[p]] = Rewritten(p, g)]
        PROVE  DbGrows
    BY <1>2, <2>2 DEF EmbedCommit, Rewritten, TypeOK
  <2> QED BY <1>2, <2>1, <2>2 DEF EmbedCommit
<1>3. ASSUME NEW p \in Procs, MarkReady(p) PROVE DbGrows
  BY <1>3 DEF MarkReady, TypeOK
<1>4. ASSUME UNCHANGED <<status, copies>> PROVE DbGrows
  BY <1>4
<1>5. CASE UNCHANGED vars
  BY <1>4, <1>5 DEF vars
<1>6. CASE \E m \in Messages : Queue(m)
  BY <1>4, <1>6 DEF Queue, Put, VisibilityExpires
<1>7. CASE \E w \in Workers : Consume(w) \/ WorkerCrash(w)
  BY <1>4, <1>7 DEF Consume, Receive, TakeMessage, ReadObject, FinishMessage, DeleteMessage,
                    WorkerCrash
<1>8. CASE \E j \in Jobs : Start(j)
  BY <1>4, <1>8 DEF Start, StartJob, StartReindex
<1>9. CASE \E p \in Procs : CheckDuplicate(p) \/ EmbedBegin(p) \/ Note(p)
  BY <1>4, <1>9 DEF CheckDuplicate, EmbedBegin, Note
<1>10. CASE ApiCrash
  BY <1>4, <1>10 DEF ApiCrash
<1> QED BY <1>1, <1>2, <1>3, <1>5, <1>6, <1>7, <1>8, <1>9, <1>10 DEF Next, Ingest

\* What the corpus answers from it keeps answering from.
LEMMA AnsweredStays ==
  ASSUME DbGrows, NEW d \in Docs, Answered(d)
  PROVE  Answered(d)'
BY DEF DbGrows, Answered, Same, SameUrl, SameHash

-----------------------------------------------------------------------------
\* A step of p leaves every other process where it is.
Untouched(q) ==
  /\ pc'[q] = pc[q] /\ doc'[q] = doc[q] /\ row'[q] = row[q]
  /\ outcome'[q] = outcome[q] /\ path'[q] = path[q]
  /\ q \in Workers => cur'[q] = cur[q] /\ todo'[q] = todo[q] /\ clean'[q] = clean[q]

\* An untouched process keeps its invariants while the database grows.
LEMMA UntouchedOK ==
  ASSUME TypeOK, DbGrows, NEW q \in Procs, Untouched(q), ProcessOK(q)
  PROVE  /\ ProcessOK(q)'
         /\ q \in Workers /\ LoopOK(q) => LoopOK(q)'
<1> DEFINE A == \A d \in Docs : Answered(d) => Answered(d)'
<1>a. A
  BY AnsweredStays
<1>1. ProcessOK(q)'
  <2>1. pc[q] = "note" /\ Claims(outcome[q], doc[q]) => Answered(doc[q])'
    BY <1>a DEF ProcessOK, Untouched, Answered, Same, SameUrl, SameHash
  <2>2. pc[q] = "note" /\ Claims(outcome[q], doc[q])' => Answered(doc[q])'
    BY <2>1 DEF Untouched, Claims, New
  <2> HIDE DEF A
  <2> QED BY <2>1, <2>2 DEF ProcessOK, Untouched, DbGrows, Same, SameUrl, SameHash, Indexing, Persisting
<1>2. ASSUME q \in Workers, LoopOK(q) PROVE LoopOK(q)'
  BY <1>a, <1>2 DEF LoopOK, Untouched, Worthwhile, New
<1> QED BY <1>1, <1>2

\* What a step of p owes: the others are untouched, p keeps its own invariants.
StepOK(p) ==
  /\ \A q \in Procs \ {p} : Untouched(q)
  /\ ProcessOK(p)'
  /\ p \in Workers => LoopOK(p)'

\* The steps of the loop, the workers' own.
LEMMA LoopSteps ==
  ASSUME IInv, DbGrows, NEW w \in Workers,
         \/ Receive(w) \/ TakeMessage(w) \/ ReadObject(w)
         \/ FinishMessage(w) \/ DeleteMessage(w) \/ WorkerCrash(w)
  PROVE  StepOK(w)
<1> DEFINE A == \A d \in Docs : Answered(d) => Answered(d)'
<1>a. A
  BY AnsweredStays
<1>b. w \in Procs /\ ProcessOK(w) /\ LoopOK(w) /\ TypeOK /\ IngestionAssumption
  BY IngestionAssumption DEF IInv, ProcessInv, LoopInv, Procs
<1> USE DEF StepOK, Untouched, Procs, Persisting, Indexing, localVars, dbVars, loopVars,
            Goto, Drop, TypeOK
<1>1. CASE Receive(w)
  BY <1>a, <1>b, <1>1 DEF Receive, ProcessOK, LoopOK
<1>2. CASE TakeMessage(w)
  <2>1. PICK b \in batch[w] : cur' = [cur EXCEPT ![w] = b]
                              /\ todo' = [todo EXCEPT ![w] = Refs[b.msg]]
    BY <1>2 DEF TakeMessage
  <2>2. pc'[w] = "refs" /\ path'[w] = "none" /\ cur'[w] = b /\ todo'[w] = Refs[b.msg]
    BY <1>b, <1>2, <2>1 DEF TakeMessage, LoopOK
  <2>3. b \in Delivery
    BY <1>b, <2>1
  <2>4. ProcessOK(w)'
    BY <2>2 DEF ProcessOK
  <2>5. LoopOK(w)'
    BY <2>2, <2>3 DEF LoopOK
  <2>6. \A q \in Procs \ {w} : Untouched(q)
    BY <1>b, <1>2 DEF TakeMessage
  <2> QED BY <2>4, <2>5, <2>6
<1>3. CASE ReadObject(w)
  <2>1. PICK d \in todo[w] :
               /\ todo' = [todo EXCEPT ![w] = @ \ {d}]
               /\ doc' = [doc EXCEPT ![w] = d]
               /\ \/ Goto(w, "check") /\ UNCHANGED outcome
                  \/ /\ Kind[d] # "text" /\ Goto(w, "note")
                     /\ outcome' = [outcome EXCEPT ![w] = "empty"]
                  \/ Goto(w, "note") /\ outcome' = [outcome EXCEPT ![w] = "failed"]
    BY <1>3 DEF ReadObject
  <2>2. /\ path'[w] = "none" /\ cur'[w] = cur[w] /\ clean'[w] = clean[w]
        /\ pc[w] = "refs" /\ todo'[w] = todo[w] \ {d} /\ doc'[w] = d /\ d \in Docs
        /\ \/ pc'[w] = "check"
           \/ pc'[w] = "note" /\ outcome'[w] = "failed"
           \/ pc'[w] = "note" /\ outcome'[w] = "empty" /\ Kind[d] # "text"
    BY <1>b, <1>3, <2>1 DEF ReadObject, LoopOK
  <2>3. ProcessOK(w)'
    BY <2>2 DEF ProcessOK, Outcomes, Claims
  <2>4. LoopOK(w)'
    <3>1. ASSUME clean[w], NEW x \in Refs[cur[w].msg] \cap Worthwhile
          PROVE  x \in todo[w] \ {d} \/ x = d \/ Answered(x)'
      <4>1. x \in todo[w] \/ Answered(x)
        BY <1>b, <2>2, <3>1 DEF LoopOK
      <4>2. x \in Docs
        BY WorthwhileDocs
      <4> QED BY <1>a, <4>1, <4>2
    <3>2. cur[w] \in Delivery
      BY <1>b, <2>2 DEF LoopOK
    <3> HIDE DEF A, TypeOK
    <3> QED BY <2>2, <3>1, <3>2 DEF LoopOK, Worthwhile, New
  <2>5. \A q \in Procs \ {w} : Untouched(q)
    BY <1>b, <1>3, <2>1 DEF ReadObject
  <2> QED BY <2>3, <2>4, <2>5
<1>4. CASE FinishMessage(w)
  <2>1. ProcessOK(w)' /\ \A q \in Procs \ {w} : Untouched(q)
    BY <1>b, <1>4 DEF FinishMessage, ProcessOK
  <2>2. LoopOK(w)'
    BY <1>a, <1>b, <1>4 DEF FinishMessage, LoopOK, Worthwhile, New
  <2> QED BY <2>1, <2>2
<1>5. CASE DeleteMessage(w)
  BY <1>a, <1>b, <1>5 DEF DeleteMessage, ProcessOK, LoopOK
<1>6. CASE WorkerCrash(w)
  BY <1>a, <1>b, <1>6 DEF WorkerCrash, ProcessOK, LoopOK
<1> QED BY <1>1, <1>2, <1>3, <1>4, <1>5, <1>6

\* A background task begins.
LEMMA StartSteps ==
  ASSUME IInv, DbGrows, NEW j \in Jobs, Start(j)
  PROVE  StepOK(j)
<1>b. j \in Procs /\ j \notin Workers /\ ProcessOK(j) /\ TypeOK
  BY IngestionAssumption DEF IInv, ProcessInv, Procs
<1> USE DEF StepOK, Untouched, Procs, Persisting, Indexing, localVars, dbVars, loopVars,
            Goto, TypeOK
<1>1. ASSUME NEW d \in Docs, NEW via \in Paths, StartJob(j, d, via) PROVE StepOK(j)
  BY <1>b, <1>1 DEF StartJob, ProcessOK, RefusalOutcome, Outcomes, Paths, Claims
<1>2. ASSUME NEW e \in Docs, StartReindex(j, e) PROVE StepOK(j)
  BY <1>b, <1>2 DEF StartReindex, ProcessOK, Held
<1> QED BY <1>1, <1>2 DEF Start

\* A step of p moves nobody else: its assignments are all to p's own entries.
LEMMA OthersUntouched ==
  ASSUME TypeOK, NEW p \in Procs, Ingest(p)
  PROVE  \A q \in Procs \ {p} : Untouched(q)
<1> USE DEF Untouched, Goto, Drop, GotoNote, localVars, dbVars, TypeOK
<1>1. ASSUME Escapes(p) \/ PersistFails(p) \/ IndexFails(p), UNCHANGED <<batch, cur, todo>>
      PROVE  \A q \in Procs \ {p} : Untouched(q)
  BY <1>1 DEF Escapes, PersistFails, IndexFails
<1>2. ASSUME GotoNote(p, "duplicate") \/ GotoNote(p, "indexed"), UNCHANGED <<cur, todo, clean>>
      PROVE  \A q \in Procs \ {p} : Untouched(q)
  BY <1>2
<1>3. ASSUME NEW l, NEW r, Goto(p, l), row' = [row EXCEPT ![p] = r] \/ UNCHANGED row,
             UNCHANGED <<doc, outcome, path, cur, todo, clean>>
      PROVE  \A q \in Procs \ {p} : Untouched(q)
  BY <1>3
<1>4. CASE CheckDuplicate(p)
  BY <1>1, <1>2, <1>3, <1>4 DEF CheckDuplicate
<1>5. CASE InsertRow(p)
  BY <1>1, <1>3, <1>5 DEF InsertRow
<1>6. CASE EmbedBegin(p)
  BY <1>1, <1>3, <1>6 DEF EmbedBegin
<1>7. CASE EmbedCommit(p)
  <2>1. CASE Goto(p, "idle") /\ Drop(p) /\ UNCHANGED <<cur, todo, clean>>
    BY <2>1
  <2> QED BY <1>1, <1>3, <1>7, <2>1 DEF EmbedCommit
<1>8. CASE MarkReady(p)
  BY <1>1, <1>2, <1>8 DEF MarkReady
<1>9. CASE Note(p)
  BY <1>9 DEF Note
<1> QED BY <1>4, <1>5, <1>6, <1>7, <1>8, <1>9 DEF Ingest

\* The document at hand fails: p keeps its invariants, and a worker that moves
\* on has noted that not every ref was handled, or is about to.
LEMMA FailureSteps ==
  ASSUME IInv, DbGrows, NEW p \in Procs,
         \/ pc[p] \in Persisting /\ PersistFails(p)
         \/ pc[p] \in Indexing /\ (IndexFails(p) \/ Escapes(p)),
         UNCHANGED <<cur, todo>>
  PROVE  ProcessOK(p)' /\ (p \in Workers => LoopOK(p)')
<1> DEFINE A == \A d \in Docs : Answered(d) => Answered(d)'
<1>a. A
  BY AnsweredStays
<1>b. ProcessOK(p) /\ (p \in Workers => LoopOK(p)) /\ TypeOK
  BY DEF IInv, ProcessInv, LoopInv
<1> USE DEF Persisting, Indexing, Goto, TypeOK
<1>1. CASE Escapes(p)
  <2>1. ProcessOK(p)'
    BY <1>b, <1>1 DEF Escapes, ProcessOK
  <2>2. p \in Workers => LoopOK(p)'
    BY <1>b, <1>1 DEF Escapes, Drop, LoopOK
  <2> QED BY <2>1, <2>2
<1>2. CASE ~Escapes(p)
  <2>1. /\ pc'[p] = "note" /\ outcome'[p] = "failed" /\ doc'[p] = doc[p] /\ path'[p] = path[p]
        /\ cur'[p] = cur[p] /\ todo'[p] = todo[p] /\ clean'[p] = clean[p]
    BY <1>b, <1>2 DEF PersistFails, IndexFails, GotoNote
  <2>2. doc[p] \in Docs
    BY <1>2, <1>b DEF PersistFails, IndexFails, ProcessOK
  <2>3. ProcessOK(p)'
    BY <2>1, <2>2 DEF ProcessOK, Outcomes, Claims
  <2>4. ASSUME p \in Workers PROVE LoopOK(p)'
    <3>1. ASSUME clean[p], NEW x \in Refs[cur[p].msg] \cap Worthwhile
          PROVE  x \in todo[p] \/ x = doc[p] \/ Answered(x)'
      BY <1>a, <1>b, <2>4, <3>1 DEF LoopOK, Worthwhile, New
    <3>2. cur[p] \in Delivery /\ path[p] = "none"
      BY <1>b, <1>2, <2>4 DEF LoopOK
    <3> HIDE DEF A, TypeOK
    <3> QED BY <2>1, <3>1, <3>2 DEF LoopOK, Worthwhile, New
  <2> QED BY <2>3, <2>4
<1> QED BY <1>1, <1>2

\* A worker that goes on with its document keeps its loop invariant.
LEMMA LoopKept ==
  ASSUME TypeOK, DbGrows, NEW p \in Workers, LoopOK(p),
         pc[p] \in Persisting \cup Indexing, pc'[p] \in Persisting \cup Indexing \cup {"note"},
         pc'[p] = "note" => outcome'[p] \in {"indexed", "duplicate"},
         doc'[p] = doc[p], path'[p] = path[p],
         cur'[p] = cur[p], todo'[p] = todo[p], clean'[p] = clean[p]
  PROVE  LoopOK(p)'
<1>1. \A d \in Docs : Answered(d) => Answered(d)'
  BY AnsweredStays
<1>2. ASSUME clean[p], NEW x \in Refs[cur[p].msg] \cap Worthwhile
      PROVE  x \in todo[p] \/ x = doc[p] \/ Answered(x)'
  BY <1>1, <1>2 DEF LoopOK, Worthwhile, New, Persisting, Indexing
<1>3. cur[p] \in Delivery /\ path[p] = "none"
  BY DEF LoopOK, Persisting, Indexing
<1> QED BY <1>2, <1>3 DEF LoopOK, Worthwhile, New, Persisting, Indexing

\* The steps every path shares preserve the invariants of the process.
LEMMA IngestSteps ==
  ASSUME IInv, DbGrows, NEW p \in Procs, Ingest(p)
  PROVE  ProcessOK(p)' /\ (p \in Workers => LoopOK(p)')
<1>a. ProcessOK(p) /\ (p \in Workers => LoopOK(p)) /\ TypeOK
  BY DEF IInv, ProcessInv, LoopInv
<1>b. \A d \in Docs : Answered(d) => Answered(d)'
  BY AnsweredStays
<1> USE DEF Persisting, Indexing, Goto, localVars, dbVars
<1>1. CASE CheckDuplicate(p)
  <2>1. CASE PersistFails(p)
    BY <1>1, <2>1, FailureSteps DEF CheckDuplicate
  <2>2. ASSUME NEW e \in Docs, Matches(doc[p], e), IsDuplicateOf(e), GotoNote(p, "duplicate"),
               UNCHANGED clean
        PROVE  ProcessOK(p)' /\ (p \in Workers => LoopOK(p)')
    <3>1. doc[p] \in Docs /\ Same(doc[p], e) /\ status[e] = "ready"
      BY <1>1, <1>a, <2>2 DEF CheckDuplicate, ProcessOK, IsDuplicateOf, Matches, Same
    <3>2. doc[p] \in New => Answered(doc[p])
      BY <3>1 DEF IInv, OnlySeedsAreUseless, Answered, New
    <3>3. /\ pc'[p] = "note" /\ outcome'[p] = "duplicate" /\ doc'[p] = doc[p]
          /\ path'[p] = path[p] /\ UNCHANGED <<cur, todo, clean>>
      BY <1>1, <1>a, <2>2 DEF CheckDuplicate, GotoNote, TypeOK
    <3>4. doc[p] \in New => Answered(doc[p])'
      BY <1>b, <3>1, <3>2, <3>3 DEF Answered, Same, SameUrl, SameHash
    <3>5. Claims(outcome[p], doc[p])' => doc[p] \in New
      BY <3>3 DEF Claims, New
    <3>6. Claims(outcome[p], doc[p])' => Answered(doc[p])'
      BY <3>4, <3>5
    <3>7. ProcessOK(p)'
      BY <3>1, <3>3, <3>6 DEF ProcessOK, Outcomes
    <3> QED BY <1>1, <1>a, <3>3, <3>7, LoopKept DEF CheckDuplicate
  <2>3. ASSUME NEW e \in Docs, Matches(doc[p], e), row' = [row EXCEPT ![p] = e],
               Goto(p, "embed"), UNCHANGED <<doc, seen, outcome, path, clean>>
        PROVE  ProcessOK(p)' /\ (p \in Workers => LoopOK(p)')
    <3>1. pc'[p] = "embed" /\ row'[p] = e /\ UNCHANGED <<status, cur, todo>>
      BY <1>1, <1>a, <2>3 DEF CheckDuplicate, TypeOK
    <3>2. ProcessOK(p)'
      BY <1>1, <1>a, <2>3, <3>1
      DEF CheckDuplicate, ProcessOK, Matches, Held, Same, SameUrl, SameHash
    <3> QED BY <1>1, <1>a, <2>3, <3>1, <3>2, LoopKept DEF CheckDuplicate
  <2>4. CASE Goto(p, "insert") /\ UNCHANGED <<localVars, clean>>
    <3>1. pc'[p] = "insert" /\ UNCHANGED <<cur, todo>>
      BY <1>1, <1>a, <2>4 DEF CheckDuplicate, TypeOK
    <3>2. ProcessOK(p)'
      BY <1>1, <1>a, <2>4, <3>1 DEF CheckDuplicate, ProcessOK
    <3> QED BY <1>1, <1>a, <2>4, <3>1, <3>2, LoopKept DEF CheckDuplicate
  <2> QED BY <1>1, <2>1, <2>2, <2>3, <2>4 DEF CheckDuplicate
<1>2. CASE InsertRow(p)
  <2>1. CASE PersistFails(p)
    BY <1>2, <2>1, FailureSteps DEF InsertRow
  <2>2. CASE /\ status' = [status EXCEPT ![doc[p]] = "processing"]
             /\ row' = [row EXCEPT ![p] = doc[p]]
             /\ Goto(p, "embed") /\ UNCHANGED <<doc, seen, outcome, path, clean>>
    <3>1. doc[p] \in Docs /\ path[p] # "reindex"
      BY <1>2, <1>a DEF InsertRow, ProcessOK
    <3>2. /\ pc'[p] = "embed" /\ row'[p] = doc[p] /\ status'[doc[p]] = "processing"
          /\ UNCHANGED <<cur, todo>>
      BY <1>2, <1>a, <2>2, <3>1 DEF InsertRow, TypeOK
    <3>3. ProcessOK(p)'
      BY <2>2, <3>1, <3>2 DEF ProcessOK, Same, SameUrl, SameHash
    <3> QED BY <1>2, <1>a, <2>2, <3>2, <3>3, LoopKept DEF InsertRow
  <2> QED BY <1>2, <2>1, <2>2 DEF InsertRow
<1>3. CASE EmbedBegin(p)
  <2>1. CASE IndexFails(p)
    BY <1>3, <2>1, FailureSteps DEF EmbedBegin
  <2>2. CASE Goto(p, "commit") /\ UNCHANGED <<doc, row, outcome, path, clean>>
    <3>1. pc'[p] = "commit" /\ UNCHANGED <<status, cur, todo>>
      BY <1>3, <1>a, <2>2 DEF EmbedBegin, TypeOK
    <3>2. ProcessOK(p)'
      BY <1>3, <1>a, <2>2, <3>1 DEF EmbedBegin, ProcessOK, Same, SameUrl, SameHash
    <3> QED BY <1>3, <1>a, <2>2, <3>1, <3>2, LoopKept DEF EmbedBegin
  <2> QED BY <1>3, <2>1, <2>2 DEF EmbedBegin
<1>4. CASE EmbedCommit(p)
  <2>1. CASE IndexFails(p)
    BY <1>4, <2>1, FailureSteps DEF EmbedCommit
  <2>2. CASE path[p] = "reindex" /\ Goto(p, "idle") /\ Drop(p) /\ UNCHANGED clean
    <3>1. pc'[p] = "idle" /\ p \notin Workers
      BY <1>a, <2>2 DEF LoopOK, TypeOK
    <3> QED BY <3>1 DEF ProcessOK
  <2>3. ASSUME NEW g \in Generations, path[p] # "reindex", Goto(p, "mark"),
               copies' = [copies EXCEPT ![row[p]] = Rewritten(p, g)],
               UNCHANGED <<doc, row, outcome, path, clean>>
        PROVE  ProcessOK(p)' /\ (p \in Workers => LoopOK(p)')
    <3>1. row[p] \in Docs /\ pc[p] = "commit"
      BY <1>4, <1>a DEF EmbedCommit, ProcessOK
    <3>2. pc'[p] = "mark" /\ copies'[row[p]] # {} /\ UNCHANGED <<status, cur, todo>>
      BY <1>4, <1>a, <2>3, <3>1 DEF EmbedCommit, TypeOK, Rewritten
    <3>3. ProcessOK(p)'
      BY <1>a, <2>3, <3>1, <3>2 DEF ProcessOK, Same, SameUrl, SameHash
    <3> QED BY <1>a, <2>3, <3>1, <3>2, <3>3, LoopKept
  <2> QED BY <1>4, <2>1, <2>2, <2>3 DEF EmbedCommit
<1>5. CASE MarkReady(p)
  <2>1. CASE Escapes(p)
    BY <1>5, <2>1, FailureSteps DEF MarkReady
  <2>2. CASE /\ status' = [status EXCEPT ![row[p]] = "ready"]
             /\ GotoNote(p, "indexed") /\ UNCHANGED clean
    <3>1. /\ row[p] \in Docs /\ doc[p] \in Docs /\ Same(doc[p], row[p])
          /\ copies[row[p]] # {} /\ pc[p] = "mark"
      BY <1>5, <1>a DEF MarkReady, ProcessOK
    <3>2. /\ pc'[p] = "note" /\ outcome'[p] = "indexed" /\ doc'[p] = doc[p]
          /\ path'[p] = path[p] /\ status'[row[p]] = "ready"
          /\ UNCHANGED <<copies, cur, todo, clean>>
      BY <1>5, <1>a, <2>2, <3>1 DEF MarkReady, GotoNote, TypeOK
    <3>3. ProcessOK(p)'
      BY <3>1, <3>2 DEF ProcessOK, Outcomes, Answered, Same, SameUrl, SameHash
    <3> QED BY <1>a, <3>1, <3>2, <3>3, LoopKept
  <2> QED BY <1>5, <2>1, <2>2 DEF MarkReady
<1>6. CASE Note(p)
  <2>1. CASE p \notin Workers
    BY <1>6, <1>a, <2>1 DEF Note, ProcessOK, TypeOK
  <2>2. CASE p \in Workers
    <3>1. /\ pc'[p] = "refs" /\ path'[p] = "none" /\ UNCHANGED <<cur, todo>>
          /\ clean'[p] = (clean[p] /\ outcome[p] # "failed") /\ pc[p] = "note"
      BY <1>6, <1>a, <2>2 DEF Note, Drop, TypeOK
    <3>2. ASSUME clean'[p], NEW x \in Refs[cur[p].msg] \cap Worthwhile
          PROVE  x \in todo[p] \/ Answered(x)'
      <4>1. x \in todo[p] \/ x = doc[p] \/ Answered(x)
        BY <1>a, <2>2, <3>1, <3>2 DEF LoopOK
      <4>2. CASE x = doc[p]
        BY <1>a, <1>b, <2>2, <3>1, <3>2, <4>2, WorthwhileDocs DEF LoopOK, ProcessOK, Claims
      <4> QED BY <1>b, <4>1, <4>2, WorthwhileDocs
    <3>3. cur[p] \in Delivery
      BY <1>a, <2>2, <3>1 DEF LoopOK
    <3> QED BY <3>1, <3>2, <3>3 DEF LoopOK, ProcessOK, Worthwhile, New
  <2> QED BY <2>1, <2>2
<1> QED BY <1>1, <1>2, <1>3, <1>4, <1>5, <1>6 DEF Ingest

\* No step of any process, nor of the queue, disturbs what a process knows.
LEMMA ProcessesKept ==
  ASSUME IInv, DbGrows, [Next]_vars
  PROVE  ProcessInv' /\ LoopInv'
<1>a. /\ TypeOK
      /\ \A p \in Procs : ProcessOK(p)
      /\ \A w \in Workers : LoopOK(w) /\ w \in Procs
  BY DEF IInv, ProcessInv, LoopInv, Procs
<1>1. ASSUME NEW p \in Procs, StepOK(p) PROVE ProcessInv' /\ LoopInv'
  <2>1. \A q \in Procs \ {p} : ProcessOK(q)' /\ (q \in Workers => LoopOK(q)')
    BY <1>a, <1>1, UntouchedOK DEF StepOK
  <2> QED BY <1>1, <1>a, <2>1 DEF StepOK, ProcessInv, LoopInv
<1>2. ASSUME \A p \in Procs : Untouched(p) PROVE ProcessInv' /\ LoopInv'
  <2>1. \A q \in Procs : ProcessOK(q)' /\ (q \in Workers => LoopOK(q)')
    BY <1>a, <1>2, UntouchedOK
  <2> QED BY <1>a, <2>1 DEF ProcessInv, LoopInv
<1>3. CASE UNCHANGED vars
  BY <1>2, <1>3 DEF vars, Untouched, localVars, loopVars
<1>4. CASE \E m \in Messages : Queue(m)
  BY <1>2, <1>4 DEF Queue, Put, VisibilityExpires, Untouched, localVars, loopVars
<1>5. CASE \E w \in Workers : Consume(w) \/ WorkerCrash(w)
  BY <1>1, <1>a, <1>5, LoopSteps DEF Consume
<1>6. CASE \E j \in Jobs : Start(j)
  BY <1>1, <1>6, StartSteps DEF Procs
<1>7. CASE \E p \in Procs : Ingest(p)
  BY <1>1, <1>a, <1>7, IngestSteps, OthersUntouched DEF StepOK
<1>8. CASE ApiCrash
  <2>1. \A w \in Workers : Untouched(w)
    BY <1>a, <1>8, IngestionAssumption DEF ApiCrash, Cleared, Untouched, loopVars
  <2>2. \A j \in Jobs : ProcessOK(j)'
    BY <1>8 DEF ApiCrash, Cleared, ProcessOK, Procs, Persisting, Indexing
  <2>3. \A w \in Workers : ProcessOK(w)' /\ LoopOK(w)'
    BY <1>a, <2>1, UntouchedOK
  <2> QED BY <2>2, <2>3 DEF ProcessInv, LoopInv, Procs
<1> QED BY <1>3, <1>4, <1>5, <1>6, <1>7, <1>8 DEF Next

\* A visible message has a receive left, whatever the queue does with it.
LEMMA ReceivesKept ==
  ASSUME TypeOK, ReceivesLeft, [Next]_vars
  PROVE  ReceivesLeft'
<1> USE DEF ReceivesLeft, queueVars, TypeOK
<1>1. CASE \E m \in Messages : Queue(m)
  BY <1>1, IngestionAssumption DEF Queue, Put, VisibilityExpires
<1>2. ASSUME NEW w \in Workers, Receive(w) PROVE ReceivesLeft'
  BY <1>2 DEF Receive
<1>3. ASSUME NEW w \in Workers, DeleteMessage(w) PROVE ReceivesLeft'
  BY <1>3 DEF DeleteMessage
<1>4. ASSUME UNCHANGED <<message, receives>> PROVE ReceivesLeft'
  BY <1>4
<1>5. CASE UNCHANGED vars
  BY <1>4, <1>5 DEF vars
<1>6. CASE \E w \in Workers : TakeMessage(w) \/ ReadObject(w) \/ FinishMessage(w) \/ WorkerCrash(w)
  BY <1>4, <1>6 DEF TakeMessage, ReadObject, FinishMessage, WorkerCrash
<1>7. CASE \E j \in Jobs : Start(j)
  BY <1>4, <1>7 DEF Start, StartJob, StartReindex
<1>8. CASE \E p \in Procs : Ingest(p)
  BY <1>4, <1>8 DEF Ingest, CheckDuplicate, InsertRow, EmbedBegin, EmbedCommit, MarkReady, Note
<1>9. CASE ApiCrash
  BY <1>4, <1>9 DEF ApiCrash
<1> QED BY <1>1, <1>2, <1>3, <1>5, <1>6, <1>7, <1>8, <1>9 DEF Next, Consume

\* Only MarkReady makes a row ready, and it comes after the chunks.
LEMMA ReadyKept ==
  ASSUME IInv, DbGrows, [Next]_vars
  PROVE  OnlySeedsAreUseless'
<1>1. ASSUME NEW e \in Docs, status'[e] = "ready" PROVE copies'[e] # {} \/ e \in Seeded
  <2>1. CASE status[e] = "ready"
    BY <2>1 DEF IInv, OnlySeedsAreUseless, DbGrows
  <2>2. CASE status[e] # "ready"
    <3>1. ASSUME UNCHANGED status PROVE FALSE
      BY <1>1, <2>2, <3>1
    <3>2. ASSUME NEW p \in Procs, InsertRow(p) PROVE FALSE
      BY <1>1, <2>2, <3>2 DEF InsertRow, IInv, TypeOK
    <3>3. ASSUME NEW p \in Procs, MarkReady(p) PROVE copies'[e] # {}
      BY <1>1, <2>2, <3>3 DEF MarkReady, IInv, TypeOK, ProcessInv, ProcessOK
    <3>4. CASE UNCHANGED vars
      BY <3>1, <3>4 DEF vars, dbVars
    <3>5. CASE \/ \E m \in Messages : Queue(m)
               \/ \E w \in Workers : Consume(w) \/ WorkerCrash(w)
               \/ \E j \in Jobs : Start(j)
               \/ \E p \in Procs : CheckDuplicate(p) \/ EmbedBegin(p) \/ EmbedCommit(p) \/ Note(p)
               \/ ApiCrash
      BY <3>1, <3>5
      DEF dbVars, Queue, Put, VisibilityExpires, Consume, Receive, TakeMessage, ReadObject,
          FinishMessage, DeleteMessage, WorkerCrash, Start, StartJob, StartReindex,
          CheckDuplicate, EmbedBegin, EmbedCommit, Note, ApiCrash
    <3> QED BY <3>2, <3>3, <3>4, <3>5 DEF Next, Ingest
  <2> QED BY <2>1, <2>2
<1> QED BY <1>1 DEF OnlySeedsAreUseless

\* Only Note writes the log, and what it writes is so.
LEMMA LogKept ==
  ASSUME IInv, DbGrows, [Next]_vars
  PROVE  LogTellsTruth'
<1>a. \A d \in Docs : Answered(d) => Answered(d)'
  BY AnsweredStays
<1>1. ASSUME NEW p \in Procs, Note(p), log' # log PROVE LogTellsTruth'
  <2>1. log' = log \cup {[doc |-> doc[p], outcome |-> outcome[p]]}
    BY <1>1 DEF Note
  <2>2. /\ doc[p] \in Docs
        /\ Claims(outcome[p], doc[p]) => Answered(doc[p])
    BY <1>1 DEF Note, IInv, ProcessInv, ProcessOK
  <2>3. ASSUME NEW x \in log', Claims(x.outcome, x.doc) PROVE Answered(x.doc)'
    <3>1. CASE x \in log
      BY <1>a, <2>3, <3>1 DEF IInv, LogTellsTruth, TypeOK
    <3>2. CASE x = [doc |-> doc[p], outcome |-> outcome[p]]
      BY <1>a, <2>2, <2>3, <3>2 DEF Answered, Same, SameUrl, SameHash
    <3> QED BY <2>1, <3>1, <3>2
  <2> QED BY <2>3 DEF LogTellsTruth, Claims, New
<1>2. ASSUME UNCHANGED log PROVE LogTellsTruth'
  BY <1>a, <1>2 DEF IInv, LogTellsTruth, TypeOK
<1>3. CASE UNCHANGED vars
  BY <1>2, <1>3 DEF vars, dbVars
<1>4. CASE \/ \E m \in Messages : Queue(m)
           \/ \E w \in Workers : Consume(w) \/ WorkerCrash(w)
           \/ \E j \in Jobs : Start(j)
           \/ \E p \in Procs : \/ CheckDuplicate(p) \/ InsertRow(p) \/ EmbedBegin(p)
                               \/ EmbedCommit(p) \/ MarkReady(p)
           \/ ApiCrash
  BY <1>2, <1>4
  DEF dbVars, Queue, Put, VisibilityExpires, Consume, Receive, TakeMessage, ReadObject,
      FinishMessage, DeleteMessage, WorkerCrash, Start, StartJob, StartReindex,
      CheckDuplicate, InsertRow, EmbedBegin, EmbedCommit, MarkReady, ApiCrash
<1> QED BY <1>1, <1>2, <1>3, <1>4 DEF Next, Ingest

\* Only DeleteMessage deletes, and its worker has been through every ref.
LEMMA DeletedOnlyWhenHandled ==
  ASSUME IInv, [Next]_vars, NEW m \in Messages, message'[m] = "deleted", message[m] # "deleted"
  PROVE  /\ \A d \in Refs[m] \cap Worthwhile : Answered(d)
         /\ \A n \in Messages \ {m} : message'[n] = message[n]
         /\ UNCHANGED <<status, copies>>
<1>1. ASSUME NEW w \in Workers, DeleteMessage(w)
      PROVE  /\ \A d \in Refs[m] \cap Worthwhile : Answered(d)
             /\ \A n \in Messages \ {m} : message'[n] = message[n]
             /\ UNCHANGED <<status, copies>>
  <2>1. cur[w].msg = m /\ pc[w] = "delete"
    BY <1>1 DEF DeleteMessage, IInv, TypeOK
  <2>2. \A d \in Refs[m] \cap Worthwhile : Answered(d)
    BY <2>1 DEF IInv, LoopInv, LoopOK
  <2> QED BY <1>1, <2>1, <2>2 DEF DeleteMessage, IInv, TypeOK, dbVars
<1>2. CASE \E n \in Messages : Queue(n)
  BY <1>2 DEF Queue, Put, VisibilityExpires, IInv, TypeOK
<1>3. CASE \E w \in Workers : Receive(w)
  BY <1>3 DEF Receive
<1>4. ASSUME UNCHANGED message PROVE FALSE
  BY <1>4
<1>5. CASE UNCHANGED vars
  BY <1>4, <1>5 DEF vars, queueVars
<1>6. CASE \/ \E w \in Workers : TakeMessage(w) \/ ReadObject(w) \/ FinishMessage(w) \/ WorkerCrash(w)
           \/ \E j \in Jobs : Start(j)
           \/ \E p \in Procs : Ingest(p)
           \/ ApiCrash
  BY <1>4, <1>6
  DEF queueVars, TakeMessage, ReadObject, FinishMessage, WorkerCrash, Start, StartJob,
      StartReindex, Ingest, CheckDuplicate, InsertRow, EmbedBegin, EmbedCommit, MarkReady, Note,
      ApiCrash
<1> QED BY <1>1, <1>2, <1>3, <1>5, <1>6 DEF Next, Consume

\* A deleted message is not received again, whatever handle it is deleted with.
LEMMA DeletedStays ==
  ASSUME TypeOK, [Next]_vars, NEW m \in Messages, message[m] = "deleted"
  PROVE  message'[m] = "deleted"
<1> USE DEF TypeOK, queueVars
<1>1. CASE \E n \in Messages : Queue(n)
  BY <1>1 DEF Queue, Put, VisibilityExpires
<1>2. CASE \E w \in Workers : Receive(w)
  BY <1>2 DEF Receive
<1>3. CASE \E w \in Workers : DeleteMessage(w)
  BY <1>3 DEF DeleteMessage
<1>4. CASE UNCHANGED vars
  BY <1>4 DEF vars
<1>5. CASE \/ \E w \in Workers : TakeMessage(w) \/ ReadObject(w) \/ FinishMessage(w) \/ WorkerCrash(w)
           \/ \E j \in Jobs : Start(j)
           \/ \E p \in Procs : Ingest(p)
           \/ ApiCrash
  BY <1>5
  DEF TakeMessage, ReadObject, FinishMessage, WorkerCrash, Start, StartJob, StartReindex,
      Ingest, CheckDuplicate, InsertRow, EmbedBegin, EmbedCommit, MarkReady, Note, ApiCrash
<1> QED BY <1>1, <1>2, <1>3, <1>4, <1>5 DEF Next, Consume

\* A deleted message was handled, and its documents stay in the corpus.
LEMMA NothingLostKept ==
  ASSUME IInv, DbGrows, [Next]_vars
  PROVE  NothingLost'
<1>1. \A d \in Docs : Answered(d) => Answered(d)'
  BY AnsweredStays
<1>2. ASSUME NEW m \in Messages, message'[m] = "deleted", NEW d \in Refs[m] \cap Worthwhile
      PROVE  Answered(d)'
  <2>1. Answered(d)
    BY <1>2, DeletedOnlyWhenHandled DEF IInv, NothingLost
  <2> QED BY <1>1, <2>1, WorthwhileDocs
<1> QED BY <1>2 DEF NothingLost, Worthwhile, New

-----------------------------------------------------------------------------
\* The invariant holds initially.
LEMMA InitInvariant == Init => IInv
<1> SUFFICES ASSUME Init PROVE IInv
  OBVIOUS
<1> USE IngestionAssumption DEF Init
<1>1. TypeOK
  BY DEF TypeOK, Labels, NoDoc
<1>2. ReceivesLeft /\ OnlySeedsAreUseless /\ NothingLost /\ LogTellsTruth
  BY DEF ReceivesLeft, OnlySeedsAreUseless, NothingLost, LogTellsTruth
<1>3. ProcessInv /\ LoopInv
  BY DEF ProcessInv, ProcessOK, LoopInv, LoopOK, Persisting, Indexing, Procs
<1> QED BY <1>1, <1>2, <1>3 DEF IInv

\* Every step preserves the invariant.
LEMMA NextInvariant == IInv /\ [Next]_vars => IInv'
<1> SUFFICES ASSUME IInv, [Next]_vars PROVE IInv'
  OBVIOUS
<1>1. TypeOK /\ ReceivesLeft /\ ProcessInv
  BY DEF IInv
<1>2. DbGrows
  BY <1>1, DatabaseGrows
<1>3. TypeOK' /\ ReceivesLeft'
  BY <1>1, TypePreserved, ReceivesKept
<1>4. ProcessInv' /\ LoopInv'
  BY <1>2, ProcessesKept
<1>5. OnlySeedsAreUseless' /\ LogTellsTruth' /\ NothingLost'
  BY <1>2, ReadyKept, LogKept, NothingLostKept
<1> QED BY <1>3, <1>4, <1>5 DEF IInv

\* The inductive invariant of the system.
THEOREM Invariant == Spec => []IInv
BY InitInvariant, NextInvariant, PTL DEF Spec

\* Every variable keeps its type.
THEOREM TypeCorrect == Spec => []TypeOK
<1>1. IInv => TypeOK
  BY DEF IInv
<1> QED BY <1>1, Invariant, PTL

\* A ready row without chunks is a seeded one, whatever runs at the same time.
THEOREM UselessAreSeeds == Spec => []OnlySeedsAreUseless
<1>1. IInv => OnlySeedsAreUseless
  BY DEF IInv
<1> QED BY <1>1, Invariant, PTL

\* No message is deleted before its new documents can be answered from.
THEOREM NoDocumentLost == Spec => []NothingLost
<1>1. IInv => NothingLost
  BY DEF IInv
<1> QED BY <1>1, Invariant, PTL

\* What the processing log says of a document is so.
THEOREM LogIsTrue == Spec => []LogTellsTruth
<1>1. IInv => LogTellsTruth
  BY DEF IInv
<1> QED BY <1>1, Invariant, PTL

-----------------------------------------------------------------------------
\* Ingestion implements DocumentIntake: a deletion is its Consume, every other
\* step its Hold of what has become answerable, or a stutter.
THEOREM ImplementsIntake == Spec => KeepsIntakePromise
<1> DEFINE held == {d \in Docs : Answered(d)}
           consumed == {m \in Messages : message[m] = "deleted"}
<1>1. Init => Intake!Init
  BY IngestionAssumption DEF Init, Intake!Init, Answered
<1>2. IInv /\ [Next]_vars => [Intake!Next]_<<held, consumed>>
  <2> SUFFICES ASSUME IInv, [Next]_vars PROVE [Intake!Next]_<<held, consumed>>
    OBVIOUS
  <2>1. DbGrows
    BY DatabaseGrows DEF IInv
  <2>2. held \subseteq held'
    BY <2>1, AnsweredStays
  <2>3. ASSUME NEW m \in Messages, message'[m] = "deleted", message[m] # "deleted"
        PROVE  Intake!Consume(m)
    <3>1. /\ \A d \in Refs[m] \cap Worthwhile : Answered(d)
          /\ \A n \in Messages \ {m} : message'[n] = message[n]
          /\ UNCHANGED <<status, copies>>
      BY <2>3, DeletedOnlyWhenHandled
    <3>2. held' = held
      BY <3>1 DEF Answered, Same, SameUrl, SameHash
    <3>3. consumed' = consumed \cup {m} /\ m \notin consumed
      BY <2>3, <3>1
    <3>4. (Refs[m] \cap Worthwhile) \subseteq held
      BY <3>1, WorthwhileDocs
    <3> QED BY <3>2, <3>3, <3>4 DEF Intake!Consume
  <2>4. ASSUME \A m \in Messages : message'[m] = "deleted" => message[m] = "deleted"
        PROVE  Intake!Hold(held')
    <3>1. \A m \in Messages : message[m] = "deleted" => message'[m] = "deleted"
      BY DeletedStays DEF IInv
    <3>2. consumed' = consumed
      BY <2>4, <3>1
    <3> QED BY <2>2, <3>2 DEF Intake!Hold
  <2>5. held' \in SUBSET Docs
    OBVIOUS
  <2> QED BY <2>3, <2>4, <2>5 DEF Intake!Next
<1> QED BY <1>1, <1>2, Invariant, PTL DEF Spec, KeepsIntakePromise, Intake!Spec

-----------------------------------------------------------------------------
(* The copies of a document. *)

\* The sets of chunks of d are each somebody's, w says whose, and nobody's twice;
\* a process about to write d has seen the one that is its own.
WrittenBy(d, w) ==
  /\ \A g, h \in copies[d] : w[g] = w[h] => g = h
  /\ \A g \in copies[d], p \in Procs :
       pc[p] = "commit" /\ row[p] = d /\ w[g] = p => g \in seen[p]

CopyInv == \A d \in Docs : \E w \in [copies[d] -> Procs] : WrittenBy(d, w)

\* Nobody takes up an open transaction but by its DELETE, which sees everything.
OnlyBegins ==
  \A q \in Procs : pc'[q] = "commit" =>
    \/ pc[q] = "commit" /\ row'[q] = row[q] /\ seen'[q] = seen[q]
    \/ seen'[q] = copies'[row'[q]]

\* A transaction commits its own chunks instead of those its DELETE saw.
Commits(p) ==
  /\ pc[p] = "commit" /\ pc'[p] # "commit"
  /\ \E g \in Generations : copies' = [copies EXCEPT ![row[p]] = (@ \ seen[p]) \cup {g}]
  /\ OnlyBegins

\* Chunks are written by a commit and by nothing else.
LEMMA CopiesWritten ==
  ASSUME TypeOK, [Next]_vars
  PROVE  \/ UNCHANGED copies /\ OnlyBegins
         \/ \E p \in Procs : Commits(p)
<1> USE DEF OnlyBegins, dbVars, TypeOK
<1>1. ASSUME NEW p \in Procs, Escapes(p) \/ PersistFails(p) \/ IndexFails(p), UNCHANGED copies
      PROVE  UNCHANGED copies /\ OnlyBegins
  BY <1>1 DEF Escapes, PersistFails, IndexFails, Drop, Goto, GotoNote
<1>2. CASE \E m \in Messages : Queue(m)
  BY <1>2 DEF Queue, Put, VisibilityExpires, localVars
<1>3. ASSUME NEW w \in Workers, Consume(w)
      PROVE  UNCHANGED copies /\ OnlyBegins
  BY <1>3 DEF Consume, Receive, TakeMessage, ReadObject, FinishMessage, DeleteMessage, Goto,
              localVars, Procs
<1>4. ASSUME NEW j \in Jobs, Start(j)
      PROVE  UNCHANGED copies /\ OnlyBegins
  BY <1>4 DEF Start, StartJob, StartReindex, Goto, Procs
<1>5. ASSUME NEW p \in Procs, Ingest(p)
      PROVE  (UNCHANGED copies /\ OnlyBegins) \/ Commits(p)
  <2>1. CASE CheckDuplicate(p)
    BY <1>1, <2>1 DEF CheckDuplicate, Goto, GotoNote, localVars
  <2>2. CASE InsertRow(p)
    BY <1>1, <2>2 DEF InsertRow, Goto
  <2>3. CASE EmbedBegin(p)
    BY <1>1, <2>3 DEF EmbedBegin, Goto
  <2>4. CASE EmbedCommit(p)
    <3>1. CASE IndexFails(p) /\ UNCHANGED copies
      BY <1>1, <3>1
    <3>2. CASE IndexFails(p) /\ ~UNCHANGED copies
      <4>1. pc[p] = "commit" /\ pc'[p] # "commit"
        BY <2>4, <3>2 DEF EmbedCommit, IndexFails, Escapes, GotoNote, Goto
      <4>2. OnlyBegins
        BY <3>2 DEF IndexFails, Escapes, GotoNote, Goto, Drop
      <4>3. \E g \in Generations : copies' = [copies EXCEPT ![row[p]] = (@ \ seen[p]) \cup {g}]
        BY <2>4, <3>2 DEF EmbedCommit, Rewritten
      <4> HIDE DEF OnlyBegins
      <4> QED BY <4>1, <4>2, <4>3 DEF Commits
    <3>3. CASE ~IndexFails(p)
      BY <2>4, <3>3 DEF EmbedCommit, Commits, Rewritten, Goto, Drop
    <3> QED BY <3>1, <3>2, <3>3
  <2>5. CASE MarkReady(p)
    BY <1>1, <2>5 DEF MarkReady, Goto, GotoNote
  <2>6. CASE Note(p)
    BY <2>6 DEF Note, Goto, Drop
  <2> QED BY <1>5, <2>1, <2>2, <2>3, <2>4, <2>5, <2>6 DEF Ingest
<1>6. CASE \E w \in Workers : WorkerCrash(w)
  BY <1>6 DEF WorkerCrash, Goto, Drop
<1>7. CASE ApiCrash
  BY <1>7 DEF ApiCrash, Cleared
<1>8. CASE UNCHANGED vars
  BY <1>8 DEF vars, localVars
<1> QED BY <1>2, <1>3, <1>4, <1>5, <1>6, <1>7, <1>8 DEF Next

\* While nobody writes, everything stays whose it was.
LEMMA OthersCopiesKept ==
  ASSUME CopyInv, UNCHANGED copies, OnlyBegins
  PROVE  CopyInv'
<1> SUFFICES ASSUME NEW d \in Docs
             PROVE  \E w \in [copies'[d] -> Procs] : WrittenBy(d, w)'
  BY DEF CopyInv
<1>1. PICK w \in [copies[d] -> Procs] : WrittenBy(d, w)
  BY DEF CopyInv
<1>2. WrittenBy(d, w)'
  BY <1>1 DEF WrittenBy, OnlyBegins
<1> QED BY <1>1, <1>2

\* What a process leaves of a document when it writes is of others, for its own
\* earlier chunks its DELETE has seen.
LEMMA CommitKeepsCopies ==
  ASSUME TypeOK, ProcessInv, CopyInv, NEW p \in Procs, Commits(p)
  PROVE  CopyInv'
<1> SUFFICES ASSUME NEW d \in Docs
             PROVE  \E w \in [copies'[d] -> Procs] : WrittenBy(d, w)'
  BY DEF CopyInv
<1>1. PICK w \in [copies[d] -> Procs] : WrittenBy(d, w)
  BY DEF CopyInv
<1>2. PICK g \in Generations : copies' = [copies EXCEPT ![row[p]] = (@ \ seen[p]) \cup {g}]
  BY DEF Commits
<1>3. row[p] \in Docs /\ DOMAIN copies = Docs
  BY DEF Commits, ProcessInv, ProcessOK, Indexing, TypeOK
<1>4. ASSUME NEW q \in Procs, pc'[q] = "commit"
      PROVE  /\ q # p
             /\ \/ pc[q] = "commit" /\ row'[q] = row[q] /\ seen'[q] = seen[q]
                \/ seen'[q] = copies'[row'[q]]
  BY <1>4 DEF Commits, OnlyBegins
<1>5. CASE d # row[p]
  <2>1. copies'[d] = copies[d]
    BY <1>2, <1>3, <1>5
  <2>2. WrittenBy(d, w)'
    BY <1>1, <1>4, <2>1 DEF WrittenBy
  <2> QED BY <1>1, <2>1, <2>2
<1>6. CASE d = row[p]
  <2>1. copies'[d] = (copies[d] \ seen[p]) \cup {g}
    BY <1>2, <1>3, <1>6
  <2>2. PICK v \in [copies'[d] -> Procs] :
          \A h \in copies'[d] : v[h] = IF h = g THEN p ELSE w[h]
    <3> DEFINE u == [h \in copies'[d] |-> IF h = g THEN p ELSE w[h]]
    <3>1. u \in [copies'[d] -> Procs]
      BY <1>1, <2>1
    <3>2. \A h \in copies'[d] : u[h] = IF h = g THEN p ELSE w[h]
      OBVIOUS
    <3> HIDE DEF u
    <3> QED BY <3>1, <3>2
  <2>3. \A h \in copies'[d] : h # g => h \in copies[d] /\ h \notin seen[p] /\ v[h] = w[h] /\ w[h] # p
    BY <1>1, <1>6, <2>1, <2>2 DEF WrittenBy, Commits
  <2>4. v[g] = p
    BY <2>1, <2>2
  <2>5. \A h, k \in copies'[d] : v[h] = v[k] => h = k
    BY <1>1, <2>3, <2>4 DEF WrittenBy
  <2>6. ASSUME NEW h \in copies'[d], NEW q \in Procs, pc'[q] = "commit", row'[q] = d, v[h] = q
        PROVE  h \in seen'[q]
    <3>1. h # g
      BY <1>4, <2>4, <2>6
    <3> QED BY <1>1, <1>4, <2>3, <2>6, <3>1 DEF WrittenBy
  <2>7. WrittenBy(d, v)'
    BY <2>5, <2>6 DEF WrittenBy
  <2> QED BY <2>2, <2>7
<1> QED BY <1>5, <1>6

\* A document's chunks are stored at most once for each process, however their
\* rewrites of it interleave.
THEOREM OneCopyPerProcess == Spec => []StoredOncePerProcess
<1>1. Init => CopyInv
  <2> SUFFICES ASSUME Init, NEW d \in Docs
               PROVE  \E w \in [copies[d] -> Procs] : WrittenBy(d, w)
    BY DEF CopyInv
  <2>1. copies[d] = {}
    BY DEF Init
  <2> DEFINE w == [g \in {} |-> CHOOSE p \in Procs : TRUE]
  <2>2. w \in [copies[d] -> Procs]
    BY <2>1
  <2>3. WrittenBy(d, w)
    BY <2>1 DEF WrittenBy
  <2> QED BY <2>2, <2>3
<1>2. IInv /\ CopyInv /\ [Next]_vars => CopyInv'
  BY CopiesWritten, OthersCopiesKept, CommitKeepsCopies DEF IInv
<1>3. CopyInv => StoredOncePerProcess
  <2> SUFFICES ASSUME CopyInv, NEW d \in Docs
               PROVE  Cardinality(copies[d]) <= Cardinality(Procs)
    BY DEF StoredOncePerProcess
  <2>1. PICK w \in [copies[d] -> Procs] : WrittenBy(d, w)
    BY DEF CopyInv
  <2>2. w \in Injection(copies[d], Procs)
    BY <2>1 DEF WrittenBy, Injection, IsInjective
  <2> QED BY <2>2, FS_Injection, IngestionAssumption
<1> QED BY <1>1, <1>2, <1>3, Invariant, PTL DEF Spec

\* With one worker and no task of the API, as `desired_count` has it, running
\* an ingestion again leaves one set of chunks.
THEOREM OneWriterStoresOnce ==
  ASSUME Cardinality(Procs) = 1
  PROVE  Spec => []NothingStoredTwice
<1>1. StoredOncePerProcess => NothingStoredTwice
  BY DEF StoredOncePerProcess, NothingStoredTwice
<1> QED BY <1>1, OneCopyPerProcess, PTL

-----------------------------------------------------------------------------
(* The rows left in processing. *)

\* At most one row is left behind.
LeavesOne == \E e \in Docs \cup {NoDoc} : Left' \subseteq Left \cup {e}

\* A row is left only by a process that lets go of it or writes it.
LEMMA LeftByOne ==
  ASSUME TypeOK, NEW p \in Procs, UNCHANGED status, \A q \in Procs \ {p} : Untouched(q)
  PROVE  /\ LeavesOne
         /\ pc[p] \notin Indexing \/ path[p] = "reindex" => Left' \subseteq Left
         /\ pc'[p] \in Indexing /\ row'[p] = row[p] /\ path'[p] = path[p] => Left' \subseteq Left
<1>1. Left' \subseteq Left \cup {row[p]}
  BY DEF Left, Ingesting, Untouched
<1>2. row[p] \in Docs \cup {NoDoc}
  BY DEF TypeOK
<1>3. LeavesOne
  BY <1>1, <1>2 DEF LeavesOne
<1> QED BY <1>3 DEF Left, Ingesting, Untouched, Indexing

\* A step without a fault leaves no row behind, one with a fault at most that
\* of the process it befalls.
LEMMA IngestLeaves ==
  ASSUME IInv, NEW p \in Procs, Ingest(p)
  PROVE  \/ Left' \subseteq Left /\ faults' \in {faults, faults + 1}
         \/ LeavesOne /\ faults' = faults + 1
<1>a. TypeOK /\ ProcessOK(p) /\ \A q \in Procs \ {p} : Untouched(q)
  BY OthersUntouched DEF IInv, ProcessInv
<1>b. faults' \in {faults, faults + 1}
  BY DEF Ingest, CheckDuplicate, InsertRow, EmbedBegin, EmbedCommit, MarkReady, Note, Fault,
         NoFault, bounds
<1>1. CASE CheckDuplicate(p) \/ Note(p)
  BY <1>1, <1>a, <1>b, LeftByOne DEF CheckDuplicate, Note, dbVars, Indexing
<1>2. CASE InsertRow(p)
  <2>1. CASE UNCHANGED status
    BY <1>2, <1>a, <1>b, <2>1, LeftByOne DEF InsertRow, Indexing
  <2>3. CASE status' = [status EXCEPT ![doc[p]] = "processing"] /\ Fault
    <3>1. doc[p] \in Docs /\ pc[p] = "insert"
      BY <1>2, <1>a DEF InsertRow, ProcessOK, Persisting
    <3>2. Left' \subseteq Left \cup {doc[p]}
      BY <1>a, <2>3, <3>1 DEF Left, Ingesting, Untouched, TypeOK
    <3> QED BY <2>3, <3>1, <3>2 DEF LeavesOne, Fault
  <2>2. CASE /\ status' = [status EXCEPT ![doc[p]] = "processing"]
             /\ row' = [row EXCEPT ![p] = doc[p]] /\ Goto(p, "embed") /\ UNCHANGED path
    <3>1. doc[p] \in Docs /\ pc[p] = "insert"
      BY <1>2, <1>a DEF InsertRow, ProcessOK, Persisting
    <3>2. row'[p] = doc[p] /\ pc'[p] = "embed" /\ path'[p] = path[p]
      BY <1>a, <2>2 DEF TypeOK, Goto
    <3>3. path[p] # "reindex"
      BY <1>a, <3>1 DEF ProcessOK, Persisting
    <3>4. ~(doc[p] \in Left')
      BY <3>2, <3>3 DEF Left, Ingesting
    <3>5. Left' \subseteq Left
      BY <1>a, <2>2, <3>1, <3>4 DEF Left, Ingesting, Untouched, TypeOK
    <3> QED BY <1>b, <3>5
  <2> QED BY <1>2, <2>1, <2>2, <2>3 DEF InsertRow
<1>3. CASE EmbedBegin(p)
  <2>1. UNCHANGED status /\ pc[p] = "embed"
    BY <1>3 DEF EmbedBegin, dbVars
  <2>2. CASE Goto(p, "commit") /\ UNCHANGED <<row, path>>
    <3>1. pc'[p] \in Indexing /\ row'[p] = row[p] /\ path'[p] = path[p]
      BY <1>a, <2>2 DEF TypeOK, Goto, Indexing
    <3> QED BY <1>a, <1>b, <2>1, <3>1, LeftByOne
  <2>3. CASE Kind[row[p]] = "chunkless"
    <3>1. Left' \subseteq Left
      BY <1>a, <2>1, <2>3 DEF Left, Ingesting, Untouched
    <3> QED BY <1>b, <3>1
  <2>4. CASE Fault
    BY <1>a, <2>1, <2>4, LeftByOne DEF Fault
  <2> QED BY <1>3, <2>2, <2>3, <2>4 DEF EmbedBegin
<1>4. CASE EmbedCommit(p)
  <2>1. CASE path[p] = "reindex"
    BY <1>4, <1>a, <1>b, <2>1, LeftByOne DEF EmbedCommit
  <2>2. CASE path[p] # "reindex" /\ ~Fault
    BY <1>4, <1>a, <1>b, <2>2, LeftByOne DEF EmbedCommit, TypeOK, Goto, Indexing
  <2>3. CASE Fault
    BY <1>4, <1>a, <2>3, LeftByOne DEF EmbedCommit, Fault
  <2> QED BY <2>1, <2>2, <2>3
<1>5. CASE MarkReady(p)
  <2>1. CASE UNCHANGED status /\ Fault
    BY <1>a, <2>1, LeftByOne DEF Fault
  <2>2. CASE status' = [status EXCEPT ![row[p]] = "ready"]
    <3>1. row[p] \in Docs
      BY <1>5, <1>a DEF MarkReady, ProcessOK, Indexing
    <3>2. Left' \subseteq Left
      BY <1>a, <2>2, <3>1 DEF Left, Ingesting, Untouched, TypeOK
    <3> QED BY <1>b, <3>2
  <2> QED BY <1>5, <2>1, <2>2 DEF MarkReady
<1> QED BY <1>1, <1>2, <1>3, <1>4, <1>5 DEF Ingest

\* The rows the API process may leave behind when it dies.
JobRows == {row[j] : j \in Jobs}

\* Every step leaves behind what a fault left, and no more than one row, or the
\* rows of the tasks that died together.
LEMMA StepLeaves ==
  ASSUME IInv, [Next]_vars
  PROVE  \/ Left' \subseteq Left /\ faults' \in {faults, faults + 1}
         \/ LeavesOne /\ faults' = faults + 1
         \/ Left' \subseteq Left \cup JobRows /\ Jobs # {} /\ faults' = faults + 1
<1>a. TypeOK /\ DbGrows
  BY DatabaseGrows DEF IInv
<1>1. CASE \E m \in Messages : Queue(m)
  BY <1>1 DEF Queue, Put, VisibilityExpires, Fault, NoFault, bounds, dbVars, localVars, Left, Ingesting
<1>2. ASSUME NEW w \in Workers, Consume(w)
      PROVE  Left' \subseteq Left /\ faults' \in {faults, faults + 1}
  <2>1. \A q \in Procs \ {w} : Untouched(q)
    BY <1>2, <1>a, LoopSteps DEF Consume, StepOK
  <2>2. pc[w] \notin Indexing /\ UNCHANGED status
    BY <1>2 DEF Consume, Receive, TakeMessage, ReadObject, FinishMessage, DeleteMessage, dbVars, Indexing
  <2>3. faults' \in {faults, faults + 1}
    BY <1>2 DEF Consume, Receive, TakeMessage, ReadObject, FinishMessage, DeleteMessage, Fault,
                NoFault, bounds
  <2>4. w \in Procs
    BY DEF Procs
  <2> QED BY <1>a, <2>1, <2>2, <2>3, <2>4, LeftByOne
<1>3. ASSUME NEW j \in Jobs, Start(j)
      PROVE  Left' \subseteq Left /\ faults' \in {faults, faults + 1}
  <2>1. \A q \in Procs \ {j} : Untouched(q)
    BY <1>3, <1>a, StartSteps DEF StepOK
  <2>2. pc[j] \notin Indexing /\ UNCHANGED status /\ faults' \in {faults, faults + 1}
    BY <1>3 DEF Start, StartJob, StartReindex, dbVars, Indexing
  <2>3. j \in Procs
    BY DEF Procs
  <2> QED BY <1>a, <2>1, <2>2, <2>3, LeftByOne
<1>4. CASE \E p \in Procs : Ingest(p)
  BY <1>4, IngestLeaves
<1>5. ASSUME NEW w \in Workers, WorkerCrash(w)
      PROVE  LeavesOne /\ faults' = faults + 1
  <2>1. \A q \in Procs \ {w} : Untouched(q)
    BY <1>5, <1>a, LoopSteps DEF StepOK
  <2>2. UNCHANGED status /\ faults' = faults + 1
    BY <1>5 DEF WorkerCrash, dbVars, Fault
  <2>3. w \in Procs
    BY DEF Procs
  <2> QED BY <1>a, <2>1, <2>2, <2>3, LeftByOne
<1>6. CASE ApiCrash
  <2>1. Jobs # {} /\ UNCHANGED status /\ faults' = faults + 1
    BY <1>6 DEF ApiCrash, dbVars, Fault
  <2>2. \A q \in Procs \ Jobs : pc'[q] = pc[q] /\ row'[q] = row[q] /\ path'[q] = path[q]
    BY <1>6 DEF ApiCrash, Cleared
  <2>3. Left' \subseteq Left \cup JobRows
    BY <2>1, <2>2 DEF Left, Ingesting, JobRows
  <2> QED BY <2>1, <2>3
<1>7. CASE UNCHANGED vars
  BY <1>7 DEF vars, dbVars, localVars, bounds, Left, Ingesting
<1> QED BY <1>1, <1>2, <1>3, <1>4, <1>5, <1>6, <1>7 DEF Next

\* A set that gains at most another gains at most its cardinality.
LEMMA AtMostMore ==
  ASSUME NEW S, IsFiniteSet(S), NEW E, IsFiniteSet(E), NEW T, T \subseteq S \cup E
  PROVE  /\ IsFiniteSet(T)
         /\ Cardinality(T) \in Nat
         /\ Cardinality(T) <= Cardinality(S) + Cardinality(E)
<1> DEFINE U == S \cup E
<1>1. IsFiniteSet(U) /\ Cardinality(U) = Cardinality(S) + Cardinality(E) - Cardinality(S \cap E)
  BY FS_Union
<1>2. IsFiniteSet(S \cap E)
  BY FS_Subset
<1>3. Cardinality(S) \in Nat /\ Cardinality(E) \in Nat /\ Cardinality(S \cap E) \in Nat
  BY <1>2, FS_CardinalityType
<1> HIDE DEF U
<1>4. IsFiniteSet(T) /\ Cardinality(T) <= Cardinality(U)
  BY <1>1, FS_Subset DEF U
<1>5. Cardinality(T) \in Nat
  BY <1>4, FS_CardinalityType
<1> QED BY <1>1, <1>3, <1>4, <1>5

\* The rows one API process can have in hand.
LEMMA JobRowsBounded ==
  ASSUME Jobs # {}
  PROVE  IsFiniteSet(JobRows) /\ Cardinality(JobRows) <= Cardinality(Jobs)
<1>1. IsFiniteSet(Jobs)
  BY IngestionAssumption, FS_Subset DEF Procs
<1>2. \E f : f \in Surjection(Jobs, JobRows)
  <2> DEFINE f == [j \in Jobs |-> row[j]]
  <2>1. f \in Surjection(Jobs, JobRows)
    BY DEF Surjection, JobRows
  <2> QED BY <2>1
<1> QED BY <1>1, <1>2, FS_Surjection

\* How many rows one fault can leave.
AtOnce == Cardinality(IF Jobs = {} THEN {"worker"} ELSE Jobs)

\* It is a positive number.
LEMMA AtOnceType == AtOnce \in Nat \ {0}
<1>1. CASE Jobs = {}
  <2>1. Cardinality({"worker"}) = 1
    BY FS_Singleton
  <2>2. AtOnce = 1
    BY <1>1, <2>1, Zenon DEF AtOnce
  <2> QED BY <2>2
<1>2. CASE Jobs # {}
  <2>1. IsFiniteSet(Jobs)
    BY IngestionAssumption, FS_Subset DEF Procs
  <2>2. Cardinality(Jobs) \in Nat /\ Cardinality(Jobs) # 0
    BY <1>2, <2>1, FS_EmptySet, FS_CardinalityType
  <2> QED BY <1>2, <2>2 DEF AtOnce
<1> QED BY <1>1, <1>2

\* Rows in processing that nobody ingests are at most as many as the faults, or
\* as the tasks of the API for each of them: no race, refused insert or reindex
\* strands a row.
THEOREM LeftByFault == Spec => []RowsLeftOnlyByFault
<1> DEFINE Counted == IsFiniteSet(Left) /\ Cardinality(Left) <= faults * AtOnce
<1>1. Init => Counted
  <2> SUFFICES ASSUME Init PROVE Counted
    OBVIOUS
  <2>1. Left = {} /\ faults = 0
    BY DEF Init, Left
  <2> QED BY <2>1, FS_EmptySet, AtOnceType
<1>2. IInv /\ Counted /\ [Next]_vars => Counted'
  <2> SUFFICES ASSUME IInv, Counted, [Next]_vars PROVE Counted'
    OBVIOUS
  <2>1. faults \in Nat /\ Cardinality(Left) \in Nat /\ AtOnce \in Nat \ {0}
    BY AtOnceType, FS_CardinalityType, IngestionAssumption DEF IInv, TypeOK
  <2>2. /\ faults * AtOnce \in Nat
        /\ (faults + 1) * AtOnce = faults * AtOnce + AtOnce
    BY <2>1
  <2> DEFINE most == faults * AtOnce
  <2>3. CASE Left' \subseteq Left /\ faults' \in {faults, faults + 1}
    <3>1. IsFiniteSet(Left') /\ Cardinality(Left') <= Cardinality(Left)
      BY <2>3, FS_Subset
    <3>2. Cardinality(Left') \in Nat
      BY <3>1, FS_CardinalityType
    <3>3. faults' * AtOnce \in {most, most + AtOnce}
      BY <2>2, <2>3
    <3> HIDE DEF most
    <3>4. Cardinality(Left) <= most
      BY DEF most
    <3>5. Cardinality(Left') <= faults' * AtOnce
      BY <2>1, <2>2, <3>1, <3>2, <3>3, <3>4 DEF most
    <3> QED BY <3>1, <3>5
  <2>4. ASSUME NEW E, IsFiniteSet(E), Cardinality(E) <= AtOnce,
               Left' \subseteq Left \cup E, faults' = faults + 1
        PROVE  Counted'
    <3>1. /\ IsFiniteSet(Left') /\ Cardinality(Left') \in Nat
          /\ Cardinality(Left') <= Cardinality(Left) + Cardinality(E)
      BY <2>4, AtMostMore
    <3>2. Cardinality(E) \in Nat
      BY <2>4, FS_CardinalityType
    <3>3. faults' * AtOnce = most + AtOnce /\ Cardinality(Left) <= most
      BY <2>2, <2>4
    <3> HIDE DEF most
    <3>4. most \in Nat
      BY <2>2 DEF most
    <3>5. Cardinality(Left') <= faults' * AtOnce
      BY <2>1, <2>4, <3>1, <3>2, <3>3, <3>4
    <3> QED BY <3>1, <3>5
  <2>5. CASE LeavesOne /\ faults' = faults + 1
    <3>1. PICK e \in Docs \cup {NoDoc} : Left' \subseteq Left \cup {e}
      BY <2>5 DEF LeavesOne
    <3>2. IsFiniteSet({e}) /\ Cardinality({e}) = 1
      BY FS_Singleton
    <3> QED BY <2>1, <2>4, <2>5, <3>1, <3>2
  <2>6. CASE Left' \subseteq Left \cup JobRows /\ Jobs # {} /\ faults' = faults + 1
    BY <2>4, <2>6, JobRowsBounded DEF AtOnce
  <2> QED BY <2>3, <2>5, <2>6, StepLeaves
<1>3. Counted => RowsLeftOnlyByFault
  BY DEF Left, RowsLeftOnlyByFault, AtOnce
<1> HIDE DEF Counted
<1> QED BY <1>1, <1>2, <1>3, Invariant, PTL DEF Spec

=============================================================================
