------------------------------ MODULE Ingestion ------------------------------
(***************************************************************************)
(* Document ingestion: the SQS worker (consumer.py, queue_worker.py,       *)
(* handler.py), the background tasks of the API that write the same tables *)
(* (ingestion_routes.py, vector_routes.py), the queue with its visibility  *)
(* timeout and redrive policy, and the documents, document_chunks and      *)
(* ingestion_events tables.                                                *)
(*                                                                         *)
(* A process stops between any two awaits that touch shared state; a fault *)
(* (an exception, a crash, a visibility timeout that lapses while a worker *)
(* still holds the message) may occur at any step, MaxFaults times in all. *)
(***************************************************************************)
EXTENDS Naturals, FiniteSets

CONSTANTS
  Docs,        \* the documents that can arrive, by S3 object or by upload
  Url, Hash,   \* source_url and content_hash of each document
  NoUrl,       \* an upload carries no source_url
  Kind,        \* what becomes of its text, see Kinds
  Seeded,      \* the rows the database was loaded with (seed_data.py)
  Messages,    \* SQS messages
  Refs,        \* the objects a message announces; {} is the S3 test event
  Workers,     \* queue worker tasks
  Jobs,        \* slots for background tasks of the API process
  BatchSize,   \* consume_once asks for at most this many (10)
  MaxReceive,  \* maxReceiveCount of the redrive policy (3)
  Generations, \* names for the sets of chunks written; a bound
  MaxFaults,   \* bound on the faults of a behaviour
  MaxStarts    \* bound on the background tasks started

Procs == Workers \cup Jobs
Outcomes == {"indexed", "duplicate", "unreadable", "empty", "failed"}
Paths == {"upload", "filing", "collect"}

\* A file without text and a file that does not parse are skipped. A JSON object
\* that does not parse raises, every time, and so does the indexing of a text
\* that leaves no chunk.
Kinds == {"text", "empty", "unreadable", "malformed", "chunkless"}

ASSUME IngestionAssumption ==
  /\ Url \in [Docs -> Docs \cup {NoUrl}] /\ NoUrl \notin Docs
  /\ Hash \in [Docs -> Docs]
  /\ Kind \in [Docs -> Kinds]
  /\ Seeded \subseteq Docs
  /\ \A d \in Seeded : Kind[d] \in {"text", "chunkless"}
  /\ Refs \in [Messages -> SUBSET Docs]
  /\ IsFiniteSet(Procs) /\ Workers \cap Jobs = {}
  /\ Generations \subseteq Nat
  /\ BatchSize \in Nat \ {0} /\ MaxReceive \in Nat \ {0}
  /\ MaxFaults \in Nat /\ MaxStarts \in Nat

VARIABLES
  \* The queue.
  message,     \* where each message is
  receives,    \* how often each was received: also its latest receipt handle
  \* The database.
  status,      \* documents.status of the row inserted for a document
  copies,      \* the sets of document_chunks a row has, each written by one
               \* transaction: one when all is well
  log,         \* ingestion_events
  \* Every process: where it is, and its local variables.
  pc,
  doc,         \* the document it is ingesting
  row,         \* the row _persist_document returned
  seen,        \* the chunk sets its DELETE statement saw
  outcome,     \* the ending it is about to record
  path,        \* which background task a job runs
  \* The loop of consume_once.
  batch,       \* deliveries of this poll not yet taken up
  cur,         \* the delivery being handled
  todo,        \* its refs not yet tried
  clean,       \* every_ref_handled
  \* Bounds.
  faults, starts

queueVars == <<message, receives>>
dbVars    == <<status, copies, log>>
localVars == <<doc, row, seen, outcome, path>>
loopVars  == <<batch, cur, todo, clean>>
bounds    == <<faults, starts>>
vars      == <<queueVars, dbVars, pc, localVars, loopVars, bounds>>

Delivery == [msg : Messages, handle : 1 .. MaxReceive]
NoDelivery == [msg |-> "none", handle |-> 0]
NoDoc == NoUrl

Held == {d \in Docs : status[d] # "none"}

\* The two identities of dedupe.py; a NULL matches nothing.
SameUrl(d, e)  == Url[d] # NoUrl /\ Url[d] = Url[e]
SameHash(d, e) == Hash[d] = Hash[e]
Same(d, e)     == SameUrl(d, e) \/ SameHash(d, e)

\* The row find_duplicate_document and _existing_document settle on: the URL
\* is asked first, the hash only when no URL matched.
Matches(d, e) ==
  /\ e \in Held
  /\ \/ SameUrl(d, e)
     \/ SameHash(d, e) /\ \A f \in Held : ~SameUrl(d, f)

-----------------------------------------------------------------------------
\* A seeded row names no status, so it takes the column's default, "ready",
\* with no chunks before somebody indexes it.
Init ==
  /\ message = [m \in Messages |-> "unsent"]
  /\ receives = [m \in Messages |-> 0]
  /\ status = [d \in Docs |-> IF d \in Seeded THEN "ready" ELSE "none"]
  /\ copies = [d \in Docs |-> {}]
  /\ log = {}
  /\ pc = [p \in Procs |-> "idle"]
  /\ doc = [p \in Procs |-> NoDoc]
  /\ row = [p \in Procs |-> NoDoc]
  /\ seen = [p \in Procs |-> {}]
  /\ outcome = [p \in Procs |-> "none"]
  /\ path = [p \in Procs |-> "none"]
  /\ batch = [w \in Workers |-> {}]
  /\ cur = [w \in Workers |-> NoDelivery]
  /\ todo = [w \in Workers |-> {}]
  /\ clean = [w \in Workers |-> TRUE]
  /\ faults = 0
  /\ starts = 0

Fault == faults < MaxFaults /\ faults' = faults + 1 /\ UNCHANGED starts
NoFault == UNCHANGED bounds

Goto(p, label) == pc' = [pc EXCEPT ![p] = label]

\* The local variables of p go out of scope.
Drop(p) ==
  /\ doc' = [doc EXCEPT ![p] = NoDoc]
  /\ row' = [row EXCEPT ![p] = NoDoc]
  /\ seen' = [seen EXCEPT ![p] = {}]
  /\ outcome' = [outcome EXCEPT ![p] = "none"]
  /\ path' = [path EXCEPT ![p] = "none"]

\* p goes on to record the ending o of the document at hand.
GotoNote(p, o) ==
  /\ Goto(p, "note")
  /\ outcome' = [outcome EXCEPT ![p] = o]
  /\ UNCHANGED <<doc, row, seen, path>>

-----------------------------------------------------------------------------
\* The queue.

\* An object lands in the bucket and S3 notifies the queue.
Put(m) ==
  /\ message[m] = "unsent"
  /\ message' = [message EXCEPT ![m] = "visible"]
  /\ UNCHANGED <<receives, dbVars, pc, localVars, loopVars, bounds>>

HeldByWorker(m) ==
  \E w \in Workers : cur[w].msg = m \/ \E b \in batch[w] : b.msg = m

\* The visibility timeout lapses: the message can be received again, unless it
\* was received MaxReceive times, when the redrive policy moves it to the DLQ.
\* It is a fault only while a worker is still busy with the message.
VisibilityExpires(m) ==
  /\ message[m] = "inflight"
  /\ message' = [message EXCEPT ![m] =
                   IF receives[m] < MaxReceive THEN "visible" ELSE "dead"]
  /\ IF HeldByWorker(m) THEN Fault ELSE NoFault
  /\ UNCHANGED <<receives, dbVars, pc, localVars, loopVars>>

-----------------------------------------------------------------------------
\* The loop of consume_once.

\* One poll: up to BatchSize messages become invisible together.
Receive(w) ==
  /\ pc[w] = "idle" /\ batch[w] = {}
  /\ \E S \in SUBSET {m \in Messages : message[m] = "visible"} :
       /\ S # {} /\ Cardinality(S) <= BatchSize
       /\ message' = [m \in Messages |-> IF m \in S THEN "inflight" ELSE message[m]]
       /\ receives' = [m \in Messages |-> IF m \in S THEN receives[m] + 1 ELSE receives[m]]
       /\ batch' = [batch EXCEPT ![w] =
                      {[msg |-> m, handle |-> receives[m] + 1] : m \in S}]
  /\ UNCHANGED <<dbVars, pc, localVars, cur, todo, clean, bounds>>

\* A message that does not parse has no refs and goes straight to its deletion.
TakeMessage(w) ==
  /\ pc[w] = "idle"
  /\ \E b \in batch[w] :
       /\ batch' = [batch EXCEPT ![w] = @ \ {b}]
       /\ cur' = [cur EXCEPT ![w] = b]
       /\ todo' = [todo EXCEPT ![w] = Refs[b.msg]]
  /\ clean' = [clean EXCEPT ![w] = TRUE]
  /\ Goto(w, "refs")
  /\ UNCHANGED <<queueVars, dbVars, localVars, bounds>>

\* handle_object up to persist: fetch the object, parse it, look for text. An
\* unreadable object raises SkippedObject like an empty one, and _handle calls
\* both "empty". A text goes on to the database, whatever its chunks will be.
ReadObject(w) ==
  /\ pc[w] = "refs"
  /\ \E d \in todo[w] :
       /\ todo' = [todo EXCEPT ![w] = @ \ {d}]
       /\ doc' = [doc EXCEPT ![w] = d]
       /\ \/ /\ Kind[d] \in {"text", "chunkless"}
             /\ Goto(w, "check") /\ UNCHANGED outcome
             /\ NoFault
          \/ /\ Kind[d] \in {"empty", "unreadable"}
             /\ Goto(w, "note") /\ outcome' = [outcome EXCEPT ![w] = "empty"]
             /\ NoFault
          \/ /\ Goto(w, "note") /\ outcome' = [outcome EXCEPT ![w] = "failed"]
             /\ IF Kind[d] = "malformed" THEN NoFault ELSE Fault
  /\ UNCHANGED <<queueVars, dbVars, row, seen, path, batch, cur, clean>>

\* Mutants of the next definition: a message stays in hand until all its refs
\* were handled; a message is deleted although a ref failed.
FinishMessage_NeverGivesUp(w) ==
  /\ pc[w] = "refs" /\ todo[w] = {} /\ clean[w]
  /\ Goto(w, "delete")
  /\ UNCHANGED <<queueVars, dbVars, localVars, loopVars, bounds>>

FinishMessage_IgnoresFailure(w) ==
  /\ pc[w] = "refs" /\ todo[w] = {}
  /\ Goto(w, "delete")
  /\ clean' = [clean EXCEPT ![w] = TRUE]
  /\ UNCHANGED <<queueVars, dbVars, localVars, batch, cur, todo, bounds>>

\* Every ref was tried. One failure keeps the message for redelivery.
FinishMessage(w) ==
  /\ pc[w] = "refs" /\ todo[w] = {}
  /\ IF clean[w]
     THEN Goto(w, "delete") /\ UNCHANGED cur
     ELSE Goto(w, "idle") /\ cur' = [cur EXCEPT ![w] = NoDelivery]
  /\ clean' = [clean EXCEPT ![w] = TRUE]
  /\ UNCHANGED <<queueVars, dbVars, localVars, batch, todo, bounds>>

\* queue.delete with the receipt handle of this delivery. SQS honours the
\* latest handle of a message still in flight; with an older one, or once the
\* message is visible again, it may or may not. When the call raises, the
\* exception leaves consume_once and the rest of the batch is abandoned.
DeleteMessage(w) ==
  LET m == cur[w].msg
      current == message[m] = "inflight" /\ cur[w].handle = receives[m]
      Deleted == message[m] # "dead" /\ message' = [message EXCEPT ![m] = "deleted"]
  IN
  /\ pc[w] = "delete"
  /\ \/ Deleted /\ NoFault /\ UNCHANGED batch
     \/ ~current /\ NoFault /\ UNCHANGED <<message, batch>>
     \/ /\ Deleted \/ UNCHANGED message
        /\ batch' = [batch EXCEPT ![w] = {}]
        /\ Fault
  /\ cur' = [cur EXCEPT ![w] = NoDelivery]
  /\ Goto(w, "idle")
  /\ UNCHANGED <<receives, dbVars, localVars, todo, clean>>

-----------------------------------------------------------------------------
\* The background tasks of the API.

\* What a task records about a file it could not use. A filing's problems
\* arrive as HTTPExceptions and are told apart by their text.
RefusalOutcome(via, problem) ==
  CASE problem = "empty"      -> "empty"
    [] problem = "unreadable" -> IF via = "filing" THEN "failed" ELSE "unreadable"
    [] OTHER                  -> IF via = "collect" THEN "unreadable" ELSE "failed"

\* A task comes to the document d, fetches it and parses it. What an upload or
\* a fetch brings is never parsed as JSON.
StartJob(j, d, via) ==
  /\ pc[j] = "idle" /\ starts < MaxStarts
  /\ Kind[d] # "malformed"
  /\ starts' = starts + 1
  /\ doc' = [doc EXCEPT ![j] = d]
  /\ path' = [path EXCEPT ![j] = via]
  /\ \/ /\ Kind[d] \in {"text", "chunkless"}
        /\ Goto(j, "check") /\ UNCHANGED outcome
        /\ UNCHANGED faults
     \/ /\ Kind[d] \in {"empty", "unreadable"}
        /\ Goto(j, "note") /\ outcome' = [outcome EXCEPT ![j] = RefusalOutcome(via, Kind[d])]
        /\ UNCHANGED faults
     \/ /\ Goto(j, "note") /\ outcome' = [outcome EXCEPT ![j] = RefusalOutcome(via, "error")]
        /\ faults < MaxFaults /\ faults' = faults + 1
  /\ UNCHANGED <<queueVars, dbVars, row, seen, loopVars>>

\* POST /api/index/documents: embed_document on an existing row, nothing else.
StartReindex(j, e) ==
  /\ pc[j] = "idle" /\ starts < MaxStarts
  /\ e \in Held
  /\ starts' = starts + 1
  /\ path' = [path EXCEPT ![j] = "reindex"]
  /\ row' = [row EXCEPT ![j] = e]
  /\ Goto(j, "embed")
  /\ UNCHANGED <<queueVars, dbVars, doc, seen, outcome, loopVars, faults>>

-----------------------------------------------------------------------------
\* The steps every path shares.

\* An exception ends the document at hand without a record: from _mark_ready
\* on every path, from _persist_document in the background tasks.
Escapes(p) ==
  /\ Drop(p)
  /\ IF p \in Workers
     THEN Goto(p, "refs") /\ clean' = [clean EXCEPT ![p] = FALSE]
     ELSE Goto(p, "idle") /\ UNCHANGED clean

PersistFails(p) ==
  IF p \in Workers THEN GotoNote(p, "failed") /\ UNCHANGED clean ELSE Escapes(p)

\* Mutant: the {"success": False} of embed_document is not looked at.
IndexFails_Ignored(p) ==
  Goto(p, "mark") /\ UNCHANGED <<localVars, clean>>

\* embed_document reports failure in its result: _raise_on_failed_index turns
\* that into an exception for the worker, the tasks branch on it.
IndexFails(p) ==
  IF path[p] = "reindex" THEN Escapes(p) ELSE GotoNote(p, "failed") /\ UNCHANGED clean

\* Mutant: any row at all is a duplicate.
IsDuplicateOf_AnyRow(e) == status[e] # "none"

\* A row that is not ready is a retry, not a duplicate.
IsDuplicateOf(e) == status[e] = "ready"

\* _persist_document, the lookup.
CheckDuplicate(p) ==
  /\ pc[p] = "check"
  /\ \/ /\ \E e \in Docs : Matches(doc[p], e) /\ IsDuplicateOf(e)
        /\ GotoNote(p, "duplicate")
        /\ NoFault /\ UNCHANGED clean
     \/ /\ \E e \in Docs :
             /\ Matches(doc[p], e) /\ ~IsDuplicateOf(e)
             /\ row' = [row EXCEPT ![p] = e]
        /\ Goto(p, "embed")
        /\ NoFault /\ UNCHANGED <<doc, seen, outcome, path, clean>>
     \/ /\ \A e \in Docs : ~Matches(doc[p], e)
        /\ Goto(p, "insert")
        /\ NoFault /\ UNCHANGED <<localVars, clean>>
     \/ PersistFails(p) /\ Fault
  /\ UNCHANGED <<queueVars, dbVars, batch, cur, todo>>

\* Mutant: the caller takes its own new row for the one it was to look for.
InsertRow_TakenForDuplicate(p) ==
  /\ pc[p] = "insert"
  /\ \A e \in Held : ~Same(doc[p], e)
  /\ status' = [status EXCEPT ![doc[p]] = "processing"]
  /\ GotoNote(p, "duplicate")
  /\ NoFault
  /\ UNCHANGED <<queueVars, copies, log, loopVars>>

\* _persist_document, the insert: another process may have committed the same
\* URL or hash since the lookup, and then the unique constraints refuse it. A
\* commit may also raise after it took effect, here and below.
InsertRow(p) ==
  LET Inserted == /\ \A e \in Held : ~Same(doc[p], e)
                  /\ status' = [status EXCEPT ![doc[p]] = "processing"]
  IN
  /\ pc[p] = "insert"
  /\ \/ /\ Inserted
        /\ row' = [row EXCEPT ![p] = doc[p]]
        /\ Goto(p, "embed")
        /\ NoFault /\ UNCHANGED <<doc, seen, outcome, path, clean>>
     \/ /\ \E e \in Held : Same(doc[p], e)
        /\ PersistFails(p)
        /\ NoFault /\ UNCHANGED status
     \/ /\ Inserted \/ UNCHANGED status
        /\ PersistFails(p)
        /\ Fault
  /\ UNCHANGED <<queueVars, copies, log, batch, cur, todo>>

\* embed_document up to its DELETE, which sees the chunks committed so far. It
\* reads the text from the row.
EmbedBegin(p) ==
  /\ pc[p] = "embed"
  /\ \/ /\ Kind[row[p]] # "chunkless"
        /\ seen' = [seen EXCEPT ![p] = copies[row[p]]]
        /\ Goto(p, "commit")
        /\ NoFault /\ UNCHANGED <<doc, row, outcome, path, clean>>
     \/ IndexFails(p) /\ IF Kind[row[p]] = "chunkless" THEN NoFault ELSE Fault
  /\ UNCHANGED <<queueVars, dbVars, batch, cur, todo>>

\* Mutant: the old chunks are not deleted first.
Rewritten_KeepsOld(p, g) == copies[row[p]] \cup {g}

\* Under READ COMMITTED the transaction removes what its DELETE saw, and
\* nothing committed since; g is what its INSERTs add.
Rewritten(p, g) == (copies[row[p]] \ seen[p]) \cup {g}

\* A name no row has and no open transaction remembers.
Unused(g) ==
  /\ \A d \in Docs : g \notin copies[d]
  /\ \A p \in Procs : g \notin seen[p]

\* The INSERTs and the commit.
EmbedCommit(p) ==
  LET Committed ==
        \E g \in Generations :
          /\ Unused(g) /\ \A h \in Generations : Unused(h) => g <= h
          /\ copies' = [copies EXCEPT ![row[p]] = Rewritten(p, g)]
  IN
  /\ pc[p] = "commit"
  /\ \/ /\ Committed
        /\ IF path[p] = "reindex"
           THEN Goto(p, "idle") /\ Drop(p)
           ELSE /\ Goto(p, "mark")
                /\ seen' = [seen EXCEPT ![p] = {}]
                /\ UNCHANGED <<doc, row, outcome, path>>
        /\ NoFault /\ UNCHANGED clean
     \/ /\ Committed \/ UNCHANGED copies
        /\ IndexFails(p)
        /\ Fault
  /\ UNCHANGED <<queueVars, status, log, batch, cur, todo>>

\* _mark_ready, after indexing returned: the document is retrievable.
MarkReady(p) ==
  LET Marked == status' = [status EXCEPT ![row[p]] = "ready"] IN
  /\ pc[p] = "mark"
  /\ \/ /\ Marked
        /\ GotoNote(p, "indexed")
        /\ NoFault /\ UNCHANGED clean
     \/ /\ Marked \/ UNCHANGED status
        /\ Escapes(p)
        /\ Fault
  /\ UNCHANGED <<queueVars, copies, log, batch, cur, todo>>

\* Mutant: the failure is recorded and swallowed.
Note_SwallowsFailure(p) ==
  /\ pc[p] = "note"
  /\ log' = log \cup {[doc |-> doc[p], outcome |-> outcome[p]]}
  /\ IF p \in Workers THEN Goto(p, "refs") ELSE Goto(p, "idle")
  /\ Drop(p)
  /\ NoFault
  /\ UNCHANGED <<queueVars, status, copies, loopVars>>

\* record_attempt never raises: a write that fails is only logged.
Note(p) ==
  /\ pc[p] = "note"
  /\ \/ log' = log \cup {[doc |-> doc[p], outcome |-> outcome[p]]} /\ NoFault
     \/ UNCHANGED log /\ Fault
  /\ IF p \in Workers
     THEN /\ Goto(p, "refs")
          /\ clean' = IF outcome[p] = "failed" THEN [clean EXCEPT ![p] = FALSE] ELSE clean
     ELSE Goto(p, "idle") /\ UNCHANGED clean
  /\ Drop(p)
  /\ UNCHANGED <<queueVars, status, copies, batch, cur, todo>>

-----------------------------------------------------------------------------
\* A worker task dies: open transactions roll back, its messages stay in
\* flight until their visibility timeout. A task that dies idle changes nothing.
WorkerCrash(w) ==
  /\ pc[w] # "idle" \/ batch[w] # {}
  /\ Goto(w, "idle")
  /\ Drop(w)
  /\ batch' = [batch EXCEPT ![w] = {}]
  /\ cur' = [cur EXCEPT ![w] = NoDelivery]
  /\ todo' = [todo EXCEPT ![w] = {}]
  /\ clean' = [clean EXCEPT ![w] = TRUE]
  /\ Fault
  /\ UNCHANGED <<queueVars, dbVars>>

Cleared(f, v) == [p \in Procs |-> IF p \in Jobs THEN v ELSE f[p]]

\* The API process dies, and every background task with it.
ApiCrash ==
  /\ \E j \in Jobs : pc[j] # "idle"
  /\ pc' = Cleared(pc, "idle")
  /\ doc' = Cleared(doc, NoDoc)
  /\ row' = Cleared(row, NoDoc)
  /\ seen' = Cleared(seen, {})
  /\ outcome' = Cleared(outcome, "none")
  /\ path' = Cleared(path, "none")
  /\ Fault
  /\ UNCHANGED <<queueVars, dbVars, loopVars>>

Queue(m) == Put(m) \/ VisibilityExpires(m)

Consume(w) ==
  \/ Receive(w)
  \/ TakeMessage(w)
  \/ ReadObject(w)
  \/ FinishMessage(w)
  \/ DeleteMessage(w)

Start(j) ==
  \/ \E d \in Docs, via \in Paths : StartJob(j, d, via)
  \/ \E e \in Docs : StartReindex(j, e)

Ingest(p) ==
  \/ CheckDuplicate(p)
  \/ InsertRow(p)
  \/ EmbedBegin(p)
  \/ EmbedCommit(p)
  \/ MarkReady(p)
  \/ Note(p)

Next ==
  \/ \E m \in Messages : Queue(m)
  \/ \E w \in Workers : Consume(w)
  \/ \E j \in Jobs : Start(j)
  \/ \E p \in Procs : Ingest(p)
  \/ \E w \in Workers : WorkerCrash(w)
  \/ ApiCrash

Spec == Init /\ [][Next]_vars

\* A polling worker takes every step it can, and SQS makes an abandoned
\* message visible again.
Fairness ==
  /\ \A w \in Workers : WF_vars(Consume(w) \/ Ingest(w))
  /\ \A m \in Messages : WF_vars(~HeldByWorker(m) /\ VisibilityExpires(m))

FairSpec == Spec /\ Fairness

-----------------------------------------------------------------------------
\* Properties.

Labels == {"idle", "refs", "check", "insert", "embed", "commit", "mark", "note", "delete"}

TypeOK ==
  /\ message \in [Messages -> {"unsent", "visible", "inflight", "deleted", "dead"}]
  /\ receives \in [Messages -> 0 .. MaxReceive]
  /\ status \in [Docs -> {"none", "processing", "ready"}]
  /\ copies \in [Docs -> SUBSET Generations]
  /\ log \subseteq [doc : Docs, outcome : Outcomes]
  /\ pc \in [Procs -> Labels]
  /\ doc \in [Procs -> Docs \cup {NoDoc}]
  /\ row \in [Procs -> Docs \cup {NoDoc}]
  /\ seen \in [Procs -> SUBSET Generations]
  /\ outcome \in [Procs -> Outcomes \cup {"none"}]
  /\ path \in [Procs -> Paths \cup {"reindex", "none"}]
  /\ batch \in [Workers -> SUBSET Delivery]
  /\ cur \in [Workers -> Delivery \cup {NoDelivery}]
  /\ todo \in [Workers -> SUBSET Docs]
  /\ clean \in [Workers -> BOOLEAN]
  /\ faults \in 0 .. MaxFaults
  /\ starts \in 0 .. MaxStarts

\* The corpus answers from d: a ready row holds its URL or its text.
Answered(d) == \E e \in Docs : Same(d, e) /\ status[e] = "ready" /\ copies[e] # {}

\* The documents the database was not loaded with. A seeded row is ready, and
\* what arrives under its URL or with its text is taken for a duplicate, though
\* nothing can be answered from the row before somebody indexes it.
New == {d \in Docs : \A e \in Seeded : ~Same(d, e)}

Worthwhile == {d \in New : Kind[d] = "text"}

\* An ending that claims d can be answered from.
Claims(ending, d) == ending = "indexed" \/ (ending = "duplicate" /\ d \in New)

\* Ingestion makes no row ready that it left without chunks, whoever rewrites
\* them, however the rewrites interleave and whichever commit raises: a ready
\* document that "produced nothing" (ingestion_routes.py, list_documents) is a
\* seeded one that nobody has indexed.
OnlySeedsAreUseless ==
  \A d \in Docs : status[d] = "ready" /\ copies[d] = {} => d \in Seeded

\* A message is deleted only when every new document it announced that has text
\* can be answered from (consumer.py: a failure keeps the message), through
\* redelivery, crashes, races with the API's own tasks and stale handles.
NothingLost ==
  \A m \in Messages : message[m] = "deleted" =>
    \A d \in Refs[m] \cap Worthwhile : Answered(d)

\* The processing log never claims what is not so: a document recorded as
\* indexed can be answered from, and so can a duplicate unless it is a seeded
\* row's.
LogTellsTruth ==
  \A entry \in log : Claims(entry.outcome, entry.doc) => Answered(entry.doc)

\* A document has one set of chunks (indexing_service.py deletes the old set in
\* the transaction that writes the new one), and running an ingestion twice
\* changes nothing (ingestion_routes.py).
NothingStoredTwice == \A d \in Docs : Cardinality(copies[d]) <= 1

\* However the rewrites of a document interleave, each process leaves at most
\* one set of its chunks behind: what it wrote before, its own DELETE sees.
StoredOncePerProcess == \A d \in Docs : Cardinality(copies[d]) <= Cardinality(Procs)

Ingesting(p, d) ==
  row[p] = d /\ path[p] # "reindex" /\ pc[p] \in {"embed", "commit", "mark"}

\* The rows in `processing` that nobody ingests. A text without a chunk ends
\* there by itself, at every attempt.
Left ==
  {d \in Docs : /\ status[d] = "processing" /\ Kind[d] # "chunkless"
                /\ \A p \in Procs : ~Ingesting(p, d)}

\* A row that can be indexed is in `processing` while somebody ingests it. What
\* stays there, which for an upload nothing retries, is what a fault left: no
\* race, refused insert or reindex strands a row, and one fault at most the rows
\* of one API process.
RowsLeftOnlyByFault ==
  Cardinality(Left) <= faults * Cardinality(IF Jobs = {} THEN {"worker"} ELSE Jobs)

\* Every notification is settled in the end: deleted, or in the dead-letter
\* queue after MaxReceive receives, where one ends that announces an object which
\* fails at every attempt.
EveryMessageSettles ==
  \A m \in Messages : message[m] # "unsent" ~> message[m] \in {"deleted", "dead"}

\* A document survives as many faults as the redrive policy leaves receives
\* for: with fewer faults than MaxReceive every new document with text ends up
\* answered from, whatever else its message announces and how that fails.
EveryDocumentArrives ==
  MaxFaults < MaxReceive =>
    \A m \in Messages : \A d \in Refs[m] \cap Worthwhile :
      message[m] # "unsent" ~> Answered(d)

\* The promises of module DocumentIntake.
Intake == INSTANCE DocumentIntake WITH
  held <- {d \in Docs : Answered(d)},
  consumed <- {m \in Messages : message[m] = "deleted"}

KeepsIntakePromise == Intake!Spec

=============================================================================
