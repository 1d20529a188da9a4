--------------------------- MODULE DocumentIntake ---------------------------
(***************************************************************************)
(* What document ingestion promises, with nothing of how it does it: the   *)
(* corpus only grows, and a notification leaves the queue as consumed only *)
(* once everything it announced that is worth indexing is in the corpus.   *)
(* Module Ingestion implements it.                                         *)
(***************************************************************************)
CONSTANTS
  Docs,       \* the documents that can arrive
  Messages,   \* the notifications that announce them
  Refs,       \* Refs[m]: the documents message m announces
  Worthwhile  \* the documents that have text to index

VARIABLES
  held,       \* the documents the corpus can answer from
  consumed    \* the messages deleted as handled

Init ==
  /\ held = {}
  /\ consumed = {}

Hold(S) ==
  /\ held' = held \cup S
  /\ UNCHANGED consumed

Consume(m) ==
  /\ m \notin consumed
  /\ (Refs[m] \cap Worthwhile) \subseteq held
  /\ consumed' = consumed \cup {m}
  /\ UNCHANGED held

Next ==
  \/ \E S \in SUBSET Docs : Hold(S)
  \/ \E m \in Messages : Consume(m)

Spec == Init /\ [][Next]_<<held, consumed>>

=============================================================================
