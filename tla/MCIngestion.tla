----------------------------- MODULE MCIngestion -----------------------------
(***************************************************************************)
(* Instances of Ingestion for TLC. Document a is an article, b the same    *)
(* text without a URL (an upload), c an object with nothing to index, d an *)
(* edited version of a at the same URL, s a row of the seed, x an object   *)
(* that is no JSON, y a text that is all headings.                         *)
(***************************************************************************)
EXTENDS Ingestion, TLC

CONSTANTS a, b, c, d, s, x, y, m1, m2, w1, j1, j2, none

MCUrl  == [e \in Docs |-> CASE e = d -> a [] e = b -> none [] OTHER -> e]
MCHash == [e \in Docs |-> IF e = b THEN a ELSE e]

\* c is a blank page, or a file that does not parse.
BlankKind  == [e \in Docs |-> CASE e = c -> "empty" [] e = x -> "malformed"
                                [] e = y -> "chunkless" [] OTHER -> "text"]
BrokenKind == [e \in Docs |-> IF e = c THEN "unreadable" ELSE "text"]

\* m1 announces two objects that fail at every attempt with one that does not,
\* m2 an edit of the latter and a blank page.
TwoOfThreeFail == (m1 :> {a, x, y}) @@ (m2 :> {c, d})

\* An article together with the object of a seeded row.
NewAndSeeded == m1 :> {a, s}
NoRefs  == << >>

=============================================================================
