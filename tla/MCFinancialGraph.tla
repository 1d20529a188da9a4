--------------------------- MODULE MCFinancialGraph ---------------------------
(***************************************************************************)
(* Instances of FinancialGraph for TLC.                                    *)
(***************************************************************************)
EXTENDS FinancialGraph

CONSTANTS a, b, x

\* The cohort a question can name is a; b is the outsider a branch may find.
MCCohorts == {{a}}

Honest   == [cites |-> {"retrieved"}, says |-> {"name", "claim"}]
Numbers  == [cites |-> {"metrics"}, says |-> {"name", "claim", "flag"}]
Invented == [cites |-> {"bogus"}, says |-> {"name", "claim"}]
Silent   == [cites |-> {}, says |-> {"name"}]

AllDrafts == {Honest, Numbers, Invented, Silent}

=============================================================================
