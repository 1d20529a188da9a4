--------------------------- MODULE MCBenchmarkRun ---------------------------
(***************************************************************************)
(* Instances of BenchmarkRun for TLC: two calls with one configuration.    *)
(***************************************************************************)
EXTENDS BenchmarkRun

CONSTANTS a, b

MCConfig == [r \in Runs |-> "full"]

=============================================================================
