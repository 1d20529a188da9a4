---------------------------- MODULE MCQueryRoute ----------------------------
(***************************************************************************)
(* Instances of QueryRoute for TLC: requests from one address.             *)
(***************************************************************************)
EXTENDS QueryRoute

CONSTANTS r1, r2, r3, x

MCCaller == [r \in Requests |-> x]

=============================================================================
