---------------------------- MODULE MCRateLimitStore ----------------------------
(***************************************************************************)
(* A small instance of RateLimitStore for TLC: a key whose window is       *)
(* shorter than the deletion of old rows knows, and one whose is longer.   *)
(***************************************************************************)
EXTENDS RateLimitStore, TLC

CONSTANTS short, long

WindowOf == [k \in {short, long} |-> IF k = short THEN 1 ELSE 2]
Symmetry == Permutations(Request)

LimitOf == [k \in {short, long} |-> IF k = short THEN 2 ELSE 1]
================================================================================
