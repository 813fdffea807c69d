------------------------- MODULE MCSchedulingRounds -------------------------
(* Instances of SchedulingRounds for TLC. *)
EXTENDS SchedulingRounds

(* Every set of at least two threads, and one with an unknown thread.      *)
MCSyncSets == {S \in SUBSET Threads : Cardinality(S) > 1} \cup {{0, 99}}

OnePair == {{0, 1}}
=============================================================================
