------------------------- MODULE MCThreadDispatcher -------------------------
(* ThreadDispatcher for TLC: all threads synchronize.                      *)
EXTENDS ThreadDispatcher

MCSyncSets == {Threads}
=============================================================================
