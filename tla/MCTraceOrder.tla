---------------------------- MODULE MCTraceOrder ----------------------------
(***************************************************************************)
(* TraceOrder for TLC: a process of one thread, and one of two on a node   *)
(* whose counters are ahead.                                               *)
(***************************************************************************)
EXTENDS TraceOrder

CONSTANTS r0, r1, main, omp

MCThreads == {<<r0, main>>, <<r1, main>>, <<r1, omp>>}
MCNode    == [r \in Ranks |-> IF r = r1 THEN NodeSkew ELSE 0]
=============================================================================
