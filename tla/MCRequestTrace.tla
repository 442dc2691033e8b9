--------------------------- MODULE MCRequestTrace ---------------------------
(***************************************************************************)
(* RequestTrace for TLC.  Threads are interchangeable, and so are handles. *)
(***************************************************************************)
EXTENDS RequestTrace, TLC

Interchangeable == Permutations(Threads) \cup Permutations(Handles)
=============================================================================
