------------------------------ MODULE TraceDir ------------------------------
(***************************************************************************)
(* What the trace directory promises its reader: a slot per rank, saved,   *)
(* spoiled or left alone by the jobs, and a published trace that is always *)
(* the union of the slots of one instant, never a mixture of two instants  *)
(* and never a part of a slot.                                             *)
(***************************************************************************)
CONSTANTS Slots, Traces

VARIABLES slot,             \* slot[s] : the traces in rank s's file
          published         \* << >>, or << the traces of the merged file >>

vars == <<slot, published>>

Init == slot = [s \in Slots |-> {}] /\ published = << >>

\* Rank s replaces what its slot holds; an empty slot is a spoiled one.
Save(s, t) ==
  /\ slot' = [slot EXCEPT ![s] = t]
  /\ UNCHANGED published

Publish ==
  /\ published' = <<UNION {slot[s] : s \in Slots}>>
  /\ UNCHANGED slot

Withdraw ==
  /\ published' = << >>
  /\ UNCHANGED slot

Next ==
  \/ \E s \in Slots : Save(s, {}) \/ \E t \in Traces : Save(s, {t})
  \/ Publish
  \/ Withdraw

Spec == Init /\ [][Next]_vars
=============================================================================
