------------------------------ MODULE EventLog ------------------------------
(***************************************************************************)
(* What the tracer promises of the calls one MPI process makes: a log that *)
(* only grows at its end and never holds a call twice; a call that could   *)
(* not be logged is reported lost instead, never both; and one snapshot,   *)
(* of the whole log, after which the log no longer changes.                *)
(***************************************************************************)
EXTENDS Naturals, Sequences

CONSTANT Entries            \* what can be logged

VARIABLES log,              \* the calls logged so far, oldest first
          lost,             \* the calls reported as not logged
          saved             \* << >>, or << snapshot >> once it is on disk

vars == <<log, lost, saved>>

Logged == {log[i] : i \in 1..Len(log)}

Init == log = << >> /\ lost = {} /\ saved = << >>

Accept(c) ==
  /\ saved = << >>
  /\ c \notin Logged \cup lost
  /\ log' = Append(log, c)
  /\ UNCHANGED <<lost, saved>>

Lose(c) ==
  /\ saved = << >>
  /\ c \notin Logged \cup lost
  /\ lost' = lost \cup {c}
  /\ UNCHANGED <<log, saved>>

Save ==
  /\ saved = << >>
  /\ saved' = <<log>>
  /\ UNCHANGED <<log, lost>>

Next == Save \/ \E c \in Entries : Accept(c) \/ Lose(c)

Spec == Init /\ [][Next]_vars
=============================================================================
