---------------------------- MODULE RequestTrace ----------------------------
(***************************************************************************)
(* The requests of one process and what the trace tells of them: the calls *)
(* that start a non-blocking operation and record the handle they were     *)
(* given, and MPI_Test and MPI_Wait, which record the handle they complete.*)
(* MPI reuses a handle once it is freed, so that a reader of the trace who *)
(* wants to know how long an operation took must match a completion with   *)
(* the right start, by handle and time stamp.                              *)
(*                                                                         *)
(* A call reads the time stamp counter, goes through PMPI, reads it again, *)
(* and is registered (under EVENTS' mutex, see EventStore).  Calls of      *)
(* several threads overlap; the counters of all cores are taken to agree.  *)
(***************************************************************************)
EXTENDS Naturals, Sequences, FiniteSets

CONSTANTS Threads,          \* the threads of the process
          Handles,          \* what MPI identifies a request by
          NullRequest,      \* MPI_REQUEST_NULL
          Language,         \* "c" or "fortran": the wrappers in use
          MaxCalls          \* bound: MPI calls of the process

ASSUME NullRequestAssumption == NullRequest \notin Handles
ASSUME LanguageAssumption == Language \in {"c", "fortran"}
ASSUME MaxCallsAssumption == MaxCalls \in Nat

VARIABLES pc,               \* pc[t] : "app", "pmpi" or "register"
          call,             \* call[t] : the call thread t is making, or made last
          calls,            \* how many calls were made
          active,           \* active[h] : the operation under handle h, or NoOp
          done,             \* operations that have finished but hold a handle
          clock,            \* the time stamp counter
          trace             \* the registered calls

vars == <<pc, call, calls, active, done, clock, trace>>

\* Operations are named by the number of the call that started them.
NoOp == 0
Ops  == 1..MaxCalls

Kinds == {"start", "test", "wait"}

\* A call: the request it was given; the operation it started or was given;
\* whether it freed the request; and what its wrapper records of it.
CallRecords ==
  [kind : Kinds, passed : Handles \cup {NullRequest}, op : Ops \cup {NoOp},
   freed : BOOLEAN, req : Handles \cup {NullRequest}, finished : BOOLEAN,
   tsc : Nat, end : Nat]

NoCall == [kind |-> "start", passed |-> NullRequest, op |-> NoOp, freed |-> FALSE,
           req |-> NullRequest, finished |-> FALSE, tsc |-> 0, end |-> 0]

TypeOK ==
  /\ pc \in [Threads -> {"app", "pmpi", "register"}]
  /\ call \in [Threads -> CallRecords]
  /\ calls \in 0..MaxCalls
  /\ active \in [Handles -> Ops \cup {NoOp}]
  /\ done \subseteq Ops
  /\ clock \in Nat
  /\ trace \in Seq(CallRecords)

Init ==
  /\ pc = [t \in Threads |-> "app"]
  /\ call = [t \in Threads |-> NoCall]
  /\ calls = 0
  /\ active = [h \in Handles |-> NoOp]
  /\ done = {}
  /\ clock = 0
  /\ trace = << >>

\* A call enters its wrapper and the counter is read.
Begin(t, kind, passed, op) ==
  /\ pc[t] = "app"
  /\ calls < MaxCalls
  /\ calls' = calls + 1
  /\ call' = [call EXCEPT ![t] = [NoCall EXCEPT !.kind = kind, !.passed = passed,
                                                !.op = op, !.tsc = clock]]
  /\ clock' = clock + 1
  /\ pc' = [pc EXCEPT ![t] = "pmpi"]
  /\ UNCHANGED <<active, done, trace>>

\* Handles is a bound too: no more operations are started than it has room for.
HandlesInUse ==
  Cardinality({h \in Handles : active[h] # NoOp})
    + Cardinality({t \in Threads : pc[t] = "pmpi" /\ call[t].kind = "start"})

\* Isend, Irecv, Ibarrier, Ibcast, Igather, Iscatter and Ireduce.
BeginStart(t) ==
  /\ HandlesInUse < Cardinality(Handles)
  /\ Begin(t, "start", NullRequest, calls + 1)

\* Test or Wait on a request no other thread is completing, or on a null one.
BeginCompletion(t, kind, h) ==
  /\ active[h] # NoOp
  /\ \A u \in Threads : pc[u] = "pmpi" => call[u].passed # h
  /\ Begin(t, kind, h, active[h])

BeginOnNull(t, kind) == Begin(t, kind, NullRequest, NoOp)

\* PMPI returned with these changes to the call; the counter is read again.
PmpiReturned(t, changed) ==
  /\ call' = [call EXCEPT ![t] = [changed EXCEPT !.end = clock]]
  /\ clock' = clock + 1
  /\ pc' = [pc EXCEPT ![t] = "register"]
  /\ UNCHANGED <<calls, trace>>

\* MPI gives the operation a handle that is not in use, which is recorded.
PmpiStart(t) ==
  /\ pc[t] = "pmpi"
  /\ call[t].kind = "start"
  /\ \E h \in Handles :
       /\ active[h] = NoOp
       /\ active' = [active EXCEPT ![h] = call[t].op]
       /\ PmpiReturned(t, [call[t] EXCEPT !.req = h])
  /\ UNCHANGED done

\* Mutants: no request is recorded; MPI_Wait records the one it leaves, too.
RequestUnset(kind, passed, left) == NoOp
RequestLeft(kind, passed, left)  == left

\* The C wrappers and Fortran's MPI_Wait record the handle they were given;
\* Fortran's MPI_Test records the one it leaves behind.
RecordedRequest(kind, passed, left) ==
  IF Language = "fortran" /\ kind = "test" THEN left ELSE passed

\* MPI_Wait does not record completion.  Of MPI_Test's flag the C wrapper looks
\* at the value, the Fortran wrapper at the address, which is never null.
RecordedFinished(kind, flag) ==
  kind = "test" /\ (Language = "fortran" \/ flag)

\* A finished operation is freed and its handle becomes null; a null request
\* is finished.  MPI_Wait returns only then, MPI_Test also before.
PmpiCompletion(t, flag) ==
  LET c    == call[t]
      left == IF flag THEN NullRequest ELSE c.passed
      frees == flag /\ c.op # NoOp
  IN /\ pc[t] = "pmpi"
     /\ c.kind # "start"
     /\ flag <=> c.op \in done \cup {NoOp}
     /\ c.kind = "wait" => flag
     /\ active' = IF frees THEN [active EXCEPT ![c.passed] = NoOp] ELSE active
     /\ done' = IF frees THEN done \ {c.op} ELSE done
     /\ PmpiReturned(t, [c EXCEPT !.freed = frees,
                                  !.req = RecordedRequest(c.kind, c.passed, left),
                                  !.finished = RecordedFinished(c.kind, flag)])

\* The communication of an operation ends, whatever the process is doing.
Progress(o) ==
  /\ o \in {active[h] : h \in Handles} \ ({NoOp} \cup done)
  /\ done' = done \cup {o}
  /\ UNCHANGED <<pc, call, calls, active, clock, trace>>

\* Mutant: the event is stamped when it is registered.
RegisterStamped(t) ==
  /\ pc[t] = "register"
  /\ trace' = Append(trace, [call[t] EXCEPT !.tsc = clock, !.end = clock])
  /\ pc' = [pc EXCEPT ![t] = "app"]
  /\ UNCHANGED <<call, calls, active, done, clock>>

Register(t) ==
  /\ pc[t] = "register"
  /\ trace' = Append(trace, call[t])
  /\ pc' = [pc EXCEPT ![t] = "app"]
  /\ UNCHANGED <<call, calls, active, done, clock>>

\* The bounded process has made all its calls.
AllMade ==
  /\ calls = MaxCalls
  /\ \A t \in Threads : pc[t] = "app"
  /\ UNCHANGED vars

Next ==
  \/ AllMade
  \/ \E t \in Threads :
       \/ BeginStart(t)
       \/ \E kind \in {"test", "wait"} :
            BeginOnNull(t, kind) \/ \E h \in Handles : BeginCompletion(t, kind, h)
       \/ PmpiStart(t)
       \/ \E flag \in BOOLEAN : PmpiCompletion(t, flag)
       \/ Register(t)
  \/ \E o \in Ops : Progress(o)

Spec == Init /\ [][Next]_vars

-----------------------------------------------------------------------------
(* Correctness.                                                            *)

Events == {trace[i] : i \in 1..Len(trace)}
Starts == {e \in Events : e.kind = "start"}

\* The events by which a reader takes the operation under a handle to be over.
Completing(e) ==
  e.req # NullRequest /\ (e.kind = "wait" \/ (e.kind = "test" /\ e.finished))

\* Operations that are over and whose calls have all been registered.
Over ==
  {o \in Ops : /\ \E e \in Starts : e.op = o
               /\ \A h \in Handles : active[h] # o
               /\ \A t \in Threads : pc[t] # "app" => call[t].op # o}

\* Each operation that is over has one completing event in the trace, with the
\* handle its start recorded, and ended in a call entered after the start
\* returned; one that is not over has none.
CompletionTraced ==
  /\ \A o \in Over : \E s \in Starts, c \in Events :
       /\ s.op = o /\ Completing(c) /\ c.req = s.req /\ s.end < c.tsc
       /\ \A e \in Events : e.op = o /\ Completing(e) => e = c
  /\ \A c \in Events : Completing(c) => c.freed

\* Between the start of an operation and the call that completed it lies no
\* whole start recorded with the same handle: of the starts that returned
\* before a completion was entered, the latest is the right one.
LatestStartIsRight ==
  \A s, other \in Starts, c \in Events :
    c.freed /\ c.op = s.op /\ other # s /\ other.req = s.req
      => ~ (s.end < other.tsc /\ other.end < c.tsc)

\* Two operations that held the same handle never overlap in what the trace
\* says of them: one ended, at the latest when its completing call returned,
\* before the other got the handle.
HandleLifetimesDisjoint ==
  \A s1, s2 \in Starts, c1, c2 \in Events :
    /\ c1.freed /\ c1.op = s1.op /\ c2.freed /\ c2.op = s2.op
    /\ s1 # s2 /\ s1.req = s2.req
    => c1.tsc < s2.end \/ c2.tsc < s1.end

-----------------------------------------------------------------------------
(* What the documentation says and the Fortran wrapper does not do.        *)

\* mpi_test.rs:10-11, the trace has "the request that was tested" and "wheter
\* the requested communication had finished".
TestRecorded ==
  \A e \in Events : e.kind = "test" /\ e.op # NoOp =>
    e.req = e.passed /\ (e.finished <=> e.freed)
=============================================================================
