----------------------------- MODULE EventStore -----------------------------
(***************************************************************************)
(* One traced MPI process: the threads that make MPI calls, the wrapper    *)
(* each call goes through, and EVENTS, the vector behind a mutex that      *)
(* every wrapper appends to and MPI_Finalize writes to the rank's file.    *)
(*                                                                         *)
(* A call is <<t, k>>, the k-th of thread t; its arguments do not matter   *)
(* here.  pc[t] is where thread t is:                                      *)
(*    app      outside any wrapper                                         *)
(*    pmpi     in the PMPI_ function the wrapper forwards to               *)
(*    lock     at EVENTS.0.lock()                                          *)
(*    reserve  at try_reserve_exact                                        *)
(*    push     in Vec::push, before the new slot is found                  *)
(*    write    in Vec::push, storing into the slot and advancing len       *)
(*    open     in serialize, up to the opening of the file (Finalize only) *)
(*    save     in serialize, at write!                                     *)
(***************************************************************************)
EXTENDS Naturals, Sequences, FiniteSets

CONSTANTS Threads,          \* the threads of the process that call MPI
          Main,             \* the one that calls MPI_Init and MPI_Finalize
          MaxCalls,         \* bound: calls of one thread before MPI_Finalize
          NoThread          \* the mutex is free

ASSUME MainAssumption == Main \in Threads
ASSUME NoThreadAssumption == NoThread \notin Threads
ASSUME MaxCallsAssumption == MaxCalls \in Nat \ {0}

VARIABLES status,           \* "alive", "aborted" by Rust, "killed" from outside
          phase,            \* how far the process is between Init and Finalize
          pc,               \* pc[t] : where thread t is
          n,                \* n[t]  : calls thread t has made
          lock,             \* the thread that holds EVENTS' mutex
          events,           \* the vector
          cap,              \* its capacity
          slot,             \* slot[t] : the length that push read
          dropped,          \* calls whose registration returned an error
          traces,           \* the serialized vector serialize is writing
          file              \* the rank's trace file

vars == <<status, phase, pc, n, lock, events, cap, slot, dropped, traces, file>>

Phases  == {"start", "init", "running", "finalizing", "finalized"}
Pending == {"pmpi", "lock", "reserve", "push", "write"}
Saving  == {"open", "save"}
Holding == {"reserve", "push", "write"} \cup Saving

\* The call thread t is making, and every call of the program's threads.
Call(t) == <<t, n[t]>>
Calls   == Threads \X (1..MaxCalls + 1)

Logged == {events[i] : i \in 1..Len(events)}

\* How many of t's calls have been registered or dropped.
SettledCount(t) == IF pc[t] \in Pending THEN n[t] - 1 ELSE n[t]

\* The calls made so far, and those among them that are over for the tracer.
Made    == {c \in Calls : c[2] <= n[c[1]]}
Settled == {c \in Calls : c[2] <= SettledCount(c[1])}

TypeOK ==
  /\ status \in {"alive", "aborted", "killed"}
  /\ phase \in Phases
  /\ pc \in [Threads -> {"app"} \cup Pending \cup Saving]
  /\ n \in [Threads -> 0..MaxCalls + 1]
  /\ lock \in Threads \cup {NoThread}
  /\ events \in Seq(Calls)
  /\ cap \in Nat
  /\ slot \in [Threads -> Nat]
  /\ dropped \subseteq Calls
  /\ traces \in Seq(Calls)
  /\ file \in {"untouched", "torn", "complete"}

Init ==
  /\ status = "alive"
  /\ phase = "start"
  /\ pc = [t \in Threads |-> "app"]
  /\ n = [t \in Threads |-> 0]
  /\ lock = NoThread
  /\ events = << >>
  /\ cap = 0
  /\ slot = [t \in Threads |-> 0]
  /\ dropped = {}
  /\ traces = << >>
  /\ file = "untouched"

-----------------------------------------------------------------------------
(* The wrappers (interpol-c.c, interpol-f.c).                              *)

Goto(t, where) == pc' = [pc EXCEPT ![t] = where]

\* A call enters its wrapper.
Calling(t) ==
  /\ status = "alive"
  /\ pc[t] = "app"
  /\ n' = [n EXCEPT ![t] = @ + 1]
  /\ Goto(t, "pmpi")
  /\ UNCHANGED <<status, lock, events, cap, slot, dropped, traces, file>>

\* MPI_Init or MPI_Init_thread, before which no other MPI call is made.
EnterInit ==
  /\ phase = "start"
  /\ phase' = "init"
  /\ Calling(Main)

\* Any other call but MPI_Finalize.
Enter(t) ==
  /\ phase = "running"
  /\ n[t] < MaxCalls
  /\ Calling(t)
  /\ UNCHANGED phase

\* Mutant: MPI_Finalize may be called again.
EnterFinalizeAgain ==
  /\ phase \in {"running", "finalized"}
  /\ \A t \in Threads : pc[t] = "app"
  /\ phase' = "finalizing"
  /\ Calling(Main)

\* MPI_Finalize: MPI requires that no other thread is still in an MPI call.
EnterFinalize ==
  /\ phase = "running"
  /\ \A t \in Threads : pc[t] = "app"
  /\ phase' = "finalizing"
  /\ Calling(Main)

\* The PMPI_ function (for MPI_Finalize, the first barrier) returns; the
\* wrapper fills in the MpiCall and enters register_mpi_call.
PmpiReturns(t) ==
  /\ status = "alive"
  /\ pc[t] = "pmpi"
  /\ Goto(t, "lock")
  /\ UNCHANGED <<status, phase, n, lock, events, cap, slot, dropped, traces, file>>

\* register_mpi_call returns and, with the guard dropped, the wrapper does too.
Return(t) ==
  /\ Goto(t, "app")
  /\ lock' = NoThread
  /\ phase' = CASE phase = "init" -> "running"
                [] phase = "finalizing" -> "finalized"
                [] OTHER -> phase

-----------------------------------------------------------------------------
(* The register_* functions and Register::register (interpol.rs).          *)

\* Mutant: the wrappers take no lock.
LockFree(t) ==
  /\ status = "alive"
  /\ pc[t] = "lock"
  /\ lock' = t
  /\ Goto(t, "reserve")
  /\ UNCHANGED <<status, phase, n, events, cap, slot, dropped, traces, file>>

Lock(t) ==
  /\ status = "alive"
  /\ pc[t] = "lock"
  /\ lock = NoThread
  /\ lock' = t
  /\ Goto(t, "reserve")
  /\ UNCHANGED <<status, phase, n, events, cap, slot, dropped, traces, file>>

\* The exact reservation is for twice the length, on top of the length.
Wanted == 3 * Len(events)

Reserve(t) ==
  /\ status = "alive"
  /\ pc[t] = "reserve"
  /\ cap' = IF cap < Wanted THEN Wanted ELSE cap
  /\ Goto(t, "push")
  /\ UNCHANGED <<status, phase, n, lock, events, slot, dropped, traces, file>>

\* Mutant: the error path does not release the mutex.
ReserveFailsLocked(t) ==
  /\ status = "alive"
  /\ pc[t] = "reserve"
  /\ cap < Wanted
  /\ dropped' = dropped \cup {Call(t)}
  /\ Goto(t, "app")
  /\ phase' = IF phase = "finalizing" THEN "finalized" ELSE phase
  /\ UNCHANGED <<status, n, lock, events, cap, slot, traces, file>>

\* An error is printed and the call is not traced; for MPI_Finalize the `?`
\* also skips serialize.
ReserveFails(t) ==
  /\ status = "alive"
  /\ pc[t] = "reserve"
  /\ cap < Wanted
  /\ dropped' = dropped \cup {Call(t)}
  /\ Return(t)
  /\ UNCHANGED <<status, n, events, cap, slot, traces, file>>

\* Mutant: push relies on the reservation, which is 0 for the first event.
PushReserved(t) ==
  /\ status = "alive"
  /\ pc[t] = "push"
  /\ slot' = [slot EXCEPT ![t] = Len(events)]
  /\ Goto(t, "write")
  /\ UNCHANGED <<status, phase, n, lock, events, cap, dropped, traces, file>>

\* push boxes the event, reads the length and, when the vector is full, grows
\* it: to 4 slots at least, and at least twofold.
Push(t) ==
  /\ status = "alive"
  /\ pc[t] = "push"
  /\ slot' = [slot EXCEPT ![t] = Len(events)]
  /\ cap' = CASE Len(events) < cap -> cap
              [] cap < 2 -> 4
              [] OTHER -> 2 * cap
  /\ Goto(t, "write")
  /\ UNCHANGED <<status, phase, n, lock, events, dropped, traces, file>>

\* Neither Box::new nor push has an error to return: without memory they abort.
AllocAborts(t) ==
  /\ status = "alive"
  /\ pc[t] = "push"
  /\ status' = "aborted"
  /\ UNCHANGED <<phase, pc, n, lock, events, cap, slot, dropped, traces, file>>

\* Mutant: the event is inserted in front.
StoredFirst(t) == <<Call(t)>> \o SubSeq(events, 1, slot[t])

\* The event goes into the slot, and the length becomes one more than that:
\* whatever another thread had stored there or beyond is gone.
Stored(t) == Append(SubSeq(events, 1, slot[t]), Call(t))

Write(t) ==
  /\ status = "alive"
  /\ pc[t] = "write"
  /\ events' = Stored(t)
  /\ IF phase = "finalizing"
       THEN Goto(t, "open") /\ UNCHANGED <<phase, lock>>
       ELSE Return(t)
  /\ UNCHANGED <<status, n, cap, slot, dropped, traces, file>>

-----------------------------------------------------------------------------
(* serialize, called by register_finalize with the lock held.              *)

\* Mutant: the vector is serialized as it was before the push.
OpenUnpushed(t) ==
  /\ status = "alive"
  /\ pc[t] = "open"
  /\ traces' = SubSeq(events, 1, slot[t])
  /\ file' = "torn"
  /\ Goto(t, "save")
  /\ UNCHANGED <<status, phase, n, lock, events, cap, slot, dropped>>

\* The vector becomes a string, then the directory is made and the file opened
\* and emptied.
Open(t) ==
  /\ status = "alive"
  /\ pc[t] = "open"
  /\ traces' = events
  /\ file' = "torn"
  /\ Goto(t, "save")
  /\ UNCHANGED <<status, phase, n, lock, events, cap, slot, dropped>>

OpenFails(t) ==
  /\ status = "alive"
  /\ pc[t] = "open"
  /\ traces' = events
  /\ Return(t)
  /\ UNCHANGED <<status, n, events, cap, slot, dropped, file>>

Save(t) ==
  /\ status = "alive"
  /\ pc[t] = "save"
  /\ file' = "complete"
  /\ Return(t)
  /\ UNCHANGED <<status, n, events, cap, slot, dropped, traces>>

\* write! stops part of the way (a full disk).
SaveFails(t) ==
  /\ status = "alive"
  /\ pc[t] = "save"
  /\ Return(t)
  /\ UNCHANGED <<status, n, events, cap, slot, dropped, traces, file>>

-----------------------------------------------------------------------------

\* The process is killed from outside, or by a call of the application.
Kill ==
  /\ status = "alive"
  /\ status' = "killed"
  /\ UNCHANGED <<phase, pc, n, lock, events, cap, slot, dropped, traces, file>>

\* The process is gone, or has no MPI call left to make.
Over ==
  /\ status # "alive" \/ phase = "finalized"
  /\ UNCHANGED vars

\* What the tracer does between taking the lock and releasing it.
Critical(t) ==
  \/ Reserve(t) \/ ReserveFails(t)
  \/ Push(t) \/ AllocAborts(t) \/ Write(t)
  \/ Open(t) \/ OpenFails(t) \/ Save(t) \/ SaveFails(t)

Step(t) == Enter(t) \/ PmpiReturns(t) \/ Lock(t) \/ Critical(t)

Next == EnterInit \/ EnterFinalize \/ (\E t \in Threads : Step(t)) \/ Kill \/ Over

Safety == Init /\ [][Next]_vars

\* A running thread keeps running: it takes a free mutex nobody competes for
\* and leaves the critical section.  The application and PMPI owe nothing.
Fairness == \A t \in Threads : WF_vars(Lock(t)) /\ WF_vars(Critical(t))

Spec == Safety /\ Fairness

-----------------------------------------------------------------------------
(* Correctness.                                                            *)

\* The mutex works: the thread between lock() and the release is the holder,
\* so at most one thread at a time touches the vector (the doc of EVENTS).
MutualExclusion == \A t \in Threads : pc[t] \in Holding <=> lock = t

\* push never stores outside the vector's memory, whichever way it was grown
\* (try_reserve_exact reserves nothing for the first event).
RoomToWrite ==
  /\ Len(events) <= cap
  /\ \A t \in Threads : pc[t] = "write" => slot[t] < cap

\* Every call whose registration is over is in the vector or was reported as
\* an error, never both, and nothing else is in either: no update is lost
\* between threads, no event is invented.
Accounted ==
  /\ Logged \cup dropped = Settled
  /\ Logged \cap dropped = {}

\* The vector keeps each thread's calls in the order it made them, and holds
\* none twice: registration ends before the wrapper returns.
ProgramOrder ==
  \A i, j \in 1..Len(events) :
    i < j /\ events[i][1] = events[j][1] => events[i][2] < events[j][2]

\* MPI_Init is the first event: its registration cannot be refused, and no
\* other call is made before it returned.
InitFirst == events # << >> => events[1] = <<Main, 1>>

\* A complete file holds every call of the process but the dropped ones,
\* MPI_Init first and MPI_Finalize last, and no call was made after it.
SavedWhole ==
  file = "complete" =>
    /\ traces = events
    /\ Logged \cup dropped = Made
    /\ traces # << >>
    /\ traces[1] = <<Main, 1>>
    /\ traces[Len(traces)] = <<Main, n[Main]>>

\* A process that finalized without making its whole vector a string is one
\* whose MPI_Finalize was refused its reservation: nothing else skips serialize
\* (though serialize may then find no directory, no file or no room for it).
UnsavedOnlyIfRefused ==
  phase = "finalized" /\ Call(Main) \notin dropped => traces = events

\* MPI_Finalize finds the mutex free, so that it neither waits for another
\* thread nor for a call that failed: every error path has given it back.
FinalizeUncontended ==
  phase = "finalizing" /\ pc[Main] \in {"pmpi", "lock"} => lock = NoThread

\* An event, once in the vector, stays where it is: steps only append, and
\* what is on disk no longer changes.
AppendOnly ==
  [][/\ \E k \in 0..1 : Len(events') = Len(events) + k
     /\ SubSeq(events', 1, Len(events)) = events
     /\ file = "complete" => UNCHANGED <<events, traces, file>>]_vars

\* Whoever holds the mutex gives it back, on the error paths too, unless the
\* process dies.
HolderLeaves ==
  \A t \in Threads : lock = t ~> lock # t \/ status # "alive"

\* Once the first barrier of MPI_Finalize is behind it the process gets out of
\* register_mpi_call, whatever fails, unless it dies.
FinalizeReturns ==
  phase = "finalizing" /\ pc[Main] = "lock"
    ~> phase = "finalized" \/ status # "alive"

\* The vector implements the log.
Log == INSTANCE EventLog WITH
         Entries <- Calls,
         log     <- events,
         lost    <- dropped,
         saved   <- IF file = "complete" THEN <<traces>> ELSE << >>

LogSafety == Log!Spec

-----------------------------------------------------------------------------
(* What the comments say and the code does not do.                         *)

\* interpol.rs:287, "the contents of the vector will be sorted [...] and then
\* serialized": MPI_Finalize's registration attempts to write the vector.
FinalizeSerializes == phase = "finalized" => traces # << >>
=============================================================================
