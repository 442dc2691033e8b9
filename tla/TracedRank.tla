----------------------------- MODULE TracedRank -----------------------------
(***************************************************************************)
(* One process, followed from its calls to the merged trace: the composi-  *)
(* tion of EventStore, which has the threads and the vector of a process,  *)
(* and TraceJob, which has the ranks, the barriers and the files of jobs.  *)
(*                                                                         *)
(* The process followed is rank Me of job Followed, any rank of any job,   *)
(* and the trace <<Me, Followed>> of TraceJob is the vector it saved.  The *)
(* two take together the steps that both of them have: those of            *)
(* MPI_Finalize, and the end of the process.  The other steps of the       *)
(* process are its own, and the other ranks and jobs are TraceJob's.       *)
(*                                                                         *)
(* In EventStore pc and file are the process's own; they are at and own    *)
(* here, for TraceJob has variables of these names.                        *)
(***************************************************************************)
EXTENDS TraceJob, Sequences

CONSTANTS Me, Followed,     \* the rank and the job of the process followed
          Threads, Main, MaxCalls, NoThread \* as in EventStore

ASSUME FollowedAssumption == Me \in Ranks /\ Followed \in Jobs
ASSUME ProcessAssumption ==
  Main \in Threads /\ NoThread \notin Threads /\ MaxCalls \in Nat \ {0}

VARIABLES status, phase, at, n, lock, events, cap, slot, dropped, traces, own

Process == INSTANCE EventStore WITH pc <- at, file <- own

store   == <<status, phase, at, n, lock, events, cap, slot, dropped, traces, own>>
allVars == <<vars, store>>

\* The job that is running is the one followed, and it has the rank.
Mine == job = Followed /\ Me \in Members

TracedInit == Init /\ Process!Init

-----------------------------------------------------------------------------
(* The process's own steps, of which the other ranks see nothing.          *)

\* MPI_Init and every other call before MPI_Finalize, on any thread.
Call(t) ==
  \/ Process!Enter(t) \/ Process!PmpiReturns(t) \/ Process!Lock(t)
  \/ Process!Reserve(t) \/ Process!ReserveFails(t)
  \/ Process!Push(t) \/ Process!Write(t)

Running ==
  /\ pc[Me] = "run"
  /\ Process!EnterInit \/ \E t \in Threads : Call(t)
  /\ UNCHANGED vars

\* The registration of MPI_Finalize's event, up to the push.
Registering ==
  /\ pc[Me] = "register"
  /\ Process!Lock(Main) \/ Process!Reserve(Main) \/ Process!Push(Main)
  /\ UNCHANGED vars

-----------------------------------------------------------------------------
(* The steps of MPI_Finalize, and the end of the process.                  *)

\* register_finalize, serialize, and their errors.
RegisterFinalize ==
  \/ Register(Me) /\ Process!Write(Main)
  \/ CreateDir(Me) /\ UNCHANGED store
  \/ Open(Me) /\ Process!Open(Main)
  \/ Write(Me) /\ Process!Save(Main)
  \/ /\ RegisterFails(Me)
     /\ Process!ReserveFails(Main) \/ Process!OpenFails(Main) \/ Process!SaveFails(Main)

Finalizing ==
  \/ Finalize(Me) /\ Process!EnterFinalize
  \/ LeaveBarrier1(Me) /\ Process!PmpiReturns(Main)
  \/ RegisterFinalize
  \/ (LeaveBarrier2(Me) \/ PmpiFinalize(Me)) /\ UNCHANGED store

\* The process is killed, or push finds no memory.
Dying ==
  \/ Crash(Me) /\ (Process!Kill \/ \E t \in Threads : Process!AllocAborts(t))
  \/ LauncherKills(Me) /\ Process!Kill

-----------------------------------------------------------------------------
(* The steps the process has no part in.                                   *)

OtherRank ==
  /\ \E r \in Members :
       /\ job = Followed => r # Me
       /\ Finalize(r) \/ Tracing(r) \/ Crash(r) \/ LauncherKills(r)
  /\ UNCHANGED store

\* The merge reads files only; a panic ends the process if it is rank 0.
Merge ==
  /\ SortAllTraces
  /\ IF Mine /\ pc'[Me] = "panicked" THEN Process!Kill ELSE UNCHANGED store

TracedNext ==
  \/ Mine /\ (Running \/ Registering \/ Finalizing \/ Dying)
  \/ OtherRank
  \/ Merge
  \/ (NextJob \/ Over) /\ UNCHANGED store

TracedSpec == TracedInit /\ [][TracedNext]_allVars

-----------------------------------------------------------------------------
(* Correctness.                                                            *)

\* The process and the job agree on how far MPI_Finalize is, on whether the
\* trace was written and on whether the process lives, so that neither of the
\* two ever waits for a step that the other does not have; and the rank enters
\* the second barrier with the mutex free and no thread in the tracer, whether
\* its registration went well or not.
MainAt(where) ==
  CASE where = "run"        -> {"app"} \cup Process!Pending
    [] where = "barrier1"   -> {"pmpi"}
    [] where = "register"   -> {"lock", "reserve", "push", "write"}
    [] where = "create_dir" -> {"open"}
    [] where = "open"       -> {"open"}
    [] where = "write"      -> {"save"}
    [] OTHER                -> {"app"}

InStep ==
  Mine =>
    /\ own = "complete" <=> Me \in wrote
    /\ status = "alive" <=> pc[Me] \notin {"dead", "panicked"}
    /\ status = "alive" =>
         /\ at[Main] \in MainAt(pc[Me])
         /\ phase = "finalizing" <=>
              pc[Me] \in {"barrier1", "register", "create_dir", "open", "write"}
         /\ phase = "finalized" <=>
              pc[Me] \in {"barrier2", "read_dir", "scan", "sorted", "merge", "pmpi", "done"}
         /\ phase = "finalized" =>
              lock = NoThread /\ \A t \in Threads : at[t] = "app"

\* Wherever the trace of the process is found, in its own file or in a merged
\* one, in this job or in any later one, it stands for every call the process
\* made but the ones reported as errors: neither the merge nor a later job nor
\* a failure ever puts part of a vector in its place.
Stands ==
  /\ own = "complete" /\ traces = events
  /\ Process!Logged \cup dropped = Process!Made

TraceStandsForCalls ==
  \A f \in Names : <<Me, Followed>> \in content[f] => Stands

\* When a job that nothing disturbed is over, every call of every one of its
\* processes (of Me, which is any) is in the merged trace or was reported.
CallsReachMergedTrace ==
  Mine /\ Undisturbed /\ JobOver =>
    Published /\ <<Me, Followed>> \in content[Merged] /\ Stands

\* From when rank 0 leaves the second barrier, no thread of any process of the
\* job makes a call, and nothing of what the process traced and wrote changes.
QuietWhileMerging ==
  [][Mine /\ pc[0] \in {"read_dir", "scan", "sorted", "merge", "pmpi", "done"} =>
       UNCHANGED <<n, events, dropped, traces, own>>]_allVars
=============================================================================
