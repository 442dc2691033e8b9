------------------------------ MODULE TraceJob ------------------------------
(***************************************************************************)
(* MPI_Finalize across the ranks of a job, and the directory interpol-tmp  *)
(* that one job leaves to the next.  Each rank writes its own trace file   *)
(* between the two barriers of MPI_Finalize; after the second, rank 0      *)
(* merges every trace file it finds.  Jobs of different sizes follow each  *)
(* other in one directory that all ranks share.                            *)
(*                                                                         *)
(* Vectors are abstract here (EventStore has them): rank r's trace of job  *)
(* j is <<r, j>>.  pc[r] is where rank r of the current job is:            *)
(*    run                       before MPI_Finalize                        *)
(*    barrier1, barrier2        in MPI_Finalize's barriers                 *)
(*    register                  registering the MPI_Finalize event         *)
(*    create_dir, open, write   in serialize                               *)
(*    read_dir, scan            in deserialize_all_traces (rank 0)         *)
(*    sorted, merge             in write_all_traces: before the opening of *)
(*                              the merged file, and at write!             *)
(*    pmpi                      at PMPI_Finalize                           *)
(*    done, dead, panicked      over                                       *)
(***************************************************************************)
EXTENDS Integers, FiniteSets

CONSTANTS MaxRanks,         \* bound: the ranks of the largest job
          MaxJobs,          \* bound: jobs run one after the other
          MaxFaults         \* bound: failures in one job

ASSUME BoundsAssumption ==
  MaxRanks \in Nat \ {0} /\ MaxJobs \in Nat \ {0} /\ MaxFaults \in Nat

Ranks  == 0..MaxRanks - 1
Jobs   == 1..MaxJobs
Traces == Ranks \X Jobs

\* The files of the directory: rank<r>_traces.json and interpol_traces.json.
Merged == -1
Names  == Ranks \cup {Merged}

VARIABLES job,              \* the current job
          size,             \* its number of ranks
          pc,               \* pc[r] : where rank r is
          arrived1,         \* the ranks that entered the first barrier
          arrived2,         \* the ranks that entered the second one
          dirExists,        \* interpol-tmp is there
          file,             \* file[f] : "none", "torn" or "complete"
          content,          \* content[f] : the traces in a complete file
          todo,             \* directory entries rank 0 has still to read
          acc,              \* all_traces, as far as rank 0 has read
          wrote,            \* ranks whose serialize succeeded in this job
          faults            \* faults[j] : failures that befell job j

vars == <<job, size, pc, arrived1, arrived2, dirExists, file, content, todo,
          acc, wrote, faults>>

Members   == 0..size - 1
Ended     == {"done", "dead", "panicked"}
Locations == {"run", "barrier1", "register", "create_dir", "open", "write",
              "barrier2", "read_dir", "scan", "sorted", "merge", "pmpi"} \cup Ended

TypeOK ==
  /\ job \in Jobs
  /\ size \in 1..MaxRanks
  /\ pc \in [Ranks -> Locations]
  /\ arrived1 \subseteq Members /\ arrived2 \subseteq Members
  /\ dirExists \in BOOLEAN
  /\ file \in [Names -> {"none", "torn", "complete"}]
  /\ content \in [Names -> SUBSET Traces]
  /\ todo \subseteq Names
  /\ acc \subseteq Traces
  /\ wrote \subseteq Members
  /\ faults \in [Jobs -> 0..MaxFaults]

Init ==
  /\ job = 1
  /\ size \in 1..MaxRanks
  /\ pc = [r \in Ranks |-> "run"]
  /\ arrived1 = {} /\ arrived2 = {}
  /\ dirExists = FALSE
  /\ file = [f \in Names |-> "none"]
  /\ content = [f \in Names |-> {}]
  /\ todo = {} /\ acc = {}
  /\ wrote = {}
  /\ faults = [j \in Jobs |-> 0]

Goto(r, where) == pc' = [pc EXCEPT ![r] = where]

Directory == <<dirExists, file, content>>
Merging   == <<todo, acc>>

\* A file gets a new state, and in it these traces.
Put(f, state, traces) ==
  /\ file' = [file EXCEPT ![f] = state]
  /\ content' = [content EXCEPT ![f] = traces]

\* A failure befalls the current job.
Fault ==
  /\ faults[job] < MaxFaults
  /\ faults' = [faults EXCEPT ![job] = @ + 1]

-----------------------------------------------------------------------------
(* MPI_Finalize up to the second barrier, on every rank.                   *)

\* The application calls MPI_Finalize, which enters its first barrier.
Finalize(r) ==
  /\ pc[r] = "run"
  /\ arrived1' = arrived1 \cup {r}
  /\ Goto(r, "barrier1")
  /\ UNCHANGED <<job, size, arrived2, Directory, Merging, wrote, faults>>

\* A barrier lets a rank go once every rank of the job has entered it.
LeaveBarrier1(r) ==
  /\ pc[r] = "barrier1"
  /\ arrived1 = Members
  /\ Goto(r, "register")
  /\ UNCHANGED <<job, size, arrived1, arrived2, Directory, Merging, wrote, faults>>

\* register_mpi_call returns, having printed its error if there is one, and
\* the second barrier is entered.
EnterBarrier2(r) ==
  /\ arrived2' = arrived2 \cup {r}
  /\ Goto(r, "barrier2")

Register(r) ==
  /\ pc[r] = "register"
  /\ Goto(r, "create_dir")
  /\ UNCHANGED <<job, size, arrived1, arrived2, Directory, Merging, wrote, faults>>

CreateDir(r) ==
  /\ pc[r] = "create_dir"
  /\ dirExists' = TRUE
  /\ Goto(r, "open")
  /\ UNCHANGED <<job, size, arrived1, arrived2, file, content, Merging, wrote, faults>>

\* Opening truncates whatever an earlier job left under the name.
Open(r) ==
  /\ pc[r] = "open"
  /\ Put(r, "torn", {})
  /\ Goto(r, "write")
  /\ UNCHANGED <<job, size, arrived1, arrived2, dirExists, Merging, wrote, faults>>

Write(r) ==
  /\ pc[r] = "write"
  /\ Put(r, "complete", {<<r, job>>})
  /\ wrote' = wrote \cup {r}
  /\ EnterBarrier2(r)
  /\ UNCHANGED <<job, size, arrived1, dirExists, Merging, faults>>

\* Mutant: the error ends the wrapper, too, before its second barrier.
RegisterFailsReturns(r) ==
  /\ pc[r] \in {"register", "create_dir", "open", "write"}
  /\ Fault
  /\ Goto(r, "pmpi")
  /\ UNCHANGED <<job, size, arrived1, arrived2, Directory, Merging, wrote>>

\* The reservation for the event, the directory, the opening or the writing
\* fails: the error ends register_finalize, and the file stays as it is.
RegisterFails(r) ==
  /\ pc[r] \in {"register", "create_dir", "open", "write"}
  /\ Fault
  /\ EnterBarrier2(r)
  /\ UNCHANGED <<job, size, arrived1, Directory, Merging, wrote>>

\* Mutant: rank 0 does not wait for the others.
LeaveBarrier2Early(r) ==
  /\ pc[r] = "barrier2"
  /\ r = 0 \/ arrived2 = Members
  /\ Goto(r, IF r = 0 THEN "read_dir" ELSE "pmpi")
  /\ UNCHANGED <<job, size, arrived1, arrived2, Directory, Merging, wrote, faults>>

\* Only rank 0 merges.
LeaveBarrier2(r) ==
  /\ pc[r] = "barrier2"
  /\ arrived2 = Members
  /\ Goto(r, IF r = 0 THEN "read_dir" ELSE "pmpi")
  /\ UNCHANGED <<job, size, arrived1, arrived2, Directory, Merging, wrote, faults>>

-----------------------------------------------------------------------------
(* sort_all_traces, on rank 0.                                             *)

ReadDir ==
  /\ pc[0] = "read_dir"
  /\ dirExists
  /\ todo' = {f \in Names : file[f] # "none"}
  /\ acc' = {}
  /\ Goto(0, "scan")
  /\ UNCHANGED <<job, size, arrived1, arrived2, Directory, wrote, faults>>

\* Mutant: the merged file is read like the others, not removed.
ReadMerged ==
  /\ pc[0] = "scan"
  /\ Merged \in todo
  /\ acc' = acc \cup content[Merged]
  /\ todo' = todo \ {Merged}
  /\ UNCHANGED <<job, size, pc, arrived1, arrived2, Directory, wrote, faults>>

\* The entry is the merged file of an earlier job.
RemoveMerged ==
  /\ pc[0] = "scan"
  /\ Merged \in todo
  /\ Put(Merged, "none", {})
  /\ todo' = todo \ {Merged}
  /\ UNCHANGED <<job, size, pc, arrived1, arrived2, dirExists, acc, wrote, faults>>

\* Mutant: each file replaces what the ones before it gave.
ReadTracesOver(f) ==
  /\ pc[0] = "scan"
  /\ f \in todo \ {Merged}
  /\ file[f] = "complete"
  /\ acc' = content[f]
  /\ todo' = todo \ {f}
  /\ UNCHANGED <<job, size, pc, arrived1, arrived2, Directory, wrote, faults>>

\* The entry is a trace file, whichever job wrote it.
ReadTraces(f) ==
  /\ pc[0] = "scan"
  /\ f \in todo \ {Merged}
  /\ file[f] = "complete"
  /\ acc' = acc \cup content[f]
  /\ todo' = todo \ {f}
  /\ UNCHANGED <<job, size, pc, arrived1, arrived2, Directory, wrote, faults>>

\* No entry is left; the events are sorted and serialized, in memory.
SortTraces ==
  /\ pc[0] = "scan"
  /\ todo = {}
  /\ Goto(0, "sorted")
  /\ UNCHANGED <<job, size, arrived1, arrived2, Directory, Merging, wrote, faults>>

Panic ==
  /\ Goto(0, "panicked")
  /\ UNCHANGED <<job, size, arrived1, arrived2, Directory, Merging, wrote>>

\* The directory is missing, an entry is not a complete trace ...
ScanPanics ==
  /\ \/ pc[0] = "read_dir" /\ ~dirExists
     \/ pc[0] = "scan" /\ \E f \in todo \ {Merged} : file[f] = "torn"
  /\ Panic
  /\ UNCHANGED faults

\* ... or reading the directory, reading a file or removing one fails.
ScanFails ==
  /\ pc[0] = "read_dir" \/ (pc[0] = "scan" /\ todo # {})
  /\ Fault
  /\ Panic

OpenMerged ==
  /\ pc[0] = "sorted"
  /\ Put(Merged, "torn", {})
  /\ Goto(0, "merge")
  /\ UNCHANGED <<job, size, arrived1, arrived2, dirExists, Merging, wrote, faults>>

WriteMerged ==
  /\ pc[0] = "merge"
  /\ Put(Merged, "complete", acc)
  /\ Goto(0, "pmpi")
  /\ UNCHANGED <<job, size, arrived1, arrived2, dirExists, Merging, wrote, faults>>

\* Mutant: a merged file that could not be written is opened again.
WriteMergedRetried ==
  /\ pc[0] \in {"sorted", "merge"}
  /\ faults[job] < MaxFaults
  /\ Goto(0, "sorted")
  /\ UNCHANGED <<job, size, arrived1, arrived2, Directory, Merging, wrote, faults>>

\* An error of write_all_traces is printed, and MPI_Finalize goes on.
WriteMergedFails ==
  /\ pc[0] \in {"sorted", "merge"}
  /\ Fault
  /\ Goto(0, "pmpi")
  /\ UNCHANGED <<job, size, arrived1, arrived2, Directory, Merging, wrote>>

PmpiFinalize(r) ==
  /\ pc[r] = "pmpi"
  /\ Goto(r, "done")
  /\ UNCHANGED <<job, size, arrived1, arrived2, Directory, Merging, wrote, faults>>

-----------------------------------------------------------------------------
(* Around the library.                                                     *)

\* A rank is killed, or calls abort, wherever it is.
Crash(r) ==
  /\ pc[r] \notin Ended
  /\ Fault
  /\ Goto(r, "dead")
  /\ UNCHANGED <<job, size, arrived1, arrived2, Directory, Merging, wrote>>

\* mpirun kills the ranks of a job one of whose ranks ended badly.
LauncherKills(r) ==
  /\ pc[r] \notin Ended
  /\ \E q \in Members : pc[q] \in {"dead", "panicked"}
  /\ Goto(r, "dead")
  /\ UNCHANGED <<job, size, arrived1, arrived2, Directory, Merging, wrote, faults>>

JobOver == \A r \in Members : pc[r] \in Ended

\* Mutant: barriers remember the ranks of the job before.
NextJobStale ==
  /\ JobOver
  /\ job < MaxJobs
  /\ job' = job + 1
  /\ size' \in 1..MaxRanks
  /\ pc' = [r \in Ranks |-> "run"]
  /\ todo' = {} /\ acc' = {}
  /\ wrote' = {}
  /\ UNCHANGED <<arrived1, arrived2, Directory, faults>>

\* Another job, of any size, is run in the same directory.
NextJob ==
  /\ JobOver
  /\ job < MaxJobs
  /\ job' = job + 1
  /\ size' \in 1..MaxRanks
  /\ pc' = [r \in Ranks |-> "run"]
  /\ arrived1' = {} /\ arrived2' = {}
  /\ todo' = {} /\ acc' = {}
  /\ wrote' = {}
  /\ UNCHANGED <<Directory, faults>>

Over ==
  /\ JobOver
  /\ job = MaxJobs
  /\ UNCHANGED vars

\* What the library and PMPI do on rank r once MPI_Finalize is called.
Tracing(r) ==
  \/ LeaveBarrier1(r) \/ Register(r) \/ CreateDir(r) \/ Open(r) \/ Write(r)
  \/ RegisterFails(r) \/ LeaveBarrier2(r) \/ PmpiFinalize(r)

SortAllTraces ==
  \/ ReadDir \/ RemoveMerged \/ (\E f \in Ranks : ReadTraces(f)) \/ SortTraces
  \/ ScanPanics \/ ScanFails
  \/ OpenMerged \/ WriteMerged \/ WriteMergedFails

Next ==
  \/ \E r \in Members :
       Finalize(r) \/ Tracing(r) \/ Crash(r) \/ LauncherKills(r)
  \/ SortAllTraces
  \/ NextJob \/ Over

Safety == Init /\ [][Next]_vars

\* Ranks keep running, and mpirun cleans up; applications owe nothing, not
\* even to call MPI_Finalize.
Fairness ==
  /\ \A r \in Ranks : /\ WF_vars(r \in Members /\ Tracing(r))
                      /\ WF_vars(r \in Members /\ LauncherKills(r))
  /\ WF_vars(SortAllTraces)

Spec == Safety /\ Fairness

-----------------------------------------------------------------------------
(* Correctness.                                                            *)

\* While rank 0 reads and merges, no rank's file changes: the second barrier
\* keeps every serialize before the first read.
FilesFrozen ==
  [][pc[0] \in {"scan", "sorted", "merge"} =>
       \A r \in Ranks : UNCHANGED <<file[r], content[r]>>]_vars

\* Rank 0 is past its merge and its merged file was written.
Published == pc[0] \in {"pmpi", "done"} /\ file[Merged] = "complete"

\* A merged file holds the traces of all the rank files in the directory, no
\* trace of a rank whose serialize succeeded is missing from it, and a trace
\* of an earlier job is in it only for a rank that did not write one now.
MergedExact ==
  Published =>
    /\ content[Merged] = UNION {content[r] : r \in Ranks}
    /\ \A r \in wrote : <<r, job>> \in content[Merged]
    /\ \A t \in content[Merged] : t[2] # job => t[1] \notin wrote

\* A job without a failure of its own, in a directory without a torn file of a
\* rank that the job does not have, loses no rank and ends with a complete
\* merged file that holds the trace of each of its ranks.  (A torn file of one
\* of its own ranks is harmless: it is rewritten before rank 0 reads it.)
Undisturbed ==
  /\ faults[job] = 0
  /\ \A r \in Ranks \ Members : file[r] # "torn"

UndisturbedWorks ==
  Undisturbed =>
    /\ \A r \in Members : pc[r] \notin {"dead", "panicked"}
    /\ JobOver => Published /\ \A r \in Members : <<r, job>> \in content[Merged]

\* The ranks never wait for each other in a circle, or for one that returned
\* early: in a job whose ranks all called MPI_Finalize, and of which none
\* ended badly, somebody can go on.  (If one did end badly, mpirun can.)
Waiting(r) ==
  \/ pc[r] = "barrier1" /\ arrived1 # Members
  \/ pc[r] = "barrier2" /\ arrived2 # Members
  \/ pc[r] = "scan" /\ \E f \in todo : file[f] = "none"

NeverStuck ==
  (\A r \in Members : pc[r] \notin {"run", "dead", "panicked"}) =>
    JobOver \/ \E r \in Members : pc[r] # "done" /\ ~ Waiting(r)

\* Nothing is done twice or tried again: each step of a job takes one rank
\* closer to its end or one file off rank 0's list, so that a job has finitely
\* many steps, whatever fails.  With NeverStuck this is why MPI_Finalize ends.
Stage(where) ==
  CASE where = "run"        -> 0   [] where = "barrier1" -> 1
    [] where = "register"   -> 2   [] where = "create_dir" -> 3
    [] where = "open"       -> 4   [] where = "write"    -> 5
    [] where = "barrier2"   -> 6   [] where = "read_dir" -> 7
    [] where = "scan"       -> 8   [] where = "sorted"   -> 9
    [] where = "merge"      -> 10  [] where = "pmpi"     -> 11
    [] OTHER                -> 12

Advances ==
  \E r \in Members : /\ Stage(pc[r]) < Stage(pc'[r])
                     /\ \A q \in Ranks \ {r} : pc'[q] = pc[q]

Progress ==
  \/ Advances /\ (todo' = todo \/ todo = {})
  \/ pc' = pc /\ \E f \in todo : todo' = todo \ {f}

Forward == [][job' = job => Progress]_vars

\* MPI_Finalize ends in a job whose ranks all called it, whatever fails: no
\* rank waits for ever in a barrier for one that returned early or died.
FinalizeEnds == (\A r \in Members : pc[r] # "run") ~> JobOver

\* The files implement a directory whose published trace is taken in one
\* instant, though rank 0 reads the files one by one.
Dir == INSTANCE TraceDir WITH
         Slots     <- Ranks,
         slot      <- [r \in Ranks |-> content[r]],
         published <- IF file[Merged] = "complete" THEN <<content[Merged]>>
                                                    ELSE << >>

DirSafety == Dir!Spec

-----------------------------------------------------------------------------
(* What the documentation says and the code does not do.                   *)

\* scripts/README.md:3, the library "automatically sorts and aggregates the
\* traces outputed by each rank": a merged file holds traces of the ranks of
\* its own job only.
OnlyThisJob == Published => \A t \in content[Merged] : t[2] = job
=============================================================================
