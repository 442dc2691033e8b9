--------------------------- MODULE TraceJobProofs ---------------------------
(***************************************************************************)
(* Proofs about TraceJob, for every number of ranks, jobs and failures.    *)
(***************************************************************************)
EXTENDS TraceJob, TLAPS

\* Where rank 0 merges, and where a rank is once it has entered barrier 2.
MergeLocs == {"read_dir", "scan", "sorted", "merge"}
After2    == {"barrier2", "pmpi"} \cup MergeLocs \cup Ended

\* Who can be where: the second barrier separates the writers of rank files
\* from the merge, and only rank 0 merges.
BarrierInv ==
  /\ \A r \in Ranks \ Members : pc[r] = "run"
  /\ \A r \in arrived2 : pc[r] \in After2
  /\ wrote \subseteq arrived2
  /\ \A r \in Members : pc[r] = "barrier2" => r \in arrived2
  /\ \A r \in Members :
       pc[r] \in MergeLocs \cup {"pmpi", "done", "panicked"} => arrived2 = Members
  /\ \A r \in Ranks \ {0} : pc[r] \notin MergeLocs \cup {"panicked"}

\* What a file holds: nothing unless it is complete; one trace of its rank; the
\* current job's if the rank's serialize succeeded.
FileInv ==
  /\ \A f \in Names : file[f] # "complete" => content[f] = {}
  /\ \A r \in Ranks : file[r] = "complete" => \E j \in Jobs : content[r] = {<<r, j>>}
  /\ \A r \in wrote : file[r] = "complete" /\ content[r] = {<<r, job>>}

\* What rank 0 has read, and what has become of the merged file.
ScanInv ==
  /\ pc[0] = "scan" =>
       /\ acc = UNION {content[r] : r \in Ranks \ todo}
       /\ Merged \notin todo => file[Merged] = "none"
  /\ pc[0] \in {"sorted", "merge"} =>
       /\ acc = UNION {content[r] : r \in Ranks}
       /\ file[Merged] # "complete"
  /\ Published => content[Merged] = UNION {content[r] : r \in Ranks}

\* How an undisturbed job gets through.
Clean ==
  /\ \A r \in Members : pc[r] \notin {"dead", "panicked"}
  /\ \A r \in Members :
       pc[r] \in {"open", "write", "barrier2"} \cup MergeLocs => dirExists
  /\ \A r \in Members : pc[r] \in After2 => r \in wrote
  /\ pc[0] \in {"pmpi", "done"} => file[Merged] = "complete"

CleanInv == Undisturbed => Clean

IInv == TypeOK /\ BarrierInv /\ FileInv /\ ScanInv /\ CleanInv

USE BoundsAssumption

-----------------------------------------------------------------------------

\* Rank 0 belongs to every job, and members are ranks.
LEMMA MemberFacts ==
  ASSUME TypeOK
  PROVE  /\ 0 \in Members /\ Members \subseteq Ranks /\ Ranks \subseteq Names
         /\ Merged \notin Ranks /\ Merged \in Names
BY DEF TypeOK, Members, Ranks, Names, Merged

\* A rank before the second barrier keeps rank 0 out of everything after it.
LEMMA BarrierSeparates ==
  ASSUME IInv, NEW r \in Members, pc[r] \notin After2
  PROVE  /\ pc[0] \notin MergeLocs \cup {"pmpi", "done", "panicked"}
         /\ r \notin arrived2
         /\ r \in Ranks /\ 0 \in Members /\ 0 \in Ranks
<1>1. r \notin arrived2 /\ arrived2 # Members
  BY DEF IInv, BarrierInv
<1>2. 0 \in Members /\ Members \subseteq Ranks
  BY MemberFacts DEF IInv
<1> QED BY <1>1, <1>2 DEF IInv, BarrierInv

LEMMA InitIInv == Init => IInv
<1> SUFFICES ASSUME Init PROVE IInv
  OBVIOUS
<1>1. TypeOK
  <2>1. job \in Jobs /\ faults \in [Jobs -> 0..MaxFaults]
    BY DEF Init, Jobs
  <2>2. /\ pc \in [Ranks -> Locations]
        /\ file \in [Names -> {"none", "torn", "complete"}]
        /\ content \in [Names -> SUBSET Traces]
    BY DEF Init, Locations
  <2> QED BY <2>1, <2>2 DEF Init, TypeOK
<1>2. 0 \in Ranks /\ Merged \in Names /\ Ranks \subseteq Names /\ Members \subseteq Ranks
  BY <1>1, MemberFacts
<1>3. FileInv /\ ScanInv
  BY <1>2 DEF Init, ScanInv, FileInv, Published
<1>4. BarrierInv /\ CleanInv
  BY <1>2 DEF Init, BarrierInv, CleanInv, Clean, MergeLocs, After2, Ended
<1> QED BY <1>1, <1>3, <1>4 DEF IInv

-----------------------------------------------------------------------------
(* One rank moves.                                                         *)

\* It may if it does not undo its arrival at the second barrier, goes beyond
\* that barrier only when all have arrived, and merges only if it is rank 0.
LEMMA MoveKeepsBarrier ==
  ASSUME TypeOK, BarrierInv, NEW r \in Members, NEW to, Goto(r, to), size' = size,
         arrived2' = IF to = "barrier2" THEN arrived2 \cup {r} ELSE arrived2,
         wrote' \subseteq arrived2',
         r \in arrived2' => to \in After2,
         to \in MergeLocs \cup {"pmpi", "done", "panicked"} => arrived2 = Members,
         to \in MergeLocs \cup {"panicked"} => r = 0
  PROVE  BarrierInv'
<1>1. Members' = Members /\ Members \subseteq Ranks
  BY MemberFacts DEF Members
<1>2. pc'[r] = to /\ \A q \in Ranks : q # r => pc'[q] = pc[q]
  BY <1>1 DEF TypeOK, Goto
<1>3. arrived2 \subseteq arrived2' /\ arrived2' \subseteq Members
  BY DEF TypeOK
<1>4. \A q \in Ranks \ Members' : pc'[q] = "run"
  BY <1>1, <1>2 DEF BarrierInv
<1>5. \A q \in arrived2' : pc'[q] \in After2
  BY <1>1, <1>2, <1>3 DEF BarrierInv
<1>6. \A q \in Members' : pc'[q] = "barrier2" => q \in arrived2'
  BY <1>1, <1>2, <1>3 DEF BarrierInv
<1>7. ASSUME NEW q \in Members',
             pc'[q] \in MergeLocs \cup {"pmpi", "done", "panicked"}
      PROVE  arrived2' = Members'
  BY <1>1, <1>2, <1>3, <1>7 DEF BarrierInv
<1>8. \A q \in Ranks \ {0} : pc'[q] \notin MergeLocs \cup {"panicked"}
  BY <1>1, <1>2 DEF BarrierInv
<1> QED BY <1>4, <1>5, <1>6, <1>7, <1>8 DEF BarrierInv

\* It may, in an undisturbed job, if it does not end badly, has made the
\* directory before it opens its file, has written the file before it arrives
\* at the second barrier, and has written the merged file before PMPI_Finalize.
LEMMA MoveKeepsClean ==
  ASSUME TypeOK, Clean, NEW r \in Members, NEW to, Goto(r, to), size' = size,
         to \notin {"dead", "panicked"},
         dirExists => dirExists', wrote \subseteq wrote',
         to \in {"open", "write", "barrier2"} \cup MergeLocs => dirExists',
         to \in After2 => r \in wrote',
         r = 0 /\ to \in {"pmpi", "done"} => file'[Merged] = "complete",
         r # 0 => file'[Merged] = file[Merged]
  PROVE  Clean'
<1>1. Members' = Members /\ Members \subseteq Ranks /\ 0 \in Ranks
  BY MemberFacts DEF Members
<1>2. pc'[r] = to /\ \A q \in Ranks : q # r => pc'[q] = pc[q]
  BY <1>1 DEF TypeOK, Goto
<1>3. \A q \in Members' : pc'[q] \notin {"dead", "panicked"}
  BY <1>1, <1>2 DEF Clean
<1>4. \A q \in Members' :
        pc'[q] \in {"open", "write", "barrier2"} \cup MergeLocs => dirExists'
  BY <1>1, <1>2 DEF Clean
<1>5. \A q \in Members' : pc'[q] \in After2 => q \in wrote'
  BY <1>1, <1>2 DEF Clean
<1>6. pc'[0] \in {"pmpi", "done"} => file'[Merged] = "complete"
  BY <1>1, <1>2 DEF Clean
<1> QED BY <1>3, <1>4, <1>5, <1>6 DEF Clean

\* The moves of a rank before the second barrier that leave its file alone.
LEMMA EarlyPreserves ==
  ASSUME IInv, NEW r \in Members,
         Finalize(r) \/ LeaveBarrier1(r) \/ Register(r) \/ CreateDir(r)
  PROVE  IInv'
<1> USE DEF Goto, Directory, Merging
<1>1. /\ pc[r] \in {"run", "barrier1", "register", "create_dir"}
      /\ UNCHANGED <<job, size, arrived2, file, content, todo, acc, wrote, faults>>
      /\ dirExists => dirExists'
  BY DEF Finalize, LeaveBarrier1, Register, CreateDir
<1>2. PICK to \in {"barrier1", "register", "create_dir", "open"} :
        /\ Goto(r, to)
        /\ to = "open" => dirExists'
  BY DEF Finalize, LeaveBarrier1, Register, CreateDir
<1>3. /\ pc[0] \notin MergeLocs \cup {"pmpi", "done", "panicked"}
      /\ r \in Ranks /\ 0 \in Ranks /\ r \notin arrived2
  BY <1>1, BarrierSeparates DEF After2, MergeLocs, Ended
<1>4. TypeOK'
  <2>1. arrived1' \subseteq Members
    BY DEF Finalize, LeaveBarrier1, Register, CreateDir, IInv, TypeOK
  <2>2. pc' \in [Ranks -> Locations]
    BY <1>2 DEF IInv, TypeOK, Locations
  <2>3. dirExists' \in BOOLEAN
    BY DEF Finalize, LeaveBarrier1, Register, CreateDir, IInv, TypeOK
  <2> QED BY <1>1, <2>1, <2>2, <2>3 DEF IInv, TypeOK, Members
<1>5. BarrierInv'
  <2>1. wrote' \subseteq arrived2' /\ TypeOK /\ BarrierInv
    BY <1>1 DEF IInv, BarrierInv
  <2> QED BY <1>1, <1>2, <1>3, <2>1, MoveKeepsBarrier DEF MergeLocs
<1>6. FileInv'
  BY <1>1 DEF IInv, FileInv
<1>7. ScanInv'
  BY <1>1, <1>2, <1>3 DEF IInv, TypeOK, ScanInv, Published, MergeLocs
<1>8. CleanInv'
  <2>1. Undisturbed' => Undisturbed
    BY <1>1 DEF Undisturbed, Members
  <2>2. Clean => Clean'
    <3>1. SUFFICES ASSUME Clean PROVE Clean'
      OBVIOUS
    <3>2. to \notin MergeLocs \cup After2
      BY DEF MergeLocs, After2, Ended
    <3> QED BY <1>1, <1>2, <1>3, <3>1, <3>2, MoveKeepsClean DEF IInv, After2
  <2> QED BY <2>1, <2>2 DEF IInv, CleanInv
<1> QED BY <1>4, <1>5, <1>6, <1>7, <1>8 DEF IInv

\* The moves that change a rank's own file.
LEMMA WriterPreserves ==
  ASSUME IInv, NEW r \in Members, Open(r) \/ Write(r)
  PROVE  IInv'
<1> USE DEF Goto, Merging, Put
<1>1. /\ pc[r] \in {"open", "write"}
      /\ UNCHANGED <<job, size, arrived1, dirExists, todo, acc, faults>>
  BY DEF Open, Write
<1>2. /\ pc[0] \notin MergeLocs \cup {"pmpi", "done", "panicked"}
      /\ r \in Ranks /\ 0 \in Ranks /\ r \notin arrived2
      /\ Ranks \subseteq Names /\ Merged \notin Ranks
  BY <1>1, BarrierSeparates, MemberFacts DEF After2, MergeLocs, Ended, IInv
<1>3. \/ /\ Goto(r, "write") /\ Put(r, "torn", {})
         /\ UNCHANGED <<arrived2, wrote>>
         /\ pc[r] = "open"
      \/ /\ Goto(r, "barrier2") /\ Put(r, "complete", {<<r, job>>})
         /\ arrived2' = arrived2 \cup {r} /\ wrote' = wrote \cup {r}
         /\ pc[r] = "write"
  BY DEF Open, Write, EnterBarrier2
<1>4. TypeOK'
  <2>1. {<<r, job>>} \subseteq Traces
    BY <1>2 DEF IInv, TypeOK, Traces
  <2>2. /\ pc' \in [Ranks -> Locations]
        /\ file' \in [Names -> {"none", "torn", "complete"}]
        /\ content' \in [Names -> SUBSET Traces]
    BY <1>3, <2>1 DEF IInv, TypeOK, Locations
  <2>3. Members' = Members /\ arrived2' \subseteq Members /\ wrote' \subseteq Members
    BY <1>1, <1>3 DEF IInv, TypeOK, Members
  <2> QED BY <1>1, <2>2, <2>3 DEF IInv, TypeOK
<1>5. BarrierInv'
  <2>1. wrote' \subseteq arrived2' /\ TypeOK /\ BarrierInv
    BY <1>3 DEF IInv, BarrierInv
  <2>2. CASE Goto(r, "write") /\ UNCHANGED <<arrived2, wrote>>
    BY <1>1, <1>2, <2>1, <2>2, MoveKeepsBarrier DEF MergeLocs
  <2>3. CASE Goto(r, "barrier2") /\ arrived2' = arrived2 \cup {r}
    BY <1>1, <2>1, <2>3, MoveKeepsBarrier DEF MergeLocs, After2
  <2> QED BY <1>3, <2>2, <2>3
<1>6. pc[0]' \notin MergeLocs \cup {"pmpi", "done", "panicked"}
  BY <1>2, <1>3 DEF IInv, TypeOK, MergeLocs
<1>7. FileInv'
  <2>2. CASE Put(r, "torn", {}) /\ wrote' = wrote
    <3>1. r \notin wrote
      BY <1>2 DEF IInv, BarrierInv
    <3> QED BY <1>1, <1>2, <2>2, <3>1 DEF IInv, TypeOK, FileInv
  <2>3. CASE Put(r, "complete", {<<r, job>>}) /\ wrote' = wrote \cup {r}
    <3>1. /\ \A f \in Names \ {r} : file'[f] = file[f] /\ content'[f] = content[f]
          /\ file'[r] = "complete" /\ content'[r] = {<<r, job>>} /\ job \in Jobs
      BY <1>2, <2>3 DEF IInv, TypeOK
    <3>2. wrote \subseteq Ranks
      BY <1>2, MemberFacts DEF IInv, TypeOK
    <3> QED BY <1>1, <1>2, <2>3, <3>1, <3>2 DEF IInv, FileInv
  <2> QED BY <1>3, <2>2, <2>3
<1>8. ScanInv'
  BY <1>6 DEF ScanInv, Published, MergeLocs
<1>9. CleanInv'
  <2>1. \A f \in Ranks \ Members : file'[f] = file[f]
    BY <1>2, <1>3 DEF IInv, TypeOK
  <2>2. Undisturbed' => Undisturbed
    BY <1>1, <2>1 DEF Undisturbed, Members
  <2>3. ASSUME Clean PROVE Clean'
    <3>1. dirExists' /\ file'[Merged] = file[Merged]
      <4>1. dirExists
        BY <1>1, <2>3 DEF Clean
      <4>2. file'[Merged] = file[Merged]
        BY <1>2, <1>3, MemberFacts DEF IInv, TypeOK
      <4> QED BY <1>1, <4>1, <4>2
    <3>2. CASE Goto(r, "write") /\ wrote' = wrote
      BY <1>1, <2>3, <3>1, <3>2, MoveKeepsClean DEF IInv, MergeLocs, After2, Ended
    <3>3. CASE Goto(r, "barrier2") /\ wrote' = wrote \cup {r}
      BY <1>1, <2>3, <3>1, <3>3, MoveKeepsClean DEF IInv, MergeLocs, After2, Ended
    <3> QED BY <1>3, <3>2, <3>3
  <2> QED BY <2>2, <2>3 DEF IInv, CleanInv
<1> QED BY <1>4, <1>5, <1>7, <1>8, <1>9 DEF IInv

\* A failed serialize, and a crash or a kill: the files stay as they are.
LEMMA FailurePreserves ==
  ASSUME IInv, NEW r \in Members,
         RegisterFails(r) \/ Crash(r) \/ LauncherKills(r)
  PROVE  IInv'
<1> USE DEF Directory, Merging
<1>1. UNCHANGED <<job, size, arrived1, dirExists, file, content, todo, acc, wrote>>
  BY DEF RegisterFails, Crash, LauncherKills
<1>2. /\ r \in Ranks /\ 0 \in Members /\ Members \subseteq Ranks
      /\ Members' = Members
  BY <1>1, MemberFacts DEF IInv, Members
<1>3. \/ /\ Goto(r, "barrier2") /\ arrived2' = arrived2 \cup {r}
         /\ pc[r] \in {"register", "create_dir", "open", "write"}
      \/ Goto(r, "dead") /\ arrived2' = arrived2 /\ pc[r] \notin Ended
  BY DEF RegisterFails, Crash, LauncherKills, EnterBarrier2
<1>4. ~ Undisturbed' \/ ~ Undisturbed \/ ~ Clean
  <2>1. CASE RegisterFails(r) \/ Crash(r)
    <3>1. faults'[job] = faults[job] + 1
      BY <2>1 DEF RegisterFails, Crash, Fault, IInv, TypeOK
    <3> QED BY <1>1, <3>1 DEF Undisturbed, IInv, TypeOK
  <2>2. CASE LauncherKills(r)
    BY <2>2 DEF LauncherKills, Clean
  <2> QED BY <2>1, <2>2
<1>5. TypeOK'
  <2>1. faults' \in [Jobs -> 0..MaxFaults]
    BY DEF RegisterFails, Crash, LauncherKills, Fault, IInv, TypeOK
  <2>2. pc' \in [Ranks -> Locations] /\ arrived2' \subseteq Members
    BY <1>3 DEF Goto, IInv, TypeOK, Locations, Ended
  <2> QED BY <1>1, <1>2, <2>1, <2>2 DEF IInv, TypeOK
<1>6. BarrierInv'
  <2>1. TypeOK /\ BarrierInv /\ wrote' \subseteq arrived2'
    BY <1>1, <1>3 DEF IInv, BarrierInv
  <2>2. CASE Goto(r, "barrier2") /\ arrived2' = arrived2 \cup {r}
    BY <1>1, <2>1, <2>2, MoveKeepsBarrier DEF MergeLocs, After2
  <2>3. CASE Goto(r, "dead") /\ arrived2' = arrived2
    BY <1>1, <2>1, <2>3, MoveKeepsBarrier DEF MergeLocs, After2, Ended
  <2> QED BY <1>3, <2>2, <2>3
<1>7. FileInv'
  BY <1>1 DEF IInv, FileInv
<1>8. ScanInv'
  <2>1. /\ pc'[0] \in {"scan", "sorted", "merge", "pmpi", "done"} => pc'[0] = pc[0]
    BY <1>2, <1>3 DEF Goto, IInv, TypeOK
  <2> QED BY <1>1, <2>1 DEF IInv, ScanInv, Published
<1>9. CleanInv'
  <2>1. Undisturbed' => Undisturbed
    <3>1. faults'[job] >= faults[job] /\ faults[job] \in Nat /\ faults'[job] \in Nat
      BY DEF RegisterFails, Crash, LauncherKills, Fault, IInv, TypeOK
    <3> QED BY <1>1, <1>2, <3>1 DEF Undisturbed
  <2> QED BY <1>4, <2>1 DEF IInv, CleanInv
<1> QED BY <1>5, <1>6, <1>7, <1>8, <1>9 DEF IInv

\* Leaving the second barrier, and PMPI_Finalize.
LEMMA LatePreserves ==
  ASSUME IInv, NEW r \in Members, LeaveBarrier2(r) \/ PmpiFinalize(r)
  PROVE  IInv'
<1> USE DEF Directory, Merging
<1>1. /\ UNCHANGED <<job, size, arrived1, arrived2, dirExists, file, content>>
      /\ UNCHANGED <<todo, acc, wrote, faults>>
  BY DEF LeaveBarrier2, PmpiFinalize
<1>2. /\ r \in Ranks /\ 0 \in Members /\ Members \subseteq Ranks
      /\ Members' = Members
  BY <1>1, MemberFacts DEF IInv, Members
<1>3. PICK to \in {"read_dir", "pmpi", "done"} :
        /\ Goto(r, to) /\ arrived2 = Members
        /\ to = "read_dir" => r = 0
        /\ to = "pmpi" => r # 0
        /\ to # "done" => pc[r] = "barrier2"
        /\ to = "done" => pc[r] = "pmpi"
  BY <1>2 DEF LeaveBarrier2, PmpiFinalize, IInv, BarrierInv
<1>4. TypeOK'
  <2>1. pc' \in [Ranks -> Locations]
    BY <1>3 DEF Goto, IInv, TypeOK, Locations, Ended
  <2> QED BY <1>1, <1>2, <2>1 DEF IInv, TypeOK
<1>5. BarrierInv'
  BY <1>1, <1>3, MoveKeepsBarrier DEF IInv, BarrierInv, MergeLocs, After2, Ended
<1>6. FileInv'
  BY <1>1 DEF IInv, FileInv
<1>7. ScanInv'
  <2>1. /\ pc'[0] \in {"scan", "sorted", "merge", "pmpi"} => pc'[0] = pc[0]
        /\ pc'[0] = "done" => pc[0] \in {"pmpi", "done"}
    BY <1>2, <1>3 DEF Goto, IInv, TypeOK
  <2> QED BY <1>1, <2>1 DEF IInv, ScanInv, Published
<1>8. CleanInv'
  <2>1. Undisturbed' => Undisturbed
    BY <1>1, <1>2 DEF Undisturbed
  <2>2. ASSUME Clean PROVE Clean'
    <3>1. r \in wrote /\ (pc[r] = "barrier2" => dirExists)
      BY <1>3, <2>2 DEF Clean, After2
    <3>2. r = 0 /\ to = "done" => file[Merged] = "complete"
      BY <1>3, <2>2 DEF Clean
    <3> QED BY <1>1, <1>3, <2>2, <3>1, <3>2, MoveKeepsClean DEF IInv, MergeLocs
  <2> QED BY <2>1, <2>2 DEF IInv, CleanInv
<1> QED BY <1>4, <1>5, <1>6, <1>7, <1>8 DEF IInv

-----------------------------------------------------------------------------
(* Rank 0 merges.                                                          *)

\* In an undisturbed job nothing makes rank 0 panic: it made the directory
\* itself, and every file it finds is complete.
LEMMA NoPanicUndisturbed ==
  ASSUME IInv, Undisturbed, ScanPanics
  PROVE  FALSE
<1>1. Clean /\ 0 \in Members /\ 0 \in Ranks
  BY MemberFacts DEF IInv, CleanInv
<1>2. ~ (pc[0] = "read_dir" /\ ~ dirExists)
  BY <1>1 DEF Clean, MergeLocs
<1>3. pc[0] = "scan"
  BY <1>2 DEF ScanPanics
<1>4. PICK f \in todo \ {Merged} : file[f] = "torn"
  BY <1>2 DEF ScanPanics
<1>5. f \in Ranks
  BY <1>4 DEF IInv, TypeOK, Names
<1>6. f \in Members
  BY <1>4, <1>5 DEF Undisturbed
<1>7. arrived2 = Members
  BY <1>1, <1>3 DEF IInv, BarrierInv, MergeLocs
<1>8. f \in wrote
  BY <1>1, <1>6, <1>7 DEF IInv, BarrierInv, Clean
<1> QED BY <1>4, <1>8 DEF IInv, FileInv

\* No step of the merge touches a rank's file, or leaves rank 0 before the
\* second barrier.
LEMMA MergeFrame ==
  ASSUME IInv, SortAllTraces
  PROVE  /\ UNCHANGED <<job, size, arrived1, arrived2, dirExists, wrote>>
         /\ pc[0] \in MergeLocs
         /\ \A f \in Ranks : file'[f] = file[f] /\ content'[f] = content[f]
         /\ \E to \in {"scan", "sorted", "merge", "pmpi", "panicked"} : Goto(0, to)
         /\ TypeOK'
<1> USE DEF Directory, Merging
<1>1. /\ 0 \in Members /\ 0 \in Ranks /\ Ranks \subseteq Names
      /\ Merged \in Names /\ Merged \notin Ranks
  BY MemberFacts DEF IInv
<1>2. UNCHANGED <<job, size, arrived1, arrived2, dirExists, wrote>>
  BY DEF SortAllTraces, ReadDir, RemoveMerged, ReadTraces, SortTraces, ScanPanics,
     ScanFails, Panic, OpenMerged, WriteMerged, WriteMergedFails
<1>3. pc[0] \in MergeLocs
  BY DEF SortAllTraces, ReadDir, RemoveMerged, ReadTraces, SortTraces, ScanPanics,
     ScanFails, Panic, OpenMerged, WriteMerged, WriteMergedFails, MergeLocs
<1>4. \/ UNCHANGED <<file, content>>
      \/ \E state \in {"none", "torn", "complete"}, traces \in SUBSET Traces :
           Put(Merged, state, traces)
  BY DEF SortAllTraces, ReadDir, RemoveMerged, ReadTraces, SortTraces, ScanPanics,
     ScanFails, Panic, OpenMerged, WriteMerged, WriteMergedFails, IInv, TypeOK
<1>5. /\ \A f \in Ranks : file'[f] = file[f] /\ content'[f] = content[f]
      /\ file' \in [Names -> {"none", "torn", "complete"}]
      /\ content' \in [Names -> SUBSET Traces]
  BY <1>1, <1>4 DEF IInv, TypeOK, Put
<1>6. \E to \in {"scan", "sorted", "merge", "pmpi", "panicked"} : Goto(0, to)
  <2>1. CASE RemoveMerged \/ \E f \in Ranks : ReadTraces(f)
    <3>1. pc' = pc /\ pc[0] = "scan"
      BY <2>1 DEF RemoveMerged, ReadTraces
    <3> QED BY <1>1, <3>1 DEF Goto, IInv, TypeOK
  <2>2. CASE ~ (RemoveMerged \/ \E f \in Ranks : ReadTraces(f))
    BY <2>2 DEF SortAllTraces, ReadDir, SortTraces, ScanPanics, ScanFails, Panic,
       OpenMerged, WriteMerged, WriteMergedFails
  <2> QED BY <2>1, <2>2
<1>7. todo' \subseteq Names /\ acc' \subseteq Traces
  BY <1>1 DEF SortAllTraces, ReadDir, RemoveMerged, ReadTraces, SortTraces,
     ScanPanics, ScanFails, Panic, OpenMerged, WriteMerged, WriteMergedFails, IInv,
     TypeOK
<1>8. faults' \in [Jobs -> 0..MaxFaults]
  BY DEF SortAllTraces, ReadDir, RemoveMerged, ReadTraces, SortTraces, ScanPanics,
     ScanFails, Panic, OpenMerged, WriteMerged, WriteMergedFails, IInv, TypeOK, Fault
<1>9. pc' \in [Ranks -> Locations]
  BY <1>6 DEF Goto, IInv, TypeOK, Locations, Ended
<1> QED BY <1>2, <1>3, <1>5, <1>6, <1>7, <1>8, <1>9 DEF IInv, TypeOK, Members

\* What rank 0 has read is what the files read so far hold, at every step.
LEMMA MergeScans ==
  ASSUME IInv, SortAllTraces
  PROVE  ScanInv' /\ FileInv'
<1> USE DEF Directory, Merging
<1>1. /\ 0 \in Members /\ 0 \in Ranks /\ Ranks \subseteq Names
      /\ Merged \in Names /\ Merged \notin Ranks
  BY MemberFacts DEF IInv
<1>2. /\ \A f \in Ranks : file'[f] = file[f] /\ content'[f] = content[f]
      /\ UNCHANGED <<job, wrote>> /\ wrote \subseteq Ranks
  BY MergeFrame, MemberFacts DEF IInv, TypeOK
<1>3. \A R \in SUBSET Ranks :
        UNION {content'[f] : f \in R} = UNION {content[f] : f \in R}
  BY <1>2
<1>4. ASSUME file'[Merged] # "complete" => content'[Merged] = {}
      PROVE  FileInv'
  <2>1. \A f \in Names : file'[f] # "complete" => content'[f] = {}
    BY <1>2, <1>4 DEF IInv, FileInv, Names
  <2> QED BY <1>2, <2>1 DEF IInv, FileInv
<1>5. CASE ReadDir
  <2>1. /\ pc'[0] = "scan" /\ UNCHANGED <<file, content>> /\ acc' = {}
        /\ todo' = {f \in Names : file[f] # "none"}
    BY <1>1, <1>5 DEF ReadDir, Goto, IInv, TypeOK
  <2>2. \A f \in Ranks \ todo' : content'[f] = {}
    BY <1>1, <2>1 DEF IInv, FileInv
  <2>3. ScanInv'
    BY <1>1, <2>1, <2>2 DEF ScanInv, Published
  <2> QED BY <1>4, <2>1, <2>3 DEF IInv, FileInv, Names
<1>6. CASE RemoveMerged
  <2>1. /\ pc'[0] = "scan" /\ pc[0] = "scan" /\ acc' = acc
        /\ todo' = todo \ {Merged}
        /\ file'[Merged] = "none" /\ content'[Merged] = {}
    BY <1>1, <1>6 DEF RemoveMerged, Put, IInv, TypeOK
  <2>2. Ranks \ todo' = Ranks \ todo
    BY <1>1, <2>1
  <2>3. acc' = UNION {content'[f] : f \in Ranks \ todo'}
    BY <1>3, <2>1, <2>2 DEF IInv, ScanInv
  <2>4. ScanInv'
    BY <2>1, <2>3 DEF ScanInv, Published
  <2> QED BY <1>4, <2>1, <2>4
<1>7. ASSUME NEW f \in Ranks, ReadTraces(f) PROVE ScanInv' /\ FileInv'
  <2>1. /\ pc'[0] = "scan" /\ pc[0] = "scan" /\ UNCHANGED <<file, content>>
        /\ acc' = acc \cup content[f] /\ f \in todo /\ todo' = todo \ {f}
        /\ f # Merged
    BY <1>1, <1>7 DEF ReadTraces
  <2>2. Ranks \ todo' = (Ranks \ todo) \cup {f}
    BY <1>7, <2>1
  <2>3. acc' = UNION {content'[g] : g \in Ranks \ todo'}
    BY <2>1, <2>2 DEF IInv, ScanInv
  <2>4. ScanInv'
    BY <2>1, <2>3 DEF ScanInv, Published, IInv
  <2> QED BY <1>4, <2>1, <2>4 DEF IInv, FileInv, Names
<1>8. CASE SortTraces
  <2>1. /\ pc'[0] = "sorted" /\ pc[0] = "scan" /\ todo = {}
        /\ UNCHANGED <<file, content, acc, todo>>
    BY <1>1, <1>8 DEF SortTraces, Goto, IInv, TypeOK
  <2>2. acc = UNION {content[f] : f \in Ranks} /\ file[Merged] = "none"
    BY <2>1 DEF IInv, ScanInv
  <2>3. ScanInv'
    BY <2>1, <2>2 DEF ScanInv, Published
  <2> QED BY <1>4, <2>1, <2>3 DEF IInv, FileInv, Names
<1>9. CASE ScanPanics \/ ScanFails
  <2>1. pc'[0] = "panicked" /\ UNCHANGED <<file, content>>
    BY <1>1, <1>9 DEF ScanPanics, ScanFails, Panic, Goto, IInv, TypeOK
  <2> QED BY <1>4, <2>1 DEF IInv, FileInv, Names, ScanInv, Published
<1>10. CASE OpenMerged
  <2>1. /\ pc'[0] = "merge" /\ pc[0] = "sorted" /\ acc' = acc
        /\ file'[Merged] = "torn" /\ content'[Merged] = {}
    BY <1>1, <1>10 DEF OpenMerged, Put, Goto, IInv, TypeOK
  <2>2. acc' = UNION {content'[f] : f \in Ranks}
    BY <1>3, <2>1 DEF IInv, ScanInv
  <2> QED BY <1>4, <2>1, <2>2 DEF ScanInv, Published
<1>11. CASE WriteMerged
  <2>1. /\ pc'[0] = "pmpi" /\ pc[0] = "merge"
        /\ file'[Merged] = "complete" /\ content'[Merged] = acc
    BY <1>1, <1>11 DEF WriteMerged, Put, Goto, IInv, TypeOK
  <2>2. content'[Merged] = UNION {content'[f] : f \in Ranks}
    BY <1>3, <2>1 DEF IInv, ScanInv
  <2> QED BY <1>4, <2>1, <2>2 DEF ScanInv, Published
<1>12. CASE WriteMergedFails
  <2>1. /\ pc'[0] = "pmpi" /\ pc[0] \in {"sorted", "merge"}
        /\ UNCHANGED <<file, content>>
    BY <1>1, <1>12 DEF WriteMergedFails, Goto, IInv, TypeOK
  <2>2. file'[Merged] # "complete"
    BY <2>1 DEF IInv, ScanInv
  <2> QED BY <1>4, <2>1, <2>2 DEF ScanInv, Published, IInv, FileInv, Names
<1> QED BY <1>5, <1>6, <1>7, <1>8, <1>9, <1>10, <1>11, <1>12 DEF SortAllTraces

LEMMA MergePreserves ==
  ASSUME IInv, SortAllTraces
  PROVE  IInv'
<1>1. /\ 0 \in Members /\ 0 \in Ranks /\ Members \subseteq Ranks
      /\ Merged \in Names
  BY MemberFacts DEF IInv
<1>2. /\ UNCHANGED <<job, size, arrived1, arrived2, dirExists, wrote>>
      /\ pc[0] \in MergeLocs
      /\ \A f \in Ranks : file'[f] = file[f] /\ content'[f] = content[f]
      /\ TypeOK'
  BY MergeFrame
<1>3. PICK to \in {"scan", "sorted", "merge", "pmpi", "panicked"} : Goto(0, to)
  BY MergeFrame
<1>4. /\ arrived2 = Members /\ wrote \subseteq arrived2
      /\ Members' = Members
  BY <1>1, <1>2 DEF IInv, BarrierInv, Members
<1>5. BarrierInv'
  BY <1>1, <1>2, <1>3, <1>4, MoveKeepsBarrier DEF IInv, MergeLocs, After2, Ended
<1>6. CleanInv'
  <2>1. CASE ScanFails \/ WriteMergedFails
    <3>1. faults'[job] = faults[job] + 1 /\ faults[job] \in Nat
      BY <2>1 DEF ScanFails, WriteMergedFails, Fault, IInv, TypeOK
    <3>2. ~ Undisturbed'
      BY <1>2, <3>1 DEF Undisturbed
    <3> QED BY <3>2 DEF CleanInv
  <2>2. CASE ~ (ScanFails \/ WriteMergedFails)
    <3>1. faults' = faults
      BY <2>2 DEF SortAllTraces, ReadDir, RemoveMerged, ReadTraces, SortTraces,
         ScanPanics, OpenMerged, WriteMerged
    <3>2. Undisturbed' => Undisturbed
      BY <1>2, <1>4, <3>1 DEF Undisturbed
    <3>3. ASSUME Undisturbed PROVE Clean'
      <4>1. ~ ScanPanics /\ Clean
        BY <3>3, NoPanicUndisturbed DEF IInv, CleanInv
      <4>2. to # "panicked"
        <5>1. pc'[0] # "panicked"
          BY <1>1, <2>2, <4>1 DEF SortAllTraces, ReadDir, RemoveMerged, ReadTraces,
             SortTraces, OpenMerged, WriteMerged, Goto, IInv, TypeOK, Clean
        <5> QED BY <1>1, <1>3, <5>1 DEF Goto, IInv, TypeOK
      <4>3. to = "pmpi" => file'[Merged] = "complete"
        <5>1. pc'[0] = "pmpi" => WriteMerged
          BY <1>1, <1>2, <2>2, <4>1 DEF SortAllTraces, ReadDir, RemoveMerged,
             ReadTraces, SortTraces, OpenMerged, Goto, IInv, TypeOK, MergeLocs
        <5> QED BY <1>1, <1>3, <5>1 DEF Goto, IInv, TypeOK, WriteMerged, Put
      <4>4. dirExists' /\ 0 \in wrote'
        BY <1>1, <1>2, <4>1 DEF Clean, After2
      <4> QED BY <1>1, <1>2, <1>3, <4>1, <4>2, <4>3, <4>4, MoveKeepsClean DEF IInv
    <3> QED BY <3>2, <3>3 DEF CleanInv
  <2> QED BY <2>1, <2>2
<1> QED BY <1>2, <1>5, <1>6, MergeScans DEF IInv

-----------------------------------------------------------------------------

\* The members of the next job are ranks, and rank 0 is one of them.
LEMMA NextMembers ==
  ASSUME NextJob
  PROVE  0 \in Members' /\ Members' \subseteq Ranks /\ 0 \in Ranks
<1>1. \A k \in 1..MaxRanks : 0 \in 0..k - 1 /\ 0..k - 1 \subseteq 0..MaxRanks - 1
  OBVIOUS
<1>2. size' \in 1..MaxRanks
  BY DEF NextJob
<1> QED BY <1>1, <1>2 DEF Members, Ranks

\* The next job finds the files, and nothing else, as the last one left them.
LEMMA NextJobPreserves ==
  ASSUME IInv, NextJob
  PROVE  IInv'
<1> USE DEF Directory
<1>1. /\ UNCHANGED <<dirExists, file, content, faults>>
      /\ pc' = [r \in Ranks |-> "run"]
      /\ arrived1' = {} /\ arrived2' = {} /\ wrote' = {} /\ todo' = {} /\ acc' = {}
      /\ job' \in Jobs /\ size' \in 1..MaxRanks
  BY DEF NextJob, IInv, TypeOK, Jobs
<1>2. TypeOK'
  BY <1>1 DEF IInv, TypeOK, Locations
<1>3. 0 \in Members' /\ Members' \subseteq Ranks /\ 0 \in Ranks
  BY NextMembers
<1>4. BarrierInv' /\ CleanInv'
  BY <1>1, <1>3 DEF BarrierInv, CleanInv, Clean, MergeLocs, After2, Ended
<1>5. FileInv'
  BY <1>1 DEF IInv, FileInv
<1>6. ScanInv'
  BY <1>1, <1>3 DEF ScanInv, Published
<1> QED BY <1>2, <1>4, <1>5, <1>6 DEF IInv

LEMMA StutterPreserves ==
  ASSUME IInv, UNCHANGED vars
  PROVE  IInv'
BY DEF IInv, vars, TypeOK, Members, BarrierInv, FileInv, ScanInv, Published, CleanInv,
   Undisturbed, Clean

LEMMA NextIInv == IInv /\ [Next]_vars => IInv'
<1> SUFFICES ASSUME IInv, [Next]_vars PROVE IInv'
  OBVIOUS
<1>1. ASSUME NEW r \in Members,
             Finalize(r) \/ Tracing(r) \/ Crash(r) \/ LauncherKills(r)
      PROVE  IInv'
  <2>1. CASE Finalize(r) \/ LeaveBarrier1(r) \/ Register(r) \/ CreateDir(r)
    BY <2>1, EarlyPreserves
  <2>2. CASE Open(r) \/ Write(r)
    BY <2>2, WriterPreserves
  <2>3. CASE RegisterFails(r) \/ Crash(r) \/ LauncherKills(r)
    BY <2>3, FailurePreserves
  <2>4. CASE LeaveBarrier2(r) \/ PmpiFinalize(r)
    BY <2>4, LatePreserves
  <2> QED BY <1>1, <2>1, <2>2, <2>3, <2>4 DEF Tracing
<1>2. CASE SortAllTraces
  BY <1>2, MergePreserves
<1>3. CASE NextJob
  BY <1>3, NextJobPreserves
<1>4. CASE Over \/ UNCHANGED vars
  BY <1>4, StutterPreserves DEF Over
<1> QED BY <1>1, <1>2, <1>3, <1>4 DEF Next

-----------------------------------------------------------------------------
(* The theorems.                                                           *)

\* The invariant from which the others follow.
THEOREM Invariance == Safety => []IInv
BY InitIInv, NextIInv, PTL DEF Safety

\* Type correctness.
THEOREM TypeCorrect == Safety => []TypeOK
<1>1. IInv => TypeOK
  BY DEF IInv
<1> QED BY <1>1, Invariance, PTL

\* A merged file is the union of the rank files, with this job's trace of
\* every rank that wrote one and older traces only of the others.
THEOREM MergeIsExact == Safety => []MergedExact
<1>1. ASSUME IInv, Published
      PROVE  /\ content[Merged] = UNION {content[r] : r \in Ranks}
             /\ \A r \in wrote : <<r, job>> \in content[Merged]
             /\ \A t \in content[Merged] : t[2] # job => t[1] \notin wrote
  <2>1. content[Merged] = UNION {content[r] : r \in Ranks} /\ wrote \subseteq Ranks
    BY <1>1, MemberFacts DEF IInv, ScanInv, TypeOK
  <2>2. \A r \in wrote : content[r] = {<<r, job>>}
    BY <1>1 DEF IInv, FileInv
  <2>3. ASSUME NEW t \in content[Merged], t[1] \in wrote PROVE t[2] = job
    <3>1. PICK r \in Ranks : t \in content[r]
      BY <2>1
    <3>2. PICK j \in Jobs : content[r] = {<<r, j>>}
      BY <1>1, <3>1, MemberFacts DEF IInv, FileInv
    <3>3. t = <<r, j>>
      BY <3>1, <3>2
    <3> QED BY <2>2, <2>3, <3>1, <3>3
  <2> QED BY <2>1, <2>2, <2>3
<1>2. IInv => MergedExact
  BY <1>1 DEF MergedExact
<1> QED BY <1>2, Invariance, PTL

\* A job without failures, in a directory without a torn file of a rank it does
\* not have, ends with the complete merged trace of its ranks.
THEOREM UndisturbedJobsSucceed == Safety => []UndisturbedWorks
<1>1. ASSUME IInv, Undisturbed
      PROVE  /\ \A r \in Members : pc[r] \notin {"dead", "panicked"}
             /\ JobOver => /\ Published
                          /\ \A r \in Members : <<r, job>> \in content[Merged]
  <2>1. Clean
    BY <1>1 DEF IInv, CleanInv
  <2>2. ASSUME JobOver
        PROVE  Published /\ \A r \in Members : <<r, job>> \in content[Merged]
    <3>1. \A r \in Members : pc[r] = "done"
      BY <2>1, <2>2 DEF JobOver, Clean, Ended
    <3>2. Members \subseteq wrote /\ Published /\ Members \subseteq Ranks
      BY <1>1, <2>1, <3>1, MemberFacts DEF Clean, After2, Ended, Published, IInv
    <3>3. content[Merged] = UNION {content[r] : r \in Ranks}
      BY <1>1, <3>2 DEF IInv, ScanInv
    <3> QED BY <1>1, <3>2, <3>3 DEF IInv, FileInv
  <2> QED BY <2>1, <2>2 DEF Clean
<1>2. IInv => UndisturbedWorks
  BY <1>1 DEF UndisturbedWorks
<1> QED BY <1>2, Invariance, PTL

\* While rank 0 merges, no rank's file changes.
THEOREM FilesAreFrozen == Safety => FilesFrozen
<1> DEFINE Frozen ==
      pc[0] \in {"scan", "sorted", "merge"} =>
        \A r \in Ranks : UNCHANGED <<file[r], content[r]>>
<1>1. ASSUME IInv, [Next]_vars PROVE [Frozen]_vars
  <2>1. SUFFICES ASSUME pc[0] \in {"scan", "sorted", "merge"}
                 PROVE  \A r \in Ranks : UNCHANGED <<file[r], content[r]>>
    OBVIOUS
  <2>2. ASSUME NEW r \in Members PROVE ~ (Open(r) \/ Write(r))
    <3>1. pc[r] \in After2
      BY <1>1, <2>1, BarrierSeparates DEF MergeLocs
    <3> QED BY <3>1 DEF Open, Write, After2, MergeLocs, Ended
  <2>3. CASE SortAllTraces
    BY <2>3, <1>1, MergeFrame
  <2>4. CASE ~ SortAllTraces
    <3>1. UNCHANGED <<file, content>>
      BY <1>1, <2>2, <2>4 DEF Next, Tracing, Finalize, LeaveBarrier1, Register,
         CreateDir, RegisterFails, LeaveBarrier2, PmpiFinalize, Crash,
         LauncherKills, NextJob, Over, vars, Directory
    <3> QED BY <3>1
  <2> QED BY <2>3, <2>4
<1> QED BY <1>1, Invariance, PTL DEF Safety, FilesFrozen

\* A step of the job is a step of the directory or leaves it alone.
LEMMA StepSimulates == IInv /\ [Next]_vars => [Dir!Next]_(Dir!vars)
<1> SUFFICES ASSUME IInv, [Next]_vars PROVE [Dir!Next]_(Dir!vars)
  OBVIOUS
<1> DEFINE slot == [r \in Ranks |-> content[r]]
           published == IF file[Merged] = "complete" THEN <<content[Merged]>>
                                                      ELSE << >>
<1> USE DEF Dir!vars, Dir!Next, Dir!Save, Dir!Publish, Dir!Withdraw
<1>1. /\ 0 \in Members /\ Members \subseteq Ranks /\ Ranks \subseteq Names
      /\ Merged \in Names /\ Merged \notin Ranks
  BY MemberFacts DEF IInv
<1>2. CASE UNCHANGED <<file, content>>
  BY <1>2
<1>3. ASSUME NEW r \in Members, Open(r) PROVE Dir!Save(r, {})
  <2>1. file'[Merged] = file[Merged] /\ content'[Merged] = content[Merged]
    BY <1>1, <1>3 DEF Open, Put, IInv, TypeOK
  <2>2. slot' = [slot EXCEPT ![r] = {}]
    BY <1>1, <1>3 DEF Open, Put, IInv, TypeOK
  <2> QED BY <2>1, <2>2
<1>4. ASSUME NEW r \in Members, Write(r) PROVE Dir!Save(r, {<<r, job>>})
  <2>1. file'[Merged] = file[Merged] /\ content'[Merged] = content[Merged]
    BY <1>1, <1>4 DEF Write, Put, IInv, TypeOK
  <2>2. slot' = [slot EXCEPT ![r] = {<<r, job>>}]
    BY <1>1, <1>4 DEF Write, Put, IInv, TypeOK
  <2> QED BY <2>1, <2>2
<1>5. ASSUME RemoveMerged \/ OpenMerged PROVE Dir!Withdraw
  <2>1. file'[Merged] # "complete"
    BY <1>1, <1>5 DEF RemoveMerged, OpenMerged, Put, IInv, TypeOK
  <2>2. slot' = slot
    BY <1>1, <1>5 DEF RemoveMerged, OpenMerged, Put, IInv, TypeOK
  <2> QED BY <2>1, <2>2
<1>6. ASSUME WriteMerged PROVE Dir!Publish
  <2>1. file'[Merged] = "complete" /\ content'[Merged] = acc
    BY <1>1, <1>6 DEF WriteMerged, Put, IInv, TypeOK
  <2>2. slot' = slot
    BY <1>1, <1>6 DEF WriteMerged, Put, IInv, TypeOK
  <2>3. acc = UNION {slot[s] : s \in Ranks}
    BY <1>6 DEF WriteMerged, IInv, ScanInv
  <2> QED BY <2>1, <2>2, <2>3
<1>7. ASSUME NEW r \in Members, Open(r) \/ Write(r)
      PROVE  [Dir!Next]_(Dir!vars)
  <2>1. r \in Ranks /\ <<r, job>> \in Traces
    BY <1>1 DEF Traces, IInv, TypeOK
  <2> QED BY <1>3, <1>4, <1>7, <2>1
<1>8. \/ UNCHANGED <<file, content>>
      \/ \E r \in Members : Open(r) \/ Write(r)
      \/ RemoveMerged \/ OpenMerged
      \/ WriteMerged
  <2>1. CASE \E r \in Members :
               Finalize(r) \/ Tracing(r) \/ Crash(r) \/ LauncherKills(r)
    BY <2>1 DEF Tracing, Finalize, LeaveBarrier1, Register, CreateDir, RegisterFails,
       LeaveBarrier2, PmpiFinalize, Crash, LauncherKills, Directory
  <2>2. CASE SortAllTraces
    BY <2>2 DEF SortAllTraces, ReadDir, ReadTraces, SortTraces, ScanPanics, ScanFails,
       Panic, WriteMergedFails, Directory
  <2>3. CASE NextJob \/ Over \/ UNCHANGED vars
    BY <2>3 DEF NextJob, Over, vars, Directory
  <2> QED BY <2>1, <2>2, <2>3 DEF Next
<1> QED BY <1>2, <1>5, <1>6, <1>7, <1>8

\* Rank 0 reads the files one by one, and yet the merged file is the directory
\* of one instant: the job implements TraceDir.
THEOREM ImplementsDir == Safety => DirSafety
<1>1. Init => Dir!Init
  <2>1. Merged \in Names /\ Ranks \subseteq Names
    BY DEF Names
  <2> QED BY <2>1 DEF Init, Dir!Init
<1> QED BY <1>1, StepSimulates, Invariance, PTL DEF Safety, DirSafety, Dir!Spec

-----------------------------------------------------------------------------
(* Nobody waits for ever: what the ranks that wait are waiting for.        *)

\* Whoever is past its call of MPI_Finalize has entered the first barrier; the
\* entries of rank 0's list are files, and the list is empty before it is read.
WaitInv ==
  /\ \A r \in Members : pc[r] \notin {"run", "dead"} => r \in arrived1
  /\ pc[0] = "scan" => \A f \in todo : file[f] # "none"
  /\ pc[0] \notin {"scan", "sorted", "merge", "pmpi"} \cup Ended => todo = {}

\* A rank that neither scans nor joins the merge keeps it.
LEMMA MoveKeepsWait ==
  ASSUME TypeOK, WaitInv, NEW r \in Members, NEW to, Goto(r, to),
         UNCHANGED <<size, todo>>, arrived1 \subseteq arrived1',
         to \notin {"run", "dead"} => r \in arrived1',
         r = 0 => /\ to # "scan"
                  /\ todo = {} \/ to \in {"sorted", "merge", "pmpi"} \cup Ended,
         r # 0 => pc[0] # "scan" \/ file' = file
  PROVE  WaitInv'
<1>1. Members' = Members /\ Members \subseteq Ranks /\ 0 \in Ranks
  BY MemberFacts DEF Members
<1>2. pc'[r] = to /\ \A q \in Ranks : q # r => pc'[q] = pc[q]
  BY <1>1 DEF TypeOK, Goto
<1>3. \A q \in Members' : pc'[q] \notin {"run", "dead"} => q \in arrived1'
  BY <1>1, <1>2 DEF WaitInv
<1> QED BY <1>1, <1>2, <1>3 DEF WaitInv

LEMMA RankKeepsWait ==
  ASSUME IInv, WaitInv, NEW r \in Members,
         Finalize(r) \/ Tracing(r) \/ Crash(r) \/ LauncherKills(r)
  PROVE  WaitInv'
<1>1. r \in Ranks /\ 0 \in Ranks /\ TypeOK
  BY MemberFacts DEF IInv
<1> USE DEF Directory, Merging
<1>2. CASE Finalize(r)
  <2>1. r = 0 => todo = {}
    BY <1>2 DEF Finalize, WaitInv, Ended
  <2> QED BY <1>1, <1>2, <2>1, MoveKeepsWait DEF Finalize
<1>3. CASE LeaveBarrier1(r) \/ Register(r) \/ CreateDir(r)
  <2>1. /\ pc[r] \in {"barrier1", "register", "create_dir"}
        /\ UNCHANGED <<size, todo, arrived1, file>>
        /\ \E to \in {"register", "create_dir", "open"} : Goto(r, to)
    BY <1>3 DEF LeaveBarrier1, Register, CreateDir
  <2>2. (r = 0 => todo = {}) /\ r \in arrived1
    BY <2>1 DEF WaitInv, Ended
  <2> QED BY <1>1, <2>1, <2>2, MoveKeepsWait
<1>4. CASE Open(r) \/ Write(r) \/ RegisterFails(r)
  <2>1. /\ pc[r] \in {"register", "create_dir", "open", "write"}
        /\ UNCHANGED <<size, todo, arrived1>>
        /\ \E to \in {"write", "barrier2"} : Goto(r, to)
    BY <1>4 DEF Open, Write, RegisterFails, EnterBarrier2
  <2>2. (r = 0 => todo = {}) /\ r \in arrived1
    BY <2>1 DEF WaitInv, Ended
  <2>3. pc[0] # "scan"
    BY <2>1, BarrierSeparates DEF After2, MergeLocs, Ended
  <2> QED BY <1>1, <2>1, <2>2, <2>3, MoveKeepsWait
<1>5. CASE LeaveBarrier2(r) \/ PmpiFinalize(r)
  <2>1. /\ \/ pc[r] = "barrier2" /\ (r = 0 => Goto(r, "read_dir"))
           \/ pc[r] = "pmpi" /\ Goto(r, "done")
        /\ UNCHANGED <<size, todo, arrived1, file>>
        /\ \E to \in {"read_dir", "pmpi", "done"} : Goto(r, to)
    BY <1>5 DEF LeaveBarrier2, PmpiFinalize
  <2>2. r \in arrived1
    BY <2>1 DEF WaitInv
  <2>3. r = 0 /\ pc[r] = "barrier2" => todo = {}
    BY DEF WaitInv, Ended
  <2> QED BY <1>1, <2>1, <2>2, <2>3, MoveKeepsWait DEF Ended
<1>6. CASE Crash(r) \/ LauncherKills(r)
  BY <1>1, <1>6, MoveKeepsWait DEF Crash, LauncherKills, Ended
<1> QED BY <1>2, <1>3, <1>4, <1>5, <1>6 DEF Tracing

LEMMA MergeKeepsWait ==
  ASSUME IInv, WaitInv, SortAllTraces
  PROVE  WaitInv'
<1>1. /\ 0 \in Members /\ 0 \in Ranks /\ Members \subseteq Ranks
      /\ Merged \in Names /\ Ranks \subseteq Names
  BY MemberFacts DEF IInv
<1>2. /\ UNCHANGED <<size, arrived1>> /\ pc[0] \in MergeLocs
  BY MergeFrame
<1>3. PICK to \in {"scan", "sorted", "merge", "pmpi", "panicked"} : Goto(0, to)
  BY MergeFrame
<1>4. pc'[0] = to /\ \A q \in Ranks : q # 0 => pc'[q] = pc[q]
  BY <1>1, <1>3 DEF Goto, IInv, TypeOK
<1>5. \A r \in Members' : pc'[r] \notin {"run", "dead"} => r \in arrived1'
  BY <1>1, <1>2, <1>4 DEF WaitInv, MergeLocs, Members
<1>6. ASSUME to = "scan" PROVE \A f \in todo' : file'[f] # "none"
  <2>1. CASE ReadDir
    BY <2>1 DEF ReadDir, Directory
  <2>2. CASE RemoveMerged
    BY <1>1, <2>2 DEF RemoveMerged, Put, WaitInv, IInv, TypeOK
  <2>3. ASSUME NEW f \in Ranks, ReadTraces(f) PROVE \A g \in todo' : file'[g] # "none"
    BY <2>3 DEF ReadTraces, Directory, WaitInv
  <2>4. ~ (SortTraces \/ ScanPanics \/ ScanFails \/ OpenMerged \/ WriteMerged
             \/ WriteMergedFails)
    BY <1>1, <1>6, <1>4 DEF SortTraces, ScanPanics, ScanFails, Panic, OpenMerged,
       WriteMerged, WriteMergedFails, Goto, IInv, TypeOK
  <2> QED BY <2>1, <2>2, <2>3, <2>4 DEF SortAllTraces
<1> QED BY <1>4, <1>5, <1>6 DEF WaitInv, Ended

\* The second inductive invariant, relative to the first.
THEOREM WaitInvariance == Safety => []WaitInv
<1>1. Init => WaitInv
  <2>1. Init => TypeOK
    BY InitIInv DEF IInv
  <2> QED BY <2>1, MemberFacts DEF Init, WaitInv
<1>2. IInv /\ WaitInv /\ [Next]_vars => WaitInv'
  <2> SUFFICES ASSUME IInv, WaitInv, [Next]_vars PROVE WaitInv'
    OBVIOUS
  <2>1. CASE NextJob
    <3>2. 0 \in Ranks /\ Members' \subseteq Ranks
      BY <2>1, NextMembers
    <3>3. (\A r \in Ranks : pc'[r] = "run") /\ todo' = {}
      BY <2>1 DEF NextJob
    <3> QED BY <3>2, <3>3 DEF WaitInv
  <2>2. CASE Over \/ UNCHANGED vars
    BY <2>2 DEF Over, vars, WaitInv, Members
  <2> QED BY <2>1, <2>2, RankKeepsWait, MergeKeepsWait DEF Next
<1> QED BY <1>1, <1>2, Invariance, PTL DEF Safety

\* In a job whose ranks all called MPI_Finalize, and none of which ended badly,
\* somebody can go on until the job is over.
THEOREM NobodyStuck == Safety => []NeverStuck
<1>1. ASSUME IInv, WaitInv,
             \A r \in Members : pc[r] \notin {"run", "dead", "panicked"},
             \A r \in Members : pc[r] # "done" => Waiting(r)
      PROVE  JobOver
  <2>1. arrived1 = Members /\ Members \subseteq Ranks
    BY <1>1, MemberFacts DEF WaitInv, IInv, TypeOK
  <2>2. \A r \in Members : pc[r] = "scan" => r = 0
    BY <1>1, <2>1 DEF IInv, BarrierInv, MergeLocs
  <2>3. \A r \in Members : pc[r] # "done" => pc[r] = "barrier2" /\ arrived2 # Members
    BY <1>1, <2>1, <2>2 DEF Waiting, WaitInv
  <2>4. (\E r \in Members : pc[r] = "done") => arrived2 = Members
    BY <1>1 DEF IInv, BarrierInv
  <2>5. (\A r \in Members : pc[r] = "barrier2") => arrived2 = Members
    BY <1>1 DEF IInv, BarrierInv, TypeOK
  <2> QED BY <2>3, <2>4, <2>5 DEF JobOver, Ended
<1>2. IInv /\ WaitInv => NeverStuck
  BY <1>1 DEF NeverStuck
<1> QED BY <1>2, Invariance, WaitInvariance, PTL

\* One rank goes forward, and rank 0's list does not change unless it was empty.
LEMMA GoesForward ==
  ASSUME TypeOK, NEW r \in Members, NEW to, Goto(r, to), Stage(pc[r]) < Stage(to)
  PROVE  Advances
<1>1. r \in Ranks
  BY MemberFacts
<1> QED BY <1>1 DEF Advances, Goto, TypeOK

\* Every step of a job is progress: no step is repeated, none undone.
THEOREM OnlyForward == Safety => Forward
<1>1. ASSUME IInv, WaitInv, [Next]_vars PROVE [job' = job => Progress]_vars
  <2> USE DEF Merging
  <2>1. TypeOK /\ 0 \in Members /\ Members \subseteq Ranks
    BY <1>1, MemberFacts DEF IInv
  <2>2. ASSUME NEW r \in Members,
               Finalize(r) \/ Tracing(r) \/ Crash(r) \/ LauncherKills(r)
        PROVE  Advances /\ todo' = todo
    <3>1. pc[r] \in Locations
      BY <2>1 DEF TypeOK
    <3>2. PICK to : Goto(r, to) /\ Stage(pc[r]) < Stage(to)
      <4>1. CASE Crash(r) \/ LauncherKills(r)
        BY <3>1, <4>1 DEF Crash, LauncherKills, Ended, Stage, Locations
      <4>2. CASE ~ (Crash(r) \/ LauncherKills(r))
        BY <2>2, <4>2 DEF Finalize, Tracing, LeaveBarrier1, Register, CreateDir, Open,
           Write, RegisterFails, EnterBarrier2, LeaveBarrier2, PmpiFinalize, Stage
      <4> QED BY <4>1, <4>2
    <3>3. todo' = todo
      BY <2>2 DEF Finalize, Tracing, LeaveBarrier1, Register, CreateDir, Open, Write,
         RegisterFails, LeaveBarrier2, PmpiFinalize, Crash, LauncherKills
    <3> QED BY <2>1, <3>2, <3>3, GoesForward
  <2>3. ASSUME RemoveMerged \/ \E f \in Ranks : ReadTraces(f)
        PROVE  pc' = pc /\ \E f \in todo : todo' = todo \ {f}
    BY <2>3 DEF RemoveMerged, ReadTraces
  <2>4. ASSUME ReadDir \/ SortTraces \/ ScanPanics \/ ScanFails \/ OpenMerged
                 \/ WriteMerged \/ WriteMergedFails
        PROVE  Advances /\ (todo' = todo \/ todo = {})
    <3>1. \E to : Goto(0, to) /\ Stage(pc[0]) < Stage(to)
      BY <2>4 DEF ReadDir, SortTraces, ScanPanics, ScanFails, Panic, OpenMerged,
         WriteMerged, WriteMergedFails, Stage
    <3>2. ReadDir => todo = {}
      BY <1>1 DEF ReadDir, WaitInv, Ended
    <3>3. ReadDir \/ todo' = todo
      BY <2>4 DEF SortTraces, ScanPanics, ScanFails, Panic, OpenMerged, WriteMerged,
         WriteMergedFails
    <3> QED BY <2>1, <3>1, <3>2, <3>3, GoesForward
  <2>5. NextJob => job' # job
    BY <2>1 DEF NextJob, TypeOK, Jobs
  <2>6. Over => UNCHANGED vars
    BY DEF Over
  <2> QED BY <1>1, <2>2, <2>3, <2>4, <2>5, <2>6 DEF Next, SortAllTraces, Progress
<1>2. IInv /\ WaitInv /\ [Next]_vars => [job' = job => Progress]_vars
  BY <1>1
<1> QED BY <1>2, Invariance, WaitInvariance, PTL DEF Safety, Forward

-----------------------------------------------------------------------------
(* When a job merges only its own traces.                                  *)

\* A rank's file has no trace of a job to come, and one of this job only if
\* the rank's serialize succeeded in it.
AgeInv ==
  \A r \in Ranks : \A t \in content[r] : t[2] <= job /\ (t[2] = job => r \in wrote)

\* What rank 0 does to files it does to the merged one.
LEMMA MergeLeavesRankFiles ==
  ASSUME IInv, SortAllTraces
  PROVE  \A r \in Ranks : content'[r] = content[r] /\ file'[r] = file[r]
<1>1. /\ UNCHANGED <<file, content>>
      \/ \E state \in {"none", "torn", "complete"}, traces \in {{}, acc} :
           Put(Merged, state, traces)
  BY DEF SortAllTraces, ReadDir, RemoveMerged, ReadTraces, SortTraces, ScanPanics,
     ScanFails, Panic, OpenMerged, WriteMerged, WriteMergedFails, Directory
<1>2. Merged \notin Ranks /\ Ranks \subseteq Names
  BY MemberFacts DEF IInv
<1> QED BY <1>1, <1>2 DEF Put, IInv, TypeOK

\* The third inductive invariant, relative to the first.
THEOREM AgeInvariance == Safety => []AgeInv
<1>1. Init => AgeInv
  <2>1. Ranks \subseteq Names
    BY DEF Names
  <2> QED BY <2>1 DEF Init, AgeInv
<1>2. IInv /\ AgeInv /\ [Next]_vars => AgeInv'
  <2> SUFFICES ASSUME IInv, AgeInv, [Next]_vars PROVE AgeInv'
    OBVIOUS
  <2>1. Ranks \subseteq Names /\ Members \subseteq Ranks /\ job \in Nat
    BY MemberFacts DEF IInv, TypeOK, Jobs
  <2>2. CASE SortAllTraces
    BY <2>2, MergeLeavesRankFiles, MergeFrame DEF AgeInv
  <2>3. ASSUME NEW q \in Members,
               Finalize(q) \/ Tracing(q) \/ Crash(q) \/ LauncherKills(q)
        PROVE  AgeInv'
    <3>1. CASE Open(q)
      BY <2>1, <3>1 DEF Open, Put, AgeInv, IInv, TypeOK
    <3>2. CASE Write(q)
      BY <2>1, <3>2 DEF Write, Put, AgeInv, IInv, TypeOK
    <3>3. CASE ~ (Open(q) \/ Write(q))
      <4>1. UNCHANGED <<job, content, wrote>>
        BY <2>3, <3>3 DEF Finalize, Tracing, LeaveBarrier1, Register, CreateDir,
           RegisterFails, LeaveBarrier2, PmpiFinalize, Crash, LauncherKills, Directory
      <4> QED BY <4>1 DEF AgeInv
    <3> QED BY <3>1, <3>2, <3>3
  <2>4. CASE NextJob
    <3>1. job' = job + 1 /\ content' = content
      BY <2>4 DEF NextJob, Directory
    <3>2. \A r \in Ranks : \A t \in content[r] : t[2] \in Nat
      BY <2>1 DEF IInv, TypeOK, Traces, Jobs
    <3>3. \A r \in Ranks : \A t \in content[r] : t[2] <= job' /\ t[2] # job'
      BY <2>1, <3>1, <3>2 DEF AgeInv
    <3> QED BY <3>1, <3>3 DEF AgeInv
  <2>5. CASE Over \/ UNCHANGED vars
    BY <2>5 DEF Over, vars, AgeInv
  <2> QED BY <2>2, <2>3, <2>4, <2>5 DEF Next
<1> QED BY <1>1, <1>2, Invariance, PTL DEF Safety

\* What delimits the finding OnlyThisJob: a merged trace has events of earlier
\* jobs exactly if there is a complete trace file that no rank of the job wrote
\* (a rank the job does not have, or one whose serialize failed before it opened
\* its file).
MixedByStaleFiles ==
  Published =>
    (OnlyThisJob <=> \A r \in Ranks : file[r] = "complete" => r \in wrote)

THEOREM StaleFilesAlone == Safety => []MixedByStaleFiles
<1>1. ASSUME IInv, AgeInv, Published
      PROVE  OnlyThisJob <=> \A r \in Ranks : file[r] = "complete" => r \in wrote
  <2>1. content[Merged] = UNION {content[r] : r \in Ranks}
    BY <1>1 DEF IInv, ScanInv
  <2>2. \A r \in Ranks : file[r] # "complete" => content[r] = {}
    BY <1>1, MemberFacts DEF IInv, FileInv
  <2>3. \A r \in wrote : content[r] = {<<r, job>>}
    BY <1>1 DEF IInv, FileInv
  <2>4. ASSUME OnlyThisJob, NEW r \in Ranks, file[r] = "complete" PROVE r \in wrote
    <3>1. PICK t : t \in content[r]
      BY <1>1, <2>4 DEF IInv, FileInv
    <3>2. t[2] = job
      BY <1>1, <2>1, <2>4, <3>1 DEF OnlyThisJob
    <3> QED BY <1>1, <3>1, <3>2 DEF AgeInv
  <2>5. ASSUME \A r \in Ranks : file[r] = "complete" => r \in wrote PROVE OnlyThisJob
    <3>1. ASSUME NEW t \in content[Merged] PROVE t[2] = job
      <4>1. PICK r \in Ranks : t \in content[r]
        BY <2>1
      <4>2. content[r] = {<<r, job>>}
        BY <2>2, <2>3, <2>5, <4>1
      <4> QED BY <4>1, <4>2
    <3> QED BY <3>1 DEF OnlyThisJob
  <2> QED BY <2>4, <2>5
<1>2. IInv /\ AgeInv => MixedByStaleFiles
  BY <1>1 DEF MixedByStaleFiles
<1> QED BY <1>2, Invariance, AgeInvariance, PTL
=============================================================================
