-------------------------- MODULE TracedRankProofs --------------------------
(***************************************************************************)
(* Proofs about TracedRank: what is proved of a process (EventStoreProofs) *)
(* and of the jobs (TraceJobProofs) holds of the two together, and what    *)
(* neither says alone follows: any trace in a file stands for the calls of *)
(* its process.  For every rank, job, number of ranks, threads and calls.  *)
(***************************************************************************)
EXTENDS TracedRank, TraceJobProofs

Proved == INSTANCE EventStoreProofs WITH pc <- at, file <- own

USE FollowedAssumption, ProcessAssumption

-----------------------------------------------------------------------------
(* The composition behaves like each of its parts.                         *)

\* A step of the composition is one of the jobs, or leaves them alone.
LEMMA StepOfJob == [TracedNext]_allVars => [Next]_vars
<1> SUFFICES ASSUME [TracedNext]_allVars PROVE [Next]_vars
  OBVIOUS
<1>1. CASE Mine /\ (Running \/ Registering \/ Finalizing \/ Dying)
  <2>1. \/ UNCHANGED vars
        \/ Finalize(Me) \/ Tracing(Me) \/ Crash(Me) \/ LauncherKills(Me)
    BY <1>1 DEF Running, Registering, Finalizing, RegisterFinalize, Dying, Tracing
  <2> QED BY <1>1, <2>1 DEF Mine, Next
<1>2. CASE OtherRank
  BY <1>2 DEF OtherRank, Next
<1>3. CASE Merge \/ NextJob \/ Over \/ UNCHANGED allVars
  BY <1>3 DEF Merge, Next, allVars
<1> QED BY <1>1, <1>2, <1>3 DEF TracedNext

\* The composition of the models implements TraceJob: the process adds nothing
\* to what the jobs do.
THEOREM ImplementsJob == TracedSpec => Safety
<1>1. TracedInit => Init
  BY DEF TracedInit
<1> QED BY <1>1, StepOfJob, PTL DEF TracedSpec, Safety

\* A step of the composition is one of the process, or leaves it alone.
LEMMA StepOfProcess == [TracedNext]_allVars => [Process!Next]_(Process!vars)
<1> SUFFICES ASSUME [TracedNext]_allVars PROVE [Process!Next]_(Process!vars)
  OBVIOUS
<1> USE DEF store, Process!vars
<1>1. CASE Running \/ Registering \/ Finalizing
  <2>1. \/ Process!EnterInit \/ Process!EnterFinalize
        \/ \E t \in Threads : Process!Step(t)
        \/ UNCHANGED store
    BY <1>1 DEF Running, Call, Registering, Finalizing, RegisterFinalize,
       Process!Step, Process!Critical
  <2> QED BY <2>1 DEF Process!Next
<1>2. CASE Dying
  BY <1>2 DEF Dying, Process!Next, Process!Step, Process!Critical
<1>3. CASE OtherRank \/ UNCHANGED store
  BY <1>3 DEF OtherRank
<1>4. CASE Merge
  BY <1>4 DEF Merge, Process!Next
<1> QED BY <1>1, <1>2, <1>3, <1>4 DEF TracedNext, allVars

\* The composition implements EventStore: a process among others does what one
\* alone does.
THEOREM ImplementsProcess == TracedSpec => Process!Safety
<1>1. TracedInit => Process!Init
  BY DEF TracedInit
<1> QED BY <1>1, StepOfProcess, PTL DEF TracedSpec, Process!Safety

\* EventStoreProofs has the definitions of EventStore.
LEMMA SameProcess == Process!Safety => Proved!Safety
<1>1. Process!Init => Proved!Init
  BY DEF Process!Init, Proved!Init
<1>2. UNCHANGED Process!vars => UNCHANGED Proved!vars
  BY DEF Process!vars, Proved!vars
<1>3. Process!Next => Proved!Next
  BY DEF Process!Next, Proved!Next, Process!EnterInit, Proved!EnterInit,
    Process!EnterFinalize, Proved!EnterFinalize, Process!Step, Proved!Step,
    Process!Enter, Proved!Enter, Process!PmpiReturns, Proved!PmpiReturns,
    Process!Lock, Proved!Lock, Process!Critical, Proved!Critical,
    Process!Reserve, Proved!Reserve, Process!ReserveFails, Proved!ReserveFails,
    Process!Push, Proved!Push, Process!AllocAborts, Proved!AllocAborts,
    Process!Write, Proved!Write, Process!Open, Proved!Open,
    Process!OpenFails, Proved!OpenFails, Process!Save, Proved!Save,
    Process!SaveFails, Proved!SaveFails, Process!Kill, Proved!Kill,
    Process!Over, Proved!Over, Process!Calling, Proved!Calling,
    Process!Goto, Proved!Goto, Process!Return, Proved!Return,
    Process!Wanted, Proved!Wanted, Process!Stored, Proved!Stored,
    Process!Call, Proved!Call, Process!vars, Proved!vars
<1> QED BY <1>1, <1>2, <1>3, PTL DEF Process!Safety, Proved!Safety

-----------------------------------------------------------------------------
(* What the process and the job know of each other.                        *)

\* Of the process this is needed: who can be where, and when the file is whole.
ProcessInv ==
  /\ at \in [Threads -> {"app"} \cup Process!Pending \cup Process!Saving]
  /\ phase = "start" => at[Main] = "app"
  /\ phase = "running" => \A t \in Threads : at[t] \notin Process!Saving
  /\ phase = "finalizing" => \A t \in Threads \ {Main} : at[t] = "app"
  /\ phase = "finalized" => lock = NoThread /\ \A t \in Threads : at[t] = "app"
  /\ own = "complete" => phase = "finalized" /\ Stands

LEMMA ProcessInvariance == TracedSpec => []ProcessInv
<1> USE DEF Process!Pending, Process!Saving, Proved!Pending, Proved!Saving
<1>1. ASSUME Proved!IInv, Proved!SavedWhole PROVE ProcessInv
  <2>1. /\ at \in [Threads -> {"app"} \cup Process!Pending \cup Process!Saving]
        /\ lock \in Threads \cup {NoThread}
    BY <1>1 DEF Proved!IInv, Proved!TypeOK
  <2>2. /\ phase = "start" => at[Main] = "app"
        /\ phase = "running" => \A t \in Threads : at[t] \notin Process!Saving
        /\ phase = "finalizing" => \A t \in Threads \ {Main} : at[t] = "app"
        /\ phase = "finalized" => \A t \in Threads : at[t] = "app"
    BY <1>1 DEF Proved!IInv, Proved!PhaseInv
  <2>3. phase = "finalized" => lock = NoThread
    BY <1>1, <2>1, <2>2 DEF Proved!IInv, Proved!MutualExclusion, Proved!Holding
  <2>4. own = "complete" => phase = "finalized" /\ Stands
    BY <1>1 DEF Proved!IInv, Proved!SaveInv, Proved!SavedWhole, Stands,
       Process!Logged, Proved!Logged, Process!Made, Proved!Made, Process!Calls,
       Proved!Calls
  <2> QED BY <2>1, <2>2, <2>3, <2>4 DEF ProcessInv
<1>2. Proved!IInv /\ Proved!SavedWhole => ProcessInv
  BY <1>1
<1>3. Proved!Safety => []Proved!IInv
  BY Proved!Invariance
<1>4. Proved!Safety => []Proved!SavedWhole
  BY Proved!CompleteFileIsWhole
<1> QED BY <1>2, <1>3, <1>4, SameProcess, ImplementsProcess, PTL

\* Together with these the following is inductive: they are in step, the
\* process has done nothing before its job, and its trace is nowhere, neither
\* in a file nor in what rank 0 has read, unless its own file was completed.
Steps ==
  /\ own = "complete" <=> Me \in wrote
  /\ status = "alive" <=> pc[Me] \notin {"dead", "panicked"}
  /\ status = "alive" =>
       /\ at[Main] \in MainAt(pc[Me])
       /\ phase = "finalizing" <=>
            pc[Me] \in {"barrier1", "register", "create_dir", "open", "write"}
       /\ phase = "finalized" <=>
            pc[Me] \in {"barrier2", "read_dir", "scan", "sorted", "merge", "pmpi", "done"}

TraceInv ==
  /\ \A f \in Names : <<Me, Followed>> \in content[f] => own = "complete"
  /\ <<Me, Followed>> \in acc => own = "complete"

Link ==
  /\ Mine => Steps
  /\ job < Followed => Process!Init
  /\ TraceInv

-----------------------------------------------------------------------------
(* Every step keeps the link.                                              *)

LEMMA LinkInit == TracedInit => Link
<1> SUFFICES ASSUME TracedInit PROVE Link
  OBVIOUS
<1>1. Me \in Ranks /\ Ranks \subseteq Names
  BY DEF Names
<1>2. pc[Me] = "run" /\ wrote = {} /\ acc = {} /\ \A f \in Names : content[f] = {}
  BY <1>1 DEF TracedInit, Init
<1>3. status = "alive" /\ phase = "start" /\ own = "untouched" /\ at[Main] = "app"
  BY DEF TracedInit, Process!Init
<1>4. Mine => Steps
  BY <1>2, <1>3 DEF Steps, MainAt
<1> QED BY <1>2, <1>4 DEF Link, TraceInv, TracedInit

\* A step that leaves the job alone, the file and the life of the process.
LEMMA LinkKept ==
  ASSUME Link, Mine, UNCHANGED vars, UNCHANGED <<status, own>>, status = "alive",
         at'[Main] \in MainAt(pc[Me]),
         phase' = phase \/ {phase, phase'} \cap {"finalizing", "finalized"} = {}
  PROVE  Link'
<1>1. Steps'
  BY DEF Link, Steps, vars, MainAt
<1>2. TraceInv'
  BY DEF Link, TraceInv, vars
<1>3. ~ (job' < Followed)
  BY DEF Mine, vars, Jobs
<1> QED BY <1>1, <1>2, <1>3 DEF Link

LEMMA RunningLinks ==
  ASSUME ProcessInv, Link, Mine, Running
  PROVE  Link'
<1> USE DEF Process!Goto, Process!Return, Process!Calling, Process!Pending
<1>1. pc[Me] = "run" /\ UNCHANGED vars
  BY DEF Running
<1>2. UNCHANGED <<status, own>> /\ status = "alive"
  BY DEF Running, Call, Process!EnterInit, Process!Enter, Process!PmpiReturns,
     Process!Lock, Process!Reserve, Process!ReserveFails, Process!Push, Process!Write
<1>3. phase \notin {"finalizing", "finalized"} /\ at[Main] \in MainAt("run")
  BY <1>1, <1>2 DEF Link, Steps
<1>4. phase' \notin {"finalizing", "finalized"}
  BY <1>3 DEF Running, Call, Process!EnterInit, Process!Enter, Process!PmpiReturns,
     Process!Lock, Process!Reserve, Process!ReserveFails, Process!Push, Process!Write
<1>5. \E t \in Threads, where \in {"app"} \cup Process!Pending :
        at' = [at EXCEPT ![t] = where]
  BY <1>3 DEF Running, Call, Process!EnterInit, Process!Enter, Process!PmpiReturns,
     Process!Lock, Process!Reserve, Process!ReserveFails, Process!Push, Process!Write
<1>6. at'[Main] \in MainAt(pc[Me])
  BY <1>1, <1>3, <1>5 DEF ProcessInv, MainAt
<1> QED BY <1>1, <1>2, <1>3, <1>4, <1>6, LinkKept

LEMMA RegisteringLinks ==
  ASSUME ProcessInv, Link, Mine, Registering
  PROVE  Link'
<1>1. pc[Me] = "register" /\ UNCHANGED vars
  BY DEF Registering
<1>2. UNCHANGED <<status, own, phase>> /\ status = "alive"
  BY DEF Registering, Process!Lock, Process!Reserve, Process!Push
<1>3. \E where \in {"reserve", "push", "write"} : at' = [at EXCEPT ![Main] = where]
  BY DEF Registering, Process!Lock, Process!Reserve, Process!Push, Process!Goto
<1>4. at'[Main] \in MainAt(pc[Me])
  BY <1>1, <1>3 DEF ProcessInv, MainAt
<1> QED BY <1>1, <1>2, <1>4, LinkKept

\* A step of MPI_Finalize, which the rank takes and the process, too.
LEMMA LinkMoves ==
  ASSUME IInv, Link, Mine, NEW where, Goto(Me, where),
         where \notin {"dead", "panicked"}, status = "alive", status' = "alive",
         UNCHANGED <<job, size>>,
         own' = "complete" <=> Me \in wrote',
         at'[Main] \in MainAt(where),
         phase' = "finalizing" <=>
            where \in {"barrier1", "register", "create_dir", "open", "write"},
         phase' = "finalized" <=>
            where \in {"barrier2", "read_dir", "scan", "sorted", "merge", "pmpi", "done"},
         TraceInv'
  PROVE  Link' /\ Mine'
<1>1. pc'[Me] = where
  BY DEF IInv, TypeOK, Goto
<1>2. Steps'
  BY <1>1 DEF Steps, MainAt
<1>3. ~ (job' < Followed) /\ Mine'
  BY DEF Mine, Members, Jobs
<1> QED BY <1>2, <1>3 DEF Link

LEMMA FinalizingLinks ==
  ASSUME IInv, ProcessInv, Link, Mine, Finalizing
  PROVE  Link'
<1> USE DEF Directory, Merging, Process!Goto, Process!Return
<1>1. /\ Steps /\ TraceInv /\ job = Followed /\ Me \in Ranks /\ Me \in Names
      /\ Ranks \subseteq Names
      /\ own = "complete" <=> Me \in wrote
  BY DEF Link, Mine, Names, Steps
<1>2. /\ at \in [Threads -> {"app"} \cup Process!Pending \cup Process!Saving]
      /\ own = "complete" => phase = "finalized"
  BY DEF ProcessInv
<1>3. CASE Finalize(Me) /\ Process!EnterFinalize
  <2>1. UNCHANGED <<job, size, wrote, content, acc>> /\ Goto(Me, "barrier1")
    BY <1>3 DEF Finalize
  <2>2. /\ UNCHANGED <<status, own>> /\ status = "alive" /\ phase' = "finalizing"
        /\ at'[Main] = "pmpi"
    BY <1>2, <1>3 DEF Process!EnterFinalize, Process!Calling
  <2>3. at'[Main] \in MainAt("barrier1")
    BY <2>1, <2>2 DEF MainAt
  <2>4. TraceInv'
    BY <1>1, <2>1, <2>2 DEF TraceInv
  <2> QED BY <1>1, <2>1, <2>2, <2>3, <2>4, LinkMoves
<1>4. CASE LeaveBarrier1(Me) /\ Process!PmpiReturns(Main)
  <2>1. /\ UNCHANGED <<job, size, wrote, content, acc>> /\ Goto(Me, "register")
        /\ pc[Me] = "barrier1"
    BY <1>4 DEF LeaveBarrier1
  <2>2. /\ UNCHANGED <<status, own, phase>> /\ status = "alive"
        /\ at'[Main] = "lock"
    BY <1>2, <1>4 DEF Process!PmpiReturns
  <2>3. phase = "finalizing"
    BY <1>1, <2>1, <2>2 DEF Steps
  <2>4. at'[Main] \in MainAt("register")
    BY <2>1, <2>2 DEF MainAt
  <2>5. TraceInv'
    BY <1>1, <2>1, <2>2 DEF TraceInv
  <2> QED BY <1>1, <2>1, <2>2, <2>3, <2>4, <2>5, LinkMoves
<1>5. CASE Register(Me) /\ Process!Write(Main)
  <2>1. /\ UNCHANGED <<job, size, wrote, content, acc>> /\ Goto(Me, "create_dir")
        /\ pc[Me] = "register"
    BY <1>5 DEF Register
  <2>2. status = "alive" /\ phase = "finalizing"
    BY <1>1, <1>5, <2>1 DEF Process!Write, Steps
  <2>3. UNCHANGED <<status, own, phase>> /\ at'[Main] = "open"
    BY <1>2, <1>5, <2>2 DEF Process!Write
  <2>4. at'[Main] \in MainAt("create_dir")
    BY <2>1, <2>2, <2>3 DEF MainAt
  <2>5. TraceInv'
    BY <1>1, <2>1, <2>2, <2>3 DEF TraceInv
  <2> QED BY <1>1, <2>1, <2>2, <2>3, <2>4, <2>5, LinkMoves
<1>6. CASE CreateDir(Me) /\ UNCHANGED store
  <2>1. /\ UNCHANGED <<job, size, wrote, content, acc>> /\ Goto(Me, "open")
        /\ pc[Me] = "create_dir"
    BY <1>6 DEF CreateDir
  <2>2. /\ UNCHANGED <<status, own, phase, at>> /\ status = "alive"
        /\ phase = "finalizing"
    BY <1>1, <1>6, <2>1 DEF store, Steps
  <2>3. at'[Main] \in MainAt("open")
    BY <1>1, <2>1, <2>2 DEF MainAt, Steps
  <2>4. TraceInv'
    BY <1>1, <2>1, <2>2 DEF TraceInv
  <2> QED BY <1>1, <2>1, <2>2, <2>3, <2>4, LinkMoves
<1>7. CASE Open(Me) /\ Process!Open(Main)
  <2>1. /\ UNCHANGED <<job, size, wrote, acc>> /\ Goto(Me, "write")
        /\ pc[Me] = "open" /\ Put(Me, "torn", {})
    BY <1>7 DEF Open
  <2>2. /\ UNCHANGED <<status, phase>> /\ status = "alive" /\ own' = "torn"
        /\ at'[Main] = "save"
    BY <1>2, <1>7 DEF Process!Open
  <2>3. phase = "finalizing" /\ own # "complete" /\ Me \notin wrote
    BY <1>1, <1>2, <2>1, <2>2 DEF Steps
  <2>4. TraceInv'
    BY <1>1, <2>1, <2>3 DEF TraceInv, Put, IInv, TypeOK
  <2>5. at'[Main] \in MainAt("write")
    BY <2>2 DEF MainAt
  <2> QED BY <1>1, <2>1, <2>2, <2>3, <2>4, <2>5, LinkMoves
<1>8. CASE Write(Me) /\ Process!Save(Main)
  <2>1. /\ UNCHANGED <<job, size>> /\ Goto(Me, "barrier2") /\ Me \in wrote'
        /\ pc[Me] = "write"
    BY <1>8 DEF Write, EnterBarrier2
  <2>2. UNCHANGED status /\ status = "alive" /\ own' = "complete"
    BY <1>8 DEF Process!Save
  <2>3. phase = "finalizing"
    BY <1>1, <2>1, <2>2 DEF Steps
  <2>4. phase' = "finalized" /\ at'[Main] = "app"
    BY <1>2, <1>8, <2>3 DEF Process!Save
  <2>5. TraceInv'
    BY <2>2 DEF TraceInv
  <2>6. at'[Main] \in MainAt("barrier2")
    BY <2>4 DEF MainAt
  <2> QED BY <1>1, <2>1, <2>2, <2>4, <2>5, <2>6, LinkMoves
<1>9. CASE /\ RegisterFails(Me)
           /\ \/ Process!ReserveFails(Main) \/ Process!OpenFails(Main)
              \/ Process!SaveFails(Main)
  <2>1. /\ UNCHANGED <<job, size, wrote, content, acc>> /\ Goto(Me, "barrier2")
        /\ pc[Me] \in {"register", "create_dir", "open", "write"}
    BY <1>9 DEF RegisterFails, EnterBarrier2
  <2>2. UNCHANGED <<status, own>> /\ status = "alive" /\ Process!Return(Main)
    BY <1>9 DEF Process!ReserveFails, Process!OpenFails, Process!SaveFails
  <2>3. phase = "finalizing"
    BY <1>1, <2>1, <2>2 DEF Steps
  <2>4. phase' = "finalized" /\ at'[Main] = "app"
    BY <1>2, <2>2, <2>3
  <2>5. at'[Main] \in MainAt("barrier2")
    BY <2>1, <2>2, <2>4 DEF MainAt
  <2>6. TraceInv'
    BY <1>1, <2>1, <2>2, <2>4 DEF TraceInv
  <2> QED BY <1>1, <2>1, <2>2, <2>4, <2>5, <2>6, LinkMoves
<1>10. CASE (LeaveBarrier2(Me) \/ PmpiFinalize(Me)) /\ UNCHANGED store
  <2>1. /\ UNCHANGED <<job, size, wrote, content, acc>>
        /\ pc[Me] \in {"barrier2", "pmpi"}
        /\ \E where \in {"read_dir", "pmpi", "done"} : Goto(Me, where)
    BY <1>10 DEF LeaveBarrier2, PmpiFinalize
  <2>2. /\ UNCHANGED <<status, own, phase, at>> /\ status = "alive"
        /\ phase = "finalized"
    BY <1>1, <1>10, <2>1 DEF store, Steps
  <2>3. at'[Main] = "app"
    BY <1>2, <2>2 DEF ProcessInv
  <2>4. \A where \in {"read_dir", "pmpi", "done"} : at'[Main] \in MainAt(where)
    BY <2>3 DEF MainAt
  <2>5. TraceInv'
    BY <1>1, <2>1, <2>2 DEF TraceInv
  <2> QED BY <1>1, <2>1, <2>2, <2>4, <2>5, LinkMoves
<1> QED BY <1>3, <1>4, <1>5, <1>6, <1>7, <1>8, <1>9, <1>10 DEF Finalizing, RegisterFinalize

LEMMA DyingLinks ==
  ASSUME IInv, Link, Mine, Dying
  PROVE  Link'
<1>1. UNCHANGED <<job, size, wrote, content, acc>> /\ Goto(Me, "dead")
  BY DEF Dying, Crash, LauncherKills, Directory, Merging
<1>2. status' # "alive" /\ own' = own
  BY DEF Dying, Process!Kill, Process!AllocAborts
<1>3. pc'[Me] = "dead"
  BY <1>1 DEF Goto, IInv, TypeOK
<1>4. Steps' /\ TraceInv'
  BY <1>1, <1>2, <1>3 DEF Link, Steps, TraceInv
<1> QED BY <1>1, <1>4 DEF Link, Mine, Jobs

LEMMA OtherRankLinks ==
  ASSUME IInv, Link, OtherRank
  PROVE  Link'
<1>1. PICK r \in Members :
        /\ job = Followed => r # Me
        /\ Finalize(r) \/ Tracing(r) \/ Crash(r) \/ LauncherKills(r)
  BY DEF OtherRank
<1>2. /\ UNCHANGED <<job, size, acc>> /\ \E where : Goto(r, where)
      /\ wrote' = wrote \/ wrote' = wrote \cup {r}
  BY <1>1 DEF Finalize, Tracing, LeaveBarrier1, Register, CreateDir, Open, Write,
     RegisterFails, EnterBarrier2, LeaveBarrier2, PmpiFinalize, Crash, LauncherKills,
     Merging
<1>3. UNCHANGED store /\ UNCHANGED <<status, phase, at, own>>
  BY DEF OtherRank, store
<1>4. r \in Ranks /\ r \in Names
  BY MemberFacts DEF IInv
<1>5. Mine' => Mine
  BY <1>2 DEF Mine, Members
<1>6. ASSUME Mine PROVE Steps'
  <2>1. r # Me /\ Steps
    BY <1>1, <1>6 DEF Link, Mine
  <2>2. pc'[Me] = pc[Me] /\ (Me \in wrote' <=> Me \in wrote)
    BY <1>2, <2>1 DEF Goto, IInv, TypeOK
  <2> QED BY <1>3, <2>1, <2>2 DEF Steps
<1>7. TraceInv'
  <2>1. content' = content \/ Put(r, "torn", {}) \/ Put(r, "complete", {<<r, job>>})
    BY <1>1 DEF Finalize, Tracing, LeaveBarrier1, Register, CreateDir, Open, Write,
       RegisterFails, EnterBarrier2, LeaveBarrier2, PmpiFinalize, Crash,
       LauncherKills, Directory
  <2>2. <<Me, Followed>> # <<r, job>>
    BY <1>1
  <2>3. \A f \in Names : <<Me, Followed>> \in content'[f] => <<Me, Followed>> \in content[f]
    BY <1>4, <2>1, <2>2 DEF Put, IInv, TypeOK
  <2> QED BY <1>2, <1>3, <2>3 DEF Link, TraceInv
<1>8. job' < Followed => Process!Init'
  BY <1>2, <1>3 DEF Link, Process!Init, store
<1> QED BY <1>5, <1>6, <1>7, <1>8 DEF Link

LEMMA MergeLinks ==
  ASSUME IInv, ProcessInv, Link, Merge
  PROVE  Link'
<1>1. /\ UNCHANGED <<job, size, wrote>> /\ pc[0] \in MergeLocs
      /\ \A f \in Ranks : content'[f] = content[f]
      /\ SortAllTraces
  BY MergeFrame DEF Merge
<1>2. PICK to \in {"scan", "sorted", "merge", "pmpi", "panicked"} : Goto(0, to)
  BY MergeFrame DEF Merge
<1>3. 0 \in Ranks /\ Ranks \subseteq Names /\ Merged \in Names /\ Mine' = Mine
  BY <1>1, MemberFacts DEF IInv, Mine, Members
<1>4. own' = own /\ (~ Mine => UNCHANGED store)
  BY DEF Merge, Process!Kill, store
<1>5. TraceInv'
  <2>1. \A f \in Names : content'[f] \subseteq content[f] \cup acc
    <3>1. \/ content' = content
          \/ \E state \in {"none", "torn", "complete"}, held \in {{}, acc} :
               Put(Merged, state, held)
      BY <1>1 DEF SortAllTraces, ReadDir, RemoveMerged, ReadTraces, SortTraces,
         ScanPanics, ScanFails, Panic, OpenMerged, WriteMerged, WriteMergedFails,
         Directory
    <3> QED BY <1>3, <3>1 DEF Put, IInv, TypeOK
  <2>2. \A x \in acc' : x \in acc \/ \E f \in Names : x \in content[f]
    BY <1>1, <1>3 DEF SortAllTraces, ReadDir, RemoveMerged, ReadTraces, SortTraces,
       ScanPanics, ScanFails, Panic, OpenMerged, WriteMerged, WriteMergedFails, Merging
  <2> QED BY <1>4, <2>1, <2>2 DEF Link, TraceInv
<1>6. ASSUME Mine PROVE Steps'
  <2>1. Steps /\ (0 \in Ranks \ {Me} => pc[Me] \notin {"panicked"} \cup MergeLocs)
    BY <1>6 DEF Link, IInv, BarrierInv
  <2>2. CASE Me # 0
    <3>1. pc'[Me] = pc[Me] /\ pc'[Me] # "panicked"
      BY <1>2, <1>3, <2>1, <2>2 DEF Goto, IInv, TypeOK
    <3>2. UNCHANGED <<status, phase, at, own>>
      BY <3>1 DEF Merge, store
    <3> QED BY <1>1, <2>1, <3>1, <3>2 DEF Steps
  <2>3. CASE Me = 0
    <3>1. pc'[Me] = to
      BY <1>2, <1>3, <2>3 DEF Goto, IInv, TypeOK
    <3>2. CASE to = "panicked"
      <4>1. status' # "alive"
        BY <1>6, <3>1, <3>2 DEF Merge, Process!Kill
      <4> QED BY <1>1, <1>4, <2>1, <3>1, <3>2, <4>1 DEF Steps
    <3>3. CASE to # "panicked"
      <4>1. UNCHANGED <<status, phase, at, own>>
        BY <3>1, <3>3 DEF Merge, store
      <4>2. phase = "finalized" /\ status = "alive"
        BY <1>1, <2>1, <2>3 DEF Steps, MergeLocs
      <4>3. at'[Main] \in MainAt(to)
        BY <3>3, <4>1, <4>2 DEF ProcessInv, MainAt
      <4> QED BY <1>1, <2>1, <3>1, <3>3, <4>1, <4>2, <4>3 DEF Steps
    <3> QED BY <3>2, <3>3
  <2> QED BY <2>2, <2>3
<1>7. job' < Followed => Process!Init'
  BY <1>1, <1>4 DEF Link, Process!Init, store, Mine, Jobs
<1> QED BY <1>3, <1>5, <1>6, <1>7 DEF Link

LEMMA NextJobLinks ==
  ASSUME IInv, Link, NextJob, UNCHANGED store
  PROVE  Link'
<1>1. /\ job' = job + 1 /\ pc'[Me] = "run" /\ wrote' = {} /\ acc' = {}
      /\ UNCHANGED <<content, status, phase, at, own>>
      /\ job \in Nat /\ Followed \in Nat
  BY DEF NextJob, Directory, store, IInv, TypeOK, Jobs
<1>2. ASSUME job' = Followed PROVE Steps'
  <2>1. status = "alive" /\ phase = "start" /\ own = "untouched" /\ at[Main] = "app"
    BY <1>1, <1>2 DEF Link, Process!Init
  <2> QED BY <1>1, <2>1 DEF Steps, MainAt
<1>3. TraceInv'
  BY <1>1 DEF Link, TraceInv
<1>4. job' < Followed => Process!Init'
  BY <1>1 DEF Link, Process!Init, store
<1> QED BY <1>2, <1>3, <1>4 DEF Link, Mine

LEMMA StutterLinks ==
  ASSUME Link, UNCHANGED allVars
  PROVE  Link'
BY DEF Link, allVars, vars, store, Mine, Members, Steps, MainAt, TraceInv, Process!Init

LEMMA NextLinks == IInv /\ ProcessInv /\ Link /\ [TracedNext]_allVars => Link'
<1> SUFFICES ASSUME IInv, ProcessInv, Link, [TracedNext]_allVars PROVE Link'
  OBVIOUS
<1>1. CASE Mine /\ (Running \/ Registering \/ Finalizing \/ Dying)
  BY <1>1, RunningLinks, RegisteringLinks, FinalizingLinks, DyingLinks
<1>2. CASE OtherRank \/ Merge
  BY <1>2, OtherRankLinks, MergeLinks
<1>3. CASE NextJob /\ UNCHANGED store
  BY <1>3, NextJobLinks
<1>4. CASE (Over /\ UNCHANGED store) \/ UNCHANGED allVars
  BY <1>4, StutterLinks DEF Over, allVars
<1> QED BY <1>1, <1>2, <1>3, <1>4 DEF TracedNext

-----------------------------------------------------------------------------
(* The theorems.                                                           *)

\* The job's invariant, the process's, and the link between the two hold.
THEOREM Composed == TracedSpec => [](IInv /\ ProcessInv /\ Link)
BY LinkInit, NextLinks, ImplementsJob, Invariance, ProcessInvariance, PTL DEF TracedSpec

\* The process and the rank are in step, and the rank enters the second barrier
\* with the mutex free.
THEOREM AlwaysInStep == TracedSpec => []InStep
<1>1. IInv /\ ProcessInv /\ Link => InStep
  BY DEF ProcessInv, Link, Steps, InStep
<1> QED BY <1>1, Composed, PTL

\* Wherever the trace of a process is found it stands for all of its calls.
THEOREM TracesStandForCalls == TracedSpec => []TraceStandsForCalls
<1>1. IInv /\ ProcessInv /\ Link => TraceStandsForCalls
  BY DEF ProcessInv, Link, TraceInv, TraceStandsForCalls
<1> QED BY <1>1, Composed, PTL

\* A job that nothing disturbed ends with every call of every process in its
\* merged trace, or reported.
THEOREM CallsAreMerged == TracedSpec => []CallsReachMergedTrace
<1>1. TraceStandsForCalls /\ UndisturbedWorks => CallsReachMergedTrace
  <2>1. Merged \in Names
    BY DEF Names
  <2> QED BY <2>1 DEF TraceStandsForCalls, UndisturbedWorks, CallsReachMergedTrace, Mine
<1> QED BY <1>1, TracesStandForCalls, ImplementsJob, UndisturbedJobsSucceed, PTL

\* From the second barrier on, nothing happens in any process of the job.
THEOREM MergingIsQuiet == TracedSpec => QuietWhileMerging
<1> DEFINE Quiet ==
      Mine /\ pc[0] \in {"read_dir", "scan", "sorted", "merge", "pmpi", "done"} =>
        UNCHANGED <<n, events, dropped, traces, own>>
<1>1. ASSUME IInv, Link, [TracedNext]_allVars PROVE [Quiet]_allVars
  <2>1. SUFFICES ASSUME Mine,
                        pc[0] \in {"read_dir", "scan", "sorted", "merge", "pmpi", "done"}
                 PROVE  UNCHANGED <<n, events, dropped, traces, own>>
    OBVIOUS
  <2>2. pc[Me] \in After2
    BY <1>1, <2>1, BarrierSeparates DEF Mine, MergeLocs
  <2>3. ~ (Running \/ Registering)
    BY <2>2 DEF Running, Registering, After2, MergeLocs, Ended
  <2>4. CASE Finalizing
    <3>1. UNCHANGED store
      BY <2>2, <2>4 DEF Finalizing, RegisterFinalize, Finalize, LeaveBarrier1, Register,
         CreateDir, Open, Write, RegisterFails, After2, MergeLocs, Ended
    <3> QED BY <3>1 DEF store
  <2>5. CASE Dying \/ Merge
    BY <2>5 DEF Dying, Merge, Process!Kill, Process!AllocAborts, store
  <2>6. CASE UNCHANGED store
    BY <2>6 DEF store
  <2> QED BY <1>1, <2>3, <2>4, <2>5, <2>6 DEF TracedNext, OtherRank, allVars
<1>2. IInv /\ ProcessInv /\ Link /\ [TracedNext]_allVars => [Quiet]_allVars
  BY <1>1
<1> QED BY <1>2, Composed, PTL DEF TracedSpec, QuietWhileMerging
=============================================================================
