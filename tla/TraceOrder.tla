----------------------------- MODULE TraceOrder -----------------------------
(***************************************************************************)
(* Time stamps, and the order of the merged trace.  Every wrapper reads    *)
(* the counter of the core that its thread is on, most of them twice, and  *)
(* rank 0 sorts the events of all ranks by the first reading.  Counters    *)
(* count the same ticks but disagree on when they started: those of two    *)
(* nodes by up to NodeSkew, those of two cores of one node by up to        *)
(* CoreSkew, and a thread may be moved to another core before any reading. *)
(* An unfenced rdtsc that the processor takes early is in CoreSkew, too.   *)
(*                                                                         *)
(* An event has, besides its fields, what the trace does not tell: the     *)
(* thread, the true times of both readings, and the two cores, as how far  *)
(* they are ahead of their node.  pc[t] is where thread t is:              *)
(*    idle      before the MPI_Init of its process                         *)
(*    init      in MPI_Init, after the barrier (the main thread)           *)
(*    app       outside any wrapper                                        *)
(*    pmpi      between the two readings                                   *)
(*    barrier   in the first barrier of MPI_Finalize (the main thread)     *)
(*    register  in register_mpi_call                                       *)
(*    ended     at the second barrier of MPI_Finalize, or beyond           *)
(***************************************************************************)
EXTENDS Integers, Sequences, FiniteSets

CONSTANTS Ranks,
          Threads,          \* <<r, w>> is thread w of rank r ...
          Boss,             \* ... and <<r, Boss>> its main thread
          Node, NodeSkew,   \* Node[r] : how far rank r's node is ahead, at most NodeSkew
          Cores, CoreSkew,  \* how far cores are ahead of their node, at most CoreSkew
          Modulus,          \* 2 to the number of bits of a duration
          MaxTime,          \* bound: the ticks of the job
          MaxCalls          \* bound: calls between MPI_Init and MPI_Finalize

ASSUME ThreadsAssumption ==
  /\ \A t \in Threads : t[1] \in Ranks
  /\ \A r \in Ranks : <<r, Boss>> \in Threads
ASSUME SkewAssumption == 
  /\ NodeSkew \in Nat /\ Node \in [Ranks -> 0..NodeSkew]
  /\ CoreSkew \in Nat /\ Cores \subseteq 0..CoreSkew
ASSUME TimeAssumption ==
  MaxTime \in Nat /\ Modulus \in Nat /\ MaxTime + CoreSkew < Modulus
ASSUME CallsAssumption == MaxCalls \in Nat

Main(r)  == <<r, Boss>>
Duration == 0..Modulus - 1

VARIABLES now,              \* the true time
          pc,               \* pc[t] : where thread t is
          call,             \* call[t] : the event thread t is making
          last,             \* last[t] : when thread t's last call ended
          calls,            \* how many calls were made
          traced,           \* traced[r] : the events in rank r's vector
          merged            \* the sorted trace, as far as it has been sorted

vars == <<now, pc, call, last, calls, traced, merged>>

Events ==
  [kind : {"init", "call", "finalize"}, thread : Threads,
   begin : Nat, end : Nat, core : Cores, endcore : Cores,
   tsc : Nat, duration : Duration]

\* The event of a reading by thread t on this core, now.
Stamped(t, kind, core) ==
  [kind |-> kind, thread |-> t, begin |-> now, end |-> now, core |-> core,
   endcore |-> core, tsc |-> now + Node[t[1]] + core, duration |-> 0]

Locations == {"idle", "init", "app", "pmpi", "barrier", "register", "ended"}

TypeOK ==
  /\ now \in 0..MaxTime
  /\ pc \in [Threads -> Locations]
  /\ DOMAIN call = Threads
  /\ \A t \in Threads : pc[t] \in {"pmpi", "register"} => call[t] \in Events
  /\ last \in [Threads -> 0..MaxTime]
  /\ calls \in 0..MaxCalls
  /\ traced \in [Ranks -> SUBSET Events]
  /\ merged \in Seq(Events)

\* Every rank is past the barrier that follows PMPI_Init.
Init ==
  /\ now = 0
  /\ pc = [t \in Threads |-> IF t[2] = Boss THEN "init" ELSE "idle"]
  /\ call = [t \in Threads |-> << >>]
  /\ last = [t \in Threads |-> 0]
  /\ calls = 0
  /\ traced = [r \in Ranks |-> {}]
  /\ merged = << >>

\* The ranks that are in MPI_Finalize or past it.
Arrived ==
  {r \in Ranks : LET m == Main(r) IN
                   \/ pc[m] \in {"barrier", "ended"}
                   \/ pc[m] = "register" /\ call[m].kind = "finalize"}

\* Time passes, as long as there is a reading to come; it always does between
\* two readings of a thread.
Tick ==
  /\ now < MaxTime
  /\ \E t \in Threads : pc[t] \in {"init", "pmpi", "barrier"} \/ t[1] \notin Arrived
  /\ now' = now + 1
  /\ UNCHANGED <<pc, call, last, calls, traced, merged>>

-----------------------------------------------------------------------------
(* The wrappers.                                                           *)

\* MPI_Init reads the counter once; its process may make calls when it returns.
StampInit(r, core) ==
  /\ pc[Main(r)] = "init"
  /\ call' = [call EXCEPT ![Main(r)] = Stamped(Main(r), "init", core)]
  /\ last' = [last EXCEPT ![Main(r)] = now]
  /\ pc' = [pc EXCEPT ![Main(r)] = "register"]
  /\ UNCHANGED <<now, calls, traced, merged>>

\* Any other call but MPI_Finalize, after which there is none: the counter is read, and PMPI is called.
Begin(t, core) ==
  /\ pc[t] = "app"
  /\ t[1] \notin Arrived
  /\ last[t] < now
  /\ calls < MaxCalls
  /\ calls' = calls + 1
  /\ call' = [call EXCEPT ![t] = Stamped(t, "call", core)]
  /\ pc' = [pc EXCEPT ![t] = "pmpi"]
  /\ UNCHANGED <<now, last, traced, merged>>

\* Mutants: a signed difference; the readings change places.
SignedElapsed(from, to)  == to - from
SwappedElapsed(from, to) == (from - to) % Modulus

\* The difference of two readings as an unsigned number.
Elapsed(from, to) == (to - from) % Modulus

\* PMPI has returned and the counter is read again, perhaps on another core.
End(t, core) ==
  LET c == call[t]
      reading == now + Node[t[1]] + core
  IN /\ pc[t] = "pmpi"
     /\ c.begin < now
     /\ call' = [call EXCEPT ![t] = [c EXCEPT !.end = now, !.endcore = core,
                                              !.duration = Elapsed(c.tsc, reading)]]
     /\ last' = [last EXCEPT ![t] = now]
     /\ pc' = [pc EXCEPT ![t] = "register"]
     /\ UNCHANGED <<now, calls, traced, merged>>

\* MPI_Finalize enters its first barrier; no other thread is in an MPI call.
EnterFinalize(r) ==
  /\ \A t \in Threads : t[1] = r => pc[t] = "app"
  /\ pc' = [pc EXCEPT ![Main(r)] = "barrier"]
  /\ UNCHANGED <<now, call, last, calls, traced, merged>>

\* Mutant: MPI_Finalize reads the counter on entering the barrier.
StampFinalizeEarly(r, core) ==
  /\ pc[Main(r)] = "barrier"
  /\ last[Main(r)] < now
  /\ call' = [call EXCEPT ![Main(r)] = Stamped(Main(r), "finalize", core)]
  /\ pc' = [pc EXCEPT ![Main(r)] = "register"]
  /\ UNCHANGED <<now, last, calls, traced, merged>>

\* The barrier takes time and lets a rank go when all have entered it; then
\* the counter is read.
StampFinalize(r, core) ==
  /\ pc[Main(r)] = "barrier"
  /\ Arrived = Ranks
  /\ \A t \in Threads : last[t] < now
  /\ call' = [call EXCEPT ![Main(r)] = Stamped(Main(r), "finalize", core)]
  /\ pc' = [pc EXCEPT ![Main(r)] = "register"]
  /\ UNCHANGED <<now, last, calls, traced, merged>>

\* The threads for which this registration ends MPI_Init: all of the process.
Register(t) ==
  /\ pc[t] = "register"
  /\ traced' = [traced EXCEPT ![t[1]] = @ \cup {call[t]}]
  /\ pc' = CASE call[t].kind = "init" -> [u \in Threads |-> IF u[1] = t[1] THEN "app" ELSE pc[u]]
             [] call[t].kind = "call" -> [pc EXCEPT ![t] = "app"]
             [] call[t].kind = "finalize" -> [pc EXCEPT ![t] = "ended"]
  /\ UNCHANGED <<now, call, last, calls, merged>>

-----------------------------------------------------------------------------
(* sort_all_traces on rank 0, once every rank is at the second barrier.    *)

Sorted == {merged[i] : i \in 1..Len(merged)}
Left   == (UNION {traced[r] : r \in Ranks}) \ Sorted

\* Mutant: the files are concatenated, not sorted.
ConcatNext(e) ==
  /\ \A r \in Ranks : pc[Main(r)] = "ended"
  /\ e \in Left
  /\ merged' = Append(merged, e)
  /\ UNCHANGED <<now, pc, call, last, calls, traced>>

\* An unstable sort by the time stamp gives any order of the events in which
\* each has the least stamp of those left.
SortNext(e) ==
  /\ \A r \in Ranks : pc[Main(r)] = "ended"
  /\ e \in Left
  /\ \A f \in Left : e.tsc <= f.tsc
  /\ merged' = Append(merged, e)
  /\ UNCHANGED <<now, pc, call, last, calls, traced>>

\* The trace is sorted, or the bounded time is over.
Over ==
  /\ now = MaxTime \/ ((\A r \in Ranks : pc[Main(r)] = "ended") /\ Left = {})
  /\ UNCHANGED vars

Next ==
  \/ Tick
  \/ \E core \in Cores :
       \/ \E r \in Ranks : StampInit(r, core) \/ StampFinalize(r, core)
       \/ \E t \in Threads : Begin(t, core) \/ End(t, core)
  \/ \E r \in Ranks : EnterFinalize(r)
  \/ \E t \in Threads : Register(t)
  \/ \E e \in Left : SortNext(e)
  \/ Over

Spec == Init /\ [][Next]_vars

-----------------------------------------------------------------------------
(* Correctness.                                                            *)

\* A duration is exact for a thread that stayed on its core (or found one that
\* agrees), and off by at most CoreSkew for any other, unless the call was
\* shorter than that: only then can the unsigned difference wrap.
DurationsRight ==
  \A r \in Ranks : \A e \in traced[r] :
    LET elapsed == e.end - e.begin
    IN /\ e.core = e.endcore => e.duration = elapsed
       /\ elapsed >= CoreSkew => e.duration \in elapsed - CoreSkew .. elapsed + CoreSkew

\* An event that the merged trace puts before another may have begun after it,
\* but by no more than the counters disagree; two calls of one thread that
\* began on cores that agree are in the order they were made, though the sort
\* is unstable and other threads registered between them.
MergedOrder ==
  \A i, j \in 1..Len(merged) : i < j =>
    LET e == merged[i]
        f == merged[j]
    IN /\ e.begin <= f.begin + NodeSkew + CoreSkew
       /\ e.thread[1] = f.thread[1] => e.begin <= f.begin + CoreSkew
       /\ e.thread = f.thread /\ e.core = f.core => e.begin < f.begin

\* The barrier before the reading of MPI_Finalize's stamp puts it after every
\* call of every rank: one that is sorted behind it lasted for less than the
\* counters disagree.
FinalizesLast ==
  \A i, j \in 1..Len(merged) :
    i < j /\ merged[i].kind = "finalize" /\ merged[j].kind # "finalize" =>
      merged[j].end - merged[j].begin < NodeSkew + CoreSkew
=============================================================================
