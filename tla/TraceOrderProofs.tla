-------------------------- MODULE TraceOrderProofs --------------------------
(***************************************************************************)
(* Proofs about TraceOrder, for any number of ranks and threads and any    *)
(* disagreement of the counters.  What the merged trace tells of the order *)
(* of two events follows from their stamps alone; that MPI_Finalize comes  *)
(* last needs what its barrier does, too.                                  *)
(***************************************************************************)
EXTENDS TraceOrder, TLAPS

\* What the stamps of an event are worth.
Legit(e) ==
  /\ e \in Events
  /\ e.tsc = e.begin + Node[e.thread[1]] + e.core
  /\ e.begin <= e.end /\ e.end <= MaxTime
  /\ e.duration = (e.end + e.endcore - e.begin - e.core) % Modulus

InFlight(t) == pc[t] \in {"pmpi", "register"}

CallsLegit ==
  \A t \in Threads : InFlight(t) =>
    /\ Legit(call[t])
    /\ call[t].thread = t
    /\ pc[t] = "pmpi" => call[t].kind = "call"
    /\ pc[t] = "register" /\ call[t].kind # "finalize" => call[t].end <= last[t]
    /\ call[t].kind # "call" => t = Main(t[1])

TracedLegit ==
  \A r \in Ranks : \A e \in traced[r] :
    /\ Legit(e)
    /\ e.thread[1] = r
    /\ e.kind # "finalize" => e.end <= last[e.thread]
    /\ e.kind = "finalize" => e.thread = Main(r) /\ pc[Main(r)] = "ended"

\* A thread's calls follow each other.
Serial ==
  \A t \in Threads : \A e \in traced[t[1]] : e.thread = t =>
    /\ pc[t] # "init"
    /\ InFlight(t) => e.end < call[t].begin

Distinct ==
  \A r \in Ranks : \A e, f \in traced[r] :
    e.thread = f.thread /\ e # f => e.begin # f.begin

\* f's stamp was read when every rank had arrived and every call was over.
AfterAll(f) == Arrived = Ranks /\ \A t \in Threads : last[t] < f.begin

Finalizing ==
  /\ \A t \in Threads : t[1] \in Arrived => pc[t] = "app" \/ t = Main(t[1])
  /\ \A t \in Threads :
       pc[t] = "register" /\ call[t].kind = "finalize" => AfterAll(call[t])
  /\ \A r \in Ranks : \A e \in traced[r] : e.kind = "finalize" => AfterAll(e)

Sorting ==
  /\ merged # << >> => \A r \in Ranks : pc[Main(r)] = "ended"
  /\ \A i \in 1..Len(merged) : \E r \in Ranks : merged[i] \in traced[r]
  /\ \A i, j \in 1..Len(merged) :
       i < j => merged[i].tsc <= merged[j].tsc /\ merged[i] # merged[j]
  /\ \A i \in 1..Len(merged) : \A f \in Left : merged[i].tsc <= f.tsc

\* The inductive invariant.
IInv ==
  /\ TypeOK
  /\ CallsLegit
  /\ TracedLegit
  /\ Serial
  /\ Distinct
  /\ Finalizing
  /\ Sorting

-----------------------------------------------------------------------------
LEMMA Assumptions ==
  /\ \A t \in Threads : t[1] \in Ranks
  /\ \A r \in Ranks : Main(r) \in Threads /\ Main(r)[1] = r
  /\ NodeSkew \in Nat /\ CoreSkew \in Nat /\ Cores \subseteq 0..CoreSkew
  /\ \A r \in Ranks : Node[r] \in 0..NodeSkew
  /\ MaxTime \in Nat /\ Modulus \in Nat /\ MaxTime + CoreSkew < Modulus
  /\ MaxCalls \in Nat
BY ThreadsAssumption, SkewAssumption, TimeAssumption, CallsAssumption DEF Main

\* The unsigned difference of two readings.
LEMMA Unsigned ==
  ASSUME NEW d \in Int
  PROVE  /\ d % Modulus \in Duration
         /\ d \in Duration => d % Modulus = d
BY Assumptions DEF Duration

\* A single reading makes a legitimate event.
LEMMA StampedLegit ==
  ASSUME NEW t \in Threads, NEW kind \in {"init", "call", "finalize"}, NEW core \in Cores,
         now \in 0..MaxTime
  PROVE  /\ Legit(Stamped(t, kind, core))
         /\ Stamped(t, kind, core).kind = kind
         /\ Stamped(t, kind, core).thread = t
         /\ Stamped(t, kind, core).begin = now
         /\ Stamped(t, kind, core).end = now
<1> DEFINE e == Stamped(t, kind, core)
<1>1. /\ e.kind = kind /\ e.thread = t /\ e.begin = now /\ e.end = now /\ e.core = core
      /\ e.endcore = core /\ e.tsc = now + Node[t[1]] + core /\ e.duration = 0
  BY DEF Stamped
<1>2. 0 \in Duration /\ 0 % Modulus = 0
  BY Assumptions, Unsigned DEF Duration
<1>3. now + Node[t[1]] + core \in Nat
  BY Assumptions
<1>4. e \in Events
  BY <1>2, <1>3, Assumptions DEF Stamped, Events
<1>5. e.end + e.endcore - e.begin - e.core = 0
  BY <1>1, Assumptions
<1> QED BY <1>1, <1>2, <1>4, <1>5, Assumptions DEF Legit

LEMMA LegitStamp ==
  ASSUME NEW e, NEW t, Legit(e), e.thread = t
  PROVE  e.tsc = e.begin + Node[t[1]] + e.core
BY DEF Legit

LEMMA Initially == Init => IInv
<1> SUFFICES ASSUME Init PROVE IInv
  OBVIOUS
<1>1. TypeOK
  BY Assumptions DEF Init, TypeOK, Locations
<1>2. \A t \in Threads : pc[t] \in {"init", "idle"}
  BY DEF Init
<1>3. CallsLegit
  BY <1>2 DEF CallsLegit, InFlight
<1> \A r \in Ranks : traced[r] = {}
  BY DEF Init
<1> TracedLegit /\ Serial /\ Distinct
  BY Assumptions DEF TracedLegit, Serial, Distinct
<1>4. Arrived = {}
  BY <1>2, Assumptions DEF Arrived
<1>5. Finalizing
  BY <1>2, <1>4 DEF Init, Finalizing
<1>6. Sorting
  BY DEF Init, Sorting
<1> QED BY <1>1, <1>3, <1>5, <1>6 DEF IInv

-----------------------------------------------------------------------------
(* The steps.                                                              *)

\* No step but SortNext changes the sorted trace, and while there is one no
\* other changes the vectors.
LEMMA SortingKept ==
  ASSUME Sorting, merged' = merged,
         merged # << >> => UNCHANGED <<pc, traced>>
  PROVE  Sorting'
<1>1. CASE merged = << >>
  BY <1>1 DEF Sorting
<1>2. CASE merged # << >>
  BY <1>2 DEF Sorting, Left, Sorted
<1> QED BY <1>1, <1>2

\* While the trace is being sorted every thread is back in the application.
LEMMA SortingQuiet ==
  ASSUME IInv, merged # << >>
  PROVE  \A t \in Threads : pc[t] \in {"app", "ended"}
<1>1. \A r \in Ranks : pc[Main(r)] = "ended"
  BY DEF IInv, Sorting
<1>2. Arrived = Ranks
  BY <1>1 DEF Arrived
<1> QED BY <1>1, <1>2, Assumptions DEF IInv, Finalizing

LEMMA TickStep ==
  ASSUME IInv, Tick
  PROVE  IInv'
<1>1. TypeOK'
  BY Assumptions DEF IInv, TypeOK, Tick
<1>2. CallsLegit' /\ TracedLegit' /\ Serial' /\ Distinct'
  BY DEF IInv, Tick, CallsLegit, InFlight, TracedLegit, Serial, Distinct, Legit
<1>3. Finalizing'
  BY DEF IInv, Tick, Finalizing, AfterAll, Arrived
<1>4. Sorting'
  BY SortingKept DEF IInv, Tick
<1> QED BY <1>1, <1>2, <1>3, <1>4 DEF IInv

\* A thread t reads the counter for a new event.
LEMMA StampInitStep ==
  ASSUME IInv, NEW r \in Ranks, NEW core \in Cores, StampInit(r, core)
  PROVE  IInv'
<1> DEFINE t == Main(r)
<1> DEFINE e == Stamped(t, "init", core)
<1>1. /\ t \in Threads /\ t[1] = r /\ t = Main(t[1])
  BY Assumptions
<1>2. /\ Legit(e) /\ e.kind = "init" /\ e.thread = t /\ e.begin = now /\ e.end = now
  BY <1>1, StampedLegit DEF IInv, TypeOK
<1> HIDE DEF t
<1>3. /\ pc[t] = "init" /\ pc' = [pc EXCEPT ![t] = "register"]
      /\ call' = [call EXCEPT ![t] = e]
      /\ last' = [last EXCEPT ![t] = now]
      /\ now' = now /\ calls' = calls /\ traced' = traced /\ merged' = merged
  BY DEF StampInit, t
<1> HIDE DEF e
<1> /\ TypeOK /\ CallsLegit /\ TracedLegit /\ Serial /\ Distinct /\ Finalizing /\ Sorting
  BY DEF IInv
<1>4. TypeOK'
  BY <1>1, <1>2, <1>3 DEF TypeOK, Locations, Legit
<1>5. CallsLegit'
  BY <1>1, <1>2, <1>3 DEF TypeOK, CallsLegit, InFlight, Legit
<1>6. \A f \in traced[r] : f.thread # t
  BY <1>1, <1>3 DEF Serial
<1>7. TracedLegit'
  BY <1>1, <1>3, <1>6 DEF TypeOK, TracedLegit, Legit
<1>8. Serial' /\ Distinct'
  BY <1>1, <1>3, <1>6 DEF TypeOK, Serial, InFlight, Distinct
<1>9. r \notin Arrived /\ Arrived' = Arrived
  BY <1>1, <1>2, <1>3, Assumptions DEF TypeOK, Arrived, t
<1>10. Finalizing'
  BY <1>1, <1>2, <1>3, <1>9 DEF TypeOK, Finalizing, AfterAll
<1>11. Sorting'
  BY <1>1, <1>3, SortingKept, SortingQuiet
<1> QED BY <1>4, <1>5, <1>7, <1>8, <1>10, <1>11 DEF IInv

LEMMA BeginStep ==
  ASSUME IInv, NEW t \in Threads, NEW core \in Cores, Begin(t, core)
  PROVE  IInv'
<1> DEFINE e == Stamped(t, "call", core)
<1>1. t[1] \in Ranks
  BY Assumptions
<1>2. /\ Legit(e) /\ e.kind = "call" /\ e.thread = t /\ e.begin = now /\ e.end = now
  BY StampedLegit DEF IInv, TypeOK
<1>3. /\ pc[t] = "app" /\ pc' = [pc EXCEPT ![t] = "pmpi"]
      /\ call' = [call EXCEPT ![t] = e]
      /\ t[1] \notin Arrived /\ last[t] < now /\ calls < MaxCalls /\ calls' = calls + 1
      /\ now' = now /\ last' = last /\ traced' = traced /\ merged' = merged
  BY DEF Begin
<1> HIDE DEF e
<1> /\ TypeOK /\ CallsLegit /\ TracedLegit /\ Serial /\ Distinct /\ Finalizing /\ Sorting
  BY DEF IInv
<1>4. TypeOK'
  BY <1>1, <1>2, <1>3, Assumptions DEF TypeOK, Locations, Legit
<1>5. CallsLegit'
  BY <1>2, <1>3 DEF TypeOK, CallsLegit, InFlight
<1>6. \A f \in traced[t[1]] : f.thread = t => f.kind # "finalize" /\ f.end < now
  <2> SUFFICES ASSUME NEW f \in traced[t[1]], f.thread = t
               PROVE  f.kind # "finalize" /\ f.end < now
    OBVIOUS
  <2>1. f.kind # "finalize"
    BY <1>1, <1>3 DEF TracedLegit
  <2>2. f.end \in Nat /\ f.end <= last[t]
    BY <1>1, <2>1 DEF TracedLegit, Legit, Events
  <2> QED BY <1>3, <2>1, <2>2 DEF TypeOK
<1>7. TracedLegit'
  BY <1>3 DEF TypeOK, TracedLegit
<1>8. Serial' /\ Distinct'
  BY <1>2, <1>3, <1>6 DEF TypeOK, Serial, InFlight, Distinct
<1>9. Arrived' = Arrived
  <2>1. \A r \in Ranks : Main(r) # t => pc'[Main(r)] = pc[Main(r)] /\ call'[Main(r)] = call[Main(r)]
    BY <1>3, Assumptions DEF TypeOK
  <2>2. pc'[t] = "pmpi"
    BY <1>3 DEF TypeOK
  <2> QED BY <1>3, <2>1, <2>2, Assumptions DEF Arrived
<1>10. Finalizing'
  BY <1>2, <1>3, <1>9 DEF TypeOK, Finalizing, AfterAll
<1>11. Sorting'
  <2>1. merged = << >>
    <3> SUFFICES ASSUME merged # << >> PROVE FALSE
      OBVIOUS
    <3>1. Arrived = Ranks
      BY DEF Sorting, Arrived
    <3> QED BY <1>1, <1>3, <3>1
  <2> QED BY <1>3, <2>1, SortingKept
<1> QED BY <1>4, <1>5, <1>7, <1>8, <1>10, <1>11 DEF IInv

LEMMA EndStep ==
  ASSUME IInv, NEW t \in Threads, NEW core \in Cores, End(t, core)
  PROVE  IInv'
<1> DEFINE c == call[t]
<1> DEFINE reading == now + Node[t[1]] + core
<1> DEFINE e == [c EXCEPT !.end = now, !.endcore = core,
                          !.duration = Elapsed(c.tsc, reading)]
<1>1. t[1] \in Ranks
  BY Assumptions
<1>2. /\ pc[t] = "pmpi" /\ c.begin < now /\ pc' = [pc EXCEPT ![t] = "register"]
      /\ call' = [call EXCEPT ![t] = e]
      /\ last' = [last EXCEPT ![t] = now]
      /\ now' = now /\ calls' = calls /\ traced' = traced /\ merged' = merged
  BY DEF End
<1> /\ TypeOK /\ CallsLegit /\ TracedLegit /\ Serial /\ Distinct /\ Finalizing /\ Sorting
  BY DEF IInv
<1>3. Legit(c) /\ c.thread = t /\ c.kind = "call"
  BY <1>2 DEF CallsLegit, InFlight
<1>4. Legit(e) /\ e.kind = "call" /\ e.thread = t /\ e.begin = c.begin /\ e.end = now
  <2>1. c \in Events
    BY <1>3 DEF Legit
  <2>2. /\ now \in Nat /\ now <= MaxTime /\ core \in Nat
        /\ Node[t[1]] \in Nat /\ reading \in Nat
    BY <1>1, Assumptions DEF TypeOK
  <2>3. Elapsed(c.tsc, reading) \in Duration
    BY <2>1, <2>2, Unsigned DEF Events, Elapsed
  <2>4. e \in Events
    BY <2>1, <2>2, <2>3 DEF Events
  <2>5. /\ e.kind = c.kind /\ e.thread = c.thread /\ e.begin = c.begin /\ e.core = c.core
        /\ e.tsc = c.tsc /\ e.end = now /\ e.endcore = core
        /\ e.duration = Elapsed(c.tsc, reading)
    BY <2>1 DEF Events
  <2>6. c.begin \in Nat /\ c.core \in Nat /\ c.tsc = c.begin + Node[t[1]] + c.core
    <3>1. c.begin \in Nat /\ c.core \in Cores
      BY <2>1 DEF Events
    <3>2. c.tsc = c.begin + Node[t[1]] + c.core
      BY <1>3, LegitStamp
    <3>3. \A k \in Cores : k \in Nat
      BY Assumptions
    <3> HIDE DEF c
    <3> QED BY <3>1, <3>2, <3>3
  <2>7. reading - c.tsc = now + core - c.begin - c.core
    BY <2>2, <2>6
  <2> HIDE DEF c, e, reading
  <2> QED BY <1>2, <1>3, <2>2, <2>4, <2>5, <2>6, <2>7 DEF Legit, Elapsed
<1> HIDE DEF c, e
<1>5. TypeOK'
  BY <1>2, <1>4, Assumptions DEF TypeOK, Locations, Legit
<1>6. CallsLegit'
  BY <1>2, <1>4 DEF TypeOK, CallsLegit, InFlight
<1>7. \A f \in traced[t[1]] : f.thread = t => f.end < c.begin /\ f.end \in Nat
  BY <1>1, <1>2 DEF c, Serial, InFlight, TypeOK, Events
<1>8. TracedLegit'
  <2> SUFFICES ASSUME NEW r \in Ranks, NEW f \in traced[r]
               PROVE  /\ f.kind # "finalize" => f.end <= last'[f.thread]
                      /\ f.kind = "finalize" => pc'[Main(r)] = "ended"
    BY <1>2 DEF TracedLegit
  <2>1. f.thread \in Threads /\ f.thread[1] = r
    BY DEF TracedLegit, Legit, Events
  <2>2. CASE f.thread = t
    <3>1. f.end <= now
      BY <1>2, <1>3, <1>7, <2>1, <2>2 DEF TypeOK, Legit, Events
    <3>2. last'[t] = now
      BY <1>2 DEF TypeOK
    <3>3. f.kind # "finalize"
      BY <1>2, <2>2 DEF TracedLegit
    <3> QED BY <2>2, <3>1, <3>2, <3>3
  <2>3. CASE f.thread # t
    <3>1. last'[f.thread] = last[f.thread]
      BY <1>2, <2>1, <2>3 DEF TypeOK
    <3>2. f.kind = "finalize" => Main(r) # t
      BY <2>3 DEF TracedLegit
    <3> QED BY <1>2, <3>1, <3>2, Assumptions DEF TypeOK, TracedLegit
  <2> QED BY <2>2, <2>3
<1>9. Serial' /\ Distinct'
  BY <1>2, <1>4 DEF c, TypeOK, Serial, InFlight, Distinct
<1>10. t[1] \notin Arrived
  BY <1>2, <1>3 DEF c, Finalizing, Arrived
<1>11. Arrived' = Arrived
  <2>1. \A r \in Ranks : Main(r) # t => pc'[Main(r)] = pc[Main(r)] /\ call'[Main(r)] = call[Main(r)]
    BY <1>2, Assumptions DEF TypeOK
  <2>2. pc'[t] = "register" /\ call'[t].kind = "call"
    BY <1>2, <1>4 DEF TypeOK
  <2> QED BY <1>10, <2>1, <2>2, Assumptions DEF Arrived
<1>12. Finalizing'
  BY <1>1, <1>2, <1>4, <1>10, <1>11 DEF TypeOK, Finalizing, AfterAll
<1>13. Sorting'
  BY <1>2, SortingKept, SortingQuiet
<1> QED BY <1>5, <1>6, <1>8, <1>9, <1>12, <1>13 DEF IInv

LEMMA EnterFinalizeStep ==
  ASSUME IInv, NEW r \in Ranks, EnterFinalize(r)
  PROVE  IInv'
<1> DEFINE t == Main(r)
<1>1. /\ t \in Threads /\ t[1] = r /\ t = Main(t[1])
  BY Assumptions
<1>2. /\ \A u \in Threads : u[1] = r => pc[u] = "app"
      /\ pc[t] = "app" /\ pc' = [pc EXCEPT ![t] = "barrier"]
      /\ UNCHANGED <<now, call, last, calls, traced, merged>>
  BY <1>1 DEF EnterFinalize
<1> HIDE DEF t
<1> /\ TypeOK /\ CallsLegit /\ TracedLegit /\ Serial /\ Distinct /\ Finalizing /\ Sorting
  BY DEF IInv
<1>3. TypeOK'
  BY <1>1, <1>2 DEF TypeOK, Locations
<1>4. CallsLegit' /\ Serial' /\ Distinct'
  BY <1>1, <1>2 DEF TypeOK, CallsLegit, Serial, InFlight, Distinct
<1>5. TracedLegit'
  BY <1>1, <1>2, Assumptions DEF TypeOK, TracedLegit
<1>6. Arrived' = Arrived \cup {r}
  <2>1. \A q \in Ranks : q # r => pc'[Main(q)] = pc[Main(q)]
    BY <1>1, <1>2, Assumptions DEF TypeOK
  <2>2. pc'[Main(r)] = "barrier"
    BY <1>1, <1>2 DEF TypeOK, t
  <2> QED BY <1>2, <2>1, <2>2 DEF Arrived
<1>7. r \notin Arrived
  BY <1>1, <1>2 DEF Arrived, t
<1>8. Finalizing'
  BY <1>1, <1>2, <1>6, <1>7 DEF TypeOK, Finalizing, AfterAll
<1>9. Sorting'
  BY <1>2, <1>7, SortingKept DEF Sorting, Arrived
<1> QED BY <1>3, <1>4, <1>5, <1>8, <1>9 DEF IInv

LEMMA StampFinalizeStep ==
  ASSUME IInv, NEW r \in Ranks, NEW core \in Cores, StampFinalize(r, core)
  PROVE  IInv'
<1> DEFINE t == Main(r)
<1> DEFINE e == Stamped(t, "finalize", core)
<1>1. /\ t \in Threads /\ t[1] = r /\ t = Main(t[1])
  BY Assumptions
<1>2. /\ Legit(e) /\ e.kind = "finalize" /\ e.thread = t /\ e.begin = now /\ e.end = now
  BY <1>1, StampedLegit DEF IInv, TypeOK
<1>3. /\ pc[t] = "barrier" /\ pc' = [pc EXCEPT ![t] = "register"]
      /\ call' = [call EXCEPT ![t] = e]
      /\ Arrived = Ranks /\ \A u \in Threads : last[u] < now
      /\ UNCHANGED <<now, last, calls, traced, merged>>
  BY DEF StampFinalize
<1> HIDE DEF e, t
<1> /\ TypeOK /\ CallsLegit /\ TracedLegit /\ Serial /\ Distinct /\ Finalizing /\ Sorting
  BY DEF IInv
<1>4. TypeOK'
  BY <1>1, <1>2, <1>3 DEF TypeOK, Locations, Legit
<1>5. CallsLegit'
  BY <1>1, <1>2, <1>3 DEF TypeOK, CallsLegit, InFlight
<1>6. TracedLegit'
  BY <1>1, <1>3, Assumptions DEF TypeOK, TracedLegit
<1>7. \A f \in traced[r] : f.thread = t => f.end < now
  <2> SUFFICES ASSUME NEW f \in traced[r], f.thread = t
               PROVE  f.end < now
    OBVIOUS
  <2>1. f.kind # "finalize"
    BY <1>1, <1>3 DEF TracedLegit, t
  <2>2. f.end \in Nat /\ f.end <= last[t]
    BY <1>1, <2>1 DEF TracedLegit, Legit, Events
  <2> QED BY <1>1, <1>3, <2>2 DEF TypeOK
<1>8. Serial' /\ Distinct'
  BY <1>1, <1>2, <1>3, <1>7 DEF TypeOK, Serial, InFlight, Distinct
<1>9. Arrived' = Arrived
  <2>1. \A q \in Ranks : q # r =>
          pc'[Main(q)] = pc[Main(q)] /\ call'[Main(q)] = call[Main(q)]
    BY <1>1, <1>3, Assumptions DEF TypeOK
  <2>2. pc'[Main(r)] = "register" /\ call'[Main(r)].kind = "finalize"
    BY <1>1, <1>2, <1>3 DEF TypeOK, t
  <2> QED BY <1>3, <2>1, <2>2 DEF Arrived
<1>10. Finalizing'
  BY <1>1, <1>2, <1>3, <1>9 DEF TypeOK, Finalizing, AfterAll
<1>11. Sorting'
  BY <1>1, <1>3, SortingKept, SortingQuiet
<1> QED BY <1>4, <1>5, <1>6, <1>8, <1>10, <1>11 DEF IInv

LEMMA RegisterStep ==
  ASSUME IInv, NEW t \in Threads, Register(t)
  PROVE  IInv'
<1> DEFINE e == call[t]
<1>1. t[1] \in Ranks
  BY Assumptions
<1>2. /\ pc[t] = "register" /\ traced' = [traced EXCEPT ![t[1]] = @ \cup {e}]
      /\ UNCHANGED <<now, call, last, calls, merged>>
  BY DEF Register
<1> /\ TypeOK /\ CallsLegit /\ TracedLegit /\ Serial /\ Distinct /\ Finalizing /\ Sorting
  BY DEF IInv
<1>3. /\ Legit(e) /\ e.thread = t /\ e \in Events
      /\ e.kind # "finalize" => e.end <= last[t]
      /\ e.kind # "call" => t = Main(t[1])
  BY <1>2 DEF CallsLegit, InFlight, Legit
<1>4. e.kind \in {"init", "call", "finalize"}
  BY <1>3 DEF Events
<1>5. /\ e.kind = "init" => pc' = [u \in Threads |-> IF u[1] = t[1] THEN "app" ELSE pc[u]]
      /\ e.kind = "call" => pc' = [pc EXCEPT ![t] = "app"]
      /\ e.kind = "finalize" => pc' = [pc EXCEPT ![t] = "ended"]
  BY DEF Register
<1> HIDE DEF e
\* What the three cases have in common.
<1>6. /\ \A u \in Threads : pc'[u] = pc[u] \/ (u[1] = t[1] /\ pc'[u] = "app")
                              \/ (u = t /\ e.kind = "finalize" /\ pc'[u] = "ended")
      /\ pc'[t] = IF e.kind = "finalize" THEN "ended" ELSE "app"
      /\ e.kind = "call" => \A u \in Threads : u # t => pc'[u] = pc[u]
  BY <1>1, <1>4, <1>5 DEF TypeOK
<1>7. TypeOK'
  <2>1. pc' \in [Threads -> Locations]
    BY <1>4, <1>5 DEF TypeOK, Locations
  <2>2. traced' \in [Ranks -> SUBSET Events]
    BY <1>1, <1>2, <1>3 DEF TypeOK
  <2> QED BY <1>2, <1>6, <2>1, <2>2 DEF TypeOK
<1>8. \A u \in Threads : InFlight(u)' => u # t /\ pc'[u] = pc[u]
  BY <1>6 DEF InFlight
<1>9. CallsLegit'
  BY <1>2, <1>8 DEF CallsLegit, InFlight
<1>10. \A r \in Ranks : \A f \in traced'[r] : f \in traced[r] \/ (f = e /\ r = t[1])
  BY <1>1, <1>2 DEF TypeOK
<1>11. \A r \in Ranks : pc[Main(r)] = "ended" => pc'[Main(r)] = "ended"
  <2> SUFFICES ASSUME NEW r \in Ranks, pc[Main(r)] = "ended", r = t[1], t # Main(r)
               PROVE  pc'[Main(r)] = "ended"
    BY <1>2, <1>6, Assumptions
  <2>1. e.kind = "call"
    BY <1>3, <1>4
  <2> QED BY <1>6, <2>1, Assumptions
<1>12. TracedLegit'
  BY <1>2, <1>3, <1>6, <1>10, <1>11 DEF TracedLegit
<1>13. Serial'
  <2> SUFFICES ASSUME NEW u \in Threads, NEW f \in traced'[u[1]], f.thread = u
               PROVE  /\ pc'[u] # "init"
                      /\ InFlight(u)' => f.end < call'[u].begin
    BY DEF Serial
  <2>1. CASE f = e
    BY <1>3, <1>6, <1>8, <2>1
  <2>2. CASE f # e
    <3>1. f \in traced[u[1]]
      BY <1>10, <2>2, Assumptions
    <3> QED BY <1>2, <1>6, <1>8, <3>1 DEF Serial, InFlight
  <2> QED BY <2>1, <2>2
<1>14. Distinct'
  <2>1. ASSUME NEW f \in traced[t[1]], f.thread = t
        PROVE  f.begin # e.begin
    <3>1. f.end < e.begin
      BY <1>2, <2>1 DEF e, Serial, InFlight
    <3>2. f \in Events /\ f.begin <= f.end
      BY <1>1 DEF TracedLegit, Legit
    <3> QED BY <1>3, <3>1, <3>2 DEF Events
  <2> QED BY <1>3, <1>10, <2>1 DEF Distinct
<1>15. Arrived' = Arrived
  <2>1. CASE e.kind = "call"
    <3>1. t = Main(t[1]) => t[1] \notin Arrived
      BY <1>2, <2>1 DEF e, Arrived
    <3>2. \A r \in Ranks : Main(r) # t => pc'[Main(r)] = pc[Main(r)]
      BY <1>6, <2>1, Assumptions
    <3>3. pc'[t] = "app"
      BY <1>6, <2>1
    <3>4. ASSUME NEW r \in Ranks PROVE r \in Arrived' <=> r \in Arrived
      <4>1. CASE Main(r) = t
        BY <3>1, <3>3, <4>1, Assumptions DEF Arrived
      <4>2. CASE Main(r) # t
        BY <1>2, <3>2, <4>2 DEF Arrived
      <4> QED BY <4>1, <4>2
    <3> QED BY <3>4 DEF Arrived
  <2>2. CASE e.kind = "finalize"
    <3>1. t = Main(t[1]) /\ t[1] \in Arrived
      BY <1>1, <1>2, <1>3, <2>2 DEF e, Arrived
    <3>2. \A r \in Ranks : Main(r) # t => pc'[Main(r)] = pc[Main(r)]
      BY <1>5, <2>2, Assumptions DEF TypeOK
    <3> QED BY <1>2, <1>6, <2>2, <3>1, <3>2 DEF Arrived
  <2>3. CASE e.kind = "init"
    <3>1. t = Main(t[1]) /\ t[1] \notin Arrived
      BY <1>1, <1>2, <1>3, <2>3 DEF e, Arrived
    <3>2. \A r \in Ranks : r # t[1] => pc'[Main(r)] = pc[Main(r)]
      BY <1>6, <2>3, Assumptions
    <3> QED BY <1>2, <1>6, <2>3, <3>1, <3>2 DEF Arrived
  <2> QED BY <1>4, <2>1, <2>2, <2>3
<1>16. \A f : AfterAll(f)' <=> AfterAll(f)
  BY <1>2, <1>15 DEF AfterAll
<1>17. Finalizing'
  <2>1. ASSUME NEW u \in Threads, u[1] \in Arrived
        PROVE  pc'[u] = "app" \/ u = Main(u[1])
    <3>1. pc[u] = "app" \/ u = Main(u[1])
      BY <2>1 DEF Finalizing
    <3> QED BY <1>3, <1>6, <3>1
  <2>2. ASSUME NEW u \in Threads, pc'[u] = "register", call'[u].kind = "finalize"
        PROVE  AfterAll(call[u])
    BY <1>2, <1>8, <2>2 DEF Finalizing, InFlight
  <2>3. ASSUME NEW r \in Ranks, NEW f \in traced'[r], f.kind = "finalize"
        PROVE  AfterAll(f)
    <3>1. CASE f \in traced[r]
      BY <2>3, <3>1 DEF Finalizing
    <3>2. CASE f = e
      BY <1>2, <2>3, <3>2 DEF e, Finalizing
    <3> QED BY <1>10, <3>1, <3>2
  <2> QED BY <1>2, <1>15, <1>16, <2>1, <2>2, <2>3 DEF Finalizing
<1>18. Sorting'
  BY <1>2, SortingKept, SortingQuiet
<1> QED BY <1>7, <1>9, <1>12, <1>13, <1>14, <1>17, <1>18 DEF IInv

LEMMA SortNextStep ==
  ASSUME IInv, NEW e \in Left, SortNext(e)
  PROVE  IInv'
<1> /\ TypeOK /\ CallsLegit /\ TracedLegit /\ Serial /\ Distinct /\ Finalizing /\ Sorting
  BY DEF IInv
<1>1. /\ \A r \in Ranks : pc[Main(r)] = "ended"
      /\ \A f \in Left : e.tsc <= f.tsc
      /\ merged' = Append(merged, e)
      /\ UNCHANGED <<now, pc, call, last, calls, traced>>
  BY DEF SortNext
<1>2. /\ \E r \in Ranks : e \in traced[r]
      /\ \A i \in 1..Len(merged) : merged[i] # e
  BY DEF Left, Sorted
<1>3. e \in Events
  BY <1>2 DEF TypeOK
<1>4. /\ Len(merged') = Len(merged) + 1 /\ Len(merged) \in Nat
      /\ \A i \in 1..Len(merged) : merged'[i] = merged[i]
      /\ merged'[Len(merged) + 1] = e
  BY <1>1, <1>3 DEF TypeOK
<1>5. TypeOK'
  BY <1>1, <1>3 DEF TypeOK
<1>6. CallsLegit' /\ TracedLegit' /\ Serial' /\ Distinct' /\ Finalizing'
  BY <1>1 DEF CallsLegit, TracedLegit, Serial, Distinct, Finalizing, AfterAll, Arrived, InFlight
<1>7. \A i \in 1..Len(merged') : i \in 1..Len(merged) \/ i = Len(merged) + 1
  BY <1>4
<1>8. Left' \subseteq Left
  BY <1>1, <1>4 DEF Left, Sorted
<1>9. \A i \in 1..Len(merged) : merged[i].tsc <= e.tsc
  BY DEF Sorting
<1>10. ASSUME NEW i \in 1..Len(merged'), NEW j \in 1..Len(merged'), i < j
       PROVE  merged'[i].tsc <= merged'[j].tsc /\ merged'[i] # merged'[j]
  <2>1. i \in 1..Len(merged)
    BY <1>4, <1>10
  <2>2. CASE j \in 1..Len(merged)
    BY <1>4, <1>10, <2>1, <2>2 DEF Sorting
  <2>3. CASE j = Len(merged) + 1
    BY <1>2, <1>4, <1>9, <2>1, <2>3
  <2> QED BY <1>7, <2>2, <2>3
<1>11. ASSUME NEW i \in 1..Len(merged'), NEW f \in Left'
       PROVE  merged'[i].tsc <= f.tsc
  <2>1. f \in Left
    BY <1>8
  <2> QED BY <1>1, <1>4, <1>7, <2>1 DEF Sorting
<1>12. \A i \in 1..Len(merged') : \E r \in Ranks : merged'[i] \in traced[r]
  BY <1>2, <1>4, <1>7 DEF Sorting
<1>13. Sorting'
  BY <1>1, <1>10, <1>11, <1>12 DEF Sorting
<1> QED BY <1>5, <1>6, <1>13 DEF IInv

LEMMA Inductive == IInv /\ [Next]_vars => IInv'
<1> SUFFICES ASSUME IInv, [Next]_vars PROVE IInv'
  OBVIOUS
<1>1. CASE \E core \in Cores :
            \/ \E r \in Ranks : StampInit(r, core) \/ StampFinalize(r, core)
            \/ \E t \in Threads : Begin(t, core) \/ End(t, core)
  BY <1>1, StampInitStep, StampFinalizeStep, BeginStep, EndStep
<1>2. CASE UNCHANGED vars
  BY <1>2 DEF IInv, TypeOK, CallsLegit, TracedLegit, Serial, Distinct, Finalizing, AfterAll,
              Arrived, InFlight, Sorting, Left, Sorted, vars
<1> QED BY <1>1, <1>2, TickStep, EnterFinalizeStep, RegisterStep, SortNextStep DEF Next, Over

-----------------------------------------------------------------------------
(* The theorems.                                                           *)

\* IInv holds in every reachable state.
THEOREM Invariance == Spec => []IInv
BY Initially, Inductive, PTL DEF Spec

\* Stamps, durations and the sorted trace have their types.
THEOREM TypeCorrect == Spec => []TypeOK
<1>1. IInv => TypeOK
  BY DEF IInv
<1> QED BY Invariance, <1>1, PTL

\* The unsigned difference of two readings is the length of the call, but for
\* what the two cores disagree, unless the call was shorter than that.
THEOREM DurationsAreRight == Spec => []DurationsRight
<1>1. IInv => DurationsRight
  <2> SUFFICES ASSUME IInv, NEW r \in Ranks, NEW e \in traced[r]
               PROVE  LET elapsed == e.end - e.begin
                      IN /\ e.core = e.endcore => e.duration = elapsed
                         /\ elapsed >= CoreSkew =>
                              e.duration \in elapsed - CoreSkew .. elapsed + CoreSkew
    BY DEF DurationsRight
  <2>1. Legit(e) /\ e \in Events
    BY DEF IInv, TracedLegit, Legit
  <2>2. PICK b \in Nat, n \in Nat, k \in Cores, l \in Cores :
          b = e.begin /\ n = e.end /\ k = e.core /\ l = e.endcore
    BY <2>1 DEF Events
  <2>3. /\ b <= n /\ n <= MaxTime
        /\ e.duration = (n + l - b - k) % Modulus
    BY <2>1, <2>2 DEF Legit
  <2>4. /\ k \in Nat /\ l \in Nat /\ k <= CoreSkew /\ l <= CoreSkew
        /\ MaxTime \in Nat /\ CoreSkew \in Nat /\ Modulus \in Nat
        /\ MaxTime + CoreSkew < Modulus
    BY <2>2, Assumptions
  <2>5. ASSUME n + l - b - k >= 0
        PROVE  e.duration = n + l - b - k
    <3>1. n + l - b - k \in Duration /\ n + l - b - k \in Int
      BY <2>3, <2>4, <2>5 DEF Duration
    <3>2. (n + l - b - k) % Modulus = n + l - b - k
      BY <3>1, Unsigned
    <3> QED BY <2>3, <3>2
  <2>6. k = l => e.duration = n - b
    BY <2>3, <2>4, <2>5
  <2>7. n - b >= CoreSkew => e.duration \in (n - b) - CoreSkew .. (n - b) + CoreSkew
    BY <2>3, <2>4, <2>5
  <2> QED BY <2>2, <2>6, <2>7
<1> QED BY Invariance, <1>1, PTL

\* What two stamps of which one is not greater say of the true times.
LEMMA StampOrder ==
  ASSUME NEW e, NEW f, Legit(e), Legit(f), e.tsc <= f.tsc
  PROVE  /\ e.begin \in Nat /\ f.begin \in Nat
         /\ e.begin <= f.begin + NodeSkew + CoreSkew
         /\ e.thread[1] = f.thread[1] => e.begin <= f.begin + CoreSkew
         /\ e.thread[1] = f.thread[1] /\ e.core = f.core => e.begin <= f.begin
<1>1. e \in Events /\ f \in Events
  BY DEF Legit
<1>2. PICK a \in Nat, b \in Nat, k \in Cores, l \in Cores :
        a = e.begin /\ b = f.begin /\ k = e.core /\ l = f.core
  BY <1>1 DEF Events
<1>3. e.thread \in Threads /\ f.thread \in Threads
  BY <1>1 DEF Events
<1>4. PICK m \in 0..NodeSkew, n \in 0..NodeSkew :
        m = Node[e.thread[1]] /\ n = Node[f.thread[1]]
  BY <1>3, Assumptions
<1>5. a + m + k <= b + n + l
  BY <1>2, <1>4 DEF Legit
<1>6. k \in 0..CoreSkew /\ l \in 0..CoreSkew /\ NodeSkew \in Nat /\ CoreSkew \in Nat
  BY Assumptions
<1>7. e.thread[1] = f.thread[1] => m = n
  BY <1>4
<1> QED BY <1>2, <1>5, <1>6, <1>7

\* Whatever the unstable sort does with equal stamps, the order of the merged
\* trace is that of the true times up to the disagreement of the counters.
THEOREM MergedInOrder == Spec => []MergedOrder
<1>1. IInv => MergedOrder
  <2> SUFFICES ASSUME IInv, NEW i \in 1..Len(merged), NEW j \in 1..Len(merged), i < j
               PROVE  LET e == merged[i]
                          f == merged[j]
                      IN /\ e.begin <= f.begin + NodeSkew + CoreSkew
                         /\ e.thread[1] = f.thread[1] => e.begin <= f.begin + CoreSkew
                         /\ e.thread = f.thread /\ e.core = f.core => e.begin < f.begin
    BY DEF MergedOrder
  <2>1. PICK r \in Ranks : merged[i] \in traced[r]
    BY DEF IInv, Sorting
  <2>2. PICK q \in Ranks : merged[j] \in traced[q]
    BY DEF IInv, Sorting
  <2>3. merged[i].tsc <= merged[j].tsc /\ merged[i] # merged[j]
    BY DEF IInv, Sorting
  <2>4. Legit(merged[i]) /\ merged[i].thread[1] = r /\ Legit(merged[j]) /\ merged[j].thread[1] = q
    BY <2>1, <2>2 DEF IInv, TracedLegit
  <2>5. merged[i].thread = merged[j].thread => merged[i].begin # merged[j].begin
    BY <2>1, <2>2, <2>3, <2>4 DEF IInv, Distinct
  <2> QED BY <2>3, <2>4, <2>5, StampOrder
<1> QED BY Invariance, <1>1, PTL

\* The barrier puts the stamp of MPI_Finalize after every call of every rank,
\* so that only calls shorter than the disagreement are sorted behind it.
THEOREM FinalizesComeLast == Spec => []FinalizesLast
<1>1. IInv => FinalizesLast
  <2> SUFFICES ASSUME IInv, NEW i \in 1..Len(merged), NEW j \in 1..Len(merged), i < j,
                      merged[i].kind = "finalize", merged[j].kind # "finalize"
               PROVE  merged[j].end - merged[j].begin < NodeSkew + CoreSkew
    BY DEF FinalizesLast
  <2>1. PICK r \in Ranks : merged[i] \in traced[r]
    BY DEF IInv, Sorting
  <2>2. PICK q \in Ranks : merged[j] \in traced[q]
    BY DEF IInv, Sorting
  <2>3. merged[i].tsc <= merged[j].tsc
    BY DEF IInv, Sorting
  <2>4. /\ Legit(merged[i]) /\ Legit(merged[j])
        /\ merged[j].end <= last[merged[j].thread]
    BY <2>1, <2>2 DEF IInv, TracedLegit
  <2>5. merged[j].thread \in Threads /\ merged[j].end \in Nat
    BY <2>4 DEF Legit, Events
  <2>6. last[merged[j].thread] < merged[i].begin /\ last[merged[j].thread] \in Nat
    BY <2>1, <2>5 DEF IInv, TypeOK, Finalizing, AfterAll
  <2>7. /\ merged[i].begin \in Nat /\ merged[j].begin \in Nat
        /\ merged[i].begin <= merged[j].begin + NodeSkew + CoreSkew
    BY <2>3, <2>4, StampOrder
  <2> QED BY <2>4, <2>5, <2>6, <2>7, Assumptions
<1> QED BY Invariance, <1>1, PTL
=============================================================================
