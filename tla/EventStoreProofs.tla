-------------------------- MODULE EventStoreProofs --------------------------
(***************************************************************************)
(* Proofs about EventStore, for every set of threads and every MaxCalls.   *)
(* IInv is the inductive invariant; its parts that are not properties of   *)
(* EventStore say what each phase allows, that a slot read under the mutex *)
(* stays the end of the vector, and what serialize has in hand.            *)
(***************************************************************************)
EXTENDS EventStore, SequenceTheorems, TLAPS

\* What the threads do and what is in the vector, phase by phase.
PhaseInv ==
  /\ phase \in {"start", "init"} =>
       /\ events = << >> /\ dropped = {}
       /\ \A t \in Threads \ {Main} : pc[t] = "app" /\ n[t] = 0
  /\ phase = "start" => pc[Main] = "app" /\ n[Main] = 0
  /\ phase = "init" => pc[Main] \in Pending /\ n[Main] = 1
  /\ phase \notin {"start", "init"} => events # << >>
  /\ phase = "running" =>
       \A t \in Threads : n[t] <= MaxCalls /\ pc[t] \notin Saving
  /\ phase = "finalizing" =>
       /\ pc[Main] # "app"
       /\ \A t \in Threads \ {Main} : pc[t] = "app"
  /\ phase = "finalized" => \A t \in Threads : pc[t] = "app"
  /\ \A t \in Threads : pc[t] # "app" => n[t] >= 1

\* Between the reading of the length and the store nobody else appends.
SlotInv ==
  /\ Len(events) <= cap
  /\ \A t \in Threads :
       pc[t] = "write" => slot[t] = Len(events) /\ Len(events) < cap

\* MPI_Finalize's event is the last one when serialize runs, and the string
\* that is written is the whole vector, if MPI_Finalize was not refused.
SaveInv ==
  /\ pc[Main] \in Saving => events[Len(events)] = Call(Main)
  /\ pc[Main] = "save" => traces = events
  /\ file = "complete" =>
       /\ phase = "finalized"
       /\ traces = events
       /\ events[Len(events)] = Call(Main)
  /\ phase = "finalized" => traces = events \/ Call(Main) \in dropped

IInv ==
  /\ TypeOK
  /\ MutualExclusion
  /\ PhaseInv
  /\ SlotInv
  /\ Accounted
  /\ ProgramOrder
  /\ InitFirst
  /\ SaveInv

USE MainAssumption, NoThreadAssumption, MaxCallsAssumption

-----------------------------------------------------------------------------
(* The vector.                                                             *)

\* What an appended event adds to a sequence of calls.
LEMMA AppendCall ==
  ASSUME NEW s \in Seq(Calls), NEW c \in Calls
  PROVE  /\ Append(s, c) \in Seq(Calls)
         /\ Len(Append(s, c)) = Len(s) + 1
         /\ Append(s, c) # << >>
         /\ \A i \in 1..Len(s) : Append(s, c)[i] = s[i]
         /\ Append(s, c)[Len(s) + 1] = c
         /\ {Append(s, c)[i] : i \in 1..Len(Append(s, c))}
              = {s[i] : i \in 1..Len(s)} \cup {c}
<1>1. /\ Append(s, c) \in Seq(Calls)
      /\ Len(Append(s, c)) = Len(s) + 1
      /\ \A i \in 1..Len(s) : Append(s, c)[i] = s[i]
      /\ Append(s, c)[Len(s) + 1] = c
  BY AppendProperties
<1>2. Append(s, c) # << >>
  BY <1>1, LenProperties, EmptySeq
<1>3. Len(s) \in Nat
  BY LenProperties
<1>4. 1..Len(Append(s, c)) = (1..Len(s)) \cup {Len(s) + 1}
  BY <1>1, <1>3
<1>5. {Append(s, c)[i] : i \in 1..Len(Append(s, c))}
        = {Append(s, c)[i] : i \in 1..Len(s)} \cup {Append(s, c)[Len(s) + 1]}
  BY <1>4
<1>6. {Append(s, c)[i] : i \in 1..Len(s)} = {s[i] : i \in 1..Len(s)}
  BY <1>1
<1> QED BY <1>1, <1>2, <1>5, <1>6

\* With the mutex held the store is a plain append of a call of the program.
LEMMA StoreAppends ==
  ASSUME IInv, NEW t \in Threads, pc[t] = "write"
  PROVE  /\ Call(t) \in Calls
         /\ Stored(t) = Append(events, Call(t))
<1>1. n[t] \in 1..MaxCalls + 1
  BY DEF IInv, TypeOK, PhaseInv
<1>2. Call(t) \in Calls
  BY <1>1 DEF Call, Calls
<1>3. events \in Seq(Calls) /\ slot[t] = Len(events)
  BY DEF IInv, TypeOK, SlotInv
<1>4. SubSeq(events, 1, slot[t]) = events
  BY <1>3, SubSeqFull
<1> QED BY <1>2, <1>4 DEF Stored

-----------------------------------------------------------------------------
(* How one thread's step changes the set of settled calls.                 *)

\* Entering a wrapper settles nothing: the new call is pending.
LEMMA EnterSettles ==
  ASSUME TypeOK, NEW t \in Threads, Calling(t)
  PROVE  Settled' = Settled
<1>1. ASSUME NEW u \in Threads  PROVE SettledCount(u)' = SettledCount(u)
  BY DEF TypeOK, Calling, Goto, SettledCount, Pending, Saving
<1> QED BY <1>1 DEF Settled, Calls

\* A thread that stays pending, or stays settled, settles nothing either.
LEMMA MoveSettles ==
  ASSUME TypeOK, NEW t \in Threads, NEW where, Goto(t, where), n' = n,
         pc[t] \in Pending <=> where \in Pending
  PROVE  Settled' = Settled
<1>1. ASSUME NEW u \in Threads  PROVE SettledCount(u)' = SettledCount(u)
  BY DEF TypeOK, Goto, SettledCount
<1> QED BY <1>1 DEF Settled, Calls

\* Registering or dropping its call settles that call, which was not before.
LEMMA EndSettles ==
  ASSUME TypeOK, NEW t \in Threads, NEW where, Goto(t, where), n' = n,
         pc[t] \in Pending, where \notin Pending, Call(t) \in Calls
  PROVE  /\ Settled' = Settled \cup {Call(t)}
         /\ Call(t) \notin Settled
<1>1. ASSUME NEW u \in Threads, u # t  PROVE SettledCount(u)' = SettledCount(u)
  BY <1>1 DEF TypeOK, Goto, SettledCount
<1>2. /\ SettledCount(t) = n[t] - 1
      /\ SettledCount(t)' = n[t]
      /\ n[t] \in Nat
  BY DEF TypeOK, Goto, SettledCount
<1>3. ASSUME NEW c \in Calls
      PROVE  c \in Settled' <=> c \in Settled \/ c = Call(t)
  <2>1. /\ c = <<c[1], c[2]>> /\ c[1] \in Threads /\ c[2] \in Nat
    BY DEF Calls
  <2>2. CASE c[1] = t
    <3>1. c \in Settled' <=> c[2] <= n[t]
      BY <1>2, <2>2 DEF Settled
    <3>2. c \in Settled <=> c[2] <= n[t] - 1
      BY <1>2, <2>2 DEF Settled
    <3>3. c = Call(t) <=> c[2] = n[t]
      BY <2>1, <2>2 DEF Call
    <3> QED BY <1>2, <2>1, <3>1, <3>2, <3>3
  <2>3. CASE c[1] # t
    BY <1>1, <2>1, <2>3 DEF Settled, Call
  <2> QED BY <2>2, <2>3
<1>4. Call(t) \notin Settled
  BY <1>2 DEF Settled, Call
<1> QED BY <1>3, <1>4 DEF Settled

-----------------------------------------------------------------------------
(* Every action preserves IInv.                                            *)

LEMMA InitIInv == Init => IInv
<1> SUFFICES ASSUME Init PROVE IInv
  OBVIOUS
<1>1. TypeOK
  BY EmptySeq DEF Init, TypeOK, Phases
<1>2. Len(events) = 0 /\ Logged = {} /\ Settled = {}
  BY EmptySeq DEF Init, Logged, Settled, SettledCount, Calls, Pending
<1> QED
  BY <1>1, <1>2 DEF Init, IInv, TypeOK, MutualExclusion, PhaseInv, SlotInv,
     Accounted, ProgramOrder, InitFirst, SaveInv, Holding, Saving, Pending

\* The actions by which a call enters its wrapper.
LEMMA EnterPreserves ==
  ASSUME IInv, EnterInit \/ EnterFinalize \/ \E t \in Threads : Enter(t)
  PROVE  IInv'
<1>1. PICK t \in Threads : /\ Calling(t)
                          /\ \/ t = Main /\ EnterInit
                             \/ t = Main /\ EnterFinalize
                             \/ Enter(t)
  BY DEF EnterInit, EnterFinalize, Enter
<1> USE DEF Calling, Goto
<1>2. TypeOK'
  <2>1. n[t] + 1 \in 0..MaxCalls + 1
    BY <1>1 DEF IInv, TypeOK, PhaseInv, EnterInit, EnterFinalize, Enter
  <2>2. phase' \in Phases
    BY <1>1 DEF IInv, TypeOK, Phases, EnterInit, EnterFinalize, Enter
  <2> QED BY <1>1, <2>1, <2>2 DEF IInv, TypeOK, Pending
<1>3. MutualExclusion'
  BY <1>1 DEF IInv, TypeOK, MutualExclusion, Holding, Saving
<1>4. PhaseInv'
  BY <1>1 DEF IInv, TypeOK, PhaseInv, EnterInit, EnterFinalize, Enter, Phases,
     Pending, Saving
<1>5. SlotInv'
  BY <1>1 DEF IInv, TypeOK, SlotInv
<1>6. Accounted'
  BY <1>1, EnterSettles DEF IInv, Accounted, Logged
<1>7. ProgramOrder' /\ InitFirst'
  BY <1>1 DEF IInv, ProgramOrder, InitFirst
<1>8. SaveInv'
  BY <1>1 DEF IInv, TypeOK, PhaseInv, SaveInv, Saving, EnterInit, EnterFinalize,
     Enter, Call
<1> QED BY <1>2, <1>3, <1>4, <1>5, <1>6, <1>7, <1>8 DEF IInv

\* The steps inside register that neither store an event nor return.
LEMMA RegisterPreserves ==
  ASSUME IInv, NEW t \in Threads,
         PmpiReturns(t) \/ Lock(t) \/ Reserve(t) \/ Push(t)
  PROVE  IInv'
<1> USE DEF Goto
<1>1. PICK where \in Pending : Goto(t, where) /\ pc[t] \in Pending /\ where # "pmpi"
  BY DEF PmpiReturns, Lock, Reserve, Push, Pending
<1>2. UNCHANGED <<status, phase, n, events, dropped, traces, file>>
  BY DEF PmpiReturns, Lock, Reserve, Push
<1>3. Len(events) \in Nat
  BY LenProperties DEF IInv, TypeOK
<1>4. TypeOK'
  <2>1. cap' \in Nat
    BY <1>3 DEF IInv, TypeOK, PmpiReturns, Lock, Reserve, Push, Wanted
  <2>2. slot' \in [Threads -> Nat] /\ lock' \in Threads \cup {NoThread}
    BY <1>3 DEF IInv, TypeOK, PmpiReturns, Lock, Reserve, Push
  <2> QED BY <1>1, <1>2, <2>1, <2>2 DEF IInv, TypeOK
<1>5. MutualExclusion'
  BY DEF IInv, TypeOK, MutualExclusion, Holding, Saving, PmpiReturns, Lock,
     Reserve, Push
<1>6. PhaseInv'
  BY <1>1, <1>2 DEF IInv, TypeOK, PhaseInv, Pending, Saving
<1>7. SlotInv'
  <2>1. CASE PmpiReturns(t) \/ Lock(t)
    BY <2>1 DEF IInv, TypeOK, SlotInv, PmpiReturns, Lock
  <2>2. CASE Reserve(t)
    BY <2>2, <1>3 DEF IInv, TypeOK, SlotInv, Reserve, Wanted, MutualExclusion,
       Holding
  <2>3. CASE Push(t)
    BY <2>3, <1>3 DEF IInv, TypeOK, SlotInv, Push, MutualExclusion, Holding
  <2> QED BY <2>1, <2>2, <2>3
<1>8. Accounted'
  BY <1>1, <1>2, MoveSettles DEF IInv, Accounted, Logged
<1>9. ProgramOrder' /\ InitFirst'
  BY <1>2 DEF IInv, ProgramOrder, InitFirst
<1>10. SaveInv'
  BY <1>1, <1>2 DEF IInv, TypeOK, SaveInv, Saving, Pending, Call
<1> QED BY <1>4, <1>5, <1>6, <1>7, <1>8, <1>9, <1>10 DEF IInv

\* A refused reservation drops the call; it is never MPI_Init's.
LEMMA ReserveFailsPreserves ==
  ASSUME IInv, NEW t \in Threads, ReserveFails(t)
  PROVE  IInv'
<1> USE DEF Goto, Return
<1>1. /\ Goto(t, "app") /\ lock = t /\ lock' = NoThread
      /\ UNCHANGED <<status, n, events, cap, slot, traces, file>>
      /\ dropped' = dropped \cup {Call(t)}
      /\ pc[t] = "reserve"
  BY DEF ReserveFails, IInv, MutualExclusion, Holding
<1>2. events # << >> /\ phase \in {"running", "finalizing"}
  <2>1. Len(events) # 0
    BY LenProperties DEF ReserveFails, Wanted, IInv, TypeOK
  <2>2. events # << >>
    BY <2>1, EmptySeq
  <2>3. phase # "finalized"
    BY <1>1 DEF IInv, PhaseInv
  <2> QED BY <2>2, <2>3 DEF IInv, TypeOK, PhaseInv, Phases
<1>3. phase' = IF phase = "finalizing" THEN "finalized" ELSE "running"
  BY <1>2 DEF ReserveFails
<1>4. n[t] \in 1..MaxCalls + 1 /\ Call(t) \in Calls
  BY <1>1 DEF IInv, TypeOK, PhaseInv, Call, Calls
<1>5. TypeOK'
  BY <1>1, <1>3, <1>4 DEF IInv, TypeOK, Phases
<1>6. MutualExclusion'
  BY <1>1 DEF IInv, TypeOK, MutualExclusion, Holding, Saving
<1>7. PhaseInv'
  BY <1>1, <1>2, <1>3 DEF IInv, TypeOK, PhaseInv, Saving
<1>8. SlotInv'
  BY <1>1 DEF IInv, TypeOK, SlotInv
<1>9. Accounted'
  BY <1>1, <1>4, EndSettles DEF IInv, Accounted, Logged, Pending
<1>10. ProgramOrder' /\ InitFirst'
  BY <1>1 DEF IInv, ProgramOrder, InitFirst
<1>11. SaveInv'
  <2>1. UNCHANGED Call(Main) /\ file # "complete"
    BY <1>1, <1>2 DEF IInv, SaveInv, Call
  <2>2. phase' = "finalized" => t = Main
    BY <1>1, <1>3 DEF IInv, PhaseInv
  <2>3. phase' = "finalized" => Call(Main)' \in dropped'
    BY <1>1, <2>1, <2>2
  <2> QED BY <1>1, <2>1, <2>3 DEF IInv, TypeOK, SaveInv, Saving
<1> QED BY <1>5, <1>6, <1>7, <1>8, <1>9, <1>10, <1>11 DEF IInv

\* The store, the only step that changes the vector.
LEMMA WritePreserves ==
  ASSUME IInv, NEW t \in Threads, Write(t)
  PROVE  IInv'
<1> DEFINE after == IF phase = "finalizing" THEN "open" ELSE "app"
<1>1. /\ pc[t] = "write" /\ lock = t /\ Goto(t, after)
      /\ UNCHANGED <<status, n, cap, slot, dropped, traces, file>>
      /\ lock' = IF phase = "finalizing" THEN t ELSE NoThread
  BY DEF Write, Return, IInv, MutualExclusion, Holding
<1>2. /\ Call(t) \in Calls
      /\ events' = Append(events, Call(t))
  BY <1>1, StoreAppends DEF Write
<1>3. events \in Seq(Calls) /\ Len(events) \in Nat
  BY LenProperties DEF IInv, TypeOK
<1>4. /\ events' \in Seq(Calls)
      /\ Len(events') = Len(events) + 1
      /\ events' # << >>
      /\ \A i \in 1..Len(events) : events'[i] = events[i]
      /\ events'[Len(events) + 1] = Call(t)
      /\ Logged' = Logged \cup {Call(t)}
  BY <1>2, <1>3, AppendCall DEF Logged
<1>5. /\ phase # "start" /\ phase # "finalized"
      /\ phase' = IF phase = "finalizing" THEN "finalizing" ELSE "running"
      /\ phase \in {"init", "running", "finalizing"}
      /\ phase \in {"init", "finalizing"} => t = Main
  BY <1>1 DEF IInv, TypeOK, PhaseInv, Phases, Write, Return
<1>6. /\ Settled' = Settled \cup {Call(t)}
      /\ Call(t) \notin Settled
  BY <1>1, <1>2, EndSettles DEF IInv, Pending
<1> USE DEF Goto
<1>7. TypeOK'
  <2>1. phase' \in Phases /\ lock' \in Threads \cup {NoThread}
    BY <1>1, <1>5 DEF Phases
  <2>2. pc' \in [Threads -> {"app"} \cup Pending \cup Saving]
    BY <1>1 DEF IInv, TypeOK, Saving
  <2> QED BY <1>1, <1>4, <2>1, <2>2 DEF IInv, TypeOK
<1>8. MutualExclusion'
  BY <1>1 DEF IInv, TypeOK, MutualExclusion, Holding, Saving
<1>9. PhaseInv'
  BY <1>1, <1>4, <1>5 DEF IInv, TypeOK, PhaseInv, Saving
<1>10. SlotInv'
  BY <1>1, <1>3, <1>4 DEF IInv, TypeOK, SlotInv, MutualExclusion, Holding
<1>11. Accounted'
  BY <1>1, <1>4, <1>6 DEF IInv, Accounted
<1>12. ProgramOrder'
  <2>1. ASSUME NEW i \in 1..Len(events), events[i][1] = t
        PROVE  events[i][2] < n[t]
    <3>1. events[i] \in Settled
      BY DEF IInv, Accounted, Logged
    <3>2. events[i][2] <= n[t] - 1 /\ events[i][2] \in Nat /\ n[t] \in Nat
      BY <1>1, <2>1, <3>1 DEF Settled, SettledCount, Pending, Calls, IInv, TypeOK
    <3> QED BY <3>2
  <2>2. SUFFICES ASSUME NEW i \in 1..Len(events'), NEW j \in 1..Len(events'),
                        i < j, events'[i][1] = events'[j][1]
                 PROVE  events'[i][2] < events'[j][2]
    BY DEF ProgramOrder
  <2>3. i \in 1..Len(events)
    BY <1>3, <1>4, <2>2
  <2>4. CASE j = Len(events) + 1
    BY <1>4, <2>1, <2>2, <2>3, <2>4 DEF Call
  <2>5. CASE j # Len(events) + 1
    <3>1. j \in 1..Len(events)
      BY <1>3, <1>4, <2>5
    <3> QED BY <1>4, <2>2, <2>3, <3>1 DEF IInv, ProgramOrder
  <2> QED BY <2>4, <2>5
<1>13. InitFirst'
  <2>1. CASE events = << >>
    <3>1. Len(events) = 0 /\ t = Main /\ n[t] = 1
      BY <1>5, <2>1, EmptySeq DEF IInv, PhaseInv
    <3> QED BY <1>4, <3>1 DEF InitFirst, Call
  <2>2. CASE events # << >>
    <3>1. 1 \in 1..Len(events)
      BY <1>3, <2>2, EmptySeq
    <3> QED BY <1>4, <2>2, <3>1 DEF IInv, InitFirst
  <2> QED BY <2>1, <2>2
<1>14. SaveInv'
  <2>1. t = Main => pc[Main] \notin Saving
    BY <1>1 DEF Saving
  <2>2. pc'[Main] \in Saving => t = Main /\ phase = "finalizing"
    BY <1>1, <1>5 DEF IInv, TypeOK, PhaseInv, Saving
  <2>3. Call(Main)' = Call(Main)
    BY <1>1 DEF Call
  <2>4. file' # "complete"
    BY <1>1, <1>5 DEF IInv, SaveInv
  <2>5. t = Main => pc'[Main] # "save"
    BY <1>1 DEF IInv, TypeOK
  <2>6. phase' # "finalized"
    BY <1>5
  <2> QED BY <1>3, <1>4, <2>2, <2>3, <2>4, <2>5, <2>6 DEF SaveInv, Saving
<1> QED BY <1>7, <1>8, <1>9, <1>10, <1>11, <1>12, <1>13, <1>14 DEF IInv

\* serialize: the vector stays as it is, with MPI_Finalize's event at its end.
LEMMA SerializePreserves ==
  ASSUME IInv, NEW t \in Threads,
         Open(t) \/ OpenFails(t) \/ Save(t) \/ SaveFails(t)
  PROVE  IInv'
<1>1. /\ pc[t] \in Saving /\ lock = t /\ t = Main /\ phase = "finalizing"
      /\ UNCHANGED <<status, n, events, cap, slot, dropped>>
  BY DEF Open, OpenFails, Save, SaveFails, Saving, IInv, TypeOK, Phases,
     MutualExclusion, Holding, PhaseInv, Pending
<1>2. \/ Goto(t, "save") /\ UNCHANGED <<phase, lock>>
      \/ Goto(t, "app") /\ phase' = "finalized" /\ lock' = NoThread
  BY <1>1 DEF Open, OpenFails, Save, SaveFails, Return
<1>3. TypeOK'
  <2>1. traces' \in Seq(Calls) /\ file' \in {"untouched", "torn", "complete"}
    BY DEF IInv, TypeOK, Open, OpenFails, Save, SaveFails
  <2>2. pc' \in [Threads -> {"app"} \cup Pending \cup Saving]
    BY <1>2 DEF IInv, TypeOK, Goto, Saving
  <2> QED BY <1>1, <1>2, <2>1, <2>2 DEF IInv, TypeOK, Phases
<1> USE DEF Goto
<1>4. MutualExclusion'
  BY <1>1, <1>2 DEF IInv, TypeOK, MutualExclusion, Holding, Saving
<1>5. PhaseInv'
  <2>1. /\ \A u \in Threads \ {Main} : pc[u] = "app"
        /\ events # << >> /\ n[Main] >= 1
    BY <1>1 DEF IInv, PhaseInv, Saving
  <2>2. CASE Goto(t, "save") /\ UNCHANGED phase
    BY <1>1, <2>1, <2>2 DEF IInv, TypeOK, PhaseInv
  <2>3. CASE Goto(t, "app") /\ phase' = "finalized"
    BY <1>1, <2>1, <2>3 DEF IInv, TypeOK, PhaseInv
  <2> QED BY <1>2, <2>2, <2>3
<1>6. SlotInv'
  BY <1>1, <1>2 DEF IInv, TypeOK, SlotInv
<1>7. Accounted'
  <2>1. CASE Goto(t, "save")
    BY <1>1, <2>1, MoveSettles DEF IInv, Accounted, Logged, Pending, Saving
  <2>2. CASE Goto(t, "app")
    BY <1>1, <2>2, MoveSettles DEF IInv, Accounted, Logged, Pending, Saving
  <2> QED BY <1>2, <2>1, <2>2
<1>8. ProgramOrder' /\ InitFirst'
  BY <1>1 DEF IInv, ProgramOrder, InitFirst
<1>9. SaveInv'
  <2>1. events[Len(events)] = Call(Main)
    BY <1>1 DEF IInv, SaveInv
  <2>2. Call(Main)' = Call(Main)
    BY <1>1 DEF Call
  <2>3. pc'[Main] = "save" => traces' = events
    BY <1>1 DEF IInv, TypeOK, SaveInv, Open, OpenFails, Save, SaveFails, Return
  <2>4. file' = "complete" => phase' = "finalized" /\ traces' = events
    BY <1>1 DEF IInv, TypeOK, SaveInv, Open, OpenFails, Save, SaveFails, Return
  <2>5. phase' = "finalized" => traces' = events
    BY <1>1 DEF IInv, TypeOK, SaveInv, Open, OpenFails, Save, SaveFails, Return
  <2> QED BY <1>1, <2>1, <2>2, <2>3, <2>4, <2>5 DEF SaveInv
<1> QED BY <1>3, <1>4, <1>5, <1>6, <1>7, <1>8, <1>9 DEF IInv

\* Dying, and doing nothing, change nothing IInv speaks of but the status.
LEMMA DeathPreserves ==
  ASSUME IInv, Kill \/ (\E t \in Threads : AllocAborts(t)) \/ UNCHANGED vars
  PROVE  IInv'
<1>1. /\ status' \in {"alive", "aborted", "killed"}
      /\ UNCHANGED <<phase, pc, n, lock, events, cap, slot, dropped, traces, file>>
  BY DEF Kill, AllocAborts, vars, IInv, TypeOK
<1> QED
  BY <1>1 DEF IInv, TypeOK, MutualExclusion, PhaseInv, SlotInv, Accounted,
     Logged, Settled, SettledCount, ProgramOrder, InitFirst, SaveInv, Call

LEMMA NextIInv == IInv /\ [Next]_vars => IInv'
<1> SUFFICES ASSUME IInv, [Next]_vars PROVE IInv'
  OBVIOUS
<1>1. CASE EnterInit \/ EnterFinalize
  BY <1>1, EnterPreserves
<1>2. ASSUME NEW t \in Threads, Step(t) PROVE IInv'
  <2>1. CASE Enter(t)
    BY <2>1, EnterPreserves
  <2>2. CASE PmpiReturns(t) \/ Lock(t) \/ Reserve(t) \/ Push(t)
    BY <2>2, RegisterPreserves
  <2>3. CASE ReserveFails(t)
    BY <2>3, ReserveFailsPreserves
  <2>4. CASE Write(t)
    BY <2>4, WritePreserves
  <2>5. CASE Open(t) \/ OpenFails(t) \/ Save(t) \/ SaveFails(t)
    BY <2>5, SerializePreserves
  <2>6. CASE AllocAborts(t)
    BY <2>6, DeathPreserves
  <2> QED BY <1>2, <2>1, <2>2, <2>3, <2>4, <2>5, <2>6 DEF Step, Critical
<1>3. CASE Kill \/ Over \/ UNCHANGED vars
  BY <1>3, DeathPreserves DEF Over
<1> QED BY <1>1, <1>2, <1>3 DEF Next

-----------------------------------------------------------------------------
(* The theorems.                                                           *)

\* The invariant from which the others follow.
THEOREM Invariance == Safety => []IInv
BY InitIInv, NextIInv, PTL DEF Safety

\* Type correctness.
THEOREM TypeCorrect == Safety => []TypeOK
<1>1. IInv => TypeOK
  BY DEF IInv
<1> QED BY <1>1, Invariance, PTL

\* One thread at a time between lock() and the release of the guard.
THEOREM Exclusion == Safety => []MutualExclusion
<1>1. IInv => MutualExclusion
  BY DEF IInv
<1> QED BY <1>1, Invariance, PTL

\* push never stores past the capacity, though nothing is reserved for the
\* first event.
THEOREM StoresInBounds == Safety => []RoomToWrite
<1>1. IInv => RoomToWrite
  BY DEF IInv, TypeOK, SlotInv, RoomToWrite
<1> QED BY <1>1, Invariance, PTL

\* Every settled call is in the vector or was dropped, and not both: with any
\* number of threads no registration is lost.
THEOREM NothingLost == Safety => []Accounted
<1>1. IInv => Accounted
  BY DEF IInv
<1> QED BY <1>1, Invariance, PTL

\* The vector holds each thread's calls in their order, MPI_Init first.
THEOREM Ordered == Safety => [](ProgramOrder /\ InitFirst)
<1>1. IInv => ProgramOrder /\ InitFirst
  BY DEF IInv
<1> QED BY <1>1, Invariance, PTL

\* MPI_Init's event is the first, however threads compete for the mutex and
\* whatever is refused afterwards.
THEOREM InitComesFirst == Safety => []InitFirst
<1>1. ProgramOrder /\ InitFirst => InitFirst
  OBVIOUS
<1> QED BY <1>1, Ordered, PTL

\* A complete file holds the whole trace, from MPI_Init to MPI_Finalize.
THEOREM CompleteFileIsWhole == Safety => []SavedWhole
<1>1. ASSUME IInv, file = "complete"
      PROVE  /\ traces = events /\ traces # << >>
             /\ Logged \cup dropped = Made
             /\ traces[1] = <<Main, 1>>
             /\ traces[Len(traces)] = <<Main, n[Main]>>
  <2>1. /\ phase = "finalized" /\ traces = events
        /\ traces[Len(traces)] = <<Main, n[Main]>>
    BY <1>1 DEF IInv, SaveInv, Call
  <2>2. traces # << >> /\ traces[1] = <<Main, 1>>
    BY <1>1, <2>1 DEF IInv, PhaseInv, InitFirst
  <2>3. Settled = Made
    BY <1>1, <2>1 DEF IInv, PhaseInv, Settled, Made, SettledCount, Pending, Calls
  <2> QED BY <1>1, <2>1, <2>2, <2>3 DEF IInv, Accounted
<1>2. IInv => SavedWhole
  BY <1>1 DEF SavedWhole
<1> QED BY <1>2, Invariance, PTL

\* Only a refused reservation for MPI_Finalize keeps the vector from serialize.
THEOREM OnlyRefusalSkipsSaving == Safety => []UnsavedOnlyIfRefused
<1>1. IInv => UnsavedOnlyIfRefused
  BY DEF IInv, SaveInv, UnsavedOnlyIfRefused
<1> QED BY <1>1, Invariance, PTL

\* With any number of threads and failed calls, the mutex is free when
\* MPI_Finalize comes to it.
THEOREM FinalizeFindsMutexFree == Safety => []FinalizeUncontended
<1>1. IInv => FinalizeUncontended
  BY DEF IInv, TypeOK, MutualExclusion, PhaseInv, Holding, Saving, FinalizeUncontended
<1> QED BY <1>1, Invariance, PTL

-----------------------------------------------------------------------------
(* The vector implements the log.                                          *)

\* A step of the process is a step of the log, or leaves the log alone: the
\* store accepts a call, a refused reservation loses one, write! saves.
LEMMA StepSimulates ==
  IInv /\ [Next]_vars => [Log!Next]_(Log!vars)
<1> SUFFICES ASSUME IInv, [Next]_vars PROVE [Log!Next]_(Log!vars)
  OBVIOUS
<1> DEFINE saved == IF file = "complete" THEN <<traces>> ELSE << >>
<1> USE DEF Log!vars, Log!Next, Log!Accept, Log!Lose, Log!Save, Log!Logged
<1>1. ASSUME NEW t \in Threads, pc[t] \in Pending
      PROVE  /\ Call(t) \in Calls
             /\ Call(t) \notin Logged \cup dropped
             /\ saved = << >>
  <2>1. n[t] \in 1..MaxCalls + 1
    BY <1>1 DEF IInv, TypeOK, PhaseInv, Pending
  <2>2. Call(t) \in Calls /\ Call(t) \notin Settled
    BY <1>1, <2>1 DEF Call, Calls, Settled, SettledCount
  <2>3. file # "complete"
    BY <1>1 DEF IInv, SaveInv, PhaseInv, Pending
  <2> QED BY <2>2, <2>3 DEF IInv, Accounted
<1>2. ASSUME NEW t \in Threads, Write(t)
      PROVE  Log!Accept(Call(t))
  <2>1. pc[t] \in Pending /\ pc[t] = "write"
    BY <1>2 DEF Write, Pending
  <2>2. events' = Append(events, Call(t)) /\ UNCHANGED <<dropped, traces, file>>
    BY <1>2, <2>1, StoreAppends DEF Write
  <2> QED BY <1>1, <2>1, <2>2 DEF Logged
<1>3. ASSUME NEW t \in Threads, ReserveFails(t)
      PROVE  Log!Lose(Call(t))
  <2>1. pc[t] \in Pending /\ dropped' = dropped \cup {Call(t)}
        /\ UNCHANGED <<events, traces, file>>
    BY <1>3 DEF ReserveFails, Pending
  <2> QED BY <1>1, <2>1 DEF Logged
<1>4. ASSUME NEW t \in Threads, Save(t)
      PROVE  Log!Save
  <2>1. pc[t] = "save" /\ t = Main
    BY <1>4 DEF Save, Saving, Pending, Phases, Holding, IInv, TypeOK, PhaseInv
  <2>2. traces = events /\ file # "complete" /\ file' = "complete"
        /\ UNCHANGED <<events, dropped, traces>>
    BY <1>4, <2>1 DEF Save, IInv, SaveInv, PhaseInv
  <2> QED BY <2>2
<1>5. ASSUME UNCHANGED <<events, dropped>>, file' # "complete", file # "complete"
      PROVE  UNCHANGED Log!vars
  BY <1>5
<1>6. ASSUME UNCHANGED <<events, dropped, traces, file>>
      PROVE  UNCHANGED Log!vars
  BY <1>6
<1>7. ASSUME NEW t \in Threads, Open(t) \/ OpenFails(t) \/ SaveFails(t)
      PROVE  UNCHANGED Log!vars
  <2>1. pc[t] \in Saving
    BY <1>7 DEF Open, OpenFails, SaveFails, Saving
  <2>2. file # "complete"
    BY <2>1 DEF IInv, SaveInv, PhaseInv, Saving
  <2> QED BY <1>5, <1>7, <2>2 DEF Open, OpenFails, SaveFails
<1>8. CASE EnterInit \/ EnterFinalize \/ Kill \/ Over \/ UNCHANGED vars
  BY <1>6, <1>8 DEF EnterInit, EnterFinalize, Calling, Kill, Over, vars
<1>9. ASSUME NEW t \in Threads,
             Enter(t) \/ PmpiReturns(t) \/ Lock(t) \/ Reserve(t) \/ Push(t)
               \/ AllocAborts(t)
      PROVE  UNCHANGED Log!vars
  BY <1>6, <1>9 DEF Enter, Calling, PmpiReturns, Lock, Reserve, Push, AllocAborts
<1>10. ASSUME NEW t \in Threads, Step(t)
       PROVE  [Log!Next]_(Log!vars)
  <2>1. CASE Write(t)
    BY <1>1, <1>2, <2>1 DEF Write, Pending
  <2>2. CASE ReserveFails(t)
    BY <1>1, <1>3, <2>2 DEF ReserveFails, Pending
  <2>3. CASE Save(t)
    BY <1>4, <2>3
  <2>4. CASE Open(t) \/ OpenFails(t) \/ SaveFails(t)
    BY <1>7, <2>4
  <2>5. CASE \/ Enter(t) \/ PmpiReturns(t) \/ Lock(t) \/ Reserve(t) \/ Push(t)
             \/ AllocAborts(t)
    BY <1>9, <2>5
  <2> QED BY <1>10, <2>1, <2>2, <2>3, <2>4, <2>5 DEF Step, Critical
<1> QED BY <1>8, <1>10 DEF Next

\* Whatever the threads, the failures and the kills, what the process logs,
\* reports lost and saves is a behaviour of EventLog.
THEOREM ImplementsLog == Safety => LogSafety
<1>1. Init => Log!Init
  BY DEF Init, Log!Init
<1> QED BY <1>1, StepSimulates, Invariance, PTL DEF Safety, LogSafety, Log!Spec

\* Steps only append to the vector, and a complete file is final.
THEOREM VectorOnlyGrows == Safety => AppendOnly
<1> DEFINE Grows ==
      /\ \E k \in 0..1 : Len(events') = Len(events) + k
      /\ SubSeq(events', 1, Len(events)) = events
      /\ file = "complete" => UNCHANGED <<events, traces, file>>
<1>1. ASSUME IInv, [Next]_vars PROVE [Grows]_vars
  <2>1. events \in Seq(Calls) /\ Len(events) \in Nat
    BY <1>1, LenProperties DEF IInv, TypeOK
  <2>2. SubSeq(events, 1, Len(events)) = events
    BY <2>1, SubSeqFull
  <2>3. ASSUME NEW c \in Calls, Log!Accept(c), events' = Append(events, c)
        PROVE  /\ Len(events') = Len(events) + 1
               /\ SubSeq(events', 1, Len(events)) = events
    <3>1. /\ Len(events') = Len(events) + 1 /\ events' \in Seq(Calls)
          /\ \A i \in 1..Len(events) : events'[i] = events[i]
      BY <2>1, <2>3, AppendCall
    <3>2. \A i \in 1..Len(events) : events'[i] \in Calls
      BY <2>1, <3>1, LenProperties
    <3>3. /\ SubSeq(events', 1, Len(events)) \in Seq(Calls)
          /\ Len(SubSeq(events', 1, Len(events))) = Len(events)
          /\ \A i \in 1..Len(events) :
               SubSeq(events', 1, Len(events))[i] = events[i]
      BY <2>1, <3>1, <3>2, SubSeqProperties
    <3> QED BY <2>1, <3>1, <3>3, SeqEqual
  <2>4. [Log!Next]_(Log!vars)
    BY <1>1, StepSimulates
  <2>5. CASE \E c \in Calls : Log!Accept(c)
    BY <2>3, <2>5 DEF Log!Accept
  <2>6. CASE ~ \E c \in Calls : Log!Accept(c)
    BY <2>2, <2>4, <2>6
       DEF Log!Next, Log!Lose, Log!Save, Log!vars
  <2> QED BY <2>5, <2>6
<1> QED BY <1>1, Invariance, PTL DEF Safety, AppendOnly
=============================================================================
