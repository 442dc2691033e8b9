------------------------- MODULE RequestTraceProofs -------------------------
(***************************************************************************)
(* Proofs about RequestTrace, for any number of threads, handles and       *)
(* calls.  What the trace says is proved of all calls that PMPI has        *)
(* returned from (Made), whether they are in the trace yet or not: that    *)
(* registration comes later, in any order, then makes no difference.       *)
(***************************************************************************)
EXTENDS RequestTrace, TLAPS

LEMMA Assumptions ==
  /\ NullRequest \notin Handles
  /\ Language \in {"c", "fortran"}
  /\ MaxCalls \in Nat
BY NullRequestAssumption, LanguageAssumption, MaxCallsAssumption

InPmpi == {t \in Threads : pc[t] = "pmpi"}

\* The calls that PMPI has returned from.
Made == Events \cup {call[t] : t \in {u \in Threads : pc[u] = "register"}}
MadeStarts == {s \in Made : s.kind = "start"}

\* Call c frees the operation that s started, and was entered afterwards.
Ends(c, s) ==
  /\ c.freed
  /\ c.op = s.op
  /\ c.passed = s.req
  /\ s.end < c.tsc

\* The operation that s started gave its handle back before other got one.
Before(s, other) == \E c \in Made : Ends(c, s) /\ c.end < other.end

-----------------------------------------------------------------------------
(* The inductive invariant, in parts.                                      *)

\* What each call says of itself.
SoundCall(e) ==
  /\ e.tsc < e.end
  /\ e.kind = "start" => e.op # NoOp /\ e.req \in Handles /\ ~e.freed
  /\ e.freed => e.op # NoOp
  /\ Language = "c" => (Completing(e) <=> e.freed)
  /\ Language = "c" /\ e.kind # "start" =>
       e.req = e.passed /\ (e.op # NoOp => e.req # NullRequest)

Sound == \A e \in Made : SoundCall(e) /\ e.end < clock /\ e.op <= calls

\* A start in PMPI has an operation that no other call has ...
Starting ==
  \A t \in InPmpi : call[t].kind = "start" =>
    /\ call[t].op # NoOp /\ call[t].passed = NullRequest
    /\ \A s \in MadeStarts : s.op # call[t].op
    /\ \A u \in InPmpi : u # t /\ call[u].kind = "start" => call[u].op # call[t].op

\* ... and a completion in PMPI holds the handle of its operation, alone.
CompletingInPmpi ==
  \A t \in InPmpi : call[t].kind # "start" =>
    \/ call[t].op = NoOp /\ call[t].passed = NullRequest
    \/ /\ call[t].op # NoOp /\ call[t].passed \in Handles
       /\ active[call[t].passed] = call[t].op
       /\ \A s \in MadeStarts : s.op = call[t].op => s.end < call[t].tsc
       /\ \A u \in InPmpi : u # t => call[u].passed # call[t].passed

Pending ==
  \A t \in InPmpi : call[t].tsc < clock /\ call[t].op <= calls /\ ~call[t].freed

\* Operations are started once and freed once, in this order.
Once ==
  /\ \A s1, s2 \in MadeStarts : s1.op = s2.op => s1 = s2
  /\ \A c1, c2 \in Made : c1.freed /\ c2.freed /\ c1.op = c2.op => c1 = c2
  /\ \A c \in Made : c.freed => \E s \in MadeStarts : s.op = c.op

\* A handle in use is that of an operation that was started and not freed ...
InUse ==
  \A h \in Handles : active[h] # NoOp =>
    /\ \E s \in MadeStarts : s.op = active[h] /\ s.req = h
    /\ \A c \in Made : c.freed => c.op # active[h]

\* ... and every operation has its handle until it is freed.
Held == \A s \in MadeStarts : active[s.req] = s.op \/ \E c \in Made : Ends(c, s)

\* Operations that had the same handle had it one after the other.
OneAfterTheOther ==
  \A s1, s2 \in MadeStarts :
    s1 # s2 /\ s1.req = s2.req => Before(s1, s2) \/ Before(s2, s1)

IInv ==
  /\ TypeOK
  /\ Sound
  /\ Starting
  /\ CompletingInPmpi
  /\ Pending
  /\ Once
  /\ InUse
  /\ Held
  /\ OneAfterTheOther

-----------------------------------------------------------------------------
(* How steps change the calls made.                                        *)

\* What the calls made are.
LEMMA MadeType ==
  ASSUME TypeOK
  PROVE  \A e \in Made : e \in CallRecords
BY DEF TypeOK, Made, Events

\* A call that has not returned yet changes nothing that is said of those that have.
LEMMA Quiet ==
  ASSUME IInv, Made' = Made, UNCHANGED active,
         clock' \in Nat, clock' >= clock, calls' \in Nat, calls' >= calls
  PROVE  Sound' /\ Once' /\ InUse' /\ Held' /\ OneAfterTheOther'
<1>1. MadeStarts' = MadeStarts
  BY DEF MadeStarts
<1>2. clock \in Nat /\ calls \in Nat
  BY Assumptions DEF IInv, TypeOK
<1>3. \A e \in Made : e.end \in Nat /\ e.op \in Nat
  BY MadeType DEF IInv, CallRecords, Ops, NoOp
<1>4. Sound'
  BY <1>2, <1>3 DEF IInv, Sound, SoundCall, Completing
<1>5. Once' /\ InUse' /\ Held'
  BY <1>1 DEF IInv, Once, InUse, Held, Ends
<1>6. OneAfterTheOther'
  BY <1>1 DEF IInv, OneAfterTheOther, Before, Ends
<1> QED BY <1>4, <1>5, <1>6

LEMMA NoCallType == NoCall \in CallRecords /\ NoCall.freed = FALSE
BY DEF NoCall, CallRecords, Kinds

\* A call enters PMPI.
LEMMA BeginAdds ==
  ASSUME IInv, NEW t \in Threads, NEW kind \in Kinds,
         NEW passed \in Handles \cup {NullRequest}, NEW op \in Ops \cup {NoOp},
         Begin(t, kind, passed, op)
  PROVE  /\ TypeOK'
         /\ Made' = Made /\ t \notin InPmpi /\ InPmpi' = InPmpi \cup {t}
         /\ \A u \in Threads : u # t => call'[u] = call[u]
         /\ call'[t].kind = kind /\ call'[t].passed = passed /\ call'[t].op = op
         /\ call'[t].tsc = clock /\ call'[t].freed = FALSE
         /\ calls' = calls + 1 /\ clock' = clock + 1 /\ UNCHANGED active
<1> DEFINE e == [NoCall EXCEPT !.kind = kind, !.passed = passed, !.op = op, !.tsc = clock]
<1>1. TypeOK /\ clock \in Nat /\ calls \in Nat /\ calls < MaxCalls
  BY Assumptions DEF IInv, TypeOK, Begin
<1>2. PICK n \in CallRecords : n = NoCall /\ n.freed = FALSE
  BY NoCallType
<1>3. e = [n EXCEPT !.kind = kind, !.passed = passed, !.op = op, !.tsc = clock]
  BY <1>2
<1>4. /\ e \in CallRecords /\ e.kind = kind /\ e.passed = passed /\ e.op = op
      /\ e.tsc = clock /\ e.freed = n.freed
  BY <1>1, <1>3 DEF CallRecords
<1> HIDE DEF e
<1>5. /\ pc[t] = "app" /\ call' = [call EXCEPT ![t] = e]
      /\ pc' = [pc EXCEPT ![t] = "pmpi"]
      /\ calls' = calls + 1 /\ clock' = clock + 1 /\ UNCHANGED <<active, done, trace>>
  BY DEF Begin, e
<1>6. TypeOK'
  BY <1>1, <1>4, <1>5, Assumptions DEF TypeOK
<1>7. /\ call'[t] = e /\ \A u \in Threads : u # t => call'[u] = call[u] /\ pc'[u] = pc[u]
      /\ pc'[t] = "pmpi"
  BY <1>1, <1>5 DEF TypeOK
<1>8. {call'[u] : u \in {v \in Threads : pc'[v] = "register"}}
        = {call[u] : u \in {v \in Threads : pc[v] = "register"}}
  BY <1>5, <1>7
<1>9. Made' = Made
  BY <1>5, <1>8 DEF Made, Events
<1>10. t \notin InPmpi /\ InPmpi' = InPmpi \cup {t}
  BY <1>5, <1>7 DEF InPmpi
<1> QED BY <1>2, <1>4, <1>5, <1>6, <1>7, <1>9, <1>10

\* PMPI returns: the call, as its wrapper has changed it, is one of those made.
LEMMA ReturnAdds ==
  ASSUME IInv, NEW t \in InPmpi, NEW changed \in CallRecords, PmpiReturned(t, changed),
         changed.kind = call[t].kind, changed.passed = call[t].passed,
         changed.op = call[t].op, changed.tsc = call[t].tsc
  PROVE  /\ Made' = Made \cup {call'[t]} /\ InPmpi' = InPmpi \ {t}
         /\ \A u \in Threads : u # t => call'[u] = call[u]
         /\ call' \in [Threads -> CallRecords]
         /\ call'[t].kind = call[t].kind /\ call'[t].passed = call[t].passed
         /\ call'[t].op = call[t].op /\ call'[t].tsc = call[t].tsc
         /\ call'[t].end = clock /\ call'[t].freed = changed.freed
         /\ call'[t].req = changed.req /\ call'[t].finished = changed.finished
         /\ pc' \in [Threads -> {"app", "pmpi", "register"}]
         /\ clock' = clock + 1 /\ clock \in Nat /\ UNCHANGED <<calls, trace>>
<1> DEFINE e == [changed EXCEPT !.end = clock]
<1>1. TypeOK /\ clock \in Nat /\ t \in Threads /\ pc[t] = "pmpi"
  BY DEF IInv, TypeOK, InPmpi
<1>2. /\ e \in CallRecords
      /\ e.kind = changed.kind /\ e.passed = changed.passed /\ e.op = changed.op
      /\ e.tsc = changed.tsc /\ e.end = clock /\ e.freed = changed.freed
      /\ e.req = changed.req /\ e.finished = changed.finished
  BY <1>1 DEF CallRecords
<1> HIDE DEF e
<1>3. /\ call' = [call EXCEPT ![t] = e] /\ pc' = [pc EXCEPT ![t] = "register"]
      /\ clock' = clock + 1 /\ UNCHANGED <<calls, trace>>
  BY DEF PmpiReturned, e
<1>4. /\ call'[t] = e /\ pc'[t] = "register"
      /\ \A u \in Threads : u # t => call'[u] = call[u] /\ pc'[u] = pc[u]
  BY <1>1, <1>3 DEF TypeOK
<1>5. {call'[u] : u \in {v \in Threads : pc'[v] = "register"}}
        = {call[u] : u \in {v \in Threads : pc[v] = "register"}} \cup {e}
  BY <1>1, <1>4
<1>6. Made' = Made \cup {e}
  BY <1>3, <1>5 DEF Made, Events
<1>7. InPmpi' = InPmpi \ {t}
  BY <1>1, <1>4 DEF InPmpi
<1>8. call' \in [Threads -> CallRecords] /\ pc' \in [Threads -> {"app", "pmpi", "register"}]
  BY <1>1, <1>2, <1>3 DEF TypeOK
<1> QED BY <1>1, <1>2, <1>3, <1>4, <1>6, <1>7, <1>8

-----------------------------------------------------------------------------
(* The invariant is kept.                                                  *)

LEMMA Initially == Init => IInv
<1> SUFFICES ASSUME Init PROVE IInv
  OBVIOUS
<1>1. TypeOK
  BY NoCallType, Assumptions DEF Init, TypeOK
<1>2. Made = {} /\ InPmpi = {} /\ MadeStarts = {}
  BY DEF Init, Made, Events, InPmpi, MadeStarts
<1> QED BY <1>1, <1>2 DEF IInv, Init, Sound, Starting, CompletingInPmpi, Pending, Once,
              InUse, Held, OneAfterTheOther

\* A call of any kind is entered.
LEMMA BeginStep ==
  ASSUME IInv, NEW t \in Threads, NEW kind \in Kinds,
         NEW passed \in Handles \cup {NullRequest}, NEW op \in Ops \cup {NoOp},
         Begin(t, kind, passed, op),
         kind = "start" => op = calls + 1 /\ passed = NullRequest,
         kind # "start" =>
           \/ op = NoOp /\ passed = NullRequest
           \/ /\ op # NoOp /\ passed \in Handles /\ active[passed] = op
              /\ \A u \in InPmpi : call[u].passed # passed
  PROVE  IInv'
<1>1. /\ TypeOK'
      /\ Made' = Made /\ t \notin InPmpi /\ InPmpi' = InPmpi \cup {t}
      /\ \A u \in Threads : u # t => call'[u] = call[u]
      /\ call'[t].kind = kind /\ call'[t].passed = passed /\ call'[t].op = op
      /\ call'[t].tsc = clock /\ call'[t].freed = FALSE
      /\ calls' = calls + 1 /\ clock' = clock + 1 /\ UNCHANGED active
  BY BeginAdds
<1>2. /\ TypeOK /\ clock \in Nat /\ calls \in Nat
      /\ Sound /\ Starting /\ CompletingInPmpi /\ Pending /\ InUse
  BY Assumptions DEF IInv, TypeOK
<1>3. MadeStarts' = MadeStarts
  BY <1>1 DEF MadeStarts
<1>4. Sound' /\ Once' /\ InUse' /\ Held' /\ OneAfterTheOther'
  BY <1>1, <1>2, Quiet
<1>5. \A u \in InPmpi : /\ u \in Threads /\ u # t /\ call'[u] = call[u]
                        /\ call[u].op \in Nat /\ call[u].op <= calls
                        /\ call[u].tsc \in Nat /\ call[u].tsc < clock /\ ~call[u].freed
  BY <1>1, <1>2 DEF InPmpi, TypeOK, CallRecords, Ops, NoOp, Pending
<1>6. \A s \in MadeStarts : s.op \in Nat /\ s.op <= calls /\ s.end < clock
  BY <1>2, MadeType DEF MadeStarts, Sound, CallRecords, Ops, NoOp
<1>7. op \in Nat /\ (kind # "start" => op <= calls)
  <2>1. op \in Nat
    BY DEF Ops, NoOp
  <2>2. ASSUME kind # "start" PROVE op <= calls
    <3>1. CASE op = NoOp
      BY <1>2, <3>1 DEF NoOp
    <3>2. CASE op # NoOp
      <4>1. \E s \in MadeStarts : s.op = op
        BY <1>2, <2>2, <3>2 DEF InUse
      <4> QED BY <1>6, <4>1
    <3> QED BY <3>1, <3>2
  <2> QED BY <2>1, <2>2
<1>8. Pending'
  <2>1. ASSUME NEW u \in InPmpi
        PROVE  call'[u].tsc < clock' /\ call'[u].op <= calls' /\ ~call'[u].freed
    BY <1>1, <1>2, <1>5
  <2>2. call'[t].tsc < clock' /\ call'[t].op <= calls' /\ ~call'[t].freed
    BY <1>1, <1>2, <1>7
  <2> QED BY <1>1, <2>1, <2>2 DEF Pending
<1>9. Starting'
  <2>1. ASSUME NEW u \in InPmpi, call[u].kind = "start"
        PROVE  /\ call[u].op # NoOp /\ call[u].passed = NullRequest
               /\ \A s \in MadeStarts : s.op # call[u].op
               /\ \A v \in InPmpi : v # u /\ call[v].kind = "start" => call[v].op # call[u].op
               /\ kind = "start" => op # call[u].op
    BY <1>2, <1>5, <2>1 DEF Starting
  <2>2. ASSUME kind = "start"
        PROVE  /\ op # NoOp /\ passed = NullRequest
               /\ \A s \in MadeStarts : s.op # op
               /\ \A v \in InPmpi : call[v].op # op
    BY <1>2, <1>5, <1>6, <2>2 DEF NoOp
  <2> QED BY <1>1, <1>3, <1>5, <2>1, <2>2 DEF Starting
<1>10. CompletingInPmpi'
  <2>1. ASSUME NEW u \in InPmpi, call[u].kind # "start"
        PROVE  \/ call[u].op = NoOp /\ call[u].passed = NullRequest
               \/ /\ call[u].op # NoOp /\ call[u].passed \in Handles
                  /\ active[call[u].passed] = call[u].op
                  /\ \A s \in MadeStarts : s.op = call[u].op => s.end < call[u].tsc
                  /\ \A v \in InPmpi : v # u => call[v].passed # call[u].passed
                  /\ passed # call[u].passed
    BY <1>2, <2>1, Assumptions DEF CompletingInPmpi
  <2>2. ASSUME kind # "start"
        PROVE  \/ op = NoOp /\ passed = NullRequest
               \/ /\ op # NoOp /\ passed \in Handles /\ active[passed] = op
                  /\ \A s \in MadeStarts : s.op = op => s.end < clock
                  /\ \A u \in InPmpi : call[u].passed # passed
    BY <1>6, <2>2
  <2> QED BY <1>1, <1>3, <1>5, <2>1, <2>2 DEF CompletingInPmpi
<1> QED BY <1>1, <1>4, <1>8, <1>9, <1>10 DEF IInv

\* Of two sets of calls, the larger one has as many ends.
LEMMA BeforeKept ==
  ASSUME NEW s1, NEW s2, Made \subseteq Made', Before(s1, s2)
  PROVE  Before(s1, s2)'
BY DEF Before, Ends

LEMMA PmpiStartStep ==
  ASSUME IInv, NEW t \in Threads, PmpiStart(t)
  PROVE  IInv'
<1>1. PICK h \in Handles :
        /\ active[h] = NoOp
        /\ active' = [active EXCEPT ![h] = call[t].op]
        /\ PmpiReturned(t, [call[t] EXCEPT !.req = h])
  BY DEF PmpiStart
<1>2. /\ TypeOK /\ t \in InPmpi /\ call[t].kind = "start" /\ done' = done
      /\ call[t] \in CallRecords
      /\ Sound /\ Starting /\ CompletingInPmpi /\ Pending /\ Once /\ InUse /\ Held
      /\ OneAfterTheOther
  BY DEF IInv, TypeOK, PmpiStart, InPmpi
<1>3. PICK changed : changed = [call[t] EXCEPT !.req = h]
  OBVIOUS
<1>4. /\ changed \in CallRecords
      /\ changed.kind = call[t].kind /\ changed.passed = call[t].passed
      /\ changed.op = call[t].op /\ changed.tsc = call[t].tsc
      /\ changed.req = h /\ changed.freed = call[t].freed
  BY <1>2, <1>3 DEF CallRecords
<1>5. PmpiReturned(t, changed)
  BY <1>1, <1>3
<1>6. PICK e : e = call'[t]
  OBVIOUS
<1>7. /\ Made' = Made \cup {e} /\ InPmpi' = InPmpi \ {t}
      /\ \A u \in Threads : u # t => call'[u] = call[u]
      /\ call' \in [Threads -> CallRecords]
      /\ e.kind = "start" /\ e.op = call[t].op /\ e.tsc = call[t].tsc
      /\ e.end = clock /\ e.freed = call[t].freed /\ e.req = h
      /\ pc' \in [Threads -> {"app", "pmpi", "register"}]
      /\ clock' = clock + 1 /\ clock \in Nat /\ UNCHANGED <<calls, trace>>
  BY <1>2, <1>4, <1>5, <1>6, ReturnAdds
<1>8. /\ e.op # NoOp /\ e.op \in Ops /\ ~e.freed /\ e.tsc < clock /\ e.op <= calls
      /\ \A s \in MadeStarts : s.op # e.op
      /\ \A u \in InPmpi : u # t /\ call[u].kind = "start" => call[u].op # e.op
  BY <1>2, <1>7 DEF Starting, Pending, CallRecords
<1>9. MadeStarts' = MadeStarts \cup {e}
  BY <1>7 DEF MadeStarts
<1>10. active' \in [Handles -> Ops \cup {NoOp}] /\ active'[h] = e.op
       /\ \A g \in Handles : g # h => active'[g] = active[g]
  BY <1>1, <1>2, <1>7, <1>8 DEF TypeOK
<1>11. TypeOK'
  BY <1>2, <1>7, <1>10 DEF TypeOK
<1>12. \A s \in MadeStarts : s.op # NoOp /\ s.req \in Handles
  BY <1>2 DEF MadeStarts, Sound, SoundCall
<1>13. \A f \in Made : f.end < clock' /\ f.end < e.end
  BY <1>2, <1>7, MadeType DEF Sound, CallRecords
<1>14. Sound'
  <2>1. ASSUME NEW f \in Made PROVE SoundCall(f)' /\ f.end < clock' /\ f.op <= calls'
    BY <1>2, <1>7, <1>13 DEF Sound, SoundCall, Completing
  <2>2. SoundCall(e)' /\ e.end < clock' /\ e.op <= calls'
    BY <1>7, <1>8 DEF SoundCall, Completing
  <2> QED BY <1>7, <2>1, <2>2 DEF Sound
<1>15. \A u \in InPmpi' : u \in Threads /\ u \in InPmpi /\ u # t /\ call'[u] = call[u]
  BY <1>7 DEF InPmpi
<1>16. Starting'
  BY <1>2, <1>8, <1>9, <1>15 DEF Starting
<1>17. Pending'
  <2>1. \A u \in InPmpi : call[u].tsc \in Nat
    BY <1>2 DEF TypeOK, InPmpi, CallRecords
  <2> QED BY <1>2, <1>7, <1>15, <2>1 DEF Pending
<1>18. CompletingInPmpi'
  <2>1. ASSUME NEW u \in InPmpi', call[u].kind # "start", call[u].op # NoOp
        PROVE  /\ call[u].passed \in Handles
               /\ active'[call[u].passed] = call[u].op
               /\ \A s \in MadeStarts' : s.op = call[u].op => s.end < call[u].tsc
               /\ \A v \in InPmpi' : v # u => call[v].passed # call[u].passed
    <3>1. /\ call[u].passed \in Handles
          /\ active[call[u].passed] = call[u].op
          /\ \A s \in MadeStarts : s.op = call[u].op => s.end < call[u].tsc
          /\ \A v \in InPmpi : v # u => call[v].passed # call[u].passed
      BY <1>2, <1>15, <2>1 DEF CompletingInPmpi
    <3>2. active'[call[u].passed] = call[u].op
      BY <1>1, <1>10, <2>1, <3>1
    <3>3. e.op # call[u].op
      BY <1>2, <1>8, <2>1, <3>1 DEF InUse
    <3> QED BY <1>9, <1>15, <3>1, <3>2, <3>3
  <2>2. ASSUME NEW u \in InPmpi', call[u].kind # "start", call[u].op = NoOp
        PROVE  call[u].passed = NullRequest
    BY <1>2, <1>15, <2>2 DEF CompletingInPmpi
  <2> QED BY <1>15, <2>1, <2>2 DEF CompletingInPmpi
<1>19. Once'
  BY <1>2, <1>7, <1>8, <1>9 DEF Once
<1>20. InUse'
  <2>1. \A c \in Made : c.freed => c.op # e.op
    BY <1>2, <1>8 DEF Once
  <2> QED BY <1>2, <1>7, <1>8, <1>9, <1>10, <2>1 DEF InUse
<1>21. \A s \in MadeStarts : s.req = h => \E c \in Made : Ends(c, s)
  BY <1>1, <1>2, <1>12 DEF Held
<1>22. Held'
  BY <1>2, <1>7, <1>9, <1>10, <1>12, <1>21 DEF Held, Ends
<1>23. \A s \in MadeStarts : s.req = h => Before(s, e)'
  BY <1>7, <1>13, <1>21 DEF Before, Ends
<1>24. OneAfterTheOther'
  <2>1. ASSUME NEW s1 \in MadeStarts, NEW s2 \in MadeStarts, s1 # s2, s1.req = s2.req
        PROVE  Before(s1, s2)' \/ Before(s2, s1)'
    BY <1>2, <1>7, <2>1, BeforeKept DEF OneAfterTheOther
  <2> QED BY <1>7, <1>9, <1>23, <2>1 DEF OneAfterTheOther
<1> QED BY <1>11, <1>14, <1>16, <1>17, <1>18, <1>19, <1>20, <1>22, <1>24 DEF IInv

LEMMA RegisterStep ==
  ASSUME IInv, NEW t \in Threads, Register(t)
  PROVE  IInv'
<1>1. /\ TypeOK /\ pc[t] = "register" /\ trace' = Append(trace, call[t])
      /\ pc' = [pc EXCEPT ![t] = "app"] /\ call[t] \in CallRecords
      /\ UNCHANGED <<call, calls, active, done, clock>>
  BY DEF IInv, TypeOK, Register
<1>2. TypeOK'
  BY <1>1 DEF TypeOK
<1>3. pc'[t] = "app" /\ \A u \in Threads : u # t => pc'[u] = pc[u]
  BY <1>1 DEF TypeOK
<1>4. InPmpi' = InPmpi
  BY <1>1, <1>3 DEF InPmpi
<1>5. Events' = Events \cup {call[t]}
  <2>1. /\ Len(trace') = Len(trace) + 1 /\ Len(trace) \in Nat
        /\ \A i \in 1..Len(trace) : trace'[i] = trace[i]
        /\ trace'[Len(trace) + 1] = call[t]
    BY <1>1 DEF TypeOK
  <2>2. \A i \in 1..Len(trace') : i \in 1..Len(trace) \/ i = Len(trace) + 1
    BY <2>1
  <2>3. \A i \in 1..Len(trace) : i \in 1..Len(trace')
    BY <2>1
  <2>4. Len(trace) + 1 \in 1..Len(trace')
    BY <2>1
  <2> QED BY <2>1, <2>2, <2>3, <2>4 DEF Events
<1>6. Made' = Made
  BY <1>1, <1>3, <1>5 DEF Made
<1>7. MadeStarts' = MadeStarts
  BY <1>6 DEF MadeStarts
<1>8. clock' \in Nat /\ clock' >= clock /\ calls' \in Nat /\ calls' >= calls
  BY <1>1, Assumptions DEF TypeOK
<1>9. Sound' /\ Once' /\ InUse' /\ Held' /\ OneAfterTheOther'
  BY <1>1, <1>6, <1>8, Quiet
<1>10. Starting' /\ CompletingInPmpi' /\ Pending'
  BY <1>1, <1>4, <1>7 DEF IInv, Starting, CompletingInPmpi, Pending
<1> QED BY <1>2, <1>9, <1>10 DEF IInv

LEMMA ProgressStep ==
  ASSUME IInv, NEW o \in Ops, Progress(o)
  PROVE  IInv'
<1>1. TypeOK /\ done' = done \cup {o} /\ UNCHANGED <<pc, call, calls, active, clock, trace>>
  BY DEF IInv, Progress
<1>2. TypeOK'
  BY <1>1 DEF TypeOK
<1>3. Made' = Made /\ MadeStarts' = MadeStarts /\ InPmpi' = InPmpi
  BY <1>1 DEF Made, MadeStarts, Events, InPmpi
<1>4. Sound' /\ Once' /\ InUse' /\ Held' /\ OneAfterTheOther'
  BY <1>1, <1>3, Quiet, Assumptions DEF TypeOK
<1>5. Starting' /\ CompletingInPmpi' /\ Pending'
  BY <1>1, <1>3 DEF IInv, Starting, CompletingInPmpi, Pending
<1> QED BY <1>2, <1>4, <1>5 DEF IInv

\* What a completion makes of its call: one that frees the operation, if f.
LEMMA CompletionRecords ==
  ASSUME TypeOK, NEW t \in Threads, NEW flag \in BOOLEAN, PmpiCompletion(t, flag),
         \/ call[t].op = NoOp /\ call[t].passed = NullRequest
         \/ call[t].op # NoOp /\ call[t].passed \in Handles
  PROVE  \E changed \in CallRecords, f \in BOOLEAN :
           /\ PmpiReturned(t, changed)
           /\ changed.kind = call[t].kind /\ changed.passed = call[t].passed
           /\ changed.op = call[t].op /\ changed.tsc = call[t].tsc
           /\ changed.freed = f
           /\ f => call[t].op # NoOp
           /\ Language = "c" => changed.req = call[t].passed /\ (Completing(changed) <=> f)
           /\ active' = IF f THEN [active EXCEPT ![call[t].passed] = NoOp] ELSE active
           /\ done' \subseteq done
<1>1. PICK f \in BOOLEAN : f = (flag /\ call[t].op # NoOp)
  OBVIOUS
<1>2. PICK req : req = RecordedRequest(call[t].kind, call[t].passed,
                                       IF flag THEN NullRequest ELSE call[t].passed)
  OBVIOUS
<1>3. PICK finished \in BOOLEAN : finished = RecordedFinished(call[t].kind, flag)
  BY DEF RecordedFinished
<1>4. PICK changed :
        changed = [call[t] EXCEPT !.freed = f, !.req = req, !.finished = finished]
  OBVIOUS
<1>5. PmpiReturned(t, changed)
  BY <1>1, <1>2, <1>3, <1>4 DEF PmpiCompletion
<1>6. /\ call[t] \in CallRecords /\ call[t].kind # "start"
      /\ flag <=> call[t].op \in done \cup {NoOp}
      /\ call[t].kind = "wait" => flag
      /\ active' = IF f THEN [active EXCEPT ![call[t].passed] = NoOp] ELSE active
      /\ done' \subseteq done
  BY <1>1 DEF PmpiCompletion, TypeOK
<1>7. req \in Handles \cup {NullRequest}
  BY <1>2, <1>6 DEF RecordedRequest, CallRecords
<1>8. /\ changed \in CallRecords
      /\ changed.kind = call[t].kind /\ changed.passed = call[t].passed
      /\ changed.op = call[t].op /\ changed.tsc = call[t].tsc
      /\ changed.freed = f /\ changed.req = req /\ changed.finished = finished
  BY <1>4, <1>6, <1>7 DEF CallRecords
<1>9. ASSUME Language = "c"
      PROVE  req = call[t].passed /\ (Completing(changed) <=> f)
  <2>1. req = call[t].passed
    BY <1>2, <1>9 DEF RecordedRequest
  <2>2. finished <=> call[t].kind = "test" /\ flag
    BY <1>3, <1>9 DEF RecordedFinished
  <2>3. req # NullRequest <=> call[t].op # NoOp
    BY <2>1, Assumptions
  <2>4. call[t].kind \in {"test", "wait"}
    BY <1>6 DEF CallRecords, Kinds
  <2>5. f <=> flag /\ call[t].op # NoOp
    BY <1>1
  <2> QED BY <1>6, <1>8, <2>1, <2>2, <2>3, <2>4, <2>5 DEF Completing
<1>10. f => call[t].op # NoOp
  BY <1>1
<1> QED BY <1>5, <1>6, <1>8, <1>9, <1>10

LEMMA PmpiCompletionStep ==
  ASSUME IInv, NEW t \in Threads, NEW flag \in BOOLEAN, PmpiCompletion(t, flag)
  PROVE  IInv'
<1>1. /\ TypeOK /\ t \in InPmpi /\ call[t].kind # "start"
      /\ call[t] \in CallRecords
      /\ Sound /\ Starting /\ CompletingInPmpi /\ Pending /\ Once /\ InUse /\ Held
      /\ OneAfterTheOther
  BY DEF IInv, TypeOK, PmpiCompletion, InPmpi
<1>2. \/ call[t].op = NoOp /\ call[t].passed = NullRequest
      \/ /\ call[t].op # NoOp /\ call[t].passed \in Handles
         /\ active[call[t].passed] = call[t].op
         /\ \A s \in MadeStarts : s.op = call[t].op => s.end < call[t].tsc
         /\ \A u \in InPmpi : u # t => call[u].passed # call[t].passed
  BY <1>1 DEF CompletingInPmpi
<1>3. PICK changed \in CallRecords, f \in BOOLEAN :
           /\ PmpiReturned(t, changed)
           /\ changed.kind = call[t].kind /\ changed.passed = call[t].passed
           /\ changed.op = call[t].op /\ changed.tsc = call[t].tsc
           /\ changed.freed = f
           /\ f => call[t].op # NoOp
           /\ Language = "c" => changed.req = call[t].passed /\ (Completing(changed) <=> f)
           /\ active' = IF f THEN [active EXCEPT ![call[t].passed] = NoOp] ELSE active
           /\ done' \subseteq done
  BY <1>1, <1>2, CompletionRecords
<1>4. PICK e : e = call'[t]
  OBVIOUS
<1>5. /\ Made' = Made \cup {e} /\ InPmpi' = InPmpi \ {t}
      /\ \A u \in Threads : u # t => call'[u] = call[u]
      /\ call' \in [Threads -> CallRecords]
      /\ e.kind = call[t].kind /\ e.passed = call[t].passed
      /\ e.op = call[t].op /\ e.tsc = call[t].tsc
      /\ e.end = clock /\ e.freed = f
      /\ e.req = changed.req /\ e.finished = changed.finished
      /\ pc' \in [Threads -> {"app", "pmpi", "register"}]
      /\ clock' = clock + 1 /\ clock \in Nat /\ UNCHANGED <<calls, trace>>
  BY <1>1, <1>3, <1>4, ReturnAdds
<1>6. /\ e.kind # "start" /\ e.tsc < clock /\ e.op <= calls
      /\ e.freed = f
      /\ Language = "c" => e.req = e.passed /\ (Completing(e) <=> f)
  BY <1>1, <1>3, <1>5 DEF Pending, Completing
<1>7. (f => e.op # NoOp) /\ (e.op # NoOp => e.passed # NullRequest)
  BY <1>2, <1>3, <1>5, Assumptions
<1>8. f => /\ e.passed \in Handles /\ active[e.passed] = e.op
           /\ \A s \in MadeStarts : s.op = e.op => s.end < e.tsc
           /\ \A u \in InPmpi : u # t => call[u].passed # e.passed
  BY <1>2, <1>5, <1>7
<1>9. MadeStarts' = MadeStarts
  BY <1>5, <1>6 DEF MadeStarts
<1>10. /\ active' \in [Handles -> Ops \cup {NoOp}]
       /\ \A g \in Handles : ~(f /\ g = e.passed) => active'[g] = active[g]
       /\ f => active'[e.passed] = NoOp
  BY <1>1, <1>3, <1>5, <1>8 DEF TypeOK
<1>11. TypeOK'
  BY <1>1, <1>3, <1>5, <1>10 DEF TypeOK
<1>12. Sound'
  <2>1. ASSUME NEW g \in Made PROVE SoundCall(g)' /\ g.end < clock' /\ g.op <= calls'
    <3>1. g.end < clock'
      BY <1>1, <1>5, MadeType DEF Sound, CallRecords
    <3> QED BY <1>1, <1>5, <3>1 DEF Sound, SoundCall, Completing
  <2>2. SoundCall(e)' /\ e.end < clock' /\ e.op <= calls'
    BY <1>5, <1>6, <1>7 DEF SoundCall, Completing
  <2> QED BY <1>5, <2>1, <2>2 DEF Sound
<1>13. \A u \in InPmpi' : u \in Threads /\ u \in InPmpi /\ u # t /\ call'[u] = call[u]
  BY <1>5 DEF InPmpi
<1>14. Starting'
  BY <1>1, <1>9, <1>13 DEF Starting
<1>15. Pending'
  <2>1. \A u \in InPmpi : call[u].tsc \in Nat
    BY <1>1 DEF TypeOK, InPmpi, CallRecords
  <2> QED BY <1>1, <1>5, <1>13, <2>1 DEF Pending
<1>16. CompletingInPmpi'
  <2>1. \A u \in InPmpi' : call[u].passed \in Handles =>
           active'[call[u].passed] = active[call[u].passed]
    BY <1>8, <1>10, <1>13
  <2> QED BY <1>1, <1>9, <1>13, <2>1 DEF CompletingInPmpi
<1>17. Once'
  <2>1. f => \A c \in Made : c.freed => c.op # e.op
    BY <1>1, <1>7, <1>8 DEF InUse
  <2>2. f => \E s \in MadeStarts : s.op = e.op
    BY <1>1, <1>7, <1>8 DEF InUse
  <2> QED BY <1>1, <1>5, <1>6, <1>9, <2>1, <2>2 DEF Once
<1>18. InUse'
  <2>1. ASSUME NEW g \in Handles, active'[g] # NoOp
        PROVE  /\ \E s \in MadeStarts : s.op = active'[g] /\ s.req = g
               /\ \A c \in Made' : c.freed => c.op # active'[g]
    <3>1. active'[g] = active[g] /\ ~(f /\ g = e.passed)
      BY <1>10, <2>1
    <3>2. PICK s \in MadeStarts : s.op = active[g] /\ s.req = g
      BY <1>1, <2>1, <3>1 DEF InUse
    <3>3. f => e.op # active[g]
      <4> SUFFICES ASSUME f, e.op = active[g] PROVE FALSE
        OBVIOUS
      <4>1. PICK other \in MadeStarts : other.op = e.op /\ other.req = e.passed
        BY <1>1, <1>7, <1>8 DEF InUse
      <4> QED BY <1>1, <3>1, <3>2, <4>1 DEF Once
    <3> QED BY <1>1, <1>5, <1>6, <2>1, <3>1, <3>2, <3>3 DEF InUse
  <2> QED BY <1>9, <2>1 DEF InUse
<1>19. Held'
  <2>1. ASSUME NEW s \in MadeStarts
        PROVE  active'[s.req] = s.op \/ \E c \in Made' : Ends(c, s)
    <3>1. s.req \in Handles /\ s.op # NoOp
      BY <1>1 DEF MadeStarts, Sound, SoundCall
    <3>2. CASE \E c \in Made : Ends(c, s)
      BY <1>5, <3>2
    <3>3. CASE active[s.req] = s.op /\ f /\ s.req = e.passed
      <4>1. Ends(e, s)
        BY <1>6, <1>8, <3>3 DEF Ends
      <4> QED BY <1>5, <4>1
    <3>4. CASE active[s.req] = s.op /\ ~(f /\ s.req = e.passed)
      BY <1>10, <3>1, <3>4
    <3> QED BY <1>1, <3>2, <3>3, <3>4 DEF Held
  <2> QED BY <1>9, <2>1 DEF Held, Ends
<1>20. OneAfterTheOther'
  <2>1. ASSUME NEW s1 \in MadeStarts, NEW s2 \in MadeStarts, s1 # s2, s1.req = s2.req
        PROVE  Before(s1, s2)' \/ Before(s2, s1)'
    BY <1>1, <1>5, <2>1, BeforeKept DEF OneAfterTheOther
  <2> QED BY <1>9, <2>1 DEF OneAfterTheOther
<1> QED BY <1>11, <1>12, <1>14, <1>15, <1>16, <1>17, <1>18, <1>19, <1>20 DEF IInv

LEMMA Inductive == IInv /\ [Next]_vars => IInv'
<1> SUFFICES ASSUME IInv, [Next]_vars PROVE IInv'
  OBVIOUS
<1>1. TypeOK /\ calls \in Nat
  BY Assumptions DEF IInv, TypeOK
<1>2. ASSUME NEW t \in Threads, BeginStart(t) PROVE IInv'
  <2>1. Begin(t, "start", NullRequest, calls + 1) /\ calls + 1 \in Ops
    BY <1>1, <1>2, Assumptions DEF BeginStart, Begin, Ops
  <2>2. "start" \in Kinds
    BY DEF Kinds
  <2> QED BY <2>1, <2>2, BeginStep
<1>3. ASSUME NEW t \in Threads, NEW kind \in {"test", "wait"}, NEW h \in Handles,
             BeginCompletion(t, kind, h)
      PROVE  IInv'
  <2>1. /\ Begin(t, kind, h, active[h]) /\ active[h] # NoOp /\ active[h] \in Ops
        /\ \A u \in InPmpi : call[u].passed # h
    BY <1>1, <1>3 DEF BeginCompletion, TypeOK, InPmpi
  <2>2. kind \in Kinds /\ kind # "start"
    BY DEF Kinds
  <2> QED BY <2>1, <2>2, BeginStep
<1>4. ASSUME NEW t \in Threads, NEW kind \in {"test", "wait"}, BeginOnNull(t, kind)
      PROVE  IInv'
  <2>1. Begin(t, kind, NullRequest, NoOp)
    BY <1>4 DEF BeginOnNull
  <2>2. kind \in Kinds /\ kind # "start"
    BY DEF Kinds
  <2> QED BY <2>1, <2>2, BeginStep
<1>5. CASE UNCHANGED vars
  <2>1. TypeOK'
    BY <1>1, <1>5 DEF TypeOK, vars
  <2>2. Made' = Made /\ MadeStarts' = MadeStarts /\ InPmpi' = InPmpi
    BY <1>5 DEF vars, Made, MadeStarts, Events, InPmpi
  <2>3. Sound' /\ Once' /\ InUse' /\ Held' /\ OneAfterTheOther'
    BY <1>1, <1>5, <2>2, Quiet DEF vars, TypeOK
  <2>4. Starting' /\ CompletingInPmpi' /\ Pending'
    BY <1>5, <2>2 DEF IInv, Starting, CompletingInPmpi, Pending, vars
  <2> QED BY <2>1, <2>3, <2>4 DEF IInv
<1> QED BY <1>2, <1>3, <1>4, <1>5, PmpiStartStep, PmpiCompletionStep, RegisterStep, ProgressStep
        DEF Next, AllMade

-----------------------------------------------------------------------------
(* The theorems.                                                           *)

\* IInv holds in every reachable state.
THEOREM Invariance == Spec => []IInv
BY Initially, Inductive, PTL DEF Spec

\* Calls, handles and the trace have their types.
THEOREM TypeCorrect == Spec => []TypeOK
<1>1. IInv => TypeOK
  BY DEF IInv
<1> QED BY Invariance, <1>1, PTL

\* In time order: an operation gets its handle, is freed, and only then does
\* another get it.
LEMMA Lifetimes ==
  ASSUME IInv, NEW s \in MadeStarts, NEW other \in MadeStarts, NEW c \in Made,
         s # other, s.req = other.req, c.freed, c.op = s.op
  PROVE  \/ c.end < other.end
         \/ \E d \in Made : d.op = other.op /\ d.freed /\ other.end < d.tsc /\ d.end < s.end
<1>1. Once /\ OneAfterTheOther
  BY DEF IInv
<1>2. CASE Before(s, other)
  BY <1>1, <1>2 DEF Before, Ends, Once
<1>3. CASE Before(other, s)
  BY <1>3 DEF Before, Ends
<1> QED BY <1>1, <1>2, <1>3 DEF OneAfterTheOther

\* The readings of a call are numbers, the second one the later.
LEMMA Readings ==
  ASSUME IInv, NEW e \in Made
  PROVE  e.tsc \in Nat /\ e.end \in Nat /\ e.tsc < e.end
<1>1. e \in CallRecords /\ SoundCall(e)
  BY MadeType DEF IInv, Sound
<1> QED BY <1>1 DEF CallRecords, SoundCall

LEMMA TracedAreMade ==
  /\ \A e \in Events : e \in Made
  /\ \A s \in Starts : s \in MadeStarts
BY DEF Made, Starts, MadeStarts

\* A reader who matches a completion with the latest start that had returned
\* with its handle is right, whatever order the threads registered in.
THEOREM LatestStartMatches == Spec => []LatestStartIsRight
<1>1. IInv => LatestStartIsRight
  <2> SUFFICES ASSUME IInv, NEW s \in Starts, NEW other \in Starts, NEW c \in Events,
                      c.freed, c.op = s.op, other # s, other.req = s.req,
                      s.end < other.tsc, other.end < c.tsc
               PROVE  FALSE
    BY DEF LatestStartIsRight
  <2>1. s \in MadeStarts /\ other \in MadeStarts /\ c \in Made /\ s \in Made /\ other \in Made
    BY TracedAreMade DEF MadeStarts
  <2>2. CASE c.end < other.end
    BY <2>1, <2>2, Readings
  <2>3. CASE \E d \in Made : d.op = other.op /\ d.freed /\ other.end < d.tsc /\ d.end < s.end
    <3>1. PICK d \in Made : other.end < d.tsc /\ d.end < s.end
      BY <2>3
    <3> QED BY <2>1, <3>1, Readings
  <2> QED BY <2>1, <2>2, <2>3, Lifetimes
<1> QED BY Invariance, <1>1, PTL

\* What the trace says of two operations with one handle does not overlap.
THEOREM LifetimesAreDisjoint == Spec => []HandleLifetimesDisjoint
<1>1. IInv => HandleLifetimesDisjoint
  <2> SUFFICES ASSUME IInv, NEW s1 \in Starts, NEW s2 \in Starts,
                      NEW c1 \in Events, NEW c2 \in Events,
                      c1.freed, c1.op = s1.op, c2.freed, c2.op = s2.op,
                      s1 # s2, s1.req = s2.req
               PROVE  c1.tsc < s2.end \/ c2.tsc < s1.end
    BY DEF HandleLifetimesDisjoint
  <2>1. /\ s1 \in MadeStarts /\ s2 \in MadeStarts /\ c1 \in Made /\ c2 \in Made
        /\ s1 \in Made /\ s2 \in Made
    BY TracedAreMade DEF MadeStarts
  <2>2. CASE c1.end < s2.end
    BY <2>1, <2>2, Readings
  <2>3. CASE \E d \in Made : d.op = s2.op /\ d.freed /\ s2.end < d.tsc /\ d.end < s1.end
    <3>1. PICK d \in Made : d.op = s2.op /\ d.freed /\ d.end < s1.end
      BY <2>3
    <3>2. d = c2
      BY <2>1, <3>1 DEF IInv, Once
    <3> QED BY <2>1, <3>1, <3>2, Readings
  <2> QED BY <2>1, <2>2, <2>3, Lifetimes
<1> QED BY Invariance, <1>1, PTL

\* With the C wrappers, the trace has exactly one completion of each operation
\* that is over, and none of any other.
THEOREM CompletionsTraced == ASSUME Language = "c" PROVE Spec => []CompletionTraced
<1>1. IInv => CompletionTraced
  <2> SUFFICES ASSUME IInv PROVE CompletionTraced
    OBVIOUS
  <2>1. ASSUME NEW c \in Events PROVE Completing(c) <=> c.freed
    BY <2>1, TracedAreMade DEF IInv, Sound, SoundCall
  <2>2. ASSUME NEW o \in Over
        PROVE  \E s \in Starts, c \in Events :
                 /\ s.op = o /\ Completing(c) /\ c.req = s.req /\ s.end < c.tsc
                 /\ \A e \in Events : e.op = o /\ Completing(e) => e = c
    <3>1. PICK s \in Starts : s.op = o
      BY DEF Over
    <3>2. s \in MadeStarts /\ s.req \in Handles /\ active[s.req] # o
      <4>1. s \in MadeStarts
        BY TracedAreMade
      <4> QED BY <4>1 DEF Over, IInv, Sound, SoundCall, MadeStarts
    <3>3. PICK c \in Made : Ends(c, s)
      BY <3>1, <3>2 DEF IInv, Held
    <3>4. c \in Events
      BY <3>1, <3>3 DEF Ends, Made, Over
    <3>5. c.req = s.req
      BY <3>3 DEF Ends, IInv, Sound, SoundCall
    <3>6. ASSUME NEW e \in Events, e.op = o, Completing(e) PROVE e = c
      <4>1. e \in Made /\ e.freed /\ c.freed /\ c.op = e.op
        BY <2>1, <3>1, <3>3, <3>6, TracedAreMade DEF Ends
      <4> QED BY <4>1 DEF IInv, Once
    <3> QED BY <2>1, <3>1, <3>3, <3>4, <3>5, <3>6 DEF Ends
  <2> QED BY <2>1, <2>2 DEF CompletionTraced
<1> QED BY Invariance, <1>1, PTL

\* What delimits the finding TestRecorded: MPI_Test's event has the request that
\* was tested, and says whether it finished, whenever the C wrappers are in use.
THEOREM TestsAreRecorded == ASSUME Language = "c" PROVE Spec => []TestRecorded
<1>1. IInv => TestRecorded
  <2> SUFFICES ASSUME IInv, NEW e \in Events, e.kind = "test", e.op # NoOp
               PROVE  e.req = e.passed /\ (e.finished <=> e.freed)
    BY DEF TestRecorded
  <2>1. SoundCall(e) /\ e \in CallRecords
    BY TracedAreMade, MadeType DEF IInv, Sound
  <2>2. e.req = e.passed /\ e.req # NullRequest
    BY <2>1 DEF SoundCall
  <2>3. e.finished <=> e.freed
    BY <2>1, <2>2 DEF SoundCall, Completing, CallRecords
  <2> QED BY <2>2, <2>3
<1> QED BY Invariance, <1>1, PTL
=============================================================================
