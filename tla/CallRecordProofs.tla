-------------------------- MODULE CallRecordProofs --------------------------
(***************************************************************************)
(* Proofs about CallRecord, for every process, every set of argument       *)
(* values and every width of the byte counts.  What the wrapper's MpiCall  *)
(* keeps of its call (Faithful) is what lets an event mean the call.       *)
(***************************************************************************)
EXTENDS CallRecord, TLAPS

USE ReductionsAssumption, ModulusAssumption, NumbersAssumption

\* What either library's wrappers record of any call c ...
Recorded(m, c) ==
  /\ m.kind = c.kind
  /\ m.current_rank = Rank
  /\ m.partner_rank = c.partner
  /\ m.tag = c.tag
  /\ m.required_thread_lvl = c.required_thread_lvl
  /\ m.provided_thread_lvl = c.provided_thread_lvl
  /\ m.tsc = c.entered
  /\ m.duration = c.left - c.entered
  /\ m.time = c.time

\* ... what the C wrappers do, and the Fortran ones but for MPI_Test ...
Identified(m, c) ==
  /\ m.req = c.req
  /\ m.finished = c.finished

\* ... what the C wrappers do alone ...
Named(m, c) ==
  /\ m.comm = c.comm
  /\ m.op_type = OpType(c.op_type)

\* ... and the byte counts.
Counted(m, c) ==
  /\ c.kind \in {"Send", "Isend", "Ibcast"} => m.nb_bytes_s = Truncated(Bytes(c.sent))
  /\ c.kind \in Receiving => m.nb_bytes_r = Truncated(Bytes(c.received))
  /\ c.kind \in BothWays =>
       /\ SentIgnored(c.kind, c.partner) \/ m.nb_bytes_s = Truncated(Bytes(c.sent))
       /\ ReceivedIgnored(c.kind, c.partner) \/ m.nb_bytes_r = Truncated(Bytes(c.received))

Faithful(m, c) ==
  /\ Recorded(m, c)
  /\ language = "c" \/ c.kind # "Test" => Identified(m, c)
  /\ language = "c" => Named(m, c)
  /\ Counted(m, c)

\* The inductive invariant.
IInv ==
  /\ TypeOK
  /\ pc = "wrapper" => (Initializes(call) <=> current_rank = None)
  /\ pc \in {"dispatch", "registered"} => Faithful(mpi_call, call)
  /\ pc = "dispatch" => current_rank = Rank
  /\ EventMeansCall
  /\ BytesKept

-----------------------------------------------------------------------------
(* Values.                                                                 *)

\* A byte count of the trace is below Modulus.
LEMMA TruncatedType ==
  ASSUME NEW b \in Nat
  PROVE  /\ Truncated(b) \in ByteCounts
         /\ b < Modulus => Truncated(b) = b
BY DEF Truncated, ByteCounts

\* A call's argument is one of the values it may have, or the filler.
LEMMA GivenType ==
  ASSUME NEW kinds, NEW k, NEW values, NEW filler,
         NEW x \in Given(kinds, k, values, filler)
  PROVE  x \in values \/ x = filler
BY DEF Given

\* What the members of a call are.
LEMMA CallType ==
  ASSUME NEW c \in Calls
  PROVE  /\ c.kind \in Kinds
         /\ c.partner \in Int /\ c.tag \in Int /\ c.comm \in Int /\ c.req \in Int
         /\ c.op_type \in Reductions \cup {Invalid}
         /\ c.required_thread_lvl \in Int /\ c.provided_thread_lvl \in Int
         /\ c.finished \in BOOLEAN
         /\ c.entered \in Nat /\ c.left \in Nat /\ c.left - c.entered \in Nat
         /\ c.time \in Int
         /\ c.source \in Ranks \cup {None}
         /\ c.sent[1] \in Int /\ c.sent[2] \in Nat
         /\ c.received[1] \in Int /\ c.received[2] \in Nat
         /\ c.sent[1] # NullType => c.sent[1] \in Nat
         /\ c.received[1] # NullType => c.received[1] \in Nat
         /\ c.sent[1] = NullType => SentIgnored(c.kind, c.partner)
         /\ c.received[1] = NullType => ReceivedIgnored(c.kind, c.partner)
<1>1. PICK k \in Kinds : c \in CallsOf(k)
  BY DEF Calls
<1>2. c.kind = k
  BY <1>1 DEF CallsOf
<1>3. /\ c.partner \in Int /\ c.tag \in Int /\ c.comm \in Int /\ c.req \in Int
      /\ c.time \in Int
  <2>1. c.partner \in Given(Peered, k, Partners(k), None)
    BY <1>1 DEF CallsOf
  <2>2. /\ c.tag \in Given(PointToPoint, k, Tags, None)
        /\ c.comm \in Given(Addressed, k, Comms, None)
        /\ c.req \in Given(Requesting, k, Requests, None)
        /\ c.time \in Given(Management, k, Times, None)
    BY <1>1 DEF CallsOf
  <2>3. None \in Int /\ AnySource \in Int
    BY DEF None, AnySource
  <2>4. Partners(k) \subseteq Int
    BY <2>3 DEF Partners
  <2> QED BY <2>1, <2>2, <2>3, <2>4, GivenType
<1>4. /\ c.op_type \in Reductions \cup {Invalid}
      /\ c.required_thread_lvl \in Int /\ c.provided_thread_lvl \in Int
      /\ c.finished \in BOOLEAN
  <2>1. /\ c.op_type \in Given({"Ireduce"}, k, Reductions, Invalid)
        /\ c.required_thread_lvl \in Given({"Initthread"}, k, Levels, None)
        /\ c.provided_thread_lvl \in Given({"Initthread"}, k, Levels, None)
    BY <1>1 DEF CallsOf
  <2>2. None \in Int
    BY DEF None
  <2>3. c.finished \in Given({"Test"}, k, BOOLEAN, FALSE)
    BY <1>1 DEF CallsOf
  <2>4. c.finished \in BOOLEAN
    BY <2>3, Zenon DEF Given
  <2> QED BY <2>1, <2>2, <2>4, GivenType
<1>5. c.entered \in Nat /\ c.left \in Nat /\ c.left - c.entered \in Nat
  BY <1>1 DEF CallsOf
<1>6. /\ c.sent \in (Sizes \cup {NullType, 0}) \X (Counts \cup {0})
      /\ c.received \in (Sizes \cup {NullType, 0}) \X (Counts \cup {0})
  <2>1. /\ c.sent \in Given(Peered \ Receiving, k, (Sizes \cup {NullType}) \X Counts, <<0, 0>>)
        /\ c.received \in Given(Receiving \cup BothWays, k, (Sizes \cup {NullType}) \X Counts, <<0, 0>>)
    BY <1>1 DEF CallsOf
  <2> QED BY <2>1 DEF Given
<1>7. /\ c.sent[1] \in Int /\ c.sent[2] \in Nat
      /\ c.received[1] \in Int /\ c.received[2] \in Nat
      /\ c.sent[1] # NullType => c.sent[1] \in Nat
      /\ c.received[1] # NullType => c.received[1] \in Nat
  BY <1>6 DEF NullType
<1>8. /\ c.sent[1] = NullType => SentIgnored(c.kind, c.partner)
      /\ c.received[1] = NullType => ReceivedIgnored(c.kind, c.partner)
  BY <1>1, <1>2 DEF CallsOf
<1>9. c.source \in Ranks \cup {None}
  <2>1. c.source \in Given(Receiving \cup Answered, k, Ranks \cup {None}, None)
    BY <1>1 DEF CallsOf
  <2> QED BY <2>1 DEF Given
<1> QED BY <1>2, <1>3, <1>4, <1>5, <1>7, <1>8, <1>9

\* What a call that has no such argument has in its place.
LEMMA CallFillers ==
  ASSUME NEW c \in Calls
  PROVE  /\ c.kind \notin Peered => c.partner = None
         /\ c.kind \notin PointToPoint => c.tag = None
         /\ c.kind \notin Addressed => c.comm = None
         /\ c.kind \notin Requesting => c.req = None
         /\ c.kind # "Ireduce" => c.op_type = Invalid
         /\ c.kind # "Initthread" =>
              c.required_thread_lvl = None /\ c.provided_thread_lvl = None
         /\ c.kind # "Test" => c.finished = FALSE
         /\ c.kind \notin Management => c.time = None
<1>1. PICK k \in Kinds : c \in CallsOf(k)
  BY DEF Calls
<1>2. c.kind = k
  BY <1>1 DEF CallsOf
<1>3. /\ c.partner \in Given(Peered, k, Partners(k), None)
      /\ c.tag \in Given(PointToPoint, k, Tags, None)
      /\ c.comm \in Given(Addressed, k, Comms, None)
      /\ c.req \in Given(Requesting, k, Requests, None)
      /\ c.op_type \in Given({"Ireduce"}, k, Reductions, Invalid)
      /\ c.required_thread_lvl \in Given({"Initthread"}, k, Levels, None)
      /\ c.provided_thread_lvl \in Given({"Initthread"}, k, Levels, None)
      /\ c.finished \in Given({"Test"}, k, BOOLEAN, FALSE)
      /\ c.time \in Given(Management, k, Times, None)
  BY <1>1 DEF CallsOf
<1>4. ASSUME NEW kinds, NEW values, NEW filler, NEW x \in Given(kinds, k, values, filler),
             k \notin kinds
      PROVE  x = filler
  BY <1>4 DEF Given
<1> QED BY <1>2, <1>3, <1>4

\* A reduction is recorded as a member of MpiOp or as none.
LEMMA OpTypeType ==
  ASSUME NEW op \in Reductions \cup {Invalid}
  PROVE  /\ OpType(op) \in MpiOp \cup {Invalid}
         /\ op # "user" /\ op # Invalid => OpType(op) \in MpiOp
         /\ OpType(Invalid) = Invalid
BY DEF OpType, MpiOp, Invalid

\* A buffer that has a type is measured; one that has none may give any count.
LEMMA MeasuredType ==
  ASSUME NEW b, b[1] \in Int, b[2] \in Nat, b[1] # NullType => b[1] \in Nat,
         NEW n \in Measured(b)
  PROVE  n \in ByteCounts /\ (b[1] = NullType \/ n = Truncated(Bytes(b)))
<1>1. CASE b[1] = NullType
  BY <1>1 DEF Measured
<1>2. CASE b[1] # NullType
  <2>1. Bytes(b) \in Nat
    BY <1>2 DEF Bytes
  <2> QED BY <1>2, <2>1, TruncatedType DEF Measured
<1> QED BY <1>1, <1>2

-----------------------------------------------------------------------------
(* The wrappers.                                                           *)

\* What is in the MpiCall of every C wrapper, whatever the kind of the call.
LEMMA CommonType ==
  ASSUME NEW c \in Calls, current_rank \in {None, Rank}
  PROVE  /\ Common(c) \in MpiCalls
         /\ Common(c).kind = c.kind
         /\ Common(c).current_rank = current_rank
         /\ Common(c).tsc = c.entered
         /\ Common(c).duration = c.left - c.entered
         /\ Common(c).partner_rank = None /\ Common(c).tag = None /\ Common(c).comm = None
         /\ Common(c).req = None /\ Common(c).time = None
         /\ Common(c).required_thread_lvl = None /\ Common(c).provided_thread_lvl = None
         /\ Common(c).op_type = Invalid
         /\ Common(c).finished = FALSE
<1>1. 0 \in ByteCounts
  BY DEF ByteCounts
<1>2. None \in Int
  BY DEF None
<1>3. PICK b : b = Blank(c.kind)
  OBVIOUS
<1>4. b \in MpiCalls
  BY <1>1, <1>2, <1>3, CallType DEF Blank, MpiCalls
<1>5. PICK d \in Nat : d = c.left - c.entered
  BY CallType
<1>6. PICK m : m = [b EXCEPT !.current_rank = current_rank, !.tsc = c.entered, !.duration = d]
  OBVIOUS
<1>7. m = Common(c)
  BY <1>3, <1>5, <1>6 DEF Common
<1>8. m \in MpiCalls
  BY <1>4, <1>6, CallType DEF MpiCalls
<1>9. /\ m.kind = b.kind /\ m.partner_rank = b.partner_rank /\ m.tag = b.tag
      /\ m.comm = b.comm /\ m.req = b.req /\ m.time = b.time
      /\ m.required_thread_lvl = b.required_thread_lvl
      /\ m.provided_thread_lvl = b.provided_thread_lvl
      /\ m.op_type = b.op_type /\ m.finished = b.finished
      /\ m.current_rank = current_rank /\ m.tsc = c.entered /\ m.duration = d
  BY <1>4, <1>6 DEF MpiCalls
<1>10. /\ b.kind = c.kind /\ b.partner_rank = None /\ b.tag = None
       /\ b.comm = None /\ b.req = None /\ b.time = None
       /\ b.required_thread_lvl = None
       /\ b.provided_thread_lvl = None
       /\ b.op_type = Invalid /\ b.finished = FALSE
  BY <1>3 DEF Blank
<1> QED BY <1>5, <1>7, <1>8, <1>9, <1>10

\* The sections of interpol-c.c.
LEMMA CSections ==
  ASSUME NEW c \in Calls
  PROVE  /\ c.kind \in Management => CRecords(c) = CManagement(c)
         /\ c.kind \in PointToPoint => CRecords(c) = CPointToPoint(c)
         /\ c.kind \in Synchronization => CRecords(c) = CSynchronization(c)
         /\ c.kind \in Collective => CRecords(c) = CCollective(c)
BY DEF CRecords, Management, PointToPoint, Synchronization, Collective

\* Every C wrapper records its call faithfully.
LEMMA CFaithful ==
  ASSUME NEW c \in Calls, current_rank \in {None, Rank},
         Initializes(c) \/ current_rank = Rank,
         NEW m \in CRecords(c)
  PROVE  /\ m \in MpiCalls
         /\ Recorded(m, c) /\ Identified(m, c) /\ Named(m, c) /\ Counted(m, c)
<1>1. PICK b \in MpiCalls : b = Common(c)
  BY CommonType
<1> /\ c.partner \in Int /\ c.tag \in Int /\ c.comm \in Int /\ c.req \in Int /\ c.time \in Int
    /\ c.required_thread_lvl \in Int /\ c.provided_thread_lvl \in Int /\ c.finished \in BOOLEAN
  BY CallType
<1>2. CASE c.kind \in Management
  <2>1. PICK r \in {None, Rank} :
          /\ r = IF c.kind = "Finalize" THEN current_rank ELSE Rank
          /\ m = [b EXCEPT !.current_rank = r, !.time = c.time,
                           !.required_thread_lvl = c.required_thread_lvl,
                           !.provided_thread_lvl = c.provided_thread_lvl]
    BY <1>1, <1>2, CSections DEF CManagement
  <2>2. m \in MpiCalls
    BY <2>1 DEF MpiCalls
  <2>3. /\ m.kind = b.kind /\ m.partner_rank = b.partner_rank /\ m.tag = b.tag
        /\ m.comm = b.comm /\ m.req = b.req /\ m.tsc = b.tsc /\ m.duration = b.duration
        /\ m.op_type = b.op_type /\ m.finished = b.finished
        /\ m.current_rank = r /\ m.time = c.time
        /\ m.required_thread_lvl = c.required_thread_lvl
        /\ m.provided_thread_lvl = c.provided_thread_lvl
    BY <2>1 DEF MpiCalls
  <2>4. r = Rank
    BY <1>2, <2>1 DEF Initializes, Management
  <2>5. Recorded(m, c)
    BY <1>1, <1>2, <2>3, <2>4, CommonType, CallFillers
       DEF Recorded, Management, PointToPoint, Peered, Collective
  <2>6. Identified(m, c)
    BY <1>1, <1>2, <2>3, CommonType, CallFillers
       DEF Identified, Management, Requesting, Starting, Collective
  <2>7. Named(m, c)
    BY <1>1, <1>2, <2>3, CommonType, CallFillers, OpTypeType
       DEF Named, Management, Addressed, Peered, PointToPoint, Collective
  <2>8. Counted(m, c)
    BY <1>2 DEF Counted, Management, Receiving, BothWays
  <2> QED BY <2>2, <2>5, <2>6, <2>7, <2>8
<1>3. CASE c.kind \in PointToPoint
  <2>1. PICK s \in ByteCounts, r \in ByteCounts :
          /\ s = Truncated(Bytes(c.sent)) /\ r = Truncated(Bytes(c.received))
          /\ m = [b EXCEPT !.partner_rank = c.partner, !.tag = c.tag, !.comm = c.comm,
                           !.req = c.req, !.nb_bytes_s = s, !.nb_bytes_r = r]
    <3>1. Bytes(c.sent) \in Nat /\ Bytes(c.received) \in Nat
      BY <1>3, CallType DEF Bytes, SentIgnored, ReceivedIgnored, PointToPoint
    <3> QED BY <1>1, <1>3, <3>1, CSections, TruncatedType DEF CPointToPoint
  <2>2. m \in MpiCalls
    BY <2>1 DEF MpiCalls
  <2>3. /\ m.kind = b.kind /\ m.partner_rank = c.partner /\ m.tag = c.tag
        /\ m.comm = c.comm /\ m.req = c.req /\ m.tsc = b.tsc /\ m.duration = b.duration
        /\ m.op_type = b.op_type /\ m.finished = b.finished
        /\ m.current_rank = b.current_rank /\ m.time = b.time
        /\ m.required_thread_lvl = b.required_thread_lvl
        /\ m.provided_thread_lvl = b.provided_thread_lvl
        /\ m.nb_bytes_s = s /\ m.nb_bytes_r = r
    BY <2>1 DEF MpiCalls
  <2>4. current_rank = Rank
    BY <1>3 DEF Initializes, PointToPoint
  <2>5. Recorded(m, c)
    <3>1. c.time = None /\ c.required_thread_lvl = None /\ c.provided_thread_lvl = None
      BY <1>3, CallFillers DEF Management, PointToPoint
    <3> QED BY <1>1, <2>3, <2>4, <3>1, CommonType DEF Recorded
  <2>6. Identified(m, c)
    BY <1>1, <1>3, <2>3, CommonType, CallFillers
       DEF Identified, PointToPoint
  <2>7. Named(m, c)
    BY <1>1, <1>3, <2>3, CommonType, CallFillers, OpTypeType
       DEF Named, PointToPoint
  <2>8. Counted(m, c)
    BY <1>3, <2>1, <2>3 DEF Counted, PointToPoint, BothWays
  <2> QED BY <2>2, <2>5, <2>6, <2>7, <2>8
<1>4. CASE c.kind \in Synchronization
  <2>1. m = [b EXCEPT !.comm = c.comm, !.req = c.req, !.finished = c.finished]
    BY <1>1, <1>4, CSections DEF CSynchronization
  <2>2. m \in MpiCalls
    BY <2>1 DEF MpiCalls
  <2>3. /\ m.kind = b.kind /\ m.partner_rank = b.partner_rank /\ m.tag = b.tag
        /\ m.comm = c.comm /\ m.req = c.req /\ m.tsc = b.tsc /\ m.duration = b.duration
        /\ m.op_type = b.op_type /\ m.finished = c.finished
        /\ m.current_rank = b.current_rank /\ m.time = b.time
        /\ m.required_thread_lvl = b.required_thread_lvl
        /\ m.provided_thread_lvl = b.provided_thread_lvl
    BY <2>1 DEF MpiCalls
  <2>4. current_rank = Rank
    BY <1>4 DEF Initializes, Synchronization
  <2>5. Recorded(m, c)
    <3>1. c.partner = None /\ c.tag = None /\ c.time = None
          /\ c.required_thread_lvl = None /\ c.provided_thread_lvl = None
      BY <1>4, CallFillers DEF Management, Synchronization, PointToPoint, Peered, Collective
    <3> QED BY <1>1, <2>3, <2>4, <3>1, CommonType DEF Recorded
  <2>6. Identified(m, c)
    BY <2>3 DEF Identified
  <2>7. Named(m, c)
    BY <1>1, <1>4, <2>3, CommonType, CallFillers, OpTypeType
       DEF Named, Synchronization
  <2>8. Counted(m, c)
    BY <1>4 DEF Counted, Synchronization, Receiving, BothWays
  <2> QED BY <2>2, <2>5, <2>6, <2>7, <2>8
<1>5. CASE c.kind \in Collective
  <2>1. PICK s \in ByteCounts, r \in ByteCounts, o \in MpiOp \cup {Invalid} :
          /\ c.kind # "Ireduce" => s \in Measured(c.sent) /\ r \in Measured(c.received)
          /\ o = OpType(c.op_type)
          /\ m = [Common(c) EXCEPT !.partner_rank = c.partner, !.comm = c.comm, !.req = c.req,
                                  !.nb_bytes_s = s, !.nb_bytes_r = r, !.op_type = o]
    <3> m \in CCollective(c)
      BY <1>5, CSections
    <3>0. PICK s \in CollectiveBytesS(c), r \in CollectiveBytesR(c) :
            m = CollectiveRecord(c, s, r)
      BY DEF CCollective
    <3>1. m = [Common(c) EXCEPT !.partner_rank = c.partner, !.comm = c.comm, !.req = c.req,
                               !.nb_bytes_s = s, !.nb_bytes_r = r,
                               !.op_type = OpType(c.op_type)]
      BY <3>0, Zenon DEF CollectiveRecord
    <3>2. OpType(c.op_type) \in MpiOp \cup {Invalid}
      BY CallType, OpTypeType
    <3>3. CASE c.kind = "Ireduce"
      <4>1. Truncated(c.sent[1]) \in ByteCounts /\ Truncated(Bytes(c.sent)) \in ByteCounts
        BY <3>3, CallType, TruncatedType DEF Bytes, SentIgnored
      <4> QED BY <3>1, <3>2, <3>3, <4>1 DEF CollectiveBytesS, CollectiveBytesR
    <3>4. CASE c.kind # "Ireduce"
      <4>1. s \in ByteCounts /\ r \in ByteCounts
        BY <3>1, <3>4, CallType, MeasuredType DEF CollectiveBytesS, CollectiveBytesR
      <4> QED BY <3>1, <3>2, <3>4, <4>1 DEF CollectiveBytesS, CollectiveBytesR
    <3> QED BY <3>3, <3>4
  <2>2. m \in MpiCalls
    BY <2>1, CommonType DEF MpiCalls
  <2>3. /\ m.kind = Common(c).kind /\ m.partner_rank = c.partner /\ m.tag = Common(c).tag
        /\ m.comm = c.comm /\ m.req = c.req /\ m.tsc = Common(c).tsc /\ m.duration = Common(c).duration
        /\ m.op_type = o /\ m.finished = Common(c).finished
        /\ m.current_rank = Common(c).current_rank /\ m.time = Common(c).time
        /\ m.required_thread_lvl = Common(c).required_thread_lvl
        /\ m.provided_thread_lvl = Common(c).provided_thread_lvl
        /\ m.nb_bytes_s = s /\ m.nb_bytes_r = r
    BY <2>1, CommonType DEF MpiCalls
  <2>4. current_rank = Rank
    BY <1>5 DEF Initializes, Collective
  <2>5. Recorded(m, c)
    <3>1. c.tag = None /\ c.time = None
          /\ c.required_thread_lvl = None /\ c.provided_thread_lvl = None
      BY <1>5, CallFillers DEF Management, PointToPoint, Collective
    <3> QED BY <2>3, <2>4, <3>1, CommonType DEF Recorded
  <2>6. Identified(m, c)
    BY <1>5, <2>3, CommonType, CallFillers DEF Identified, Collective
  <2>7. Named(m, c)
    BY <2>1, <2>3 DEF Named
  <2>8. Counted(m, c)
    <3>1. CASE c.kind = "Ireduce"
      BY <3>1 DEF Counted, Receiving, BothWays
    <3>2. CASE c.kind # "Ireduce"
      BY <1>5, <2>1, <2>3, <3>2, CallType, MeasuredType
         DEF Counted, Collective, Receiving, BothWays, SentIgnored
    <3> QED BY <3>1, <3>2
  <2> QED BY <2>2, <2>5, <2>6, <2>7, <2>8
<1> QED BY <1>2, <1>3, <1>4, <1>5, CallType DEF Kinds

\* The sections of interpol-f.c.
LEMMA FortranSections ==
  ASSUME NEW c \in Calls
  PROVE  /\ c.kind \in Management => FortranRecords(c) = FortranManagement(c)
         /\ c.kind \in PointToPoint => FortranRecords(c) = FortranPointToPoint(c)
         /\ c.kind \in Synchronization => FortranRecords(c) = FortranSynchronization(c)
         /\ c.kind \in Collective => FortranRecords(c) = FortranCollective(c)
BY DEF FortranRecords, Management, PointToPoint, Synchronization, Collective

\* A Fortran wrapper's MpiCall m is a C wrapper's b but for some of its members.
Alike(m, b) ==
  /\ m.kind = b.kind /\ m.partner_rank = b.partner_rank /\ m.tag = b.tag
  /\ m.tsc = b.tsc /\ m.duration = b.duration
  /\ m.current_rank = b.current_rank /\ m.time = b.time
  /\ m.required_thread_lvl = b.required_thread_lvl
  /\ m.provided_thread_lvl = b.provided_thread_lvl
  /\ m.nb_bytes_s = b.nb_bytes_s /\ m.nb_bytes_r = b.nb_bytes_r

\* A communicator that was taken from an address disturbs nothing else.
LEMMA MisnamedAlike ==
  ASSUME NEW records \in SUBSET MpiCalls, NEW m \in Misnamed(records)
  PROVE  /\ m \in MpiCalls
         /\ \E b \in records : Alike(m, b) /\ m.req = b.req /\ m.finished = b.finished
<1>1. PICK b \in records, any \in AnyComm : m = [b EXCEPT !.comm = any]
  BY DEF Misnamed
<1>2. any \in Int
  BY DEF AnyComm, None
<1> QED BY <1>1, <1>2 DEF MpiCalls, Alike

\* Every Fortran wrapper records what the C wrapper does but for the
\* communicator, the reduction, and MPI_Test's request and flag.
LEMMA FortranFaithful ==
  ASSUME NEW c \in Calls, current_rank \in {None, Rank},
         Initializes(c) \/ current_rank = Rank,
         NEW m \in FortranRecords(c)
  PROVE  /\ m \in MpiCalls
         /\ Recorded(m, c) /\ Counted(m, c)
         /\ c.kind # "Test" => Identified(m, c)
<1>1. ASSUME NEW b \in CRecords(c)
      PROVE  b \in MpiCalls /\ Recorded(b, c) /\ Identified(b, c) /\ Counted(b, c)
  BY CFaithful
<1>2. ASSUME NEW b \in CRecords(c), m \in MpiCalls, Alike(m, b),
             c.kind # "Test" => m.req = b.req /\ m.finished = b.finished
      PROVE  /\ Recorded(m, c) /\ Counted(m, c)
             /\ c.kind # "Test" => Identified(m, c)
  BY <1>1, <1>2 DEF Alike, Recorded, Identified, Counted
<1>3. CASE c.kind \in Management
  <2>1. m \in CRecords(c)
    BY <1>3, CSections, FortranSections DEF FortranManagement
  <2> QED BY <1>1, <2>1
<1>4. CASE c.kind \in PointToPoint
  <2>1. m \in Misnamed(CRecords(c))
    BY <1>4, CSections, FortranSections DEF FortranPointToPoint
  <2> QED BY <1>1, <1>2, <2>1, MisnamedAlike
<1>5. CASE c.kind \in Synchronization
  <2> CRecords(c) = CSynchronization(c) /\ m \in FortranSynchronization(c)
    BY <1>5, CSections, FortranSections
  <2>1. CASE c.kind = "Test"
    <3>1. m \in FortranTest(c)
      BY <2>1 DEF FortranSynchronization
    <3>2. PICK b \in CRecords(c) : m = [b EXCEPT !.req = RequestLeft(c), !.finished = TRUE]
      BY <3>1 DEF FortranTest
    <3>3. RequestLeft(c) \in Int
      BY CallType DEF RequestLeft, None
    <3>4. m \in MpiCalls /\ Alike(m, b)
      BY <1>1, <3>2, <3>3 DEF MpiCalls, Alike
    <3> QED BY <1>2, <2>1, <3>4
  <2>2. CASE c.kind = "Wait"
    <3>1. m \in CRecords(c)
      BY <2>2 DEF FortranSynchronization
    <3> QED BY <1>1, <3>1
  <2>3. CASE c.kind \notin {"Test", "Wait"}
    <3>1. m \in Misnamed(CRecords(c))
      BY <2>3 DEF FortranSynchronization
    <3> QED BY <1>1, <1>2, <3>1, MisnamedAlike
  <2> QED BY <2>1, <2>2, <2>3
<1>6. CASE c.kind \in Collective
  <2> DEFINE records == {[b EXCEPT !.op_type = Invalid] : b \in CRecords(c)}
  <2>1. m \in Misnamed(records)
    BY <1>6, CSections, FortranSections DEF FortranCollective
  <2>2. ASSUME NEW d \in records
        PROVE  /\ d \in MpiCalls
               /\ \E b \in CRecords(c) : Alike(d, b) /\ d.req = b.req /\ d.finished = b.finished
    <3>1. PICK b \in CRecords(c) : d = [b EXCEPT !.op_type = Invalid]
      OBVIOUS
    <3> QED BY <1>1, <3>1 DEF MpiCalls, Alike
  <2>3. PICK d \in records : Alike(m, d) /\ m.req = d.req /\ m.finished = d.finished
    BY <2>1, <2>2, MisnamedAlike
  <2>4. m \in MpiCalls
    BY <2>1, <2>2, MisnamedAlike
  <2>5. PICK b \in CRecords(c) : Alike(d, b) /\ d.req = b.req /\ d.finished = b.finished
    BY <2>2, <2>3
  <2> QED BY <1>2, <2>3, <2>4, <2>5 DEF Alike
<1> QED BY <1>3, <1>4, <1>5, <1>6, CallType DEF Kinds
-----------------------------------------------------------------------------
(* From the MpiCall to the event.                                          *)

\* The fields of the event of each kind of call.
FieldsOf(k) ==
  CASE k = "Initthread" -> MpiInitThread
    [] k = "Init"     -> MpiInit     [] k = "Finalize" -> MpiFinalize
    [] k = "Send"     -> MpiSend     [] k = "Recv"     -> MpiRecv
    [] k = "Isend"    -> MpiIsend    [] k = "Irecv"    -> MpiIrecv
    [] k = "Barrier"  -> MpiBarrier  [] k = "Ibarrier" -> MpiIbarrier
    [] k = "Test"     -> MpiTest     [] k = "Wait"     -> MpiWait
    [] k = "Ibcast"   -> MpiIbcast   [] k = "Ireduce"  -> MpiIreduce
    [] k = "Igather"  -> MpiIgather  [] k = "Iscatter" -> MpiIscatter

\* The members of the MpiCall whose value an event's field f has.
Handed(f, k) ==
  CASE f = "nb_bytes" -> IF k \in Receiving THEN "nb_bytes_r" ELSE "nb_bytes_s"
    [] f = "nb_bytes_send" -> "nb_bytes_s"
    [] f = "nb_bytes_recv" -> "nb_bytes_r"
    [] OTHER -> f

\* No builder fails, and no two arguments of a register function are swapped.
LEMMA Dispatched ==
  ASSUME NEW m, m.kind \in Kinds
  PROVE  /\ dispatch(m).type = TypeOf(m.kind)
         /\ DOMAIN dispatch(m).of = FieldsOf(m.kind)
         /\ \A f \in FieldsOf(m.kind) : dispatch(m).of[f] = m[Handed(f, m.kind)]
<1>1. CASE m.kind = "Init"
  <2>1. dispatch(m).type = "MpiInit" /\ DOMAIN dispatch(m).of = MpiInit
    BY <1>1 DEF dispatch, register_init, Build, MpiInit
  <2>2. \A f \in MpiInit : dispatch(m).of[f] = m[Handed(f, "Init")]
    BY <1>1 DEF dispatch, register_init, Build, MpiInit, Handed, Receiving
  <2>3. TypeOf(m.kind) = "MpiInit" /\ FieldsOf(m.kind) = MpiInit
    BY <1>1 DEF TypeOf, FieldsOf
  <2> QED BY <1>1, <2>1, <2>2, <2>3
<1>2. CASE m.kind = "Initthread"
  <2>1. dispatch(m).type = "MpiInitThread" /\ DOMAIN dispatch(m).of = MpiInitThread
    BY <1>2 DEF dispatch, register_init_thread, Build, MpiInitThread
  <2>2. \A f \in MpiInitThread : dispatch(m).of[f] = m[Handed(f, "Initthread")]
    BY <1>2 DEF dispatch, register_init_thread, Build, MpiInitThread, Handed, Receiving
  <2>3. TypeOf(m.kind) = "MpiInitThread" /\ FieldsOf(m.kind) = MpiInitThread
    BY <1>2 DEF TypeOf, FieldsOf
  <2> QED BY <1>2, <2>1, <2>2, <2>3
<1>3. CASE m.kind = "Finalize"
  <2>1. dispatch(m).type = "MpiFinalize" /\ DOMAIN dispatch(m).of = MpiFinalize
    BY <1>3 DEF dispatch, register_finalize, Build, MpiFinalize
  <2>2. \A f \in MpiFinalize : dispatch(m).of[f] = m[Handed(f, "Finalize")]
    BY <1>3 DEF dispatch, register_finalize, Build, MpiFinalize, Handed, Receiving
  <2>3. TypeOf(m.kind) = "MpiFinalize" /\ FieldsOf(m.kind) = MpiFinalize
    BY <1>3 DEF TypeOf, FieldsOf
  <2> QED BY <1>3, <2>1, <2>2, <2>3
<1>4. CASE m.kind = "Send"
  <2>1. dispatch(m).type = "MpiSend" /\ DOMAIN dispatch(m).of = MpiSend
    BY <1>4 DEF dispatch, register_send, Build, MpiSend
  <2>2. \A f \in MpiSend : dispatch(m).of[f] = m[Handed(f, "Send")]
    BY <1>4 DEF dispatch, register_send, Build, MpiSend, Handed, Receiving
  <2>3. TypeOf(m.kind) = "MpiSend" /\ FieldsOf(m.kind) = MpiSend
    BY <1>4 DEF TypeOf, FieldsOf
  <2> QED BY <1>4, <2>1, <2>2, <2>3
<1>5. CASE m.kind = "Isend"
  <2>1. dispatch(m).type = "MpiIsend" /\ DOMAIN dispatch(m).of = MpiIsend
    BY <1>5 DEF dispatch, register_isend, Build, MpiIsend
  <2>2. \A f \in MpiIsend : dispatch(m).of[f] = m[Handed(f, "Isend")]
    BY <1>5 DEF dispatch, register_isend, Build, MpiIsend, Handed, Receiving
  <2>3. TypeOf(m.kind) = "MpiIsend" /\ FieldsOf(m.kind) = MpiIsend
    BY <1>5 DEF TypeOf, FieldsOf
  <2> QED BY <1>5, <2>1, <2>2, <2>3
<1>6. CASE m.kind = "Recv"
  <2>1. dispatch(m).type = "MpiRecv" /\ DOMAIN dispatch(m).of = MpiRecv
    BY <1>6 DEF dispatch, register_recv, Build, MpiRecv
  <2>2. \A f \in MpiRecv : dispatch(m).of[f] = m[Handed(f, "Recv")]
    BY <1>6 DEF dispatch, register_recv, Build, MpiRecv, Handed, Receiving
  <2>3. TypeOf(m.kind) = "MpiRecv" /\ FieldsOf(m.kind) = MpiRecv
    BY <1>6 DEF TypeOf, FieldsOf
  <2> QED BY <1>6, <2>1, <2>2, <2>3
<1>7. CASE m.kind = "Irecv"
  <2>1. dispatch(m).type = "MpiIrecv" /\ DOMAIN dispatch(m).of = MpiIrecv
    BY <1>7 DEF dispatch, register_irecv, Build, MpiIrecv
  <2>2. \A f \in MpiIrecv : dispatch(m).of[f] = m[Handed(f, "Irecv")]
    BY <1>7 DEF dispatch, register_irecv, Build, MpiIrecv, Handed, Receiving
  <2>3. TypeOf(m.kind) = "MpiIrecv" /\ FieldsOf(m.kind) = MpiIrecv
    BY <1>7 DEF TypeOf, FieldsOf
  <2> QED BY <1>7, <2>1, <2>2, <2>3
<1>8. CASE m.kind = "Barrier"
  <2>1. dispatch(m).type = "MpiBarrier" /\ DOMAIN dispatch(m).of = MpiBarrier
    BY <1>8 DEF dispatch, register_barrier, Build, MpiBarrier
  <2>2. \A f \in MpiBarrier : dispatch(m).of[f] = m[Handed(f, "Barrier")]
    BY <1>8 DEF dispatch, register_barrier, Build, MpiBarrier, Handed, Receiving
  <2>3. TypeOf(m.kind) = "MpiBarrier" /\ FieldsOf(m.kind) = MpiBarrier
    BY <1>8 DEF TypeOf, FieldsOf
  <2> QED BY <1>8, <2>1, <2>2, <2>3
<1>9. CASE m.kind = "Ibarrier"
  <2>1. dispatch(m).type = "MpiIbarrier" /\ DOMAIN dispatch(m).of = MpiIbarrier
    BY <1>9 DEF dispatch, register_ibarrier, Build, MpiIbarrier
  <2>2. \A f \in MpiIbarrier : dispatch(m).of[f] = m[Handed(f, "Ibarrier")]
    BY <1>9 DEF dispatch, register_ibarrier, Build, MpiIbarrier, Handed, Receiving
  <2>3. TypeOf(m.kind) = "MpiIbarrier" /\ FieldsOf(m.kind) = MpiIbarrier
    BY <1>9 DEF TypeOf, FieldsOf
  <2> QED BY <1>9, <2>1, <2>2, <2>3
<1>10. CASE m.kind = "Test"
  <2>1. dispatch(m).type = "MpiTest" /\ DOMAIN dispatch(m).of = MpiTest
    BY <1>10 DEF dispatch, register_test, Build, MpiTest
  <2>2. \A f \in MpiTest : dispatch(m).of[f] = m[Handed(f, "Test")]
    BY <1>10 DEF dispatch, register_test, Build, MpiTest, Handed, Receiving
  <2>3. TypeOf(m.kind) = "MpiTest" /\ FieldsOf(m.kind) = MpiTest
    BY <1>10 DEF TypeOf, FieldsOf
  <2> QED BY <1>10, <2>1, <2>2, <2>3
<1>11. CASE m.kind = "Wait"
  <2>1. dispatch(m).type = "MpiWait" /\ DOMAIN dispatch(m).of = MpiWait
    BY <1>11 DEF dispatch, register_wait, Build, MpiWait
  <2>2. \A f \in MpiWait : dispatch(m).of[f] = m[Handed(f, "Wait")]
    BY <1>11 DEF dispatch, register_wait, Build, MpiWait, Handed, Receiving
  <2>3. TypeOf(m.kind) = "MpiWait" /\ FieldsOf(m.kind) = MpiWait
    BY <1>11 DEF TypeOf, FieldsOf
  <2> QED BY <1>11, <2>1, <2>2, <2>3
<1>12. CASE m.kind = "Ibcast"
  <2>1. dispatch(m).type = "MpiIbcast" /\ DOMAIN dispatch(m).of = MpiIbcast
    BY <1>12 DEF dispatch, register_ibcast, Build, MpiIbcast
  <2>2. \A f \in MpiIbcast : dispatch(m).of[f] = m[Handed(f, "Ibcast")]
    BY <1>12 DEF dispatch, register_ibcast, Build, MpiIbcast, Handed, Receiving
  <2>3. TypeOf(m.kind) = "MpiIbcast" /\ FieldsOf(m.kind) = MpiIbcast
    BY <1>12 DEF TypeOf, FieldsOf
  <2> QED BY <1>12, <2>1, <2>2, <2>3
<1>13. CASE m.kind = "Igather"
  <2>1. dispatch(m).type = "MpiIgather" /\ DOMAIN dispatch(m).of = MpiIgather
    BY <1>13 DEF dispatch, register_igather, Build, MpiIgather
  <2>2. \A f \in MpiIgather : dispatch(m).of[f] = m[Handed(f, "Igather")]
    BY <1>13 DEF dispatch, register_igather, Build, MpiIgather, Handed, Receiving
  <2>3. TypeOf(m.kind) = "MpiIgather" /\ FieldsOf(m.kind) = MpiIgather
    BY <1>13 DEF TypeOf, FieldsOf
  <2> QED BY <1>13, <2>1, <2>2, <2>3
<1>14. CASE m.kind = "Ireduce"
  <2>1. dispatch(m).type = "MpiIreduce" /\ DOMAIN dispatch(m).of = MpiIreduce
    BY <1>14 DEF dispatch, register_ireduce, Build, MpiIreduce
  <2>2. \A f \in MpiIreduce : dispatch(m).of[f] = m[Handed(f, "Ireduce")]
    BY <1>14 DEF dispatch, register_ireduce, Build, MpiIreduce, Handed, Receiving
  <2>3. TypeOf(m.kind) = "MpiIreduce" /\ FieldsOf(m.kind) = MpiIreduce
    BY <1>14 DEF TypeOf, FieldsOf
  <2> QED BY <1>14, <2>1, <2>2, <2>3
<1>15. CASE m.kind = "Iscatter"
  <2>1. dispatch(m).type = "MpiIscatter" /\ DOMAIN dispatch(m).of = MpiIscatter
    BY <1>15 DEF dispatch, register_iscatter, Build, MpiIscatter
  <2>2. \A f \in MpiIscatter : dispatch(m).of[f] = m[Handed(f, "Iscatter")]
    BY <1>15 DEF dispatch, register_iscatter, Build, MpiIscatter, Handed, Receiving
  <2>3. TypeOf(m.kind) = "MpiIscatter" /\ FieldsOf(m.kind) = MpiIscatter
    BY <1>15 DEF TypeOf, FieldsOf
  <2> QED BY <1>15, <2>1, <2>2, <2>3
<1> QED BY <1>1, <1>2, <1>3, <1>4, <1>5, <1>6, <1>7, <1>8, <1>9, <1>10, <1>11, <1>12, <1>13, <1>14, <1>15
        DEF Kinds, Management, PointToPoint, Synchronization, Collective

\* The members of the MpiCall which carry what an event should mean.
Members ==
  {"current_rank", "partner_rank", "comm", "req", "tag", "required_thread_lvl",
   "provided_thread_lvl", "finished", "op_type", "tsc", "duration", "time"}

LEMMA MeantValues ==
  ASSUME NEW c
  PROVE  /\ DOMAIN Meant(c) = Members
         /\ \A f \in {"partner_rank", "comm", "req", "tag", "required_thread_lvl",
                      "provided_thread_lvl", "finished", "time"} : 
              Meant(c)[f] = c[IF f = "partner_rank" THEN "partner" ELSE f]
         /\ Meant(c)["current_rank"] = Rank
         /\ Meant(c)["op_type"] = OpType(c.op_type)
         /\ Meant(c)["tsc"] = c.entered
         /\ Meant(c)["duration"] = c.left - c.entered
BY DEF Meant, Members

\* What an event of kind k lacks, a call of kind k lacks.
LEMMA NothingLost ==
  ASSUME NEW c \in Calls, NEW f \in Members \ FieldsOf(c.kind), f # "op_type"
  PROVE  Meant(c)[f] = Blank(c.kind)[f]
<1>1. c.kind \in Kinds
  BY CallType
<1>2. /\ f \notin {"current_rank", "tsc", "op_type"}
      /\ f = "time" => c.kind \notin Management
      /\ f = "duration" => c.kind \in Management
      /\ f = "partner_rank" => c.kind \notin Peered
      /\ f = "tag" => c.kind \notin PointToPoint
      /\ f = "comm" => c.kind \notin Addressed
      /\ f = "req" => c.kind \notin Requesting
      /\ f = "finished" => c.kind # "Test"
      /\ f \in {"required_thread_lvl", "provided_thread_lvl"} => c.kind # "Initthread"
  BY <1>1 DEF FieldsOf, Kinds, Management, PointToPoint, Synchronization, Collective,
              Peered, Addressed, Requesting, Starting,
              MpiInit, MpiFinalize, MpiInitThread, MpiSend, MpiRecv, MpiIsend, MpiIrecv,
              MpiBarrier, MpiIbarrier, MpiTest, MpiWait, MpiIbcast, MpiIreduce,
              MpiIgather, MpiIscatter
<1>3. CASE f = "duration"
  <2>1. PICK k \in Kinds : c \in CallsOf(k)
    BY DEF Calls
  <2>2. c.kind = k
    BY <2>1 DEF CallsOf
  <2>3. c.entered \in Nat /\ c.left = c.entered
    BY <1>2, <1>3, <2>1, <2>2 DEF CallsOf
  <2> QED BY <1>3, <2>3, MeantValues DEF Blank
<1>4. CASE f # "duration"
  <2>1. f \in {"partner_rank", "comm", "req", "tag", "required_thread_lvl",
               "provided_thread_lvl", "finished", "time"}
    BY <1>2, <1>4, Zenon DEF Members
  <2>2. Meant(c)[f] = c[IF f = "partner_rank" THEN "partner" ELSE f]
    BY <2>1, MeantValues
  <2>3. CASE f = "finished"
    <3>1. Meant(c)[f] = c.finished
      BY <2>2, <2>3
    <3>2. c.finished = FALSE
      BY <1>2, <2>3, CallFillers
    <3>3. Blank(c.kind)[f] = FALSE
      BY <2>3 DEF Blank
    <3> QED BY <3>1, <3>2, <3>3
  <2>4. CASE f = "partner_rank"
    BY <1>2, <2>2, <2>4, CallFillers DEF Blank
  <2>5. CASE f \notin {"finished", "partner_rank"}
    <3>1. Meant(c)[f] = c[f]
      BY <2>2, <2>5
    <3>2. c[f] = None
      BY <1>2, <2>1, <2>5, CallFillers
    <3>3. Blank(c.kind)[f] = None
      BY <2>1, <2>5 DEF Blank
    <3> QED BY <3>1, <3>2, <3>3
  <2> QED BY <2>3, <2>4, <2>5
<1> QED BY <1>3, <1>4

-----------------------------------------------------------------------------
(* The invariant.                                                          *)

LEMMA Initially == Init => IInv
<1> SUFFICES ASSUME Init PROVE IInv
  OBVIOUS
<1>1. mpi_call \in MpiCalls
  <2>1. 0 \in ByteCounts /\ None \in Int /\ "Init" \in Kinds
    BY DEF ByteCounts, None, Kinds, Management
  <2> QED BY <2>1 DEF Init, Blank, MpiCalls
<1>2. TypeOK
  BY <1>1 DEF Init, TypeOK, NoEvent, DeriveBuilder
<1> QED BY <1>2 DEF Init, IInv, EventMeansCall, BytesKept, Registered

\* Away from "registered", an event is not looked at.
LEMMA NotRegistered ==
  ASSUME pc' # "registered"
  PROVE  EventMeansCall' /\ BytesKept'
BY DEF EventMeansCall, BytesKept, Registered

LEMMA CallStep ==
  ASSUME IInv, NEW c \in Calls, Call(c)
  PROVE  IInv'
<1>1. TypeOK'
  BY DEF IInv, TypeOK, Call
<1> QED BY <1>1, NotRegistered DEF IInv, Call, Initializes, Registered

LEMMA RecordStep ==
  ASSUME IInv, Record
  PROVE  IInv'
<1>1. /\ call \in Calls /\ call' = call /\ current_rank \in {None, Rank}
      /\ language \in {"c", "fortran"} /\ language' = language
      /\ Initializes(call) \/ current_rank = Rank
  BY DEF IInv, TypeOK, Record
<1>2. current_rank' = Rank
  BY <1>1 DEF Record
<1>3. /\ mpi_call' \in MpiCalls
      /\ Recorded(mpi_call', call) /\ Counted(mpi_call', call)
      /\ language = "c" \/ call.kind # "Test" => Identified(mpi_call', call)
      /\ language = "c" => Named(mpi_call', call)
  <2>1. CASE language = "c"
    <3>1. mpi_call' \in CRecords(call)
      BY <2>1 DEF Record
    <3> QED BY <1>1, <2>1, <3>1, CFaithful
  <2>2. CASE language = "fortran"
    <3>1. mpi_call' \in FortranRecords(call)
      BY <2>2 DEF Record
    <3> QED BY <1>1, <2>2, <3>1, FortranFaithful
  <2> QED BY <1>1, <2>1, <2>2
<1>4. Faithful(mpi_call, call)'
  BY <1>1, <1>3 DEF Faithful, Recorded, Identified, Named, Counted
<1>5. TypeOK'
  <2>1. status' \in Ranks \cup {None}
    BY <1>1, CallType DEF Record, StatusOf
  <2> QED BY <1>1, <1>2, <1>3, <2>1 DEF IInv, TypeOK, Record
<1> QED BY <1>2, <1>4, <1>5, NotRegistered DEF IInv, Record

LEMMA AbortStep ==
  ASSUME IInv, TypeSizeAborts
  PROVE  IInv'
BY NotRegistered DEF IInv, TypeOK, TypeSizeAborts, Faithful, Recorded, Identified, Named, Counted

LEMMA ReturnStep ==
  ASSUME IInv, Return
  PROVE  IInv'
<1>1. mpi_call' \in MpiCalls
  <2>1. 0 \in ByteCounts /\ None \in Int /\ "Init" \in Kinds
    BY DEF ByteCounts, None, Kinds, Management
  <2> QED BY <2>1 DEF Return, Blank, MpiCalls
<1>2. TypeOK'
  BY <1>1 DEF IInv, TypeOK, Return, NoEvent, DeriveBuilder
<1> QED BY <1>2, NotRegistered DEF IInv, Return

\* A reduction that MPI has is given to dispatch as what it is.
LEMMA ReductionKnown ==
  ASSUME NEW c \in Calls, c.kind = "Ireduce", c.op_type # "user"
  PROVE  OpType(c.op_type) # Invalid
<1>1. PICK k \in Kinds : c \in CallsOf(k)
  BY DEF Calls
<1>2. c.op_type \in Reductions
  BY <1>1 DEF CallsOf, Given
<1>3. c.op_type # Invalid
  BY <1>2 DEF MpiOp, Invalid
<1>4. OpType(c.op_type) \in MpiOp
  BY <1>2, <1>3, OpTypeType
<1> QED BY <1>4 DEF MpiOp, Invalid

\* dispatch makes of a faithful MpiCall an event that means the call, though an
\* op_type that MpiOp does not have may be read as any (d).
LEMMA DispatchStep ==
  ASSUME IInv, Dispatch
  PROVE  IInv'
<1>1. PICK op : /\ op \in IF mpi_call.kind = "Ireduce" /\ mpi_call.op_type = Invalid
                          THEN MpiOp \cup {Invalid} ELSE {mpi_call.op_type}
                /\ event' = dispatch([mpi_call EXCEPT !.op_type = op])
  BY DEF Dispatch
<1>2. /\ call \in Calls /\ mpi_call \in MpiCalls /\ Faithful(mpi_call, call)
      /\ call' = call /\ mpi_call' = mpi_call /\ language' = language
      /\ language \in {"c", "fortran"} /\ current_rank' = Rank
  BY DEF IInv, TypeOK, Dispatch
<1>3. PICK d : d = [mpi_call EXCEPT !.op_type = op]
  OBVIOUS
<1>4. /\ d.kind = call.kind /\ d.kind \in Kinds
      /\ DOMAIN mpi_call = Members \cup {"kind", "nb_bytes_s", "nb_bytes_r"}
      /\ \A f \in DOMAIN mpi_call : f # "op_type" => d[f] = mpi_call[f]
      /\ d.op_type = op
  <2>1. /\ mpi_call.kind = call.kind /\ call.kind \in Kinds
    BY <1>2, CallType DEF Faithful, Recorded
  <2>2. DOMAIN mpi_call = Members \cup {"kind", "nb_bytes_s", "nb_bytes_r"}
    BY <1>2 DEF MpiCalls, Members
  <2>3. d = [f \in DOMAIN mpi_call |-> IF f = "op_type" THEN op ELSE mpi_call[f]]
    BY <1>3
  <2>4. "op_type" \in DOMAIN mpi_call /\ "kind" \in DOMAIN mpi_call
    BY <2>2 DEF Members
  <2> QED BY <2>1, <2>2, <2>3, <2>4
<1>5. /\ event'.type = TypeOf(call.kind)
      /\ DOMAIN event'.of = FieldsOf(call.kind)
      /\ \A f \in FieldsOf(call.kind) : event'.of[f] = d[Handed(f, call.kind)]
  BY <1>1, <1>3, <1>4, Dispatched
<1>6. TypeOK'
  <2>1. TypeOf(call.kind) \in EventTypes
    BY <1>4 DEF TypeOf, EventTypes, Kinds, Management, PointToPoint, Synchronization, Collective
  <2> QED BY <1>2, <1>5, <2>1 DEF IInv, TypeOK, Dispatch
<1>7. EventMeansCall'
  <2>1. ASSUME NEW f \in FieldsOf(call.kind), Carried(f)
        PROVE  event'.of[f] = Meant(call)[f]
    <3>1. f \in Members /\ Handed(f, call.kind) = f
      BY <2>1, MeantValues DEF Carried, Members, Handed
    <3>2. event'.of[f] = d[f]
      BY <1>5, <3>1
    <3>3. CASE f = "op_type"
      <4>1. call.kind = "Ireduce"
        BY <1>4, <3>3 DEF FieldsOf, Kinds, Management, PointToPoint, Synchronization, Collective,
              MpiInit, MpiFinalize, MpiInitThread, MpiSend, MpiRecv, MpiIsend, MpiIrecv,
              MpiBarrier, MpiIbarrier, MpiTest, MpiWait, MpiIbcast, MpiIreduce,
              MpiIgather, MpiIscatter
      <4>2. call.op_type # "user" /\ language = "c"
        BY <1>2, <2>1, <3>3 DEF Carried
      <4>3. mpi_call.op_type = OpType(call.op_type)
        BY <1>2, <4>2 DEF Faithful, Named
      <4>4. op = OpType(call.op_type)
        BY <1>1, <1>2, <4>1, <4>2, <4>3, ReductionKnown
      <4> QED BY <1>4, <3>2, <3>3, <4>4, MeantValues
    <3>4. CASE f # "op_type"
      <4>1. event'.of[f] = mpi_call[f]
        BY <1>4, <3>1, <3>2, <3>4
      <4>2. CASE f \in {"req", "finished"}
        <5>1. Identified(mpi_call, call)
          BY <1>2, <2>1, <4>2 DEF Faithful, Carried
        <5> QED BY <4>1, <4>2, <5>1, MeantValues DEF Identified
      <4>3. CASE f = "comm"
        <5>1. Named(mpi_call, call)
          BY <1>2, <2>1, <4>3 DEF Faithful, Carried
        <5> QED BY <4>1, <4>3, <5>1, MeantValues DEF Named
      <4>4. CASE f \notin {"req", "finished", "comm"}
        <5>1. Recorded(mpi_call, call)
          BY <1>2 DEF Faithful
        <5> QED BY <3>1, <3>4, <4>1, <4>4, <5>1, MeantValues DEF Recorded, Members
      <4> QED BY <4>2, <4>3, <4>4
    <3> QED BY <3>3, <3>4
  <2>2. ASSUME NEW f \in Members \ FieldsOf(call.kind), f # "op_type"
        PROVE  Meant(call)[f] = Blank(call.kind)[f]
    BY <1>2, <2>2, NothingLost
  <2>3. ASSUME NEW f \in FieldsOf(call.kind), Carried(f)'
        PROVE  event'.of[f] = Meant(call)[f]
    BY <1>2, <2>1, <2>3 DEF Carried
  <2>4. Meant(call)' = Meant(call) /\ Blank(call.kind)' = Blank(call.kind)
    BY <1>2
  <2>5. DOMAIN Meant(call) = Members
    BY MeantValues
  <2> QED BY <1>2, <1>5, <2>2, <2>3, <2>4, <2>5 DEF EventMeansCall
<1>8. BytesKept'
  <2>1. Counted(mpi_call, call)
    BY <1>2 DEF Faithful
  <2>2. /\ d.nb_bytes_s = mpi_call.nb_bytes_s
        /\ d.nb_bytes_r = mpi_call.nb_bytes_r
    BY <1>4
  <2>3. ASSUME NEW f, NEW b, f \in DOMAIN event'.of, event'.of[f] = Truncated(Bytes(b)),
               b[1] \in Nat, b[2] \in Nat
        PROVE  Kept(f, b)'
    <3>1. Bytes(b) \in Nat
      BY <2>3 DEF Bytes
    <3> QED BY <2>3, <3>1, TruncatedType DEF Kept, Truncated
  <2>4. /\ ~SentIgnored(call.kind, call.partner) => call.sent[1] \in Nat
        /\ ~ReceivedIgnored(call.kind, call.partner) => call.received[1] \in Nat
        /\ call.sent[2] \in Nat /\ call.received[2] \in Nat
    BY <1>2, CallType
  <2>5. ASSUME call.kind \in {"Send", "Isend", "Ibcast"}
        PROVE  Kept("nb_bytes", call.sent)'
    <3>1. ~SentIgnored(call.kind, call.partner)
      BY <2>5 DEF SentIgnored
    <3>2. "nb_bytes" \in FieldsOf(call.kind)
      BY <2>5 DEF FieldsOf, MpiSend, MpiIsend, MpiIbcast
    <3>3. Handed("nb_bytes", call.kind) = "nb_bytes_s"
      BY <2>5 DEF Handed, Receiving
    <3> QED BY <1>2, <1>5, <2>1, <2>2, <2>3, <2>4, <2>5, <3>1, <3>2, <3>3 DEF Counted
  <2>6. ASSUME call.kind \in Receiving
        PROVE  Kept("nb_bytes", call.received)'
    <3>1. ~ReceivedIgnored(call.kind, call.partner)
      BY <2>6 DEF ReceivedIgnored, Receiving
    <3>2. "nb_bytes" \in FieldsOf(call.kind)
      BY <2>6 DEF FieldsOf, Receiving, MpiRecv, MpiIrecv
    <3>3. Handed("nb_bytes", call.kind) = "nb_bytes_r"
      BY <2>6 DEF Handed
    <3> QED BY <1>2, <1>5, <2>1, <2>2, <2>3, <2>4, <2>6, <3>1, <3>2, <3>3 DEF Counted
  <2>7. ASSUME call.kind \in BothWays
        PROVE  /\ SentIgnored(call.kind, call.partner) \/ Kept("nb_bytes_send", call.sent)'
               /\ ReceivedIgnored(call.kind, call.partner)
                    \/ Kept("nb_bytes_recv", call.received)'
    <3>1. {"nb_bytes_send", "nb_bytes_recv"} \subseteq FieldsOf(call.kind)
      BY <2>7 DEF FieldsOf, BothWays, MpiIgather, MpiIscatter
    <3>2. /\ Handed("nb_bytes_send", call.kind) = "nb_bytes_s"
          /\ Handed("nb_bytes_recv", call.kind) = "nb_bytes_r"
      BY DEF Handed
    <3>3. SentIgnored(call.kind, call.partner) \/ Kept("nb_bytes_send", call.sent)'
      BY <1>2, <1>5, <2>1, <2>2, <2>3, <2>4, <2>7, <3>1, <3>2 DEF Counted
    <3>4. ReceivedIgnored(call.kind, call.partner) \/ Kept("nb_bytes_recv", call.received)'
      BY <1>2, <1>5, <2>1, <2>2, <2>3, <2>4, <2>7, <3>1, <3>2 DEF Counted
    <3> QED BY <3>3, <3>4
  <2> QED BY <1>2, <2>5, <2>6, <2>7 DEF BytesKept, SentIgnored, ReceivedIgnored
<1> QED BY <1>2, <1>6, <1>7, <1>8 DEF IInv, Dispatch, Faithful, Recorded, Identified, Named, Counted

LEMMA Inductive == IInv /\ [Next]_vars => IInv'
<1> SUFFICES ASSUME IInv, [Next]_vars PROVE IInv'
  OBVIOUS
<1>1. ASSUME NEW c \in Calls, Call(c) PROVE IInv'
  BY <1>1, CallStep
<1>2. CASE UNCHANGED vars
  BY <1>2 DEF IInv, TypeOK, Faithful, Recorded, Identified, Named, Counted, EventMeansCall,
              Carried, BytesKept, Kept, Registered, vars
<1> QED BY <1>1, <1>2, RecordStep, AbortStep, DispatchStep, ReturnStep DEF Next, Over

-----------------------------------------------------------------------------
(* The theorems.                                                           *)

\* IInv holds in every reachable state.
THEOREM Invariance == Spec => []IInv
BY Initially, Inductive, PTL DEF Spec

\* The static rank, the MpiCall and the event have their types.
THEOREM TypeCorrect == Spec => []TypeOK
<1>1. IInv => TypeOK
  BY DEF IInv
<1> QED BY Invariance, <1>1, PTL

\* The event dispatch registers (interpol.rs:134) means the call that the
\* wrapper was in.
THEOREM EventsMeanCalls == Spec => []EventMeansCall
<1>1. IInv => EventMeansCall
  BY DEF IInv
<1> QED BY Invariance, <1>1, PTL

\* Byte counts survive the wrapper's uint32_t arithmetic and dispatch.
THEOREM BytesAreKept == Spec => []BytesKept
<1>1. IInv => BytesKept
  BY DEF IInv
<1> QED BY Invariance, <1>1, PTL

-----------------------------------------------------------------------------
(* How far the findings reach: where the code does do what is documented.  *)

\* The status is the wrapper's until it returns, and an event has every field.
KeptInv ==
  /\ pc \in {"dispatch", "registered"} => status \in StatusOf(call)
  /\ pc = "registered" => DOMAIN event.of = FieldsOf(call.kind)

\* The second inductive invariant, relative to the first.
THEOREM KeptInvariance == Spec => []KeptInv
<1>1. Init => KeptInv
  BY DEF Init, KeptInv
<1>2. IInv /\ KeptInv /\ [Next]_vars => KeptInv'
  <2> SUFFICES ASSUME IInv, KeptInv, [Next]_vars PROVE KeptInv'
    OBVIOUS
  <2>1. CASE Record
    BY <2>1 DEF Record, KeptInv, StatusOf
  <2>2. CASE Dispatch
    <3>1. PICK op : event' = dispatch([mpi_call EXCEPT !.op_type = op])
      BY <2>2 DEF Dispatch
    <3>2. /\ pc = "dispatch" /\ UNCHANGED <<language, call, mpi_call, status>>
          /\ mpi_call \in MpiCalls /\ mpi_call.kind = call.kind
      BY <2>2 DEF Dispatch, IInv, TypeOK, Faithful, Recorded
    <3>3. PICK d : d = [mpi_call EXCEPT !.op_type = op]
      OBVIOUS
    <3>4. d.kind = call.kind /\ d.kind \in Kinds
      BY <3>2, <3>3 DEF MpiCalls
    <3>5. DOMAIN event'.of = FieldsOf(call.kind)
      BY <3>1, <3>3, <3>4, Dispatched
    <3> QED BY <3>2, <3>5 DEF KeptInv, StatusOf
  <2>3. CASE UNCHANGED vars
    BY <2>3 DEF vars, KeptInv, StatusOf
  <2>4. ASSUME pc' \notin {"dispatch", "registered"} PROVE KeptInv'
    BY <2>4 DEF KeptInv
  <2> QED BY <2>1, <2>2, <2>3, <2>4 DEF Next, Call, TypeSizeAborts, Return, Over
<1> QED BY <1>1, <1>2, Invariance, PTL DEF Spec

\* An event has the fields it is documented to have, with the values it should.
LEMMA FieldMeansCall ==
  ASSUME IInv, KeptInv, Registered, NEW f \in FieldsOf(call.kind), Carried(f)
  PROVE  event.of[f] = Meant(call)[f]
BY DEF IInv, EventMeansCall, KeptInv, Registered

\* MPI_Ireduce's event has the reduction and the communicator of the call, if
\* the C wrappers are in use.
ReductionIdentifiedInC == language = "c" => ReductionIdentified

THEOREM ReductionsAreIdentifiedInC == Spec => []ReductionIdentifiedInC
<1>1. ASSUME IInv, KeptInv, language = "c", Registered,
             call.kind = "Ireduce", call.op_type \in MpiOp
      PROVE  event.of.op_type = call.op_type /\ event.of.comm = call.comm
  <2>1. {"op_type", "comm"} \subseteq FieldsOf(call.kind)
    BY <1>1 DEF FieldsOf, MpiIreduce
  <2>2. call.op_type \notin {"user", "NoOp", Invalid}
    BY <1>1 DEF MpiOp, Invalid
  <2>3. Carried("op_type") /\ Carried("comm")
    BY <1>1, <2>2, MeantValues DEF Carried, Members
  <2>4. event.of["op_type"] = OpType(call.op_type) /\ event.of["comm"] = call["comm"]
    BY <1>1, <2>1, <2>3, FieldMeansCall, MeantValues
  <2> QED BY <2>2, <2>4 DEF OpType
<1>2. IInv /\ KeptInv => ReductionIdentifiedInC
  BY <1>1 DEF ReductionIdentifiedInC, ReductionIdentified
<1> QED BY <1>2, Invariance, KeptInvariance, PTL

\* MPI_Recv's event has the sender and the size of the message, in C and in
\* Fortran, if the receive named its source and the message filled the buffer.
ReceptionRecordedIfFull ==
  call.partner # AnySource /\ call.arrived = call.received[2] => ReceptionRecorded

THEOREM FullReceptionsAreRecorded == Spec => []ReceptionRecordedIfFull
<1>1. ASSUME IInv, KeptInv, Registered, call.kind = "Recv",
             call.partner # AnySource, call.arrived = call.received[2]
      PROVE  /\ event.of.partner_rank = call.source
             /\ event.of.nb_bytes = Truncated(call.received[1] * call.arrived)
  <2>1. call \in Calls /\ language \in {"c", "fortran"}
    BY <1>1 DEF IInv, TypeOK, Registered
  <2>2. call.source = call.partner
    <3>1. PICK k \in Kinds : call \in CallsOf(k)
      BY <2>1 DEF Calls
    <3> QED BY <1>1, <3>1 DEF CallsOf, Receiving
  <2>3. "partner_rank" \in FieldsOf(call.kind) /\ Carried("partner_rank")
    BY <1>1, MeantValues DEF FieldsOf, MpiRecv, Carried, Members
  <2>4. event.of["partner_rank"] = call["partner"]
    BY <1>1, <2>3, FieldMeansCall, MeantValues
  <2>5. event.of["nb_bytes"] = Bytes(call.received) % Modulus
    BY <1>1 DEF IInv, BytesKept, Kept, Receiving
  <2> QED BY <1>1, <2>2, <2>4, <2>5 DEF Truncated, Bytes
<1>2. IInv /\ KeptInv => ReceptionRecordedIfFull
  BY <1>1 DEF ReceptionRecordedIfFull, ReceptionRecorded
<1> QED BY <1>2, Invariance, KeptInvariance, PTL

\* The application has the status PMPI filled in, in C and after MPI_Wait.
StatusReturnedInC == language = "c" \/ call.kind = "Wait" => StatusReturned

THEOREM StatusesAreReturnedInC == Spec => []StatusReturnedInC
<1>1. KeptInv => StatusReturnedInC
  BY DEF KeptInv, StatusReturnedInC, StatusReturned, Registered, StatusOf
<1> QED BY <1>1, KeptInvariance, PTL
=============================================================================
