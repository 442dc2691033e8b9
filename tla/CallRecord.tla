----------------------------- MODULE CallRecord -----------------------------
(***************************************************************************)
(* One MPI call after the other, from its arguments to its event: PMPI     *)
(* carries the call out, the wrapper fills in an MpiCall, and dispatch     *)
(* makes of it the event of this kind (EventTypes).  An MpiCall has        *)
(* members for every kind of call, and a wrapper sets those of other kinds *)
(* to -1, 0 or false.                                                      *)
(*                                                                         *)
(* The process is rank Rank of MPI_COMM_WORLD.  A byte count of the        *)
(* application's is a number, a byte count of the trace one below Modulus. *)
(* The readings of the counter around PMPI are an earlier and a later one  *)
(* (TraceOrder has counters that disagree).                                 *)
(***************************************************************************)
EXTENDS EventTypes

CONSTANTS Modulus,          \* 2 to the number of bits of a byte count
          Rank, Ranks,      \* this process's, and all
          Tags, Comms, Requests, Levels, \* sets of numbers
          Reductions,       \* the operations of MPI_Ireduce
          Sizes, Counts,    \* of an element in bytes, and of elements
          Stamps, Times     \* readings of the counter, and of gettimeofday

None      == -1             \* the filler of members a call does not have
AnySource == -2             \* MPI_ANY_SOURCE
NullType  == -1             \* the size of MPI_DATATYPE_NULL, that is, none
Invalid   == "invalid"      \* an op_type that is not in MpiOp

\* The MPI operations, and the members of MpiOp (interpol.h): MPI_NO_OP has
\* none of its own, a reduction of the application's has none at all.
MpiOp == {"Opnull", "Max", "Min", "Sum", "Prod", "Land", "Band", "Lor", "Bor",
          "Lxor", "Bxor", "Minloc", "Maxloc", "Replace"}
ASSUME ReductionsAssumption == Reductions \subseteq MpiOp \cup {"NoOp", "user"}
ASSUME ModulusAssumption == Modulus \in Nat \ {0}
ASSUME NumbersAssumption ==
  /\ Sizes \cup Counts \cup Stamps \subseteq Nat
  /\ Rank \in Ranks /\ Ranks \subseteq Nat
  /\ Tags \cup Comms \cup Requests \cup Levels \cup Times \subseteq Int

PointToPoint    == {"Send", "Recv", "Isend", "Irecv"}
Synchronization == {"Barrier", "Ibarrier", "Test", "Wait"}
Collective      == {"Ibcast", "Igather", "Iscatter", "Ireduce"}
Management      == {"Init", "Initthread", "Finalize"}
Kinds == Management \cup PointToPoint \cup Synchronization \cup Collective

\* Which arguments a call of each kind has.
Receiving  == {"Recv", "Irecv"}
BothWays   == {"Igather", "Iscatter"}
Peered     == PointToPoint \cup Collective
Starting   == {"Isend", "Irecv", "Ibarrier"} \cup Collective
Requesting == Starting \cup {"Test", "Wait"}
Addressed  == Peered \cup {"Barrier", "Ibarrier"}
Answered   == {"Recv", "Test", "Wait"}      \* with an MPI_Status

VARIABLES language,         \* the library preloaded: "c" or "fortran"
          pc,               \* "app", "wrapper", "dispatch", "registered" or "over"
          current_rank,     \* the wrappers' static variable
          call,             \* the call and what it did
          mpi_call,         \* the MpiCall of the wrapper
          event,            \* the event that is registered
          status            \* the source in the MPI_Status the application is left with

vars == <<language, pc, current_rank, call, mpi_call, event, status>>

\* MPI_Igather looks at the receive buffer only at the root, where the send
\* buffer may be MPI_IN_PLACE; MPI_Iscatter has it the other way round.  What
\* MPI does not look at may have no type.
SentIgnored(k, root) ==
  (k = "Igather" /\ root = Rank) \/ (k = "Iscatter" /\ root # Rank)

ReceivedIgnored(k, root) ==
  (k = "Igather" /\ root # Rank) \/ (k = "Iscatter" /\ root = Rank)

Given(kinds, k, values, filler) == IF k \in kinds THEN values ELSE {filler}

Partners(k) == IF k \in Receiving THEN Ranks \cup {AnySource} ELSE Ranks

\* A call of kind k: its arguments (sent and received are pairs of an element
\* size and a count), MPI_Test's flag, the rank that a message it received came
\* from, and of a receive also how many elements of it there were.
CallsOf(k) ==
  {c \in
    [kind : {k},
     partner : Given(Peered, k, Partners(k), None),
     tag  : Given(PointToPoint, k, Tags, None),
     comm : Given(Addressed, k, Comms, None),
     req  : Given(Requesting, k, Requests, None),
     op_type : Given({"Ireduce"}, k, Reductions, Invalid),
     required_thread_lvl : Given({"Initthread"}, k, Levels, None),
     provided_thread_lvl : Given({"Initthread"}, k, Levels, None),
     finished : Given({"Test"}, k, BOOLEAN, FALSE),
     sent     : Given(Peered \ Receiving, k, (Sizes \cup {NullType}) \X Counts, <<0, 0>>),
     received : Given(Receiving \cup BothWays, k, (Sizes \cup {NullType}) \X Counts, <<0, 0>>),
     source   : Given(Receiving \cup Answered, k, Ranks \cup {None}, None),
     arrived  : Given(Receiving, k, Counts, 0),
     entered  : Stamps,
     left     : Stamps,
     time     : Given(Management, k, Times, None)] :
   /\ k \in Receiving => c.source \in (IF c.partner = AnySource THEN Ranks ELSE {c.partner})
   /\ k = "Test" /\ ~c.finished => c.source = None
   /\ c.arrived <= c.received[2]
   /\ c.sent[1] = NullType => SentIgnored(k, c.partner)
   /\ c.received[1] = NullType => ReceivedIgnored(k, c.partner)
   /\ IF k \in Management THEN c.left = c.entered ELSE c.entered < c.left}

Calls == UNION {CallsOf(k) : k \in Kinds}

Bytes(buffer) == buffer[1] * buffer[2]

\* Mutant: a wider byte count.
Untruncated(bytes) == bytes

\* The product of two ints as a uint32_t, as built: it wraps.
Truncated(bytes) == bytes % Modulus

ByteCounts == 0..Modulus - 1

\* PMPI_Type_size fails for no type: it ends the process, or leaves the size
\* as it was, which nobody set.
Measured(buffer) ==
  IF buffer[1] = NullType THEN ByteCounts ELSE {Truncated(Bytes(buffer))}

-----------------------------------------------------------------------------
(* The wrappers of interpol-c.c.                                           *)

\* What a wrapper puts into the members that its call has no argument for.
Blank(k) ==
  [kind |-> k, time |-> None, tsc |-> 0, duration |-> 0, partner_rank |-> None,
   current_rank |-> None, nb_bytes_s |-> 0, nb_bytes_r |-> 0, comm |-> None,
   req |-> None, tag |-> None, required_thread_lvl |-> None,
   provided_thread_lvl |-> None, finished |-> FALSE, op_type |-> Invalid]

\* The rank is in current_rank once MPI_Init or MPI_Init_thread has put it there.
Common(c) ==
  [Blank(c.kind) EXCEPT !.current_rank = current_rank, !.tsc = c.entered,
                        !.duration = c.left - c.entered]

\* The counter is read once, after the first barrier, and so is the clock.
CManagement(c) ==
  {[Common(c) EXCEPT !.current_rank = IF c.kind = "Finalize" THEN current_rank ELSE Rank,
                     !.time = c.time,
                     !.required_thread_lvl = c.required_thread_lvl,
                     !.provided_thread_lvl = c.provided_thread_lvl]}

\* The request is the one PMPI left; a receive records the source, the tag and
\* the size of the buffer it was called with.
CPointToPoint(c) ==
  {[Common(c) EXCEPT !.partner_rank = c.partner, !.tag = c.tag, !.comm = c.comm,
                     !.req = c.req,
                     !.nb_bytes_s = Truncated(Bytes(c.sent)),
                     !.nb_bytes_r = Truncated(Bytes(c.received))]}

\* Test and Wait read the request before PMPI may make it null.
CSynchronization(c) ==
  {[Common(c) EXCEPT !.comm = c.comm, !.req = c.req, !.finished = c.finished]}

OpType(op) ==
  CASE op = "NoOp" -> "Opnull"
    [] op = "user" -> Invalid
    [] OTHER       -> op

\* Ireduce takes for nb_bytes_s the size of one element, and has no buffer of
\* another type to receive in.
CollectiveBytesS(c) ==
  IF c.kind = "Ireduce" THEN {Truncated(c.sent[1])} ELSE Measured(c.sent)

CollectiveBytesR(c) ==
  IF c.kind = "Ireduce" THEN {Truncated(Bytes(c.sent))} ELSE Measured(c.received)

CollectiveRecord(c, s, r) ==
  [Common(c) EXCEPT !.partner_rank = c.partner, !.comm = c.comm, !.req = c.req,
                    !.nb_bytes_s = s, !.nb_bytes_r = r, !.op_type = OpType(c.op_type)]

CCollective(c) ==
  {CollectiveRecord(c, s, r) : s \in CollectiveBytesS(c), r \in CollectiveBytesR(c)}

CRecords(c) ==
  CASE c.kind \in Management      -> CManagement(c)
    [] c.kind \in PointToPoint    -> CPointToPoint(c)
    [] c.kind \in Synchronization -> CSynchronization(c)
    [] c.kind \in Collective      -> CCollective(c)

-----------------------------------------------------------------------------
(* The wrappers of interpol-f.c.  Arguments are addresses, and some of the *)
(* wrappers use the address: as a communicator, which yields any number,   *)
(* as a reduction, which is none MPI knows, and as a flag, which is true.  *)

AnyComm == Comms \cup {None}
Misnamed(records) == {[m EXCEPT !.comm = any] : m \in records, any \in AnyComm}

FortranManagement(c) == CManagement(c)

FortranPointToPoint(c) == Misnamed(CPointToPoint(c))

\* MPI_Test records the request it leaves, null (here None) once finished.
RequestLeft(c) == IF c.finished THEN None ELSE c.req
FortranTest(c) ==
  {[m EXCEPT !.req = RequestLeft(c), !.finished = TRUE] : m \in CSynchronization(c)}

FortranSynchronization(c) ==
  CASE c.kind = "Test" -> FortranTest(c)
    [] c.kind = "Wait" -> CSynchronization(c)
    [] OTHER           -> Misnamed(CSynchronization(c))

FortranCollective(c) == Misnamed({[m EXCEPT !.op_type = Invalid] : m \in CCollective(c)})

FortranRecords(c) ==
  CASE c.kind \in Management      -> FortranManagement(c)
    [] c.kind \in PointToPoint    -> FortranPointToPoint(c)
    [] c.kind \in Synchronization -> FortranSynchronization(c)
    [] c.kind \in Collective      -> FortranCollective(c)

\* PMPI fills in the application's status.  The Fortran wrappers of MPI_Recv
\* and MPI_Test then convert a status of their own over it that nobody set.
StatusOf(c) ==
  IF c.kind \notin Answered THEN {None}
  ELSE IF language = "fortran" /\ c.kind # "Wait" THEN Ranks \cup {None}
  ELSE {c.source}

-----------------------------------------------------------------------------
(* From one call to the next.                                              *)

NoCall  == CHOOSE c \in CallsOf("Init") : TRUE
NoEvent == DeriveBuilder

Init ==
  /\ language \in {"c", "fortran"}
  /\ pc = "app"
  /\ current_rank = None
  /\ call = NoCall
  /\ mpi_call = Blank("Init")
  /\ event = NoEvent
  /\ status = None

Initializes(c) == c.kind \in {"Init", "Initthread"}

\* The application makes a call, and PMPI carries it out.  MPI is initialised
\* once, before any other call.
Call(c) ==
  /\ pc = "app"
  /\ Initializes(c) <=> current_rank = None
  /\ call' = c
  /\ pc' = "wrapper"
  /\ UNCHANGED <<language, current_rank, mpi_call, event, status>>

\* The wrapper completes the status and fills in the MpiCall.
Record ==
  /\ pc = "wrapper"
  /\ current_rank' = IF Initializes(call) THEN Rank ELSE current_rank
  /\ mpi_call' \in IF language = "c" THEN CRecords(call) ELSE FortranRecords(call)
  /\ status' \in StatusOf(call)
  /\ pc' = "dispatch"
  /\ UNCHANGED <<language, call, event>>

\* PMPI_Type_size ends the process, as MPI's errors do by default.
TypeSizeAborts ==
  /\ pc = "wrapper"
  /\ NullType \in {call.sent[1], call.received[1]}
  /\ pc' = "over"
  /\ UNCHANGED <<language, current_rank, call, mpi_call, event, status>>

\* The event is built.  An op_type that is not in MpiOp is undefined behaviour
\* when read: the event may come out with any.
Dispatch ==
  /\ pc = "dispatch"
  /\ \E op \in IF mpi_call.kind = "Ireduce" /\ mpi_call.op_type = Invalid
                THEN MpiOp \cup {Invalid} ELSE {mpi_call.op_type} :
       event' = dispatch([mpi_call EXCEPT !.op_type = op])
  /\ pc' = "registered"
  /\ UNCHANGED <<language, current_rank, call, mpi_call, status>>

\* The wrapper returns, and nothing of the call is left in it.  There is none
\* after MPI_Finalize.
Return ==
  /\ pc = "registered"
  /\ pc' = IF call.kind = "Finalize" THEN "over" ELSE "app"
  /\ call' = NoCall
  /\ mpi_call' = Blank("Init")
  /\ event' = NoEvent
  /\ status' = None
  /\ UNCHANGED <<language, current_rank>>

Over == pc = "over" /\ UNCHANGED vars

Next == (\E c \in Calls : Call(c)) \/ Record \/ TypeSizeAborts \/ Dispatch \/ Return \/ Over

Spec == Init /\ [][Next]_vars

-----------------------------------------------------------------------------
(* Correctness.                                                            *)

MpiCalls ==
  [kind : Kinds, time : Int, tsc : Nat, duration : Nat, partner_rank : Int,
   current_rank : {None, Rank}, nb_bytes_s : ByteCounts, nb_bytes_r : ByteCounts, comm : Int,
   req : Int, tag : Int, required_thread_lvl : Int, provided_thread_lvl : Int,
   finished : BOOLEAN, op_type : MpiOp \cup {Invalid}]

TypeOK ==
  /\ language \in {"c", "fortran"}
  /\ pc \in {"app", "wrapper", "dispatch", "registered", "over"}
  /\ current_rank \in {None, Rank}
  /\ pc \in {"wrapper", "dispatch", "registered"} => call \in Calls
  /\ mpi_call \in MpiCalls
  /\ event.type \in EventTypes \cup {"InterpolError"}
  /\ status \in Ranks \cup {None}

Registered == pc = "registered"

\* The event type of each kind of call.
TypeOf(k) ==
  CASE k = "Initthread" -> "MpiInitThread"
    [] k = "Init"     -> "MpiInit"     [] k = "Finalize" -> "MpiFinalize"
    [] k = "Send"     -> "MpiSend"     [] k = "Recv"     -> "MpiRecv"
    [] k = "Isend"    -> "MpiIsend"    [] k = "Irecv"    -> "MpiIrecv"
    [] k = "Barrier"  -> "MpiBarrier"  [] k = "Ibarrier" -> "MpiIbarrier"
    [] k = "Test"     -> "MpiTest"     [] k = "Wait"     -> "MpiWait"
    [] k = "Ibcast"   -> "MpiIbcast"   [] k = "Ireduce"  -> "MpiIreduce"
    [] k = "Igather"  -> "MpiIgather"  [] k = "Iscatter" -> "MpiIscatter"

\* What the trace should say of a call, byte counts apart.
Meant(c) ==
  [current_rank |-> Rank, partner_rank |-> c.partner, comm |-> c.comm, req |-> c.req,
   tag |-> c.tag, required_thread_lvl |-> c.required_thread_lvl,
   provided_thread_lvl |-> c.provided_thread_lvl, finished |-> c.finished,
   op_type |-> OpType(c.op_type), tsc |-> c.entered, duration |-> c.left - c.entered,
   time |-> c.time]

\* The fields that are right in the trace: those that no Fortran wrapper takes
\* from an address, and reductions that MPI defines.
Carried(f) ==
  /\ f \in DOMAIN Meant(call)
  /\ f = "op_type" => call.op_type # "user"
  /\ language = "fortran" => f \notin {"comm", "op_type"}
  /\ language = "fortran" /\ call.kind = "Test" => f \notin {"req", "finished"}

\* A call's event has the type of the call's kind (so no builder failed),
\* every argument the documentation of the type lists is the one the call was
\* made with, and what the event does not have the call did not have either.
\* This is the case for the rank, too, which the wrappers keep in a variable
\* of their own, and for every reduction of MPI's, so that none of them is
\* read as a value that MpiOp does not have.
EventMeansCall ==
  Registered =>
    /\ event.type = TypeOf(call.kind)
    /\ \A f \in DOMAIN event.of : Carried(f) => event.of[f] = Meant(call)[f]
    /\ \A f \in (DOMAIN Meant(call) \cap DOMAIN mpi_call) \ DOMAIN event.of :
         f # "op_type" => Meant(call)[f] = Blank(call.kind)[f]

\* The trace keeps the size of this buffer, exactly when it fits into the 32
\* bits and modulo 2^32 otherwise.
Kept(f, buffer) ==
  /\ f \in DOMAIN event.of
  /\ event.of[f] = Bytes(buffer) % Modulus
  /\ Bytes(buffer) < Modulus => event.of[f] = Bytes(buffer)

\* The size of each buffer that MPI looks at is in the call's event, though
\* not for MPI_Ireduce: dispatch hands on the count of the right direction,
\* and a buffer that has no type does not spoil the count of the other.
BytesKept ==
  Registered =>
    /\ call.kind \in {"Send", "Isend", "Ibcast"} => Kept("nb_bytes", call.sent)
    /\ call.kind \in Receiving => Kept("nb_bytes", call.received)
    /\ call.kind \in BothWays =>
         /\ SentIgnored(call.kind, call.partner) \/ Kept("nb_bytes_send", call.sent)
         /\ ReceivedIgnored(call.kind, call.partner) \/ Kept("nb_bytes_recv", call.received)

-----------------------------------------------------------------------------
(* What the documentation of the events says and the code does not do.     *)

\* mpi_ireduce.rs:11, "the number of bytes exchanged": that of the buffer.
ReductionBytes ==
  Registered /\ call.kind = "Ireduce" => event.of.nb_bytes = Truncated(Bytes(call.sent))

\* mpi_recv.rs:11-12, "the rank of the processes involved in the communication"
\* and "the number of bytes exchanged": the sender's, and those that arrived.
ReceptionRecorded ==
  Registered /\ call.kind = "Recv" =>
    /\ event.of.partner_rank = call.source
    /\ event.of.nb_bytes = Truncated(call.received[1] * call.arrived)

\* mpi_ireduce.rs:12-13, "the type of MPI reduction operation" (of those that
\* MpiOp has) and "the identifier of the MPI communicator": in Fortran, too.
ReductionIdentified ==
  Registered /\ call.kind = "Ireduce" /\ call.op_type \in MpiOp =>
    event.of.op_type = call.op_type /\ event.of.comm = call.comm

\* interpol-f.c:288, "MPI-2 safe call", and README.md:25, "supports tracing of
\* Fortran applications": the application gets the status that PMPI filled in.
StatusReturned ==
  Registered /\ call.kind \in Answered /\ call.source # None => status = call.source
=============================================================================
