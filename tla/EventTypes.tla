----------------------------- MODULE EventTypes -----------------------------
(***************************************************************************)
(* From an MpiCall to the event it becomes: the fields of each event type, *)
(* the builders, the register_* functions up to their lock (EventStore has *)
(* the rest), and dispatch, which hands the members of the MpiCall to them *)
(* by position.  An event is its type and its fields.                      *)
(***************************************************************************)
EXTENDS Integers

\* The event types.
MpiInit       == {"current_rank", "tsc", "time"}
MpiFinalize   == {"current_rank", "tsc", "time"}
MpiInitThread == {"current_rank", "required_thread_lvl", "provided_thread_lvl", "tsc", "time"}
MpiSend       == {"current_rank", "partner_rank", "nb_bytes", "comm", "tag", "tsc", "duration"}
MpiRecv       == {"current_rank", "partner_rank", "nb_bytes", "comm", "tag", "tsc", "duration"}
MpiIsend      == {"current_rank", "partner_rank", "nb_bytes", "comm", "req", "tag", "tsc", "duration"}
MpiIrecv      == {"current_rank", "partner_rank", "nb_bytes", "comm", "req", "tag", "tsc", "duration"}
MpiBarrier    == {"current_rank", "comm", "tsc", "duration"}
MpiIbarrier   == {"current_rank", "comm", "req", "tsc", "duration"}
MpiTest       == {"current_rank", "req", "finished", "tsc", "duration"}
MpiWait       == {"current_rank", "req", "tsc", "duration"}
MpiIbcast     == {"current_rank", "partner_rank", "nb_bytes", "comm", "req", "tsc", "duration"}
MpiIreduce    == {"current_rank", "partner_rank", "nb_bytes", "op_type", "comm", "req", "tsc", "duration"}
MpiIgather    == {"current_rank", "partner_rank", "nb_bytes_send", "nb_bytes_recv", "comm", "req", "tsc", "duration"}
MpiIscatter   == {"current_rank", "partner_rank", "nb_bytes_send", "nb_bytes_recv", "comm", "req", "tsc", "duration"}

EventTypes ==
  {"MpiInit", "MpiFinalize", "MpiInitThread", "MpiSend", "MpiRecv", "MpiIsend", "MpiIrecv",
   "MpiBarrier", "MpiIbarrier", "MpiTest", "MpiWait", "MpiIbcast", "MpiIreduce",
   "MpiIgather", "MpiIscatter"}

\* The InterpolError a builder gives when a field was not set, which is seen
\* only when it runs; the call is then printed as an error, not registered.
DeriveBuilder == [type |-> "InterpolError", of |-> << >>]

Build(type, fields, set) ==
  IF fields \subseteq DOMAIN set THEN [type |-> type, of |-> set] ELSE DeriveBuilder

-----------------------------------------------------------------------------
(* The register_* functions.                                               *)

register_init(rank, tsc, time) ==
  Build("MpiInit", MpiInit, [current_rank |-> rank, tsc |-> tsc, time |-> time])

register_init_thread(rank, required, provided, tsc, time) ==
  Build("MpiInitThread", MpiInitThread,
        [current_rank |-> rank, required_thread_lvl |-> required,
         provided_thread_lvl |-> provided, tsc |-> tsc, time |-> time])

register_finalize(rank, tsc, time) ==
  Build("MpiFinalize", MpiFinalize, [current_rank |-> rank, tsc |-> tsc, time |-> time])

register_send(rank, partner, bytes, comm, tag, tsc, duration) ==
  Build("MpiSend", MpiSend,
        [current_rank |-> rank, partner_rank |-> partner, nb_bytes |-> bytes,
         comm |-> comm, tag |-> tag, tsc |-> tsc, duration |-> duration])

register_recv(rank, partner, bytes, comm, tag, tsc, duration) ==
  Build("MpiRecv", MpiRecv,
        [current_rank |-> rank, partner_rank |-> partner, nb_bytes |-> bytes,
         comm |-> comm, tag |-> tag, tsc |-> tsc, duration |-> duration])

register_isend(rank, partner, bytes, comm, req, tag, tsc, duration) ==
  Build("MpiIsend", MpiIsend,
        [current_rank |-> rank, partner_rank |-> partner, nb_bytes |-> bytes, comm |-> comm,
         req |-> req, tag |-> tag, tsc |-> tsc, duration |-> duration])

register_irecv(rank, partner, bytes, comm, req, tag, tsc, duration) ==
  Build("MpiIrecv", MpiIrecv,
        [current_rank |-> rank, partner_rank |-> partner, nb_bytes |-> bytes, comm |-> comm,
         req |-> req, tag |-> tag, tsc |-> tsc, duration |-> duration])

register_barrier(rank, comm, tsc, duration) ==
  Build("MpiBarrier", MpiBarrier,
        [current_rank |-> rank, comm |-> comm, tsc |-> tsc, duration |-> duration])

register_ibarrier(rank, comm, req, tsc, duration) ==
  Build("MpiIbarrier", MpiIbarrier,
        [current_rank |-> rank, comm |-> comm, req |-> req, tsc |-> tsc, duration |-> duration])

\* Mutant: one setter is forgotten, which compiles.
UnsetFinished(rank, req, finished, tsc, duration) ==
  Build("MpiTest", MpiTest,
        [current_rank |-> rank, req |-> req, tsc |-> tsc, duration |-> duration])

register_test(rank, req, finished, tsc, duration) ==
  Build("MpiTest", MpiTest,
        [current_rank |-> rank, req |-> req, finished |-> finished, tsc |-> tsc,
         duration |-> duration])

register_wait(rank, req, tsc, duration) ==
  Build("MpiWait", MpiWait,
        [current_rank |-> rank, req |-> req, tsc |-> tsc, duration |-> duration])

register_ibcast(rank, partner, bytes, comm, req, tsc, duration) ==
  Build("MpiIbcast", MpiIbcast,
        [current_rank |-> rank, partner_rank |-> partner, nb_bytes |-> bytes, comm |-> comm,
         req |-> req, tsc |-> tsc, duration |-> duration])

\* Mutant: the two byte counts change places.
SwappedBytes(rank, partner, sent, received, comm, req, tsc, duration) ==
  Build("MpiIgather", MpiIgather,
        [current_rank |-> rank, partner_rank |-> partner, nb_bytes_send |-> received,
         nb_bytes_recv |-> sent, comm |-> comm, req |-> req, tsc |-> tsc,
         duration |-> duration])

register_igather(rank, partner, sent, received, comm, req, tsc, duration) ==
  Build("MpiIgather", MpiIgather,
        [current_rank |-> rank, partner_rank |-> partner, nb_bytes_send |-> sent,
         nb_bytes_recv |-> received, comm |-> comm, req |-> req, tsc |-> tsc,
         duration |-> duration])

register_ireduce(rank, partner, bytes, op_type, comm, req, tsc, duration) ==
  Build("MpiIreduce", MpiIreduce,
        [current_rank |-> rank, partner_rank |-> partner, nb_bytes |-> bytes,
         op_type |-> op_type, comm |-> comm, req |-> req, tsc |-> tsc, duration |-> duration])

register_iscatter(rank, partner, sent, received, comm, req, tsc, duration) ==
  Build("MpiIscatter", MpiIscatter,
        [current_rank |-> rank, partner_rank |-> partner, nb_bytes_send |-> sent,
         nb_bytes_recv |-> received, comm |-> comm, req |-> req, tsc |-> tsc,
         duration |-> duration])

-----------------------------------------------------------------------------
dispatch(m) ==
  CASE m.kind = "Init"       -> register_init(m.current_rank, m.tsc, m.time)
    [] m.kind = "Initthread" ->
         register_init_thread(m.current_rank, m.required_thread_lvl,
                              m.provided_thread_lvl, m.tsc, m.time)
    [] m.kind = "Finalize"   -> register_finalize(m.current_rank, m.tsc, m.time)
    [] m.kind = "Send"       ->
         register_send(m.current_rank, m.partner_rank, m.nb_bytes_s, m.comm, m.tag,
                       m.tsc, m.duration)
    [] m.kind = "Isend"      ->
         register_isend(m.current_rank, m.partner_rank, m.nb_bytes_s, m.comm, m.req, m.tag,
                        m.tsc, m.duration)
    [] m.kind = "Recv"       ->
         register_recv(m.current_rank, m.partner_rank, m.nb_bytes_r, m.comm, m.tag,
                       m.tsc, m.duration)
    [] m.kind = "Irecv"      ->
         register_irecv(m.current_rank, m.partner_rank, m.nb_bytes_r, m.comm, m.req, m.tag,
                        m.tsc, m.duration)
    [] m.kind = "Barrier"    -> register_barrier(m.current_rank, m.comm, m.tsc, m.duration)
    [] m.kind = "Ibarrier"   ->
         register_ibarrier(m.current_rank, m.comm, m.req, m.tsc, m.duration)
    [] m.kind = "Test"       ->
         register_test(m.current_rank, m.req, m.finished, m.tsc, m.duration)
    [] m.kind = "Wait"       -> register_wait(m.current_rank, m.req, m.tsc, m.duration)
    [] m.kind = "Ibcast"     ->
         register_ibcast(m.current_rank, m.partner_rank, m.nb_bytes_s, m.comm, m.req,
                         m.tsc, m.duration)
    [] m.kind = "Igather"    ->
         register_igather(m.current_rank, m.partner_rank, m.nb_bytes_s, m.nb_bytes_r,
                          m.comm, m.req, m.tsc, m.duration)
    [] m.kind = "Ireduce"    ->
         register_ireduce(m.current_rank, m.partner_rank, m.nb_bytes_s, m.op_type,
                          m.comm, m.req, m.tsc, m.duration)
    [] m.kind = "Iscatter"   ->
         register_iscatter(m.current_rank, m.partner_rank, m.nb_bytes_s, m.nb_bytes_r,
                           m.comm, m.req, m.tsc, m.duration)
=============================================================================
