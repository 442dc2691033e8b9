# A verification development of Interpol

Interpol is a library that is preloaded into MPI programs. Each MPI function it
redefines forwards to the PMPI function, records the call, and MPI_Finalize writes
what was recorded to JSON files that are then merged. This directory holds TLA+
modules of that machinery, the TLC configurations that check them on small
instances, and TLAPS proofs of their safety properties for every value of the
constants.

`tlc -config MCX.cfg M` runs a check (the table below says which module), and
`tlapm M.tla` checks the proofs of the six modules `EventStoreProofs`, `TraceJobProofs`,
`TracedRankProofs`, `RequestTraceProofs`, `CallRecordProofs` and `TraceOrderProofs`.
`PROJECT.json` maps every definition to the source lines it models, and lists the
hazards, the findings and, for every property, a mutant of the model that breaks it.

## 1. Inventory

| part | where | state | operations |
|---|---|---|---|
| wrappers | `src/interpol-c.c`, `src/interpol-f.c` | `current_rank` | one wrapper per MPI function and language: forward, read the counter, fill in an `MpiCall`, `register_mpi_call` |
| dispatch and event types | `interpol-rs/src/interpol.rs` (`dispatch`, `register_*`), `mpi_events/` | none | choose the members an event has, build it |
| EVENTS | `interpol.rs` (`EVENTS`, `impl_register!`) | a vector behind a mutex | lock, reserve, push, unlock |
| serialize | `interpol.rs`, called by `register_finalize` under the lock | `interpol-tmp/rank<r>_traces.json` | create the directory, open and truncate, write |
| merge | `interpol.rs` (`sort_all_traces`), rank 0 only | `interpol-tmp/interpol_traces.json` | read the directory, remove an old merge, parse each file, sort, write |
| MPI_Finalize | wrappers | none of its own | barrier, register and serialize, barrier, merge on rank 0, PMPI_Finalize |
| time stamps | `include/tsc.h` | the counters of the cores | `rdtsc`, `fenced_rdtscp` |
| scripts, build, CI | `scripts/`, `Makefile`, `Cargo.toml`, ... | none | not part of the running library |

How they interact: the program's threads call wrappers concurrently; a wrapper calls
MPI through PMPI and then the Rust library; the Rust library's only shared state in a
process is EVENTS. Processes interact through MPI's barriers in MPI_Finalize and
through the files of `interpol-tmp`, which also couples one job to the next.

What is hard here:

* threads that register at the same time, and the error paths taken with the lock held;
* capacity: `try_reserve_exact(2 * len)` is none for an empty vector;
* the order of serialize on all ranks and the merge on rank 0, in the presence of
  errors, panics and deaths of ranks;
* files left by earlier jobs, of any size, torn ones among them;
* MPI's reuse of request handles while the completing call is not registered yet;
* fifteen wrappers twice, whose records one function takes apart again by position;
* values that are not set: the size of a type MPI ignores, a status, an enum's discriminant;
* counters of several cores and nodes, read twice by threads that may move in between,
  subtracted as unsigned numbers and sorted by, unstably.

What makes each part correct: registration loses, invents and reorders nothing;
a complete file is the whole vector; the merge is exactly the files, of one instant;
nobody waits for ever; the trace of requests can be matched; the event means the call;
durations and the order of the merged trace are wrong by no more than the counters disagree.

## 2. Modules

| module | models | abstract specification |
|---|---|---|
| `EventStore` | one process: threads, wrappers' path, mutex, vector, serialize | `EventLog` |
| `EventStoreProofs` | theorems about it | |
| `TraceJob` | MPI_Finalize over ranks, the directory, the merge, several jobs | `TraceDir` |
| `TraceJobProofs` | theorems about it | |
| `TracedRank` | one process of one job among its other ranks: `EventStore` under `TraceJob` | both of them |
| `TracedRankProofs` | theorems about it | |
| `RequestTrace`, `MCRequestTrace` | requests, handles and time stamps of one process | |
| `RequestTraceProofs` | theorems about it | |
| `EventTypes` | the fields of each event, the builders, `register_*` and `dispatch`, as operators | |
| `CallRecord` | one call from its arguments to its event, every wrapper of both languages | |
| `CallRecordProofs` | theorems about both | |
| `TraceOrder`, `MCTraceOrder` | time stamps of all ranks and the sorted trace | |
| `TraceOrderProofs` | theorems about it | |

`TraceJob` writes `<<rank, job>>` for a rank's vector and takes the whole of what happens
before MPI_Finalize for one step; `TracedRank` composes the two, so that what the one
assumes of the other is checked and proved. `RequestTrace` takes from it
that a call is registered once (`Accounted`) between the return of PMPI and that of the
wrapper (`ProgramOrder`). `CallRecord` has the content of the records that the other
modules leave out. `TraceOrder` is about the two things that the others simplify: in
`TraceJob` the merged trace is a set, here it has an order; in `RequestTrace` the counters
of all cores agree, here they do not. It takes from the others that every call is
registered and that rank 0 merges when every rank has serialized.

**EventStore.** A call is `<<t, k>>`. `pc[t]` is where the thread is; the steps under the
lock are separate actions (`Reserve`, `Push`, `Write`, `Open`, `Save`), so that exclusion
is a result and not built in: `Push` reads the length and `Write` stores at the slot read,
as `Vec::push` does. `ReserveFails` is the `?` of `register`, whose guard is dropped on
return; for MPI_Finalize it also skips `serialize`. `AllocAborts` is a failed allocation
in `push` or `Box::new`. MPI's own rules are guards of `EnterInit`, `Enter` and
`EnterFinalize`: no call before MPI_Init returned, and none in progress when
MPI_Finalize is called.

**TraceJob.** `pc[r]` follows MPI_Finalize through both barriers, serialize's three
system calls, and on rank 0 the merge, one directory entry at a time. A rank can fail in
each step (`RegisterFails`, `ScanFails`, `WriteMergedFails`), die anywhere (`Crash`), and
rank 0 panics on a torn file or a missing directory (`ScanPanics`); mpirun then kills the
rest. `NextJob` starts a job of any size in what the one before left behind.

**TracedRank.** One `EventStore` in the place of one rank of `TraceJob`: rank `Me` of job
`Followed`. Both are constants of which nothing is assumed but that they are a rank and a
job, so what is proved of this process holds of each. Steps that both models have are
joint: the process enters MPI_Finalize (`EnterFinalize`) as the rank enters the barrier
(`Finalize`), leaves PMPI as the rank leaves it, and its `Write`, `Open`, `Save` and their
failures are the rank's `Register`, `Open`, `Write` and `RegisterFails`; a panic of rank 0
or the death of the rank is the process's `Kill`. A joint step needs both guards: `InStep`
says that neither model holds up the other. The other steps of the process (`Running`,
`Registering`) leave the job alone, and before and after its job the process does nothing.

**RequestTrace.** `active` is what MPI knows of handles; `PmpiStart` hands out any free
one, `PmpiCompletion` frees it. `clock` is the counter, read at `Begin` and
`PmpiReturned`. The trace grows at `Register`, in any order of the threads. `op` and
`freed` are what really happened, which the trace does not have; the properties compare it
with what was recorded.

**EventTypes.** An event is its type and its fields. Each `register_*` names the fields it
sets, as the builder's setters do, and `Build` is the builder: one that lacks a field gives
an `InterpolError`, at run time. `dispatch` hands the members of an `MpiCall` on by
position, as the code does.

**CallRecord.** Calls come one after the other: `Call` carries out PMPI, `Record` fills in
the `MpiCall` and sets `current_rank`, `Dispatch` makes the event, `Return`. `CPointToPoint`
and the like are the wrappers' initializers, grouped by the sections of `interpol-c.c`;
those of `interpol-f.c` differ from them in the places where they use an argument's address.
Values are drawn from disjoint sets, so that a member in another's place is seen. What
nobody set is any value: the size of a buffer without a type (`Measured`), the status that
the Fortran wrappers convert (`StatusOf`), the enum read from an `op_type` that `MpiOp`
does not have (`Dispatch`). `SentIgnored` and `ReceivedIgnored` say which buffers MPI does
not look at, which may have no type; `TypeSizeAborts` is MPI's default reaction to asking
for its size.

**TraceOrder.** `now` is the true time; a reading is `now` plus what the node and the core
are ahead. A thread is on any core at each reading. An event carries, besides its stamp and
duration, its true times and cores, which the trace does not have: the properties compare
the two. `StampFinalize` waits for the barrier, as MPI_Finalize does before it reads the
counter. `SortNext` appends an event with a least stamp of those left, which is what an
unstable sort may do. Nothing tells the order of two readings within a tick; that a
barrier, PMPI, and the way from one call of a thread to the next take time is a guard.

Operators described as mutants in the modules are not part of the specifications:
`PROJECT.json` puts each in the place of a definition to see a property fail.

## 3. Runs

| run | module, cfg | bounds | shows |
|---|---|---|---|
| store | `EventStore`, `MCEventStore.cfg` | 3 threads, 2 calls each before MPI_Finalize | the invariants, the implementation of `EventLog`, the mutex given back, MPI_Finalize's return |
| store_finalize | `EventStore`, `MCEventStoreFinalizeSerializes.cfg` | 2 threads | violated: an error registering MPI_Finalize loses the rank's events |
| job | `TraceJob`, `MCTraceJob.cfg` | up to 3 ranks, 2 jobs, 2 failures in each | the merge is exact and of one instant, MPI_Finalize ends |
| traced | `TracedRank`, `MCTracedRank.cfg` | rank 1 of the first of 2 jobs of up to 2 ranks, 1 failure in each, 2 threads, 2 calls each | process and rank in step; the process's trace, wherever it is, stands for its calls; they reach the merged trace; nothing happens while rank 0 merges |
| job_only_this | `TraceJob`, `MCTraceJobOnlyThisJob.cfg` | up to 2 ranks, 2 jobs, no failure | violated: traces of an earlier, larger job are merged |
| requests | `MCRequestTrace`, `MCRequestTrace.cfg` | C, 2 threads, 2 handles, 4 calls | completions are traced and can be matched |
| requests_fortran | `MCRequestTrace`, `MCRequestTraceTestRecorded.cfg` | Fortran, 1 thread | violated: MPI_Test's request and flag |
| record | `CallRecord`, `MCCallRecord.cfg` | all kinds of call, 4-bit byte counts | the event has the call's arguments |
| record_status | `CallRecord`, `MCCallRecordStatusReturned.cfg` | same | violated: the status after the Fortran MPI_Recv and MPI_Test |
| order | `MCTraceOrder`, `MCTraceOrder.cfg` | 2 ranks on 2 nodes, 3 threads, 2 cores that differ by 2 ticks, nodes by 1; 2 calls, 4 ticks | durations, the merged order and the place of MPI_Finalize |
| record_reduction | `CallRecord`, `MCCallRecordReductionBytes.cfg` | same | violated: MPI_Ireduce's bytes |
| record_fortran | `CallRecord`, `MCCallRecordReductionIdentified.cfg` | same | violated: reduction and communicator in Fortran |

Why the bounds are enough. *store*: a lost update takes two threads, a third shows
that the mutex passes on while one waits; up to seven events take the vector through its
first growth in `push` and the exact reservations after it; a thread with two calls has an order.
*job*: three ranks have one that merges, one that is read and one still to be read; the
second job meets every directory the first can leave, and it may be smaller, equal or
larger; two failures allow one in the files and one in the merge. *traced*: the process
followed belongs to the first job, so that its file is left to a second one, which may lack
its rank and merge it, or have it and overwrite it, and it is not the rank that merges, so
that the barrier is all that separates its writing from the merge (that what is said of it
holds of rank 0 and of later jobs, too, is proved). Two threads with two calls take
the vector through a growth in `push`, a reservation and a refusal. *requests*: an
operation, its completion, the next operation on the same handle and its completion take
four calls, and two threads overlap them. *record*: 4 bits and sizes up to 4 x 5 bytes
have products that fit, that just do not fit and that are far from fitting. *order*: two
ranks on two nodes and two threads in one of them have every pair of events that the
properties tell apart (same thread, process, node, or none); calls of one tick are shorter than
the cores' disagreement and those of two are not; the bounds of the properties are tight:
with any of them one tick smaller TLC finds the property violated.

Bounds in guards: `MaxCalls` (EventStore: calls of a thread; RequestTrace: calls of the
process, where `AllMade` is the end), `MaxRanks`, `MaxJobs`, `MaxFaults` (TraceJob),
`Handles` (RequestTrace: no more operations are in progress than there are handles),
`MaxTime` and `MaxCalls` (TraceOrder: ticks, and calls of all threads; `Over` is the end).
`CallRecord` has no bound but its sets of values: any number of calls follow each other.

Symmetry is used only in *requests* (threads and handles, invariants only).

## 4. Fairness

`EventStore`: `WF(Lock(t))` and `WF(Critical(t))`. A thread in the tracer is a running
thread; the critical section neither waits for another thread nor for MPI. No thread is
promised a contended mutex (the futex-based `Mutex` is not fair): `FinalizeReturns` does
not need it, as MPI_Finalize is called when no other thread is in MPI. Nothing is assumed
of `Enter` or `PmpiReturns`: an application may stop calling MPI, and a receive may wait
for ever.

`TraceJob`: `WF` of the tracer's and MPI's steps on each rank (a barrier that everybody
entered lets everybody go; a rank keeps running), of the merge on rank 0, and of
`LauncherKills`: mpirun ends a job one of whose ranks died or panicked. Nothing is
assumed of the application (`Finalize`) or of failures.

`RequestTrace`, `CallRecord` and `TraceOrder` state no liveness and assume no fairness.

## 5. Proofs

All theorems hold for every value of the constants: any set of threads, any number of
calls, ranks, jobs and failures.

*EventStoreProofs.* The inductive invariant `IInv` (theorem `Invariance`) adds to the
properties what they need to be inductive: who holds the lock in which `pc`, that a
thread past `Push` has read the current length (so that `Write` really appends), that the
capacity covers the slot from `Push` on, what `phase` says of the main thread, and how
`SettledCount` relates to the vector and the dropped calls. From it follow `TypeCorrect`,
`Exclusion`, `StoresInBounds`, `NothingLost`, `Ordered` and `CompleteFileIsWhole`; the
action property `VectorOnlyGrows`; and `ImplementsLog`: `Write` is the log's `Accept`,
`ReserveFails` its `Lose`, `Save` its `Save`, every other step stutters.

Two theorems are about MPI_Finalize under errors. `OnlyRefusalSkipsSaving` delimits the
finding *store_finalize*: a refused reservation for MPI_Finalize's own event is the one way
to get past serialize. `FinalizeFindsMutexFree` is the part of `FinalizeReturns` that is no
liveness: no path, an error's included, leaves the mutex locked behind it.

*TraceJobProofs.* Its `IInv` relates the barriers to `pc` (nobody is past a barrier that
somebody of the job has not entered, so that no rank writes while rank 0 merges), what rank 0
has read to the files (`acc` is the union of the files no longer in `todo`), and a job
without a fault to the absence of torn files among its ranks. From it follow
`TypeCorrect`, `MergeIsExact`, `UndisturbedJobsSucceed`, `FilesAreFrozen` and
`ImplementsDir`: `WriteMerged` is the abstract `Publish`, although rank 0 read the files
one after the other.

`FinalizeEnds` is liveness and out of this prover's reach; the two facts that it rests on
are proved. `NobodyStuck`: when every rank has called MPI_Finalize and none ended badly,
some rank is not `Waiting` (in a barrier, or for a file that is not there) until the job is
over. `OnlyForward`: every step of a job takes a rank to a later stage or a file off rank
0's list, so that there are finitely many. Both need `WaitInv`, inductive relative to
`IInv`: a rank past the first barrier has entered it, and what rank 0 has still to read
exists. That fairness turns the two into `FinalizeEnds` is what TLC checks.

`StaleFilesAlone` delimits the finding *job_only_this*: a merged trace has events of other
jobs exactly if there is a complete trace file that no rank of the job wrote. It needs
`AgeInv`: a file of a rank has no trace of the current job unless the rank wrote it in this job.

*TracedRankProofs.* First, the composition behaves like each of its parts
(`ImplementsJob`, `ImplementsProcess`): its every step is one of theirs or leaves them alone.
All that is proved of either therefore holds of both together, `EventStoreProofs` being
instantiated with the composition's variables (`SameProcess`). Then `Link` is inductive: the
two are in step, the process has done nothing before its job, and its trace is in no file and
not in what rank 0 has read unless the process completed its file. With the process's
`SavedWhole` it follows that wherever the trace is, it stands for all calls of the process
(`TracesStandForCalls`); with the job's `UndisturbedWorks`, that the merged trace has
every call of every rank, as the rank followed is any (`CallsAreMerged`); with the barriers,
that from the second one on nothing happens in any process of the job (`MergingIsQuiet`).

*RequestTraceProofs.* A start and its completion are registered in any order, so the
properties of the trace are not inductive. The invariant is about `Made`, the calls that
PMPI has returned from, in the trace or not: an operation is started once and freed once, in
this order (`Once`), a handle in use belongs to an operation not freed yet (`InUse`,
`Held`), and of two operations with one handle, one gave it back before the other got it
(`OneAfterTheOther`), by the readings of the counter. The trace is a part of `Made`, and
`LatestStartMatches` and `LifetimesAreDisjoint` follow, in either language.
`CompletionsTraced` needs the C wrappers and says so (`ASSUME Language = "c"`), and so does
`TestsAreRecorded`: what *requests_fortran* finds violated holds in C.

*CallRecordProofs.* `Faithful` says what an `MpiCall` keeps of its call, in either
language; each wrapper's record has it, and `dispatch` of such a record is an event that
means the call (`EventsMeanCalls`) and has its bytes modulo the width (`BytesAreKept`). The
proof goes through every kind of call and every member, so that it is also a check of the
fifteen argument lists. Three more theorems say where the code does what the findings
about the records say it does not: in C, for reductions and the status
(`ReductionsAreIdentifiedInC`, `StatusesAreReturnedInC`, the latter also for MPI_Wait in
Fortran), and in both languages for receives that name their source and are filled by the
message (`FullReceptionsAreRecorded`). They need `KeptInv`: the status stays the wrapper's
until it returns, and an event has all the fields of its type.

*TraceOrderProofs.* The invariant says what stamps are worth (`Legit`: true time plus
disagreement, duration the unsigned difference), that a thread's calls follow each other
(`Serial`, `Distinct`), that MPI_Finalize's reading comes after every rank arrived and every
call ended (`Finalizing`), and that the sorted part has no stamp greater than those left
(`Sorting`). `DurationsAreRight` is then modular arithmetic, `MergedInOrder` and
`FinalizesComeLast` arithmetic on two stamps.

The assumptions are those on the constants: `Main` is a thread, `NoThread` is none, the
null request is no handle, the sets of argument values are sets of numbers, the counters
disagree by at most `NodeSkew` and `CoreSkew`, a duration's width holds the time of a job
plus `CoreSkew` (with 64 bits, decades), bounds are natural numbers.

`TracedRank` assumes of its constants that `Me` is a rank and `Followed` a job.

Model-checked only: `HolderLeaves`, `FinalizeReturns` and `FinalizeEnds`, liveness, which
this prover does not do. `HolderLeaves` says that the thread in the critical section leaves
it: every step of `Critical` but `AllocAborts`, which ends the process, takes it closer.

## 6. Findings

The violated runs above. Further disagreements met on the way, without a run of their own:

* MPI_Recv records its source argument, which for MPI_ANY_SOURCE is no rank, and the size of
  its buffer, whatever arrived (`ReceptionRecorded`, `interpol-c.c:175-177`); `mpi_recv.rs:11-12`
  says the ranks "involved in the communication" and "the number of bytes exchanged".
  `FullReceptionsAreRecorded` says when the two agree.
* `interpol.rs:50` says that the program does not panic if allocation fails; the
  reservation does not cover the first event, nor its `Box`, and a failure there aborts
  (`AllocAborts`).
* Every Fortran wrapper with a communicator records the conversion of an address
  (`FortranPointToPoint` etc.); *record_fortran* shows it for MPI_Ireduce.
* A reduction of the application's has an `op_type` that the Rust enum lacks: the event may
  come out with any (`Dispatch`).
* MPI_Igather and MPI_Iscatter ask for the size of a type that MPI ignores at some ranks
  (`TypeSizeAborts`, `Measured`): a legal call may end the program.
* Byte counts wrap at 4 GiB (`BytesKept` says how).
* The documentation of the point-to-point and synchronization events says the counter is
  read with `rdtscp` and `lfence`; the wrappers use the unfenced `rdtsc`.

## 7. Not modelled

* Two jobs at the same time in one directory, foreign files in it, and nodes that do not
  share it. Nothing in the library says that jobs may share a directory; with two of them
  no property of the merged file is left to state.
* Counters of different or changing frequency: the library compares ticks of all ranks as
  they are, which then means nothing.
* Poisoning of the mutex: what runs under it aborts, it does not panic.
* The `MPICH_NAME == 1` branches of the Fortran wrappers, compiled for another MPI.
* serde and the code derive_builder generates, taken to be right but for missing fields;
  the contents of JSON.
* The empty event types, the script and the build have no behaviour to model.

## 8. Plan

Done: 1. `EventStore` with `EventLog`. 2. `TraceJob` with `TraceDir`. 3. `RequestTrace`.
4. `EventTypes` and `CallRecord`, with insignificant arguments, unset values and the status.
5. `TraceOrder`. 6. Proofs of every safety property that a passing run checks.
7. `TracedRank`, the composition of a process with the ranks and jobs around it, in the
place of `<<rank, job>>`, checked and proved. 8. The safety cores of the two liveness
properties of MPI_Finalize, and theorems that delimit the findings.

Left: the content of the calls under the composition (an `<<t, k>>` of `EventStore` is one
of `CallRecord`'s calls, with `TraceOrder`'s stamps), which would state the order and the
meaning of the merged events in one property; and `TraceJob` with two jobs at the same time,
should the library ever support it.
