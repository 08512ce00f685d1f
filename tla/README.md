# Verification of rbtrace

TLA+ models, TLC runs and TLAPS proofs for rbtrace, a tracing system in which
programs write fixed-size records into a ring in shared memory and a daemon
writes the ring to a trace file. The modules are translated from the C code;
`PROJECT.json` maps each definition to the lines it stands for.

## 1. The system

| Component | Where | State | Operations |
|---|---|---|---|
| ring writers | `rbtrace.c` | `ring_info` (`ri_slot`, `ri_flush`, `ri_lost`, `ri_cir_off`, `ri_alt_off`) and two buffers of `rc_size` entries, all in shared memory | `rbtrace()`: take a ticket, find the entry, store; or swap the buffers, discard one, spin, lose the record |
| flush thread | `rbtrace_backing.c` | `ring_file_data` (fd, seek), the header in memory, locals of `rbtrace_write_data()` | wait (timed), open, write the inactive buffer, write the active one, report losses, close |
| control interface | `rbtrace_backing.c`, called by `rbt.c` | `ri_flags`, `ri_file_path`, `*fsize_ptr` in shared memory | open, close, size, wrap, zap, traffic flags, info |
| trace file | written by the flush thread | header with `wrap_pos`, entries | append, wrap, zap, stop at the limit |
| prbt | `prbt.c` | none | print the header, a summary, the entries in order |
| rbtbench | `rbtbench.c` | mutex, condition variable, `ready_threads`, `x` in shared memory | fork, gather, broadcast, share the operations, join |
| rbtraced | `rbtraced.c`, `rbtrace_daemon_init/exit()` | pid file, shared memory and semaphore names | start, signal, stop |
| clients | `rbtrace_init/exit()` | the mapping of the shared memory | attach, detach |

**Interaction.** Writers, the flush thread and the `rbt` process share
`ring_info` without any lock. Writers use atomic operations on `ri_slot`,
`ri_flush` and `ri_lost` and plain stores on the offsets. The flush thread reads
the same fields, resets two of them atomically, and calls `rbtrace()` itself to
report losses. `rbt` resets three of them with plain stores and talks to the
flush thread through bits of `ri_flags`. A semaphore only wakes the flush thread;
it also wakes by itself every `RBTRACE_THREAD_WAIT_SECS`. `prbt` reads the file.
Daemons and clients find each other by three names (pid file, shared memory,
semaphore) that each can be removed by somebody else than its maker.

**What is hard.** The protocol that hands a buffer over (a ticket that is exactly
`rc_size`, a counter that doubles as a lock), the entry computed from two values
read at different times, a copy and a `memset` that run beside slow writers, loss
counters that three parties take, a reset by `rbt` in the middle of all of it,
flags that `rbt` and the daemon change with loads and stores that overlap, a file
whose header and data are written separately, and a daemon that signals reach at
any point of its start and end. None of this can be provoked reliably by a test.
`PROJECT.json` lists the hazards by line.

**What makes it correct.** Stores stay inside the ring; two writers of an entry
belong to different rounds; a loss is known until it is reported, or its report is
lost or reset; unless a write failed, a record reaches the file at most once, and only
if somebody traced it; calls return, hand-overs are taken, closes are carried out; `prbt` prints the entries oldest first and without gaps;
the file respects its limit and survives a kill; commands one at a time do what they
ask for and no request stays unanswered; one daemon is at work at a time, it ends
when it is told to and leaves no name behind, and its flush thread never touches
memory that is unmapped; a thread of the benchmark that waits for the start gets it
together with all others, and each operation is done once.

## 2. Modules

| Module | Models |
|---|---|
| `RbtRing` | the steps of a thread inside `rbtrace()`. One action per access to shared memory; `pc[t]` names the statement, `call`, `depth`, `due`, `slot`, `re`, `temp`, `cnt` are the locals; `due[t]` holds the loss counts of the reports a thread is making |
| `RbtFlusher` | the flush thread beside the writers: `fpc` names its statement; `file` is the sequence of all entries it wrote, `torn` the places in it that failed writes had written, `fd` whether a file is open |
| `RbtTrace` | the composition with `rbt -o` and `rbt -c`, the specification, the properties |
| `LossyLog` | the abstract specification: records are traced, a log grows by records traced and not yet logged, or by filler; a write that fails tears the last entries, which then do not count as logged |
| `RbtTraceProofs`, `RbtLogProofs` | the theorems about `RbtTrace` |
| `PrbtProofs`, `RbtFileProofs` | the theorems about `Prbt` and about the trace file |
| `RbtbenchProofs`, `RbtracedProofs` | the theorems about the benchmark and the daemons |
| `RbtCtlProofs` | the theorems about the control interface |
| `Prbt` | what `prbt` prints of a file, as operators |
| `RbtFile` | the file as the flush thread lays it out, with all requests that affect it |
| `Rbtbench` | the benchmark's start-up, work and end |
| `RbtCtl` | the flags: `rbt` processes with the requests they have still to make (`todo`, in the order of `Turn`) and the flush thread; a change of a flag word is a `Load` and a `Store` (`rmw` holds the changes still to make, `old` the word loaded) |
| `Rbtraced` | instances of the daemon (`pc`, `thread`), the three names, the pid file's lock, clients |
| `MCRing`, `MCFile`, `MCBench`, `MCCtl`, `MCDaemon` | the instances for TLC |

`RbtTrace` and `RbtFile` look at the same thread from two sides. `RbtTrace` has
the shared memory in every detail and takes the file for a sequence that never
reaches its limit. `RbtFile` has file descriptor, offsets, header and limit and
takes the buffers for runs of fresh entries. What crosses the border is stated:
a flush of the active buffer in `RbtFile` may have more entries than a buffer
(`MaxFlush`), because `RbtTrace` shows that it can. `RbtCtl` looks at the same
handlers from a third side: it leaves ring and file out (a buffer may be full
whenever the thread looks, and may reach the limit) and has the flags in every
detail. `Rbtraced` has the thread's life around all of it; a pass of its loop is
one step.

### Abstractions

* An entry is one value: a record `<<p, n>>` (the n-th call of producer p),
  `RBT_LOST` or `RBT_NULL` (zeros). Its time, cpu and thread stamp is left out,
  and its fields are stored in one step.
* `pwrite()` and `memset()` of a buffer take one entry per step in `RbtFlusher`. A
  write can fail after any number of entries (`CopyFails`): `safe_pwrite()` goes on
  after a short write and may then meet an error. What was written stays in the file,
  the buffer is not cleared, and its records can be written again; in wrap mode the
  next write goes elsewhere, so that both copies stay. The places of such entries are
  in `torn`. An entry that was written in part counts as written or as not written.
* A flush that runs past the ring (section 5) finds the padding of the last page and
  then memory that is not mapped, where `pwrite()` first comes back short and then
  fails: `Load` reads the padding as zeros, and `CopyFails` is the failure.
* `RbtFlusher` tests `DO_CLOSE`, `DO_OPEN` and `DO_DISK` in three steps, as the code
  does, and so does `RbtFile`. A close and an open can come between them;
  `rbtrace_write_header()` then finds a file open and closes it, and the pending close
  has none: `rbtrace_write_data()` crashes (`WriteNoFile`).
* A buffer that is discarded counts as `rc_size` lost records, as in the code. A
  `RBT_LOST` record counts as a report once it is stored in the ring; it can be
  discarded later with the buffer it is in, like any other record.
* There is one ring (`RBTRACE_RING_MAX` is 1), so the ring number that the
  semaphore's users pass along is left out. The semaphore is left out as well: the
  flush thread's wait may return at any time, which covers every signal, lost,
  early or spurious.
* `volatile` fields are read and written in program order, as on the x86 the
  repository names as its platform.
* A change of `ri_flags` is one step in `RbtTrace` and `RbtFile`. The C code uses
  `|=` and `&=`, which can lose a change made by another process; `RbtCtl` has that.
  A test of several flags in a row is one step in `RbtCtl` where it decides between
  the branches at the size limit.
* `KillSafe` looks at the file between any two calls of the flush thread; a
  `pwrite()` of a buffer is one such call.
* In `Rbtraced` an object is named after the instance that made it, so that each
  instance is started once; a restart is another instance. Clients of one process
  do not share. A signal during `sem_wait()` at `rbtrace_backing.c:429` may end
  the wait, which POSIX allows and the code does not test; where `signal()`
  restarts calls the behaviours are a subset. `ftruncate()`, `mmap()` and
  `memset()` of the shared memory are one step. The set-up of limit, flags and offsets
  behind `sem_open()` is another (`InitTraceInfo`); a client can attach itself between
  the two. All instances use one pid file: the default is relative to the working
  directory (`rbtraced.c:17`), so instances started elsewhere, or with `-p`, have
  another one and exclude nobody. They are outside the model.
* In `Rbtbench` a wait at the condition variable may return early
  (`SpuriousWakeup`): the code waits once and tests nothing afterwards.
* `Prbt` takes a file without a complete header as refused. After a short read
  `parse_trace_header()` returns `errno`; should that be 0, `prbt` would go on with what
  it has read. No property depends on it.
* History variables, read by properties only: `round`, `drawn`, `owed`, `forgot` in
  `RbtRing`; `torn` in `RbtFlusher`; `overtaken` in `RbtTrace`; `serial`, `cur`, `base`,
  `regular` in `RbtFile`; `ran`, `early` in `Rbtbench`; `want`, `calm` in `RbtCtl`;
  `ready`, `littered` (an instance was killed), `pidleft` (one exited by itself because
  it could not lock or write the pid file) and `stolen` in `Rbtraced`.

## 3. Runs

| Run | Instance | Shows |
|---|---|---|
| `ring` | 3 producers × 2 calls, 2 entries per buffer, 1 spin, 4 calls and opens together | `TypeOK`, `OneWriterPerRound`, `LossAccounting`, `AtMostOnce`, `ImplementsLossyLog` |
| `live` | 2 producers × 1 call, 1 entry per buffer, 2 spins, 3 calls and opens together | `LossAccounting`, `CallReturns`, `HandOverTaken`, `CloseDone` |
| `file` | buffers of 2, limits 4 and 6, 5 inactive buffers, 2 opens, 2 changes, 2 zaps, 1 failure | `TypeOK`, `PrintsLatest`, `KillSafe`, `SummaryAgrees`, `FileBounded` |
| `bench` | 2 processes × 2 threads, 3 operations | `TypeOK`, `StartTogether`, `EachOpOnce`, `TracesAttached`, `AllEnd` |
| `ctl` | 2 `rbt` processes, 3 commands out of 6 kinds, 1 header that fails | `TypeOK`, `CalmHonoured`, `CalmSurvives`, `RequestsEnd` |
| `daemon` | 3 instances of rbtraced, 1 client, 1 signal pending, 1 failure or kill | `TypeOK`, `NamesCleaned`, `FlushMapped`, `AttachReady`, `SoleDaemon` |
| `term` | 2 instances, 2 signals pending, 1 `rbtraced -v`, 1 failure or kill | `TermEnds` |
| `swap_guard`, `wedge`, `overrun`, `closed_file`, `no_file` | as above | a disagreement each, section 5 |

**Why the bounds suffice.** Two entries per buffer distinguish the first, the last
and the ticket behind the last. With three producers and the flush thread there are
four writers, so that one can be late, one swap, one retry and one report a loss. `MaxWork`
bounds calls of `rbtrace()` and opens of a file together: up to four calls without a
file, three with one, or two with two, among them an open that overtakes a close. Four
calls and the reports that losses cause fill a buffer, swap it and reach the discard.
In `live` a buffer has one entry, so that two calls are enough for the flush thread to
collect a discarded buffer: `LossAccounting` is checked there as well, with a mutant
that only this run notices, and with two opens a close can be overtaken. The other
invariants of `ring`, and those of `file`, `bench`, `ctl` and `daemon`, are proved for
all bounds, so the part of these runs is to show that the interesting steps happen. In
`file`, five buffers against limits of three and
five entries make a file wrap and complete a second lap, also with a partial buffer
at the end; flushes of a partial buffer make laps end inside a page of `prbt` as
well as at its end.

What the properties of the less obvious runs say:

* `LossAccounting`: `owed` counts the records lost, less those that a stored `RBT_LOST`
  record announced. What is still known (`Known`: the two counters, the count the flush
  thread took, and the counts in the hands of threads that are reporting) is never more
  than that, and exactly that until a count is dropped. That happens, and only so, when
  a report is lost itself or when `rbt -o` sets the counters to 0 (`forgot`).
* `AtMostOnce`: no record is in the file twice at places that no failed write had
  written. So whatever a failed write left behind, its records are written with
  success at most once.
* `CloseDone`: a close is carried out and leaves no file open; if an open was requested
  while it was pending (`overtaken`), the daemon may crash instead, as in `no_file`.
* `StartTogether`: a thread whose wait did not return early starts only when all others
  have left their wait. One that returns early starts by itself; it neither releases
  another nor makes the parent broadcast too soon.
* `KillSafe`: wherever a daemon is killed, an open file prints; at worst the buffer
  whose header was not yet written comes first.
* `CalmHonoured`, `CalmSurvives`: commands given one at a time, each in a settled
  state, leave exactly the modes, flags, limit and file they ask for, although the
  flush thread changes the same word meanwhile, and do not crash it. Not so if a file
  reaches its limit while `rbt` is at work; the flush thread then closes or reopens
  the file between the tests of `rbt`. Nor after a zap whose next file could not be
  opened, whether or not an `rbt` is at work: `DO_DISK` is then set without a file, and
  the next write crashes (`no_file`). `Honour` is what a command is meant to do.
* `RequestsEnd`: with any overlap, requests to open and close come to an end. One that
  the store of another process overwrites has ended too; that none is lost in this way
  is said by `CalmHonoured` only, for commands one at a time.
* `FlushMapped`: `rbtrace_daemon_exit()` joins the flush thread only if it is active. If
  it is not, it will see `terminate` before it touches anything: each writes its own
  flag before it reads the other's. Both post a semaphore in between, which orders the
  store before the load on the x86 as well.
* `AttachReady`: the old semaphore is removed before the new memory is made, and the new
  one made after the memory was cleared, so that `rbtrace_init()` succeeds only with
  memory that has its size. The rings are set up in it (`ready`), or will be: limit,
  flags and offsets are stored after `sem_open()` (`rbtrace_backing.c:403-414`). An
  `rbt` that gets in between has its request overwritten, and a client that traces
  then finds both buffers at offset 0. The property says that this window is the only
  exception while the daemon lives. A client may also have mapped memory that its
  daemon gave up, or left behind when it was killed, and then find the semaphore of the
  next daemon; or there are two daemons (`stolen`).
* `SoleDaemon`: two daemons are at work at a time only if the pid file was removed
  under an instance that had it open (`stolen`). That does happen: by `rbtraced -v`
  or `-h`, and when one instance unlinks the file between the `open()` and the
  `lockf()` of another, for which three instances are needed.
* `NamesCleaned`: when all instances have ended and none was killed, shared memory and
  semaphore have no name left. Nor has the pid file, unless an instance could not lock
  or write it: `create_pid_file()` then exits and leaves it (`rbtraced.c:96-106`).
* `TermEnds`: no signal is slept through.

Three instances in `daemon` let one end, one hold a file without a name and one make
a new one. `term` leaves the clients out, which `TermEnds` does not depend on; in
return it has a second signal and `rbtraced -v`. Three commands in `ctl` are
enough to open, change and close, and for two of them to overlap.

**Deadlock** is not checked: the system really may stop. Calls, commands and instances
come to an end, and in `RbtTrace`, `RbtFile` and `RbtCtl` the flush thread, which could
otherwise always wake, may have crashed for want of a file; in `RbtFile` a bound on
zapped files may stop it too. In `Rbtbench` a failed `rbtrace_init()` in
the parent really leaves the children waiting forever.

**Fairness.** A thread inside `rbtrace()`, an `rbt` process inside a request and
the flush thread are scheduled by the operating system and block nowhere (the wait
of the flush thread is timed), so each has weak fairness as a whole; which step it
takes is up to its program (`FlushThread`: it may be inside `rbtrace()` with a report). Nothing forces a program to trace or a user to
open or close. In `Rbtbench` threads compete for a mutex that others release again
and again, so threads and the parent's polling have strong fairness, and the
failure of `rbtrace_init()` and a wait that returns early have none. In `RbtCtl` the flush thread, whose wait is
timed, and every `rbt` process that was started have weak fairness; in `Rbtraced`
`main()` and the flush thread of each instance do. Starting an instance, a command, a
signal, a fault and what clients do are never forced.

Each property of a passing run has a mutant in `PROJECT.json`: a change of one
definition, written in the same module, that a plausible mistake in the code would
make and that the run must notice.

## 4. Proofs

Each theorem holds for every value of the constants. An inductive invariant was
checked with TLC on the run's instance before it was proved; each part is shown to hold
initially and to be preserved by every action, one step per action.

**Ring and flush thread** (`RbtTraceProofs`, `RbtLogProofs`). For every set of
producers, every buffer size, spin count and number of calls and opens (assumptions
`SizeAssumption`, `ThreadAssumption`, `CallsAssumption`, `EntryAssumption`,
`WorkAssumption`; the sizes are positive, the flush thread is not a producer, and the
two special entries are not records):

* `TypeCorrect`: `Spec => []TypeOK`. Not inductive alone: the entry computed from
  `ri_cir_off` and the ticket is in the ring only if the ticket is below
  `rc_size`, which `TicketOK` adds.
* `WritersApart`: `Spec => []OneWriterPerRound`. `RoundInv` adds that a ticket held
  belongs to no later round than the current one, that tickets of the current
  round are not above `ri_slot`, and that tickets of one round differ.
* `WrittenAtMostOnce`: `Spec => []AtMostOnce`. This does not depend on which buffer a
  flush picks, how far it reads or where a write fails. `OnceInv` says where
  a record can be: in at most one entry of the ring, at most once in the file outside
  `torn`, only after its call stored it, and in both places only while its entry lies
  between what the flush thread has copied and what it has cleared (`InFlight`). When a
  write fails, what it has copied becomes torn and is in flight no longer. `CallInv` says
  that a thread stores the record of its current call only.
* `LogImplemented`: `Spec => ImplementsLossyLog`, the refinement with `traced` as the
  calls made so far, `log` as the file and `torn` as itself.

**Trace file** (`PrbtProofs`, `RbtFileProofs`). For every buffer size, set of limits and
number of files, requests, writes and faults (`FileAssumption`: a buffer is not empty, a
flush can be as long as a buffer, there is a largest limit, and -1 is not a file):

* `PrintsAll`: the page loops of `prbt` print each entry once, from `wrap_pos` to the end
  and then from the beginning up to `wrap_pos`, however the pages divide the file. The
  loop is a recursive function over the pages. The proof names the function that it
  should be, shows that this one satisfies the recursion, and that no other does: a first
  page that differed would make the next one differ, up to a page behind the end
  (`LeastNat` gives the least distance from it).
* `FileTypeCorrect`: `Spec => []TypeOK`. `FileType` adds that the open file is the one
  opened last and that `rbtrace_write_data()` has a file until its limit test.
* `FileStaysBounded`: `Spec => []FileBounded`. `RequestInv` says that a request the flush
  thread works on stays set and that an inactive buffer is full, `CloseInv` that a flush
  of a regular file is requested only together with its close. `SizeInv` then says how
  far the next write position may be beyond the limit at each statement: not at all
  outside the limit test, or, once a close is requested, by what the flush thread can
  still write (`Inactive`, `Active`).
* `SummaryCorrect`, `OldestFirst` and `KilledAnywhere`: `Spec => []SummaryAgrees`,
  `[]PrintsLatest` and `[]KillSafe`. All three follow from `LayoutInv`: the entries before
  the next write position (`Pos`) are the newest and those from there on the oldest
  (`EntriesOK`), and the header on disk says where that is or is behind by the buffer
  under way (`HeaderOK`). It is inductive because `Pos` and the length stay multiples of
  the buffer size (`Whole`): a lap therefore ends exactly at the end of the file, and no
  buffer runs over it (`WholeGap`).

The last group showed that the file has to be new in one more sense than the model had
first said. When a zap has failed, `DO_DISK` is set with no file. A `rbt -c` and a
`rbt -o` between the flush thread's tests of `DO_CLOSE` and `DO_OPEN`, and one more
`rbt -c` just before it answers the first, then leave `DO_FLUSH` set without `DO_CLOSE`.
The next file, in wrap mode, starts with a partial buffer, its laps no longer line up,
and `prbt` prints it out of order. `regular` therefore also asks that no close or flush
is pending when the file is opened. The behaviour is far beyond the run's bounds (three
opens, three changes, 92 steps).

**Benchmark** (`RbtbenchProofs`), for every number of processes, threads and operations
(`BenchAssumption`):

* `AllStartTogether`: `Spec => []StartTogether`. `GatherInv` says who has counted itself
  ready and who waits at the condition variable: the parent broadcasts only when
  everybody else does, or has left its wait early.
* `OpsOnce`: `Spec => []EachOpOnce`. `OpInv` says that the numbers drawn so far are those
  traced and those held by threads about to trace, each by one.
* `BenchTypeCorrect` (`CountInv` bounds the two counters by the number of threads that
  have counted or drawn their last number) and `AttachedWhileTracing` (`AttachInv`: the
  threads of a process come to an end before its `main()`).

The proof of `OpsOnce` corrected the property: if every `rbtrace_init()` fails, all
threads have ended and nothing is traced, so `EachOpOnce` asks for one that did not fail.

**Daemons** (`RbtracedProofs`), for every set of instances and clients and every number
of signals and faults (`DaemonAssumption`):

* `FlushThreadMapped`: `Spec => []FlushMapped`. `FlushInv` follows the handshake: which
  of `terminate` and `active` is set at each statement of `main()` and of the thread.
* `OneDaemon`: `Spec => []SoleDaemon`. `PidInv` says that an instance at work holds the
  lock of the file it has open, and that, unless it was stolen, the name is that file.
* `NamesRemoved` and `AttachedReady`: `Spec => []NamesCleaned` and `[]AttachReady`.
  `NamesInv` gives for each name an instance that has yet to remove it, and says that
  there is no semaphore while a shared memory is made and that only an instance about to
  set up its rings has a semaphore without them.
* `TypeCorrect`: `Spec => []TypeOK`.

**Control interface** (`RbtCtlProofs`), for every set of `rbt` processes, every set of
commands made of any options and every number of commands and faults (`CtlAssumption`:
the flush thread is not an `rbt` process, and commands are sets of options):

* `CtlTypeCorrect`: `Spec => []TypeOK`. `CtlType` adds that a word that is loaded and not
  yet stored has bits of its own word only.
* `CalmNeverCrashes`: `Spec => []CalmSurvives`. `PhaseInv` says how far the flush thread is
  with its answer (`Quiet`, `Half` of a close asked for, `Opening`, `Closing`, `AtLimit`):
  for each phase the request bits, the file and the changes still to store. `OneInv` says
  why nothing is lost without a lock: at most one `rbt` process is at work, it asks for
  the opening or the close of a file last among its changes of the flags, so that it
  changes flags only while the flush thread does not, and a word that is loaded is
  therefore still the word when it is stored.
* `CalmCommandsHonoured`: `Spec => []CalmHonoured`. `WantInv` says that what was asked for
  is what the settings will be once the changes under way are stored (`Settings`) and the
  requests still to be made are honoured (`Honoured`). The lemma `HonouredFirst` takes the
  requests one by one in the order of `main()`; `PlainRbt` says that while the flush
  thread answers, only the limit and the traffic bits are left to change.

The premise is in the model, as the history variable `calm`: without it the properties are
false, because two `rbt` processes, or one and a file at its limit, do overwrite each
other's changes, and a failed zap leaves `DO_DISK` set without a file.

**Only model-checked:** the liveness properties, because the prover has no fairness; and
`LossAccounting`, which sums the counts in the hands of all threads, and what such a sum
is for any number of threads takes an induction that is out of the prover's reach.

## 5. Where code and words differ

* **The swap is not guarded** (`swap_guard`; `rbtrace.c:75-82`). The comment says
  that the swap is guarded by `ri_flush`. The counter is raised before the swap, so
  the flush thread may write the inactive buffer while the offsets change.
* **The ring can get stuck** (`wedge`; `rbtrace.c:119,128`). A retrying thread can
  draw the one ticket that would have made somebody swap. From then on every record
  is lost, until a file is opened.
* **A flush can leave its buffer** (`overrun`; `rbtrace_backing.c:189`). It takes
  `ri_slot + 1` entries even when `ri_slot` is past the end.
* **A closed file that cannot be printed** (`closed_file`; `rbtrace_backing.c:217`).
  A close at the end of a lap leaves `wrap_pos` behind the last entry.
* **No file** (`no_file`; `rbtrace_backing.c:180`). The error path for a missing
  file uses pointers that it has not set.

The theorems hold in spite of the first three: they cost records, never the typing or
the uniqueness of what is written.

## 6. Plan

Done: `RbtRing`, `RbtFlusher`, `RbtTrace`, `LossyLog`, `Prbt`, `RbtFile`, `Rbtbench`,
`RbtCtl` and `Rbtraced` with their runs; proofs of every invariant but `LossAccounting`,
and of the refinement.

Next: the two halves of an entry's store in `RbtRing` (stamp, arguments), to say which
mixtures a file can hold.

**Not modelled:** the texts of options and output of `rbt`, `rbtraced`, `prbt` and
`rbtbench`; the info request, which only reads; the filter of `prbt` on trace IDs; the
fork of `rbtraced -d`, another pid file (`-p`), which would be a second daemon beside
the lock, and a failing `sem_init()`; what becomes of a request stored in the window
before the rings are set up; the texts in the file header;
`update_coredump_filter()` and `mlock()`, which change nothing the system reads; the
two test programs, the shell scripts and the plots.
