----------------------------- MODULE Rbtbench -----------------------------
(***************************************************************************)
(* The benchmark (rbtbench.c): processes that share a mutex, a condition   *)
(* variable and two counters, the number of ready threads and the number   *)
(* of the operation started last.  The threads gather at the condition     *)
(* variable; the parent polls until all the others have counted themselves *)
(* ready, broadcasts, and then all of them share the operations.           *)
(*                                                                         *)
(* Thread <<p, 1>> is main() of process p, and process 1 is the parent.    *)
(* The mutex and the condition variable are those of POSIX: a wait may     *)
(* also return when nobody has broadcast, and no thread looks at anything  *)
(* again after its wait.  Calls of the C library succeed, except that      *)
(* rbtrace_init() fails when rbtraced is not there.                        *)
(***************************************************************************)
EXTENDS Integers, FiniteSets

CONSTANTS
  NrProcesses,  \* -p
  NrThreads,    \* -t
  NrTraces      \* -n

ASSUME BenchAssumption ==
  NrProcesses \in Nat \ {0} /\ NrThreads \in Nat \ {0} /\ NrTraces \in Nat \ {0}

Processes == 1 .. NrProcesses
Tids      == Processes \X (1 .. NrThreads)
Parent    == <<1, 1>>
Main(p)   == <<p, 1>>
None      == <<0, 0>>

VARIABLES
  mutex,          \* the thread that holds it, or None
  waiting,        \* threads blocked in pthread_cond_wait()
  ready_threads,
  x,              \* number of the last operation
  shm,            \* the shared memory has its name
  pc,             \* the statement of each thread
  op,             \* local x of do_bench(), 0 outside of it
  ran,            \* history: the operations that were traced, and by whom
  early           \* history: the threads whose wait returned without a broadcast

vars == <<mutex, waiting, ready_threads, x, shm, pc, op, ran, early>>
sync == <<mutex, waiting, ready_threads>>

Goto(t, label) == pc' = [pc EXCEPT ![t] = label]

Acquire(t) == mutex = None /\ mutex' = t
Release(t) == mutex' = None

-----------------------------------------------------------------------------
(* main() *)

(* The parent forks; a child goes on to map the shared memory, which the   *)
(* parent may have unlinked by then.                                       *)
Fork ==
  /\ pc[Parent] = "fork"
  /\ pc' = [t \in Tids |-> IF t = Parent THEN "init"
                           ELSE IF t = Main(t[1]) THEN "map" ELSE pc[t]]
  /\ UNCHANGED <<sync, x, shm, op, ran, early>>

Map(p) ==
  /\ pc[Main(p)] = "map"
  /\ Goto(Main(p), IF shm THEN "init" ELSE "exit")
  /\ UNCHANGED <<sync, x, shm, op, ran, early>>

(* rbtrace_init(), and the creation of the other threads of the process *)
RbtraceInit(p) ==
  /\ pc[Main(p)] = "init"
  /\ pc' = [t \in Tids |-> IF t = Parent /\ t = Main(p) THEN "poll"
                           ELSE IF t[1] = p THEN "lock" ELSE pc[t]]
  /\ UNCHANGED <<sync, x, shm, op, ran, early>>

InitFails(p) ==
  /\ pc[Main(p)] = "init"
  /\ Goto(Main(p), "failed")
  /\ UNCHANGED <<sync, x, shm, op, ran, early>>

(* A parent that counts itself among the ready threads. *)
PollOneShort ==
  /\ pc[Parent] = "poll"
  /\ Acquire(Parent)
  /\ Goto(Parent, IF ready_threads + 1 < NrProcesses * NrThreads - 1 THEN "sleep" ELSE "go")
  /\ UNCHANGED <<waiting, ready_threads, x, shm, op, ran, early>>

(* The parent, with the mutex held, finds that all others are ready and    *)
(* broadcasts; or it unlocks, sleeps and looks again.                      *)
Poll ==
  /\ pc[Parent] = "poll"
  /\ Acquire(Parent)
  /\ Goto(Parent, IF ready_threads < NrProcesses * NrThreads - 1 THEN "sleep" ELSE "go")
  /\ UNCHANGED <<waiting, ready_threads, x, shm, op, ran, early>>

Sleep ==
  /\ pc[Parent] = "sleep"
  /\ Release(Parent)
  /\ Goto(Parent, "poll")
  /\ UNCHANGED <<waiting, ready_threads, x, shm, op, ran, early>>

Broadcast ==
  /\ pc[Parent] = "go"
  /\ pc' = [t \in Tids |-> IF t \in waiting THEN "wake" ELSE IF t = Parent THEN "unlock" ELSE pc[t]]
  /\ waiting' = {}
  /\ UNCHANGED <<mutex, ready_threads, x, shm, op, ran, early>>

-----------------------------------------------------------------------------
(* benchmark_thread(), and main() of a child *)

(* A thread that counts itself ready before it takes the mutex. *)
ReadyFirst(t) ==
  /\ \/ pc[t] = "lock" /\ ready_threads' = ready_threads + 1
        /\ Goto(t, "late") /\ UNCHANGED mutex
     \/ pc[t] = "late" /\ Acquire(t) /\ Goto(t, "ready") /\ UNCHANGED ready_threads
  /\ UNCHANGED <<waiting, x, shm, op, ran, early>>

Ready(t) ==
  /\ pc[t] = "lock"
  /\ Acquire(t)
  /\ ready_threads' = ready_threads + 1
  /\ Goto(t, "ready")
  /\ UNCHANGED <<waiting, x, shm, op, ran, early>>

(* pthread_cond_wait(): the thread releases the mutex and blocks in one    *)
(* step, and takes the mutex again once it is woken.                       *)
CondWait(t) ==
  /\ pc[t] = "ready"
  /\ Release(t)
  /\ waiting' = waiting \cup {t}
  /\ Goto(t, "waiting")
  /\ UNCHANGED <<ready_threads, x, shm, op, ran, early>>

(* It is woken although nobody has broadcast. *)
SpuriousWakeup(t) ==
  /\ pc[t] = "waiting"
  /\ waiting' = waiting \ {t}
  /\ early' = early \cup {t}
  /\ Goto(t, "wake")
  /\ UNCHANGED <<mutex, ready_threads, x, shm, op, ran>>

CondReturn(t) ==
  /\ pc[t] = "wake"
  /\ Acquire(t)
  /\ Goto(t, "unlock")
  /\ UNCHANGED <<waiting, ready_threads, x, shm, op, ran, early>>

Unlock(t) ==
  /\ pc[t] = "unlock"
  /\ Release(t)
  /\ Goto(t, "bench")
  /\ UNCHANGED <<waiting, ready_threads, x, shm, op, ran, early>>

-----------------------------------------------------------------------------
(* do_bench() *)

(* One operation too many. *)
BeginOneMore(t, n) ==
  /\ op' = [op EXCEPT ![t] = IF n <= NrTraces + 1 THEN n ELSE 0]
  /\ Goto(t, IF n <= NrTraces + 1 THEN "trace" ELSE IF t = Main(t[1]) THEN "join" ELSE "done")

(* Where a thread goes with operation n. *)
Begin(t, n) ==
  /\ op' = [op EXCEPT ![t] = IF n <= NrTraces THEN n ELSE 0]
  /\ Goto(t, IF n <= NrTraces THEN "trace" ELSE IF t = Main(t[1]) THEN "join" ELSE "done")

(* A counter that is read and incremented in two steps. *)
TakeUnatomically(t) ==
  /\ \/ /\ pc[t] = "bench"
        /\ op' = [op EXCEPT ![t] = x + 1]
        /\ Goto(t, "store")
        /\ UNCHANGED x
     \/ /\ pc[t] = "store"
        /\ x' = op[t]
        /\ Begin(t, op[t])
  /\ UNCHANGED <<sync, shm, ran, early>>

(* (x = __sync_add_and_fetch(&ctx->x, 1)) <= opts.nr_traces *)
Take(t) ==
  /\ pc[t] = "bench"
  /\ x' = x + 1
  /\ Begin(t, x + 1)
  /\ UNCHANGED <<sync, shm, ran, early>>

(* The start and the end of an operation are traced. *)
TraceOp(t) ==
  /\ pc[t] = "trace"
  /\ ran' = ran \cup {<<op[t], t>>}
  /\ op' = [op EXCEPT ![t] = 0]
  /\ Goto(t, "bench")
  /\ UNCHANGED <<sync, x, shm, early>>

-----------------------------------------------------------------------------
(* The end of main() *)

(* A main() that waits for the children only. *)
JoinChildren(p) ==
  /\ pc[Main(p)] = "join"
  /\ p = 1 => \A q \in Processes \ {1} : pc[Main(q)] = "exit"
  /\ Goto(Main(p), "out")
  /\ UNCHANGED <<sync, x, shm, op, ran, early>>

(* main() joins the other threads of its process; the parent also waits    *)
(* for the children.                                                       *)
Join(p) ==
  /\ pc[Main(p)] = "join"
  /\ \A i \in 2 .. NrThreads : pc[<<p, i>>] = "done"
  /\ p = 1 => \A q \in Processes \ {1} : pc[Main(q)] = "exit"
  /\ Goto(Main(p), "out")
  /\ UNCHANGED <<sync, x, shm, op, ran, early>>

(* The parent removes the name of the shared memory. *)
Out(p) ==
  /\ pc[Main(p)] \in {"out", "failed"}
  /\ shm' = (shm /\ p # 1)
  /\ Goto(Main(p), "exit")
  /\ UNCHANGED <<sync, x, op, ran, early>>

-----------------------------------------------------------------------------

MainStep(p) == Map(p) \/ RbtraceInit(p) \/ Join(p) \/ Out(p)

ThreadStep(t) ==
  Ready(t) \/ CondWait(t) \/ CondReturn(t) \/ Unlock(t) \/ Take(t) \/ TraceOp(t)

ParentStep == Fork \/ Poll \/ Sleep \/ Broadcast

Init ==
  /\ mutex = None /\ waiting = {} /\ ready_threads = 0 /\ x = 0
  /\ shm = TRUE
  /\ pc = [t \in Tids |-> IF t = Parent THEN "fork" ELSE "none"]
  /\ op = [t \in Tids |-> 0]
  /\ ran = {}
  /\ early = {}

Terminated == \A p \in Processes : pc[Main(p)] = "exit"

Next ==
  \/ ParentStep
  \/ \E p \in Processes : MainStep(p) \/ InitFails(p)
  \/ \E t \in Tids : ThreadStep(t) \/ SpuriousWakeup(t)
  \/ Terminated /\ UNCHANGED vars

Spec == Init /\ [][Next]_vars

(* Every thread is scheduled and obtains the mutex if it is free again and *)
(* again; rbtrace_init() is not forced to fail, nor a wait to return early. *)
Fairness ==
  /\ SF_vars(ParentStep)
  /\ \A p \in Processes : WF_vars(MainStep(p))
  /\ \A t \in Tids : SF_vars(ThreadStep(t))

FairSpec == Spec /\ Fairness

-----------------------------------------------------------------------------

Labels ==
  {"none", "fork", "map", "init", "poll", "sleep", "go", "lock", "ready", "waiting",
   "wake", "unlock", "bench", "trace", "done", "join", "out",
   "failed", "exit"}

(* Every variable has its type; no counter exceeds what the options allow. *)
TypeOK ==
  /\ mutex \in Tids \cup {None}
  /\ waiting \subseteq Tids
  /\ ready_threads \in 0 .. NrProcesses * NrThreads
  /\ x \in 0 .. NrTraces + NrProcesses * NrThreads
  /\ shm \in BOOLEAN
  /\ pc \in [Tids -> Labels]
  /\ op \in [Tids -> 0 .. NrTraces]
  /\ ran \subseteq (1 .. NrTraces) \X Tids
  /\ early \subseteq Tids

(* A thread whose wait did not return early starts to trace only after     *)
(* every other thread has left its wait, by the broadcast or early, and    *)
(* whichever rbtrace_init() has failed: threads that return early, which   *)
(* no condition holds back, neither release the others nor make the parent *)
(* broadcast too soon.                                                     *)
Woken   == {"wake", "unlock", "bench", "trace", "done", "join", "out", "exit"}
StartTogether ==
  (\E t \in Tids \ early : pc[t] \in {"bench", "trace"}) => \A t \in Tids : pc[t] \in Woken

(* Every operation is traced by one thread, and when all threads have      *)
(* ended, some of them not because an rbtrace_init() failed, every one of  *)
(* them has been traced.                                                   *)
EachOpOnce ==
  /\ \A r, s \in ran : r[1] = s[1] => r = s
  /\ /\ \A t \in Tids : pc[t] \in {"done", "join", "out", "exit"}
     /\ \E t \in Tids : pc[t] # "exit"
     => {r[1] : r \in ran} = 1 .. NrTraces

(* main() unmaps the counters and calls rbtrace_exit(), after which ri_ptr *)
(* still points to unmapped memory: no thread of its process may wait at   *)
(* the condition variable, count or trace any more.                        *)
TracesAttached ==
  \A t \in Tids :
    pc[Main(t[1])] \in {"out", "failed", "exit"} => pc[t] \in {"none", "done", pc[Main(t[1])]}

(* Nobody sleeps through the broadcast: if rbtrace_init() succeeds in      *)
(* every process, all of them end, also when some started early.           *)
AllEnd == [](\A p \in Processes : pc[Main(p)] # "failed") => <>Terminated

=============================================================================
