-------------------------- MODULE RbtbenchProofs --------------------------
(***************************************************************************)
(* Proofs about Rbtbench for any number of processes, threads and traces.  *)
(***************************************************************************)
EXTENDS Rbtbench, FiniteSetTheorems, TLAPS

(* What TypeOK says of each variable alone.  That the counters are bounded *)
(* is another matter: it depends on how many threads are where.            *)
BaseType ==
  /\ mutex \in Tids \cup {None}
  /\ waiting \subseteq Tids
  /\ ready_threads \in Nat
  /\ x \in Nat
  /\ shm \in BOOLEAN
  /\ pc \in [Tids -> Labels]
  /\ op \in [Tids -> 0 .. NrTraces]
  /\ ran \subseteq (1 .. NrTraces) \X Tids
  /\ early \subseteq Tids

-----------------------------------------------------------------------------
(* Gathering and starting *)

(* Who holds the mutex, and who waits for the condition. *)
SyncOK ==
  /\ waiting = {t \in Tids : pc[t] = "waiting"}
  /\ \A t \in Tids : pc[t] \in {"ready", "unlock", "sleep", "go"} => mutex = t

Counted == {t \in Tids : t \in early \/ pc[t] \in {"ready", "waiting"}}

(* Before the broadcast the counter says how many threads are at the       *)
(* condition variable or left it early, and the parent that is about to    *)
(* broadcast has seen all of them.                                         *)
Gathering ==
  /\ pc[Parent] \in {"fork", "init", "poll", "sleep", "go", "failed", "exit"}
  /\ Parent \notin early
  /\ \A t \in Tids \ {Parent} :
       IF t \in early
       THEN pc[t] \in Woken
       ELSE pc[t] \in {"none", "map", "init", "lock", "ready", "waiting", "failed", "exit"}
  /\ pc[Parent] = "fork" => \A t \in Tids \ {Parent} : pc[t] = "none"
  /\ ready_threads = Cardinality(Counted)
  /\ pc[Parent] = "go" => ready_threads >= NrProcesses * NrThreads - 1

(* After it nobody waits, gathers or forks any more. *)
Started ==
  /\ \A t \in Tids : pc[t] \in Woken
  /\ ready_threads <= NrProcesses * NrThreads

GatherInv == SyncOK /\ (Gathering \/ Started)

-----------------------------------------------------------------------------
(* The operations *)

(* An operation up to x has been traced or is in the hands of one thread,  *)
(* and who has stopped has seen the counter beyond the last one.           *)
OpInv ==
  /\ \A t \in Tids : op[t] # 0 <=> pc[t] = "trace"
  /\ \A t \in Tids : op[t] <= x
  /\ \A r \in ran : r[1] <= x
  /\ \A t, u \in Tids : op[t] # 0 /\ op[t] = op[u] => t = u
  /\ \A t \in Tids : \A r \in ran : r[1] # op[t]
  /\ \A r, s \in ran : r[1] = s[1] => r = s
  /\ \A n \in 1 .. NrTraces : n <= x =>
       (\E r \in ran : r[1] = n) \/ (\E t \in Tids : op[t] = n)
  /\ \A t \in Tids : pc[t] \in {"done", "join", "out"} => x > NrTraces

(* Every number beyond the last operation was drawn by a thread that then  *)
(* stopped.                                                                *)
Stopped == {t \in Tids : pc[t] \in {"done", "join", "out", "failed", "exit"}}

CountInv == x <= NrTraces + Cardinality(Stopped)

-----------------------------------------------------------------------------
(* Attached processes *)

(* Only main() forks, attaches, polls, joins and ends; the other threads   *)
(* of a process exist from rbtrace_init() until they are joined.           *)
MainOnly ==
  {"fork", "map", "init", "poll", "sleep", "go", "join", "out", "failed", "exit"}

AttachInv ==
  /\ \A t \in Tids : pc[t] \in MainOnly => t = Main(t[1])
  /\ \A t \in Tids : pc[Main(t[1])] \in {"none", "fork", "map", "init"} =>
       t = Main(t[1]) \/ pc[t] = "none"
  /\ TracesAttached

-----------------------------------------------------------------------------
(* The threads *)

(* Every process has its main() among the threads, the parent is that of   *)
(* process 1, and None is no thread.                                       *)
LEMMA Threads ==
  /\ 1 \in Processes /\ Parent \in Tids /\ None \notin Tids
  /\ Parent = Main(1)
  /\ \A p \in Processes : Main(p) \in Tids /\ Main(p)[1] = p
  /\ \A t \in Tids : t[1] \in Processes
BY BenchAssumption DEF Processes, Parent, None, Main, Tids

(* There are -p times -t threads. *)
LEMMA NrTids ==
  /\ IsFiniteSet(Tids)
  /\ Cardinality(Tids) = NrProcesses * NrThreads
  /\ NrProcesses * NrThreads \in Nat
<1>1. IsFiniteSet(1 .. NrProcesses) /\ Cardinality(1 .. NrProcesses) = NrProcesses
  BY FS_Interval, BenchAssumption
<1>2. IsFiniteSet(1 .. NrThreads) /\ Cardinality(1 .. NrThreads) = NrThreads
  BY FS_Interval, BenchAssumption
<1>3. IsFiniteSet(Tids) /\ Cardinality(Tids) = NrProcesses * NrThreads
  <2>1. /\ IsFiniteSet((1 .. NrProcesses) \X (1 .. NrThreads))
        /\ Cardinality((1 .. NrProcesses) \X (1 .. NrThreads))
             = Cardinality(1 .. NrProcesses) * Cardinality(1 .. NrThreads)
    BY <1>1, <1>2, FS_Product, Zenon
  <2> QED  BY <1>1, <1>2, <2>1 DEF Tids, Processes
<1> QED  BY <1>3, FS_CardinalityType

(* A set of threads is finite and has at most as many members. *)
LEMMA SomeTids ==
  ASSUME NEW S \in SUBSET Tids
  PROVE  /\ IsFiniteSet(S) /\ Cardinality(S) \in Nat
         /\ Cardinality(S) <= NrProcesses * NrThreads
BY NrTids, FS_Subset, FS_CardinalityType

-----------------------------------------------------------------------------
(* Types *)

(* A step of main() keeps the types. *)
LEMMA BaseMain ==
  ASSUME BaseType, NEW p \in Processes, MainStep(p) \/ InitFails(p)
  PROVE  BaseType'
<1> USE Threads DEF BaseType, Goto, Labels, sync
<1>1. CASE Map(p)
  BY <1>1 DEF Map
<1>2. CASE RbtraceInit(p)
  BY <1>2 DEF RbtraceInit
<1>3. CASE Join(p)
  BY <1>3 DEF Join
<1>4. CASE Out(p)
  BY <1>4 DEF Out
<1>5. CASE InitFails(p)
  BY <1>5 DEF InitFails
<1> QED  BY <1>1, <1>2, <1>3, <1>4, <1>5 DEF MainStep

(* So does a step of the parent alone. *)
LEMMA BaseParent ==
  ASSUME BaseType, ParentStep
  PROVE  BaseType'
<1> USE Threads DEF BaseType, Goto, Labels, sync, Acquire, Release
<1>1. CASE Fork
  BY <1>1 DEF Fork
<1>2. CASE Poll
  BY <1>2 DEF Poll
<1>3. CASE Sleep
  BY <1>3 DEF Sleep
<1>4. CASE Broadcast
  BY <1>4 DEF Broadcast
<1> QED  BY <1>1, <1>2, <1>3, <1>4 DEF ParentStep

(* And one of any thread, given that an operation is only traced after it  *)
(* was drawn.                                                              *)
LEMMA BaseThread ==
  ASSUME BaseType, OpInv, NEW t \in Tids, ThreadStep(t)
  PROVE  BaseType'
<1> USE Threads, BenchAssumption DEF BaseType, Goto, Labels, sync, Acquire, Release
<1>1. CASE Ready(t)
  BY <1>1 DEF Ready
<1>2. CASE CondWait(t)
  BY <1>2 DEF CondWait
<1>3. CASE CondReturn(t)
  BY <1>3 DEF CondReturn
<1>4. CASE Unlock(t)
  BY <1>4 DEF Unlock
<1>5. CASE Take(t)
  BY <1>5 DEF Take, Begin
<1>6. CASE TraceOp(t)
  <2>1. op[t] \in 1 .. NrTraces
    BY <1>6 DEF TraceOp, OpInv
  <2> QED  BY <1>6, <2>1 DEF TraceOp
<1> QED  BY <1>1, <1>2, <1>3, <1>4, <1>5, <1>6 DEF ThreadStep

(* And a wait that returns early. *)
LEMMA BaseSpurious ==
  ASSUME BaseType, NEW t \in Tids, SpuriousWakeup(t)
  PROVE  BaseType'
BY DEF BaseType, Goto, Labels, SpuriousWakeup

-----------------------------------------------------------------------------
(* A step of the benchmark *)

Inv == BaseType /\ GatherInv /\ OpInv /\ CountInv /\ AttachInv

(* A step of main() keeps the threads of a process attached: it joins them *)
(* before it goes out, and fails only before it has created them.          *)
LEMMA AttachMain ==
  ASSUME BaseType, AttachInv, NEW p \in Processes, MainStep(p) \/ InitFails(p)
  PROVE  AttachInv'
<1> USE Threads DEF BaseType, AttachInv, TracesAttached, MainOnly, Goto
<1>1. CASE Map(p)
  BY <1>1 DEF Map
<1>2. CASE RbtraceInit(p)
  BY <1>2 DEF RbtraceInit
<1>3. CASE Join(p)
  <2>1. \A t \in Tids : t[1] = p /\ t # Main(p) => pc[t] = "done"
    BY <1>3 DEF Join, Tids, Main
  <2> QED  BY <1>3, <2>1 DEF Join
<1>4. CASE Out(p)
  BY <1>4 DEF Out
<1>5. CASE InitFails(p)
  BY <1>5 DEF InitFails
<1> QED  BY <1>1, <1>2, <1>3, <1>4, <1>5 DEF MainStep

(* So does the parent: when it forks there are no other threads yet.       *)
LEMMA AttachParent ==
  ASSUME BaseType, AttachInv, GatherInv, ParentStep
  PROVE  AttachInv'
<1> USE Threads DEF BaseType, AttachInv, TracesAttached, MainOnly, Goto
<1>1. CASE Fork
  <2>1. \A t \in Tids \ {Parent} : pc[t] = "none"
    BY <1>1 DEF Fork, GatherInv, Gathering, Started, Woken
  <2> QED  BY <1>1, <2>1 DEF Fork
<1>2. CASE Poll
  BY <1>2 DEF Poll
<1>3. CASE Sleep
  BY <1>3 DEF Sleep
<1>4. CASE Broadcast
  BY <1>4 DEF Broadcast, GatherInv, SyncOK
<1> QED  BY <1>1, <1>2, <1>3, <1>4 DEF ParentStep

(* And a thread, which only runs while its process is attached.            *)
LEMMA AttachThread ==
  ASSUME BaseType, AttachInv, NEW t \in Tids, ThreadStep(t) \/ SpuriousWakeup(t)
  PROVE  AttachInv'
<1> USE Threads DEF BaseType, AttachInv, TracesAttached, MainOnly, Goto
<1>1. CASE Ready(t)
  BY <1>1 DEF Ready
<1>2. CASE CondWait(t)
  BY <1>2 DEF CondWait
<1>3. CASE CondReturn(t)
  BY <1>3 DEF CondReturn
<1>4. CASE Unlock(t)
  BY <1>4 DEF Unlock
<1>5. CASE Take(t)
  BY <1>5 DEF Take, Begin
<1>6. CASE TraceOp(t)
  BY <1>6 DEF TraceOp
<1>7. CASE SpuriousWakeup(t)
  BY <1>7 DEF SpuriousWakeup
<1> QED  BY <1>1, <1>2, <1>3, <1>4, <1>5, <1>6, <1>7 DEF ThreadStep

-----------------------------------------------------------------------------

(* A step of main() takes nobody to the condition variable or away from it. *)
LEMMA GatherMain ==
  ASSUME BaseType, GatherInv, AttachInv, NEW p \in Processes, MainStep(p) \/ InitFails(p)
  PROVE  GatherInv'
<1> USE Threads DEF BaseType, Goto, Woken, sync
<1>1. SyncOK' /\ Counted' = Counted /\ UNCHANGED ready_threads
  <2> USE DEF GatherInv, SyncOK, Counted
  <2>1. CASE Map(p)
    BY <2>1 DEF Map
  <2>2. CASE RbtraceInit(p)
    BY <2>2 DEF RbtraceInit, AttachInv
  <2>3. CASE Join(p)
    BY <2>3 DEF Join
  <2>4. CASE Out(p)
    BY <2>4 DEF Out
  <2>5. CASE InitFails(p)
    BY <2>5 DEF InitFails
  <2> QED  BY <2>1, <2>2, <2>3, <2>4, <2>5 DEF MainStep
<1>2. CASE Gathering
  <2> USE DEF Gathering
  <2>1. CASE Map(p)
    BY <1>1, <1>2, <2>1 DEF Map, GatherInv
  <2>2. CASE RbtraceInit(p)
    BY <1>1, <1>2, <2>2 DEF RbtraceInit, GatherInv, AttachInv
  <2>3. CASE Join(p)
    BY <1>1, <1>2, <2>3 DEF Join, GatherInv
  <2>4. CASE Out(p)
    BY <1>1, <1>2, <2>4 DEF Out, GatherInv
  <2>5. CASE InitFails(p)
    BY <1>1, <1>2, <2>5 DEF InitFails, GatherInv
  <2> QED  BY <2>1, <2>2, <2>3, <2>4, <2>5 DEF MainStep
<1>3. CASE Started
  BY <1>1, <1>3 DEF Started, GatherInv, MainStep, Map, RbtraceInit, Join, Out, InitFails
<1> QED  BY <1>2, <1>3 DEF GatherInv

(* The parent broadcasts with the mutex held: nobody is between counting   *)
(* itself and waiting, so that all the others are woken or left early.     *)
LEMMA AllWait ==
  ASSUME BaseType, GatherInv, pc[Parent] = "go"
  PROVE  \A t \in Tids \ {Parent} : t \in waiting \/ pc[t] \in Woken
<1>1. Gathering
  BY Threads DEF GatherInv, Started, Woken
<1>2. Counted \subseteq Tids \ {Parent}
  BY <1>1 DEF Counted, Gathering
<1>3. Cardinality(Counted) >= NrProcesses * NrThreads - 1
  BY <1>1 DEF Gathering
<1>4. /\ IsFiniteSet(Tids \ {Parent})
      /\ Cardinality(Tids \ {Parent}) = NrProcesses * NrThreads - 1
  BY NrTids, Threads, FS_RemoveElement
<1>5. Cardinality(Counted) \in Nat /\ Cardinality(Counted) <= Cardinality(Tids \ {Parent})
  BY <1>2, <1>4, FS_Subset, FS_CardinalityType
<1>6. Cardinality(Tids \ {Parent}) = Cardinality(Counted)
  BY <1>3, <1>4, <1>5, NrTids
<1>7. Counted = Tids \ {Parent}
  BY <1>2, <1>4, <1>6, FS_Subset
<1>8. \A t \in Tids : pc[t] # "ready"
  BY Threads DEF GatherInv, SyncOK
<1>9. \A t \in Tids \ {Parent} : t \in early => pc[t] \in Woken
  BY <1>1 DEF Gathering
<1> QED  BY <1>7, <1>8, <1>9 DEF Counted, GatherInv, SyncOK

(* A step of the parent alone either goes on gathering or starts everybody. *)
LEMMA GatherParent ==
  ASSUME BaseType, GatherInv, ParentStep
  PROVE  GatherInv'
<1> USE Threads DEF BaseType, Goto, sync, Acquire, Release
<1>1. CASE Fork
  <2>1. Gathering /\ SyncOK
    BY <1>1 DEF Fork, GatherInv, Started, Woken
  <2>2. SyncOK'
    BY <1>1, <2>1 DEF Fork, SyncOK, Gathering
  <2>3. Counted' = Counted
    BY <1>1, <2>1 DEF Fork, Counted, Gathering
  <2> QED  BY <1>1, <2>1, <2>2, <2>3 DEF Fork, GatherInv, Gathering, Woken
<1>2. CASE Poll
  <2>1. Gathering /\ SyncOK
    BY <1>2 DEF Poll, GatherInv, Started, Woken
  <2>2. Counted' = Counted
    BY <1>2 DEF Poll, Counted
  <2> QED  BY <1>2, <2>1, <2>2, NrTids DEF Poll, GatherInv, Gathering, SyncOK
<1>3. CASE Sleep
  <2>1. Gathering /\ SyncOK
    BY <1>3 DEF Sleep, GatherInv, Started, Woken
  <2>2. Counted' = Counted
    BY <1>3 DEF Sleep, Counted
  <2> QED  BY <1>3, <2>1, <2>2 DEF Sleep, GatherInv, Gathering, SyncOK
<1>4. CASE Broadcast
  <2>1. /\ Gathering /\ SyncOK
        /\ \A t \in Tids \ {Parent} : t \in waiting \/ pc[t] \in Woken
    BY <1>4, AllWait DEF Broadcast, GatherInv, Started, Woken
  <2>2. ready_threads <= NrProcesses * NrThreads
    <3>1. Counted \subseteq Tids
      BY DEF Counted
    <3> QED  BY <2>1, <3>1, SomeTids DEF Gathering
  <2>3. SyncOK'
    BY <1>4, <2>1 DEF Broadcast, SyncOK
  <2> QED  BY <1>4, <2>1, <2>2, <2>3 DEF Broadcast, GatherInv, Started, Woken
<1> QED  BY <1>1, <1>2, <1>3, <1>4 DEF ParentStep

(* A thread counts itself with the mutex held, and does so once.           *)
LEMMA GatherThread ==
  ASSUME BaseType, GatherInv, NEW t \in Tids, ThreadStep(t)
  PROVE  GatherInv'
<1> USE Threads DEF BaseType, Goto, sync, Acquire, Release
<1>1. CASE Ready(t)
  <2>1. Gathering /\ SyncOK
    BY <1>1 DEF Ready, GatherInv, Started, Woken
  <2>2. Counted' = Counted \cup {t} /\ t \notin Counted
    BY <1>1, <2>1 DEF Ready, Counted, Gathering, Woken
  <2>3. Cardinality(Counted') = Cardinality(Counted) + 1
    <3>1. Counted \subseteq Tids
      BY DEF Counted
    <3> QED  BY <2>2, <3>1, SomeTids, FS_AddElement
  <2>4. SyncOK'
    BY <1>1, <2>1 DEF Ready, SyncOK
  <2> QED  BY <1>1, <2>1, <2>3, <2>4 DEF Ready, GatherInv, Gathering, SyncOK, Woken
<1>2. CASE CondWait(t)
  <2>1. Gathering /\ SyncOK
    BY <1>2 DEF CondWait, GatherInv, Started, Woken
  <2>2. Counted' = Counted
    BY <1>2 DEF CondWait, Counted
  <2>3. SyncOK'
    BY <1>2, <2>1 DEF CondWait, SyncOK
  <2> QED  BY <1>2, <2>1, <2>2, <2>3 DEF CondWait, GatherInv, Gathering, Woken
<1>3. CASE CondReturn(t)
  <2>1. SyncOK' /\ Counted' = Counted
    BY <1>3 DEF CondReturn, GatherInv, SyncOK, Counted
  <2>2. CASE Gathering
    BY <1>3, <2>1, <2>2 DEF CondReturn, GatherInv, Gathering, Woken
  <2>3. CASE Started
    BY <1>3, <2>1, <2>3 DEF CondReturn, GatherInv, Started, Woken
  <2> QED  BY <2>2, <2>3 DEF GatherInv
<1>4. CASE Unlock(t)
  <2>1. SyncOK' /\ Counted' = Counted
    BY <1>4 DEF Unlock, GatherInv, SyncOK, Counted
  <2>2. CASE Gathering
    BY <1>4, <2>1, <2>2 DEF Unlock, GatherInv, Gathering, Woken
  <2>3. CASE Started
    BY <1>4, <2>1, <2>3 DEF Unlock, GatherInv, Started, Woken
  <2> QED  BY <2>2, <2>3 DEF GatherInv
<1>5. CASE Take(t)
  <2>1. SyncOK' /\ Counted' = Counted
    BY <1>5 DEF Take, Begin, GatherInv, SyncOK, Counted
  <2>2. CASE Gathering
    BY <1>5, <2>1, <2>2 DEF Take, Begin, GatherInv, Gathering, Woken
  <2>3. CASE Started
    BY <1>5, <2>1, <2>3 DEF Take, Begin, GatherInv, Started, Woken
  <2> QED  BY <2>2, <2>3 DEF GatherInv
<1>6. CASE TraceOp(t)
  <2>1. SyncOK' /\ Counted' = Counted
    BY <1>6 DEF TraceOp, GatherInv, SyncOK, Counted
  <2>2. CASE Gathering
    BY <1>6, <2>1, <2>2 DEF TraceOp, GatherInv, Gathering, Woken
  <2>3. CASE Started
    BY <1>6, <2>1, <2>3 DEF TraceOp, GatherInv, Started, Woken
  <2> QED  BY <2>2, <2>3 DEF GatherInv
<1> QED  BY <1>1, <1>2, <1>3, <1>4, <1>5, <1>6 DEF ThreadStep

(* A thread that leaves its wait early stays counted.                      *)
LEMMA GatherSpurious ==
  ASSUME BaseType, GatherInv, NEW t \in Tids, SpuriousWakeup(t)
  PROVE  GatherInv'
<1> USE Threads DEF BaseType, Goto
<1>1. Gathering /\ SyncOK /\ t # Parent
  BY DEF SpuriousWakeup, GatherInv, Gathering, Started, Woken
<1>2. Counted' = Counted
  BY DEF SpuriousWakeup, Counted
<1>3. SyncOK'
  BY <1>1 DEF SpuriousWakeup, SyncOK
<1> QED  BY <1>1, <1>2, <1>3 DEF SpuriousWakeup, GatherInv, Gathering, Woken

-----------------------------------------------------------------------------

(* The steps that neither draw nor trace an operation leave those that do  *)
(* as they are: nobody who traces, and nobody who has stopped, is moved.   *)
LEMMA OpKept ==
  ASSUME BaseType, OpInv, UNCHANGED <<x, op, ran>>, BaseType',
         \A t \in Tids : pc[t] = "trace" <=> pc'[t] = "trace",
         \A t \in Tids : pc'[t] \in {"done", "join", "out"} =>
           pc[t] \in {"done", "join", "out"}
  PROVE  OpInv'
BY DEF OpInv

(* Thread t draws the next operation: nobody has it, nor was it traced.    *)
LEMMA OpTake ==
  ASSUME BaseType, OpInv, NEW t \in Tids, Take(t)
  PROVE  OpInv'
<1> USE BenchAssumption DEF BaseType, OpInv
<1>1. /\ x' = x + 1 /\ ran' = ran /\ op[t] = 0
      /\ op' = [op EXCEPT ![t] = IF x + 1 <= NrTraces THEN x + 1 ELSE 0]
      /\ pc' = [pc EXCEPT ![t] = IF x + 1 <= NrTraces THEN "trace"
                                 ELSE IF t = Main(t[1]) THEN "join" ELSE "done"]
  BY DEF Take, Begin, Goto
<1>2. \A r \in ran : r[1] \in 1 .. NrTraces
  OBVIOUS
<1>3. \A u \in Tids : (op'[u] # 0 <=> pc'[u] = "trace") /\ op'[u] <= x'
  BY <1>1
<1>4. \A r \in ran' : r[1] <= x'
  BY <1>1, <1>2
<1>5. \A u, v \in Tids : op'[u] # 0 /\ op'[u] = op'[v] => u = v
  BY <1>1
<1>6. \A u \in Tids : \A r \in ran' : r[1] # op'[u]
  BY <1>1, <1>2
<1>7. \A n \in 1 .. NrTraces : n <= x' =>
        (\E r \in ran' : r[1] = n) \/ (\E u \in Tids : op'[u] = n)
  <2> SUFFICES ASSUME NEW n \in 1 .. NrTraces, n <= x'
               PROVE  (\E r \in ran' : r[1] = n) \/ (\E u \in Tids : op'[u] = n)
    OBVIOUS
  <2>1. CASE n = x + 1
    BY <1>1, <2>1
  <2>2. CASE n <= x /\ \E r \in ran : r[1] = n
    BY <1>1, <2>2
  <2>3. CASE n <= x /\ \E u \in Tids : op[u] = n
    BY <1>1, <2>3
  <2> QED  BY <1>1, <2>1, <2>2, <2>3
<1>8. \A u \in Tids : pc'[u] \in {"done", "join", "out"} => x' > NrTraces
  BY <1>1
<1> QED  BY <1>1, <1>3, <1>4, <1>5, <1>6, <1>7, <1>8

(* Thread t traces its operation, which no other thread has.               *)
LEMMA OpTrace ==
  ASSUME BaseType, OpInv, NEW t \in Tids, TraceOp(t)
  PROVE  OpInv'
<1> USE BenchAssumption DEF BaseType, OpInv
<1>1. /\ x' = x /\ ran' = ran \cup {<<op[t], t>>} /\ op[t] \in 1 .. NrTraces
      /\ op' = [op EXCEPT ![t] = 0]
      /\ pc' = [pc EXCEPT ![t] = "bench"]
  BY DEF TraceOp, Goto
<1>2. \A r \in ran : r[1] \in 1 .. NrTraces /\ r[1] # op[t]
  OBVIOUS
<1>3. \A u \in Tids : (op'[u] # 0 <=> pc'[u] = "trace") /\ op'[u] <= x'
  BY <1>1
<1>4. \A r \in ran' : r[1] <= x'
  BY <1>1, <1>2
<1>5. \A u, v \in Tids : op'[u] # 0 /\ op'[u] = op'[v] => u = v
  BY <1>1
<1>6. \A u \in Tids : \A r \in ran' : r[1] # op'[u]
  BY <1>1, <1>2
<1>7. \A r, s \in ran' : r[1] = s[1] => r = s
  BY <1>1, <1>2
<1>8. \A n \in 1 .. NrTraces : n <= x' =>
        (\E r \in ran' : r[1] = n) \/ (\E u \in Tids : op'[u] = n)
  <2> SUFFICES ASSUME NEW n \in 1 .. NrTraces, n <= x
               PROVE  (\E r \in ran' : r[1] = n) \/ (\E u \in Tids : op'[u] = n)
    BY <1>1
  <2>1. CASE n = op[t]
    <3>1. <<op[t], t>> \in ran' /\ <<op[t], t>>[1] = n
      BY <1>1, <2>1
    <3> QED  BY <3>1
  <2>2. CASE \E r \in ran : r[1] = n
    BY <1>1, <2>2
  <2>3. CASE n # op[t] /\ \E u \in Tids : op[u] = n
    BY <1>1, <2>3
  <2> QED  BY <2>1, <2>2, <2>3
<1>9. \A u \in Tids : pc'[u] \in {"done", "join", "out"} => x' > NrTraces
  BY <1>1
<1> QED  BY <1>3, <1>4, <1>5, <1>6, <1>7, <1>8, <1>9

(* Every step keeps the operations apart.                                  *)
LEMMA OpStep ==
  ASSUME Inv, BaseType', Next
  PROVE  OpInv'
<1> USE Threads DEF Inv
<1>1. CASE ParentStep
  <2>1. UNCHANGED <<x, op, ran>>
    BY <1>1 DEF ParentStep, Fork, Poll, Sleep, Broadcast
  <2>2. \A t \in Tids : pc'[t] # pc[t] =>
          pc[t] \in {"none", "fork", "poll", "sleep", "go", "waiting"}
            /\ pc'[t] \in {"init", "map", "sleep", "go", "poll", "wake", "unlock"}
    <3>1. CASE Fork
      BY <3>1 DEF Fork, BaseType, GatherInv, Gathering, Started, Woken
    <3>2. CASE Broadcast
      BY <3>2 DEF Broadcast, BaseType, GatherInv, SyncOK
    <3>3. CASE Poll \/ Sleep
      BY <3>3 DEF Poll, Sleep, Goto, BaseType
    <3> QED  BY <1>1, <3>1, <3>2, <3>3 DEF ParentStep
  <2> QED  BY <2>1, <2>2, OpKept
<1>2. ASSUME NEW p \in Processes, MainStep(p) \/ InitFails(p)
      PROVE  OpInv'
  <2>1. UNCHANGED <<x, op, ran>>
    BY <1>2 DEF MainStep, Map, RbtraceInit, Join, Out, InitFails
  <2>2. \A t \in Tids : pc'[t] # pc[t] =>
          \/ pc[t] \in {"map", "init", "none", "failed", "out"}
               /\ pc'[t] \in {"init", "exit", "lock", "poll", "failed"}
          \/ pc[t] = "join" /\ pc'[t] = "out"
    BY <1>2 DEF MainStep, Map, RbtraceInit, Join, Out, InitFails, Goto, BaseType, AttachInv
  <2> QED  BY <2>1, <2>2, OpKept
<1>3. ASSUME NEW t \in Tids, ThreadStep(t)
      PROVE  OpInv'
  <2>1. CASE Ready(t) \/ CondWait(t) \/ CondReturn(t) \/ Unlock(t)
    <3>1. UNCHANGED <<x, op, ran>>
      BY <2>1 DEF Ready, CondWait, CondReturn, Unlock
    <3>2. \A u \in Tids : pc'[u] # pc[u] =>
            pc[u] \in {"lock", "ready", "wake", "unlock"}
              /\ pc'[u] \in {"ready", "waiting", "unlock", "bench"}
      BY <2>1 DEF Ready, CondWait, CondReturn, Unlock, Goto, BaseType
    <3> QED  BY <3>1, <3>2, OpKept
  <2> QED  BY <1>3, <2>1, OpTake, OpTrace DEF ThreadStep
<1>4. ASSUME NEW t \in Tids, SpuriousWakeup(t)
      PROVE  OpInv'
  BY <1>4, OpKept DEF SpuriousWakeup, Goto, BaseType
<1>5. CASE UNCHANGED vars
  BY <1>5, OpKept DEF vars
<1> QED  BY <1>1, <1>2, <1>3, <1>4, <1>5 DEF Next

-----------------------------------------------------------------------------

(* Nobody who has stopped goes on, and a number beyond the last operation  *)
(* stops the thread that draws it.                                         *)
LEMMA CountStep ==
  ASSUME Inv, Next
  PROVE  CountInv'
<1> USE Threads DEF Inv, Goto
<1>1. CASE Stopped \subseteq Stopped' /\ x' = x
  <2>1. /\ Cardinality(Stopped) <= Cardinality(Stopped')
        /\ Cardinality(Stopped) \in Nat /\ Cardinality(Stopped') \in Nat
    <3>1. Stopped \subseteq Tids /\ Stopped' \subseteq Tids
      BY DEF Stopped
    <3> QED  BY <1>1, <3>1, SomeTids, FS_Subset
  <2> QED  BY <1>1, <2>1, BenchAssumption DEF CountInv, BaseType
<1>2. CASE ParentStep
  <2>1. x' = x
    BY <1>2 DEF ParentStep, Fork, Poll, Sleep, Broadcast
  <2>2. Stopped \subseteq Stopped'
    BY <1>2 DEF ParentStep, Fork, Poll, Sleep, Broadcast, BaseType, GatherInv,
                SyncOK, Gathering, Started, Woken, Stopped
  <2> QED  BY <1>1, <2>1, <2>2
<1>3. ASSUME NEW p \in Processes, MainStep(p) \/ InitFails(p)
      PROVE  CountInv'
  <2>1. x' = x
    BY <1>3 DEF MainStep, Map, RbtraceInit, Join, Out, InitFails
  <2>2. Stopped \subseteq Stopped'
    BY <1>3 DEF MainStep, Map, RbtraceInit, Join, Out, InitFails, BaseType, AttachInv, Stopped
  <2> QED  BY <1>1, <2>1, <2>2
<1>4. ASSUME NEW t \in Tids, ThreadStep(t)
      PROVE  CountInv'
  <2>1. CASE Take(t)
    <3>1. CASE x + 1 <= NrTraces
      <4>1. Stopped' \subseteq Tids
        BY DEF Stopped
      <4> QED  BY <2>1, <3>1, <4>1, SomeTids, BenchAssumption DEF Take, BaseType, CountInv
    <3>2. CASE ~(x + 1 <= NrTraces)
      <4>1. Stopped' = Stopped \cup {t} /\ t \notin Stopped /\ Stopped \subseteq Tids
        BY <2>1, <3>2 DEF Take, Begin, BaseType, Stopped
      <4>2. Cardinality(Stopped') = Cardinality(Stopped) + 1 /\ Cardinality(Stopped) \in Nat
        BY <4>1, SomeTids, FS_AddElement
      <4> QED  BY <2>1, <4>2, BenchAssumption DEF Take, BaseType, CountInv
    <3> QED  BY <3>1, <3>2
  <2>2. CASE ~Take(t)
    <3>1. x' = x
      BY <1>4, <2>2 DEF ThreadStep, Ready, CondWait, CondReturn, Unlock, TraceOp, sync
    <3>2. Stopped \subseteq Stopped'
      BY <1>4, <2>2 DEF ThreadStep, Ready, CondWait, CondReturn, Unlock, TraceOp,
                        BaseType, Stopped
    <3> QED  BY <1>1, <3>1, <3>2
  <2> QED  BY <2>1, <2>2
<1>5. ASSUME NEW t \in Tids, SpuriousWakeup(t)
      PROVE  CountInv'
  <2>1. x' = x /\ Stopped \subseteq Stopped'
    BY <1>5 DEF SpuriousWakeup, BaseType, Stopped
  <2> QED  BY <1>1, <2>1
<1>6. CASE UNCHANGED vars
  BY <1>6 DEF vars, CountInv, Stopped
<1> QED  BY <1>2, <1>3, <1>4, <1>5, <1>6 DEF Next

-----------------------------------------------------------------------------
(* The invariant of the benchmark, and what follows from it *)

(* In the beginning nobody is counted, and no operation is drawn.          *)
LEMMA InvInit == Init => Inv
<1> SUFFICES ASSUME Init
             PROVE  Inv
  OBVIOUS
<1> USE Threads, BenchAssumption DEF Init
<1>1. BaseType
  BY DEF BaseType, Labels
<1>2. GatherInv
  <2>1. Counted = {}
    BY DEF Counted
  <2>2. Gathering
    BY <2>1, FS_EmptySet DEF Gathering
  <2> QED  BY <2>2 DEF GatherInv, SyncOK
<1>3. OpInv
  BY DEF OpInv
<1>4. CountInv
  <2>1. Stopped \subseteq Tids
    BY DEF Stopped
  <2> QED  BY <2>1, SomeTids DEF CountInv
<1>5. AttachInv
  BY DEF AttachInv, TracesAttached, MainOnly
<1> QED  BY <1>1, <1>2, <1>3, <1>4, <1>5 DEF Inv

(* Every step keeps the invariant. *)
LEMMA InvStep == Inv /\ [Next]_vars => Inv'
<1>1. ASSUME Inv, UNCHANGED vars
      PROVE  Inv'
  BY <1>1 DEF Inv, vars, BaseType, GatherInv, SyncOK, Gathering, Counted, Started, OpInv,
              CountInv, Stopped, AttachInv, TracesAttached
<1>2. ASSUME Inv, Next
      PROVE  Inv'
  <2>1. CASE ParentStep
    BY <1>2, <2>1, BaseParent, GatherParent, AttachParent, OpStep, CountStep DEF Inv
  <2>2. CASE \E p \in Processes : MainStep(p) \/ InitFails(p)
    BY <1>2, <2>2, BaseMain, GatherMain, AttachMain, OpStep, CountStep DEF Inv
  <2>3. CASE \E t \in Tids : ThreadStep(t)
    BY <1>2, <2>3, BaseThread, GatherThread, AttachThread, OpStep, CountStep DEF Inv
  <2>4. CASE \E t \in Tids : SpuriousWakeup(t)
    BY <1>2, <2>4, BaseSpurious, GatherSpurious, AttachThread, OpStep, CountStep DEF Inv
  <2> QED  BY <1>1, <1>2, <2>1, <2>2, <2>3, <2>4 DEF Next
<1> QED  BY <1>1, <1>2

(* Inv holds throughout. *)
LEMMA InvHolds == Spec => []Inv
BY InvInit, InvStep, PTL DEF Spec

(* Every variable has its type, and the counters in the shared memory stay *)
(* within what the options allow: nobody counts itself ready twice, and    *)
(* __sync_add_and_fetch() is called at most once more by each thread after *)
(* the last operation was drawn.                                           *)
THEOREM BenchTypeCorrect == Spec => []TypeOK
<1>1. ASSUME Inv
      PROVE  TypeOK
  <2>1. Counted \subseteq Tids /\ Stopped \subseteq Tids
    BY DEF Counted, Stopped
  <2>2. ready_threads <= NrProcesses * NrThreads
    BY <1>1, <2>1, SomeTids DEF Inv, GatherInv, Gathering, Started
  <2>3. x <= NrTraces + NrProcesses * NrThreads
    BY <1>1, <2>1, SomeTids, NrTids, BenchAssumption DEF Inv, BaseType, CountInv
  <2>4. BaseType
    BY <1>1 DEF Inv
  <2> QED  BY <2>2, <2>3, <2>4, NrTids, BenchAssumption DEF BaseType, TypeOK
<1> QED  BY <1>1, InvHolds, PTL

(* A thread traces before the broadcast only if its own wait returned      *)
(* early, however many others did and whichever rbtrace_init() fails:      *)
(* main() of the parent broadcasts only after it has seen, with the mutex  *)
(* held, that all the others have come to the condition variable.          *)
THEOREM AllStartTogether == Spec => []StartTogether
<1>1. ASSUME Inv
      PROVE  StartTogether
  BY <1>1 DEF Inv, GatherInv, Gathering, Started, StartTogether
<1> QED  BY <1>1, InvHolds, PTL

(* do_bench() traces every operation once, by one thread, and when all     *)
(* threads have drawn a number beyond the last none is missing.            *)
THEOREM OpsOnce == Spec => []EachOpOnce
<1>1. ASSUME Inv
      PROVE  EachOpOnce
  <2>1. ASSUME \A t \in Tids : pc[t] \in {"done", "join", "out", "exit"},
               NEW u \in Tids, pc[u] # "exit"
        PROVE  {r[1] : r \in ran} = 1 .. NrTraces
    <3>1. x > NrTraces
      BY <1>1, <2>1 DEF Inv, OpInv
    <3>2. \A t \in Tids : op[t] = 0
      BY <1>1, <2>1 DEF Inv, OpInv, BaseType
    <3>3. \A n \in 1 .. NrTraces : \E r \in ran : r[1] = n
      BY <1>1, <3>1, <3>2, BenchAssumption DEF Inv, OpInv, BaseType
    <3>4. \A r \in ran : r[1] \in 1 .. NrTraces
      BY <1>1 DEF Inv, BaseType
    <3> QED  BY <3>3, <3>4
  <2> QED  BY <1>1, <2>1 DEF Inv, OpInv, EachOpOnce
<1> QED  BY <1>1, InvHolds, PTL

(* When main() of a process has unmapped the counters and detached from    *)
(* the ring, none of its threads is left that would use either.            *)
THEOREM AttachedWhileTracing == Spec => []TracesAttached
<1>1. ASSUME Inv
      PROVE  TracesAttached
  BY <1>1 DEF Inv, AttachInv
<1> QED  BY <1>1, InvHolds, PTL

===========================================================================
