-------------------------- MODULE RbtracedProofs --------------------------
(***************************************************************************)
(* Proofs about Rbtraced for any number of instances, clients, signals and *)
(* faults.                                                                 *)
(***************************************************************************)
EXTENDS Rbtraced, FiniteSetTheorems, TLAPS

(* The statements of main(): up to the creation of the flush thread, while *)
(* it may run, and after it was joined or found inactive.                  *)
Early ==
  {"new", "open_pid", "lock", "shm_unlink", "sem_unlink", "shm_open", "truncate",
   "sem_open", "info", "shm_fail", "create"}
Running == {"wait_thread", "loop", "sleep", "terminate", "test_active", "join"}
Ending  == {"close_sem", "unmap", "close_shm", "unlink_pid", "return"}

-----------------------------------------------------------------------------
(* What main() and the flush thread of an instance know of each other.     *)
(* The last two conjuncts are the two sides of the handshake: main() goes  *)
(* on without a join only if the thread has not yet tested terminate.      *)
FlushOK(d) ==
  /\ pc[d] \in Early => thread[d] = "none"
  /\ pc[d] = "ended" => thread[d] = "ended"
  /\ pc[d] \in {"sem_open", "info", "create"} \cup Running => d \in mapped
  /\ thread[d] \in {"wait", "pass"} => pc[d] \in Running
  /\ pc[d] \in {"test_active", "join"} => stop[d]
  /\ thread[d] \in {"test", "wait", "pass"} => active[d]
  /\ pc[d] \in Ending /\ thread[d] \in {"start", "test"} => stop[d]

FlushInv == \A d \in Daemons : FlushOK(d)

-----------------------------------------------------------------------------
(* The statements at which an instance holds the lock of a pid file, and   *)
(* those at which it has one open that it has not unlinked.                *)
Working == {l \in Labels : l \notin {"new", "open_pid", "lock", "ended", "unlink_pid", "return"}}
Locking == Working \cup {"unlink_pid", "return"}
Opened  == Working \cup {"lock", "unlink_pid"}

(* Who has a pid file open, and who its lock.  A file is open only after   *)
(* the instance it is named after has made it.                             *)
LockInv ==
  /\ \A d \in Daemons : pidfd[d] # None <=> pc[d] \in Opened \cup {"return"}
  /\ \A d \in Daemons : pc[d] \in Locking => locked[pidfd[d]] = d
  /\ \A i \in Daemons : locked[i] # None =>
       pidfd[locked[i]] = i /\ pc[locked[i]] \in Locking
  /\ \A d \in Daemons : pc[d] \in {"new", "open_pid"} =>
       pidfile # d /\ \A e \in Daemons : pidfd[e] # d

(* Unless it was removed under somebody, the pid file is the one that all  *)
(* instances have open.                                                    *)
SameFile == ~stolen => \A d \in Daemons : pc[d] \in Opened => pidfd[d] = pidfile

(* A pid file that nobody gave up has somebody left who will remove it. *)
PidKept ==
  /\ \A d \in Daemons : pc[d] = "return" => pidfd[d] # pidfile
  /\ ~littered /\ ~pidleft /\ pidfile # None =>
       \E d \in Daemons : pidfd[d] = pidfile /\ pc[d] \in Opened

-----------------------------------------------------------------------------
(* The statements between the creation of a name and its removal. *)
SemKeeper == {"info", "create", "close_sem"} \cup Running
ShmKeeper == SemKeeper \cup {"truncate", "sem_open", "shm_fail", "unmap", "close_shm"}

NamesKept ==
  /\ ~littered /\ shm # None => pc[shm] \in ShmKeeper
  /\ ~littered /\ sem # None => pc[sem] \in SemKeeper

(* The statements before an instance makes the shared memory, those that   *)
(* it reaches only after the memory has its size, and those that it        *)
(* reaches only after the rings are set up in it.                          *)
Unmade == {"new", "open_pid", "lock", "shm_unlink", "sem_unlink", "shm_open"}
Filled == SemKeeper \cup {"sem_open", "unmap", "close_shm"}
SetUp  == Filled \ {"sem_open", "info"}

(* Whoever has the memory of an instance mapped got it after it was made;  *)
(* while it is being made there is no semaphore.                           *)
MadeInv ==
  /\ \A d \in Daemons : pc[d] \in Unmade => shm # d /\ \A c \in Clients : seg[c] # d
  /\ \A d \in Daemons : pc[d] \in Filled => d \in sized
  /\ \A d \in Daemons : pc[d] \in SetUp => d \in ready
  /\ ~stolen => \A d \in Daemons : pc[d] \in {"shm_open", "truncate", "sem_open"} => sem = None


-----------------------------------------------------------------------------
(* Type correctness. *)

(* The end of a process keeps the variables of an instance well typed. *)
LEMMA TypeGone ==
  ASSUME TypeOK, NEW d \in Daemons, Gone(d), UNCHANGED <<names, sized, ready, clients>>
  PROVE  TypeOK'
BY DaemonAssumption DEF TypeOK, Gone, names, clients, Labels

(* A step of main() up to the creation of the flush thread. *)
LEMMA TypeStart ==
  ASSUME TypeOK, NEW d \in Daemons,
         Start(d) \/ OpenPid(d) \/ LockPid(d) \/ UnlinkShm(d) \/ UnlinkSem(d) \/ OpenShm(d)
           \/ MapShm(d) \/ OpenSem(d) \/ InitTraceInfo(d) \/ FailShm(d) \/ CreateThread(d)
  PROVE  TypeOK'
<1> USE DEF TypeOK, Go, Pass, Labels, names, daemon, clients
<1>1. CASE Start(d)
  BY <1>1 DEF Start
<1>2. CASE OpenPid(d)
  BY <1>2, TypeGone DEF OpenPid
<1>3. CASE LockPid(d)
  BY <1>3, TypeGone DEF LockPid
<1>4. CASE UnlinkShm(d)
  BY <1>4 DEF UnlinkShm, ShmUnlink
<1>5. CASE UnlinkSem(d)
  BY <1>5 DEF UnlinkSem, SemUnlink
<1>6. CASE OpenShm(d)
  BY <1>6 DEF OpenShm
<1>7. CASE MapShm(d)
  BY <1>7 DEF MapShm
<1>8. CASE OpenSem(d)
  BY <1>8 DEF OpenSem
<1>9. CASE FailShm(d)
  BY <1>9 DEF FailShm, ShmUnlink
<1>10. CASE CreateThread(d)
  BY <1>10 DEF CreateThread
<1>11. CASE InitTraceInfo(d)
  BY <1>11 DEF InitTraceInfo
<1> QED  BY <1>1, <1>2, <1>3, <1>4, <1>5, <1>6, <1>7, <1>8, <1>9, <1>10, <1>11

(* A step of main() from there on. *)
LEMMA TypeWork ==
  ASSUME TypeOK, NEW d \in Daemons,
         WaitThread(d) \/ Loop(d) \/ Sleep(d) \/ Terminate(d) \/ TestActive(d) \/ Join(d)
           \/ CloseSem(d) \/ Unmap(d) \/ CloseShm(d) \/ UnlinkPid(d) \/ Return(d)
  PROVE  TypeOK'
<1> USE DEF TypeOK, Go, Pass, Labels, names, daemon, clients
<1>1. CASE WaitThread(d)
  BY <1>1 DEF WaitThread
<1>2. CASE Loop(d)
  BY <1>2 DEF Loop
<1>3. CASE Sleep(d)
  BY <1>3, DaemonAssumption DEF Sleep
<1>4. CASE Terminate(d)
  BY <1>4 DEF Terminate
<1>5. CASE TestActive(d)
  BY <1>5 DEF TestActive
<1>6. CASE Join(d)
  BY <1>6 DEF Join
<1>7. CASE CloseSem(d)
  BY <1>7 DEF CloseSem, SemUnlink
<1>8. CASE Unmap(d)
  BY <1>8 DEF Unmap
<1>9. CASE CloseShm(d)
  BY <1>9 DEF CloseShm, ShmUnlink
<1>10. CASE UnlinkPid(d)
  BY <1>10 DEF UnlinkPid
<1>11. CASE Return(d)
  BY <1>11, TypeGone DEF Return
<1> QED  BY <1>1, <1>2, <1>3, <1>4, <1>5, <1>6, <1>7, <1>8, <1>9, <1>10, <1>11

(* A step of the flush thread. *)
LEMMA TypeThread ==
  ASSUME TypeOK, NEW d \in Daemons, ThreadStep(d)
  PROVE  TypeOK'
<1> USE DEF TypeOK, ThreadGo, names, daemon, clients
<1>1. CASE ThreadStart(d)
  BY <1>1 DEF ThreadStart
<1>2. CASE ThreadTest(d)
  BY <1>2 DEF ThreadTest
<1>3. CASE ThreadWait(d)
  BY <1>3 DEF ThreadWait
<1>4. CASE ThreadPass(d)
  BY <1>4 DEF ThreadPass
<1> QED  BY <1>1, <1>2, <1>3, <1>4 DEF ThreadStep

(* rbtraced -v, a signal, or a step of a client. *)
LEMMA TypeOthers ==
  ASSUME TypeOK,
         \/ ShowVersion
         \/ \E d \in Daemons : SigHandler(d) \/ Kill(d)
         \/ \E c \in Clients : Attach(c) \/ AttachSem(c) \/ Detach(c)
  PROVE  TypeOK'
<1> USE DEF TypeOK, names, daemon, clients
<1>1. CASE ShowVersion
  BY <1>1 DEF ShowVersion
<1>2. ASSUME NEW d \in Daemons, SigHandler(d) PROVE TypeOK'
  BY <1>2, DaemonAssumption DEF SigHandler
<1>3. ASSUME NEW d \in Daemons, Kill(d) PROVE TypeOK'
  BY <1>3, TypeGone DEF Kill
<1>4. ASSUME NEW c \in Clients, Attach(c) PROVE TypeOK'
  BY <1>4 DEF Attach
<1>5. ASSUME NEW c \in Clients, AttachSem(c) PROVE TypeOK'
  BY <1>5 DEF AttachSem
<1>6. ASSUME NEW c \in Clients, Detach(c) PROVE TypeOK'
  BY <1>6 DEF Detach
<1> QED  BY <1>1, <1>2, <1>3, <1>4, <1>5, <1>6

(* TypeOK is inductive. *)
LEMMA TypeStep == TypeOK /\ [Next]_vars => TypeOK'
<1> SUFFICES ASSUME TypeOK, [Next]_vars PROVE TypeOK'
  OBVIOUS
<1>1. ASSUME NEW d \in Daemons, Start(d) \/ MainStep(d) PROVE TypeOK'
  BY <1>1, TypeStart, TypeWork DEF MainStep
<1>2. ASSUME NEW d \in Daemons, ThreadStep(d) PROVE TypeOK'
  BY <1>2, TypeThread
<1>3. CASE UNCHANGED vars
  BY <1>3 DEF vars, names, daemon, clients, TypeOK
<1> QED  BY <1>1, <1>2, <1>3, TypeOthers DEF Next

(* Every variable keeps its type, and a client that has the semaphore has  *)
(* the shared memory mapped, whatever the order in which rbtrace_init(),   *)
(* rbtrace_exit() and the daemons' steps come.                             *)
THEOREM TypeCorrect == Spec => []TypeOK
<1>1. Init => TypeOK
  BY DaemonAssumption DEF Init, TypeOK, Labels
<1> QED  BY <1>1, TypeStep, PTL DEF Spec

-----------------------------------------------------------------------------
(* The flush thread and the memory under it. *)

(* Only d changes: the others keep what they know. *)
LEMMA FlushOther ==
  ASSUME FlushInv, NEW d \in Daemons,
         FlushOK(d)',
         \A e \in Daemons \ {d} :
           /\ pc'[e] = pc[e] /\ thread'[e] = thread[e]
           /\ stop'[e] = stop[e] /\ active'[e] = active[e]
           /\ e \in mapped => e \in mapped'
  PROVE  FlushInv'
BY DEF FlushInv, FlushOK

(* FlushInv is kept when a process ends. *)
LEMMA FlushGone ==
  ASSUME TypeOK, FlushInv, NEW d \in Daemons, Gone(d)
  PROVE  FlushInv'
<1>1. FlushOK(d)'
  BY DEF TypeOK, FlushOK, Gone, Early, Running, Ending
<1> QED  BY <1>1, FlushOther DEF TypeOK, Gone

(* FlushInv is inductive relative to TypeOK. *)
LEMMA FlushStep == TypeOK /\ FlushInv /\ [Next]_vars => FlushInv'
<1> SUFFICES ASSUME TypeOK, FlushInv, [Next]_vars PROVE FlushInv'
  OBVIOUS
<1> DEFINE known == <<pc, thread, mapped, stop, active>>
<1>1. ASSUME NEW d \in Daemons, Start(d) \/ MainStep(d) PROVE FlushInv'
  <2> USE DEF TypeOK, FlushOK, Go, Pass, Early, Running, Ending, daemon
  <2>0. FlushOK(d)
    BY DEF FlushInv
  <2>1. CASE Start(d)
    BY <2>1, <2>0, FlushOther DEF Start
  <2>2. CASE OpenPid(d)
    BY <2>2, <2>0, FlushOther, FlushGone DEF OpenPid
  <2>3. CASE LockPid(d)
    BY <2>3, <2>0, FlushOther, FlushGone DEF LockPid
  <2>4. CASE UnlinkShm(d)
    BY <2>4, <2>0, FlushOther DEF UnlinkShm, ShmUnlink
  <2>5. CASE UnlinkSem(d)
    BY <2>5, <2>0, FlushOther DEF UnlinkSem, SemUnlink
  <2>6. CASE OpenShm(d)
    BY <2>6, <2>0, FlushOther DEF OpenShm
  <2>7. CASE MapShm(d)
    BY <2>7, <2>0, FlushOther DEF MapShm
  <2>8. CASE OpenSem(d)
    BY <2>8, <2>0, FlushOther DEF OpenSem
  <2>9. CASE FailShm(d)
    BY <2>9, <2>0, FlushOther DEF FailShm, ShmUnlink
  <2>10. CASE CreateThread(d)
    BY <2>10, <2>0, FlushOther DEF CreateThread
  <2>11. CASE WaitThread(d)
    BY <2>11, <2>0, FlushOther DEF WaitThread
  <2>12. CASE Loop(d)
    BY <2>12, <2>0, FlushOther DEF Loop
  <2>13. CASE Sleep(d)
    BY <2>13, <2>0, FlushOther DEF Sleep
  <2>14. CASE Terminate(d)
    BY <2>14, <2>0, FlushOther DEF Terminate
  <2>15. CASE TestActive(d)
    BY <2>15, <2>0, FlushOther DEF TestActive
  <2>16. CASE Join(d)
    BY <2>16, <2>0, FlushOther DEF Join
  <2>17. CASE CloseSem(d)
    BY <2>17, <2>0, FlushOther DEF CloseSem, SemUnlink
  <2>18. CASE Unmap(d)
    BY <2>18, <2>0, FlushOther DEF Unmap
  <2>19. CASE CloseShm(d)
    BY <2>19, <2>0, FlushOther DEF CloseShm, ShmUnlink
  <2>20. CASE UnlinkPid(d)
    BY <2>20, <2>0, FlushOther DEF UnlinkPid
  <2>21. CASE Return(d)
    BY <2>21, FlushGone DEF Return
  <2>22. CASE InitTraceInfo(d)
    BY <2>22, <2>0, FlushOther DEF InitTraceInfo
  <2> QED
    BY <1>1, <2>1, <2>2, <2>3, <2>4, <2>5, <2>6, <2>7, <2>8, <2>9, <2>10, <2>11, <2>12,
       <2>13, <2>14, <2>15, <2>16, <2>17, <2>18, <2>19, <2>20, <2>21, <2>22 DEF MainStep
<1>2. ASSUME NEW d \in Daemons, ThreadStep(d) PROVE FlushInv'
  <2> USE DEF TypeOK, FlushOK, ThreadGo, Early, Running, Ending, daemon
  <2>0. FlushOK(d)
    BY DEF FlushInv
  <2>1. CASE ThreadStart(d)
    BY <2>1, <2>0, FlushOther DEF ThreadStart
  <2>2. CASE ThreadTest(d)
    BY <2>2, <2>0, FlushOther DEF ThreadTest, Labels
  <2>3. CASE ThreadWait(d)
    BY <2>3, <2>0, FlushOther DEF ThreadWait
  <2>4. CASE ThreadPass(d)
    BY <2>4, <2>0, FlushOther DEF ThreadPass
  <2> QED  BY <1>2, <2>1, <2>2, <2>3, <2>4 DEF ThreadStep
<1>3. ASSUME NEW d \in Daemons, Kill(d) PROVE FlushInv'
  BY <1>3, FlushGone DEF Kill
<1>4. CASE UNCHANGED known
  BY <1>4 DEF FlushInv, FlushOK
<1>5. ASSUME NEW d \in Daemons, SigHandler(d) PROVE UNCHANGED known
  BY <1>5 DEF SigHandler
<1>6. ASSUME NEW c \in Clients, Attach(c) \/ AttachSem(c) \/ Detach(c) PROVE UNCHANGED known
  BY <1>6 DEF Attach, AttachSem, Detach, daemon
<1>7. ASSUME ShowVersion \/ UNCHANGED vars PROVE UNCHANGED known
  BY <1>7 DEF ShowVersion, vars, daemon
<1> QED  BY <1>1, <1>2, <1>3, <1>4, <1>5, <1>6, <1>7 DEF Next

(* The flush thread never waits at the semaphore, or works on the shared   *)
(* memory, once rbtrace_globals_cleanup() has closed the one and unmapped  *)
(* the other: main() waits for a thread that is active, and one that is    *)
(* not active yet finds terminate set.                                     *)
THEOREM FlushThreadMapped == Spec => []FlushMapped
<1>1. Init => TypeOK /\ FlushInv
  BY DaemonAssumption DEF Init, TypeOK, Labels, FlushInv, FlushOK, Early, Running, Ending
<1>2. FlushInv => FlushMapped
  BY DEF FlushInv, FlushOK, FlushMapped, Running
<1> QED  BY <1>1, <1>2, TypeStep, FlushStep, PTL DEF Spec

-----------------------------------------------------------------------------
(* The lock of the pid file. *)

PidInv == LockInv /\ SameFile /\ PidKept

(* A step of main() between the lock and the end of its cleanup leaves the *)
(* pid file alone.                                                         *)
LEMMA PidPass ==
  ASSUME TypeOK, PidInv, NEW d \in Daemons, NEW l \in Working \cup {"unlink_pid"},
         pc[d] \in Working, pc' = [pc EXCEPT ![d] = l],
         UNCHANGED <<pidfile, locked, pidfd, littered, pidleft, stolen>>
  PROVE  PidInv'
<1> USE DEF TypeOK, PidInv, Working, Locking, Opened, Labels
<1>1. LockInv'
  BY DEF LockInv
<1>2. SameFile'
  BY DEF SameFile
<1>3. PidKept'
  BY DEF PidKept
<1> QED  BY <1>1, <1>2, <1>3

(* The pid file is opened, and made if there is none.  In that case nobody *)
(* has one open, or stolen is set.                                         *)
LEMMA PidOpen ==
  ASSUME TypeOK, PidInv, NEW d \in Daemons, Go(d, "open_pid", "lock"),
         pidfile' = (IF pidfile = None THEN d ELSE pidfile),
         pidfd' = [pidfd EXCEPT ![d] = pidfile'],
         UNCHANGED <<locked, littered, pidleft, stolen>>
  PROVE  PidInv'
<1> USE DEF TypeOK, PidInv, Go, Working, Locking, Opened, Labels
<1>1. LockInv'
  BY DaemonAssumption DEF LockInv
<1>2. SameFile'
  BY DaemonAssumption DEF SameFile, LockInv
<1>3. PidKept'
  BY DaemonAssumption DEF PidKept, LockInv
<1> QED  BY <1>1, <1>2, <1>3

(* The lock is free and taken. *)
LEMMA PidLock ==
  ASSUME TypeOK, PidInv, NEW d \in Daemons, Go(d, "lock", "shm_unlink"),
         locked[pidfd[d]] = None, locked' = [locked EXCEPT ![pidfd[d]] = d],
         UNCHANGED <<pidfile, pidfd, littered, pidleft, stolen>>
  PROVE  PidInv'
<1> USE DEF TypeOK, PidInv, Go, Working, Locking, Opened, Labels
<1>0. pidfd[d] \in Daemons
  BY DEF LockInv
<1>1. LockInv'
  BY <1>0, DaemonAssumption DEF LockInv
<1>2. SameFile'
  BY DEF SameFile
<1>3. PidKept'
  BY DEF PidKept
<1> QED  BY <1>1, <1>2, <1>3

(* A process that ends drops its lock.  If it had the pid file open under  *)
(* its name, somebody else holds the lock of it, or nobody can clean up.   *)
LEMMA PidGone ==
  ASSUME TypeOK, PidInv, NEW d \in Daemons, Gone(d),
         \/ littered' \/ pidleft'
         \/ pc[d] \in {"open_pid", "return"}
         \/ pc[d] = "lock" /\ locked[pidfd[d]] # None,
         littered => littered', pidleft => pidleft',
         UNCHANGED <<pidfile, stolen>>
  PROVE  PidInv'
<1> USE DEF TypeOK, PidInv, Gone, Working, Locking, Opened, Labels
<1>1. LockInv'
  BY DaemonAssumption DEF LockInv
<1>2. SameFile'
  BY DEF SameFile
<1>3. PidKept'
  <2>1. \A e \in Daemons : pc'[e] = "return" => pidfd'[e] # pidfile'
    BY DEF PidKept
  <2>2. ASSUME ~littered', ~pidleft', pidfile' # None
        PROVE  \E e \in Daemons : pidfd'[e] = pidfile' /\ pc'[e] \in Opened
    <3>1. PICK e \in Daemons : pidfd[e] = pidfile /\ pc[e] \in Opened
      BY <2>2 DEF PidKept
    <3>2. CASE e # d
      BY <3>1, <3>2
    <3>3. CASE e = d
      <4>1. pidfd[d] = pidfile /\ pc[d] = "lock" /\ locked[pidfd[d]] # None
        BY <2>2, <3>1, <3>3
      <4> DEFINE h == locked[pidfile]
      <4>2. h \in Daemons /\ h # d /\ pidfd[h] = pidfile /\ pc[h] \in Locking
        BY <2>2, <4>1 DEF LockInv
      <4>3. pc[h] # "return"
        BY <4>2 DEF PidKept
      <4> QED  BY <4>2, <4>3
    <3> QED  BY <3>2, <3>3
  <2> QED  BY <2>1, <2>2 DEF PidKept
<1> QED  BY <1>1, <1>2, <1>3

(* The name is removed; stolen records whether somebody else had the file  *)
(* open.                                                                   *)
LEMMA PidUnlink ==
  ASSUME TypeOK, PidInv, NEW S \in SUBSET Daemons, pidfile' = None,
         stolen' = (stolen \/ \E e \in S : pidfd[e] # None /\ pidfd[e] = pidfile),
         \A e \in Daemons : IF e \in S THEN pc'[e] = pc[e]
                            ELSE pc[e] = "unlink_pid" /\ pc'[e] = "return",
         UNCHANGED <<locked, pidfd, littered, pidleft>>
  PROVE  PidInv'
<1> USE DEF TypeOK, PidInv, Working, Locking, Opened, Labels
<1>1. LockInv'
  BY DaemonAssumption DEF LockInv
<1>2. SameFile'
  BY DEF SameFile, LockInv
<1>3. PidKept'
  BY DEF PidKept, LockInv
<1> QED  BY <1>1, <1>2, <1>3

(* PidInv is inductive relative to TypeOK. *)
LEMMA PidStep == TypeOK /\ PidInv /\ [Next]_vars => PidInv'
<1> SUFFICES ASSUME TypeOK, PidInv, [Next]_vars PROVE PidInv'
  OBVIOUS
<1> DEFINE known == <<pidfile, locked, pc, pidfd, littered, pidleft, stolen>>
<1>1. ASSUME NEW d \in Daemons, Start(d) PROVE PidInv'
  BY <1>1 DEF TypeOK, PidInv, LockInv, SameFile, PidKept, Start, Pass, Go, names, daemon,
              ghosts, Working, Locking, Opened, Labels
<1>2. ASSUME NEW d \in Daemons, MainStep(d) PROVE PidInv'
  <2> USE DEF Go, Pass, names, daemon, ghosts
  <2>1. CASE OpenPid(d)
    BY <2>1, PidOpen, PidGone DEF OpenPid
  <2>2. CASE LockPid(d)
    BY <2>2, PidLock, PidGone DEF LockPid
  <2>3. CASE UnlinkShm(d)
    BY <2>3, PidPass DEF UnlinkShm, ShmUnlink, Working, Labels
  <2>4. CASE UnlinkSem(d)
    BY <2>4, PidPass DEF UnlinkSem, SemUnlink, Working, Labels
  <2>5. CASE OpenShm(d)
    BY <2>5, PidPass DEF OpenShm, Working, Labels
  <2>6. CASE MapShm(d)
    BY <2>6, PidPass DEF MapShm, Working, Labels
  <2>7. CASE OpenSem(d)
    BY <2>7, PidPass DEF OpenSem, Working, Labels
  <2>8. CASE FailShm(d)
    BY <2>8, PidPass DEF FailShm, ShmUnlink, Working, Labels
  <2>9. CASE CreateThread(d)
    BY <2>9, PidPass DEF CreateThread, Working, Labels
  <2>10. CASE WaitThread(d)
    BY <2>10, PidPass DEF WaitThread, Working, Labels
  <2>11. CASE Loop(d)
    BY <2>11, PidPass DEF Loop, Working, Labels
  <2>12. CASE Sleep(d)
    BY <2>12, PidPass DEF Sleep, Working, Labels
  <2>13. CASE Terminate(d)
    BY <2>13, PidPass DEF Terminate, Working, Labels
  <2>14. CASE TestActive(d)
    BY <2>14, PidPass DEF TestActive, Working, Labels
  <2>15. CASE Join(d)
    BY <2>15, PidPass DEF Join, Working, Labels
  <2>16. CASE CloseSem(d)
    BY <2>16, PidPass DEF CloseSem, SemUnlink, Working, Labels
  <2>17. CASE Unmap(d)
    BY <2>17, PidPass DEF Unmap, Working, Labels
  <2>18. CASE CloseShm(d)
    BY <2>18, PidPass DEF CloseShm, ShmUnlink, Working, Labels
  <2>19. CASE UnlinkPid(d)
    <3> DEFINE S == Daemons \ {d}
    <3>1. \A e \in Daemons : IF e \in S THEN pc'[e] = pc[e]
                             ELSE pc[e] = "unlink_pid" /\ pc'[e] = "return"
      BY <2>19 DEF UnlinkPid, TypeOK
    <3>2. /\ pidfile' = None
          /\ stolen' = (stolen \/ \E e \in S : pidfd[e] # None /\ pidfd[e] = pidfile)
          /\ UNCHANGED <<locked, pidfd, littered, pidleft>>
      BY <2>19 DEF UnlinkPid
    <3>3. S \in SUBSET Daemons
      OBVIOUS
    <3> QED  BY <3>1, <3>2, <3>3, PidUnlink
  <2>20. CASE Return(d)
    BY <2>20, PidGone DEF Return
  <2>21. CASE InitTraceInfo(d)
    BY <2>21, PidPass DEF InitTraceInfo, Working, Labels
  <2> QED
    BY <1>2, <2>1, <2>2, <2>3, <2>4, <2>5, <2>6, <2>7, <2>8, <2>9, <2>10, <2>11, <2>12,
       <2>13, <2>14, <2>15, <2>16, <2>17, <2>18, <2>19, <2>20, <2>21 DEF MainStep
<1>3. CASE ShowVersion
  BY <1>3, PidUnlink DEF ShowVersion, daemon
<1>4. ASSUME NEW d \in Daemons, Kill(d) PROVE PidInv'
  BY <1>4, PidGone DEF Kill, names
<1>5. CASE UNCHANGED known
  BY <1>5 DEF PidInv, LockInv, SameFile, PidKept
<1>6. ASSUME NEW d \in Daemons, ThreadStep(d) \/ SigHandler(d) PROVE UNCHANGED known
  BY <1>6 DEF ThreadStep, ThreadStart, ThreadTest, ThreadWait, ThreadPass, SigHandler, names,
              daemon, ghosts
<1>7. ASSUME NEW c \in Clients, Attach(c) \/ AttachSem(c) \/ Detach(c) PROVE UNCHANGED known
  BY <1>7 DEF Attach, AttachSem, Detach, names, daemon, ghosts
<1>8. ASSUME UNCHANGED vars PROVE UNCHANGED known
  BY <1>8 DEF vars, names, daemon, ghosts
<1> QED  BY <1>1, <1>2, <1>3, <1>4, <1>5, <1>6, <1>7, <1>8 DEF Next

(* Unless the pid file was removed under somebody, all that are at work    *)
(* hold the lock of the same file.                                         *)
LEMMA OneAtWork ==
  ASSUME TypeOK, PidInv, ~stolen, NEW d \in AtWork, NEW e \in AtWork
  PROVE  d = e
BY DEF TypeOK, PidInv, LockInv, SameFile, AtWork, Handles, Working, Locking, Opened, Labels

(* The initial state satisfies PidInv. *)
LEMMA PidInit == Init => PidInv
BY DaemonAssumption DEF Init, PidInv, LockInv, SameFile, PidKept, Working, Locking, Opened, Labels

(* However many instances are started, signalled or killed, and whoever    *)
(* wins the races for the pid file: two daemons are at work at a time only *)
(* if the file was unlinked while somebody else had it open.               *)
THEOREM OneDaemon == Spec => []SoleDaemon
<1>1. TypeOK /\ PidInv => SoleDaemon
  <2> SUFFICES ASSUME TypeOK, PidInv, ~stolen PROVE ~(Cardinality(AtWork) > 1)
    BY DEF SoleDaemon
  <2>1. CASE AtWork = {}
    BY <2>1, FS_EmptySet
  <2>2. ASSUME NEW d \in AtWork PROVE ~(Cardinality(AtWork) > 1)
    <3>1. AtWork = {d}
      BY OneAtWork
    <3> QED  BY <3>1, FS_Singleton
  <2> QED  BY <2>1, <2>2
<1>2. Init => TypeOK
  BY DaemonAssumption DEF Init, TypeOK, Labels
<1> QED  BY <1>1, <1>2, PidInit, TypeStep, PidStep, PTL DEF Spec

-----------------------------------------------------------------------------
(* The names of the shared memory and of the semaphore, and who finds      *)
(* them.                                                                   *)

NamesInv == NamesKept /\ MadeInv /\ AttachReady

(* The statements while the shared memory is made, and those after which   *)
(* AttachReady asks nothing of it.                                         *)
Making == {"shm_open", "truncate", "sem_open"}
Over   == {"shm_fail", "unlink_pid", "return", "ended"}

(* A step of d that leaves the names and the clients alone, and moves to a *)
(* statement that promises no more and owes no less.                       *)
LEMMA NamesPass ==
  ASSUME TypeOK, NamesInv, NEW d \in Daemons, NEW l \in Labels, pc' = [pc EXCEPT ![d] = l],
         pc[d] \in ShmKeeper => l \in ShmKeeper \/ littered',
         pc[d] \in SemKeeper => l \in SemKeeper \/ littered',
         l \in Unmade => pc[d] \in Unmade,
         l \in Filled => pc[d] \in Filled,
         l \in SetUp => pc[d] \in SetUp,
         pc[d] = "info" => l \in Over,
         l \in Making => pc[d] \in Making,
         pc[d] \in Over => l \in Over,
         littered => littered', stolen => stolen',
         UNCHANGED <<shm, sem, sized, ready, seg, attached>>
  PROVE  NamesInv'
<1> USE DEF TypeOK, NamesInv
<1>1. NamesKept'
  BY DEF NamesKept
<1>2. MadeInv'
  BY DEF MadeInv, Making
<1>3. AttachReady'
  BY DEF AttachReady, Over
<1> QED  BY <1>1, <1>2, <1>3

(* A process ends: by itself when it has no name left to remove. *)
LEMMA NamesGone ==
  ASSUME TypeOK, NamesInv, NEW d \in Daemons, Gone(d),
         littered' \/ pc[d] \in {"open_pid", "lock", "return"},
         littered => littered', stolen => stolen', UNCHANGED <<shm, sem, sized, ready, seg, attached>>
  PROVE  NamesInv'
<1>1. pc' = [pc EXCEPT ![d] = "ended"] /\ "ended" \in Labels
  BY DEF Gone, Labels
<1> QED
  BY <1>1, NamesPass DEF ShmKeeper, SemKeeper, Running, Unmade, Filled, SetUp, Making, Over

(* The name of the shared memory is removed by somebody who has it to      *)
(* remove, or finds it left behind.                                        *)
LEMMA NamesShmUnlink ==
  ASSUME TypeOK, NamesInv, NEW d \in Daemons, NEW from, NEW to \in Labels,
         ShmUnlink(d, from, to),
         <<from, to>> \in {<<"shm_unlink", "sem_unlink">>, <<"shm_fail", "unlink_pid">>,
                           <<"close_shm", "unlink_pid">>}
  PROVE  NamesInv'
<1> USE DaemonAssumption
        DEF TypeOK, NamesInv, ShmUnlink, Go, clients, ghosts, ShmKeeper, SemKeeper, Running,
            Unmade, Filled, SetUp
<1>1. NamesKept'
  BY DEF NamesKept
<1>2. MadeInv'
  BY DEF MadeInv
<1>3. AttachReady'
  BY DEF AttachReady
<1> QED  BY <1>1, <1>2, <1>3

(* The same for the semaphore. *)
LEMMA NamesSemUnlink ==
  ASSUME TypeOK, NamesInv, NEW d \in Daemons, NEW from, NEW to \in Labels,
         SemUnlink(d, from, to),
         <<from, to>> \in {<<"sem_unlink", "shm_open">>, <<"close_sem", "unmap">>}
  PROVE  NamesInv'
<1> USE DaemonAssumption
        DEF TypeOK, NamesInv, SemUnlink, Go, clients, ghosts, ShmKeeper, SemKeeper, Running,
            Unmade, Filled, SetUp
<1>1. NamesKept'
  BY DEF NamesKept
<1>2. MadeInv'
  BY DEF MadeInv
<1>3. AttachReady'
  BY DEF AttachReady
<1> QED  BY <1>1, <1>2, <1>3

(* The shared memory is made, under a name that was free. *)
LEMMA NamesOpenShm ==
  ASSUME TypeOK, NamesInv, NEW d \in Daemons, OpenShm(d)
  PROVE  NamesInv'
<1> USE DaemonAssumption
        DEF TypeOK, NamesInv, OpenShm, Go, clients, ghosts, ShmKeeper, SemKeeper, Running,
            Unmade, Filled, SetUp
<1>1. NamesKept'
  BY DEF NamesKept
<1>2. MadeInv'
  BY DEF MadeInv
<1>3. AttachReady'
  BY DEF AttachReady, MadeInv
<1> QED  BY <1>1, <1>2, <1>3

(* It gets its size, or is given up. *)
LEMMA NamesMapShm ==
  ASSUME TypeOK, NamesInv, NEW d \in Daemons, MapShm(d)
  PROVE  NamesInv'
<1> USE DaemonAssumption
        DEF TypeOK, NamesInv, MapShm, Go, names, clients, ghosts, ShmKeeper, SemKeeper,
            Running, Unmade, Filled, SetUp
<1>1. NamesKept'
  BY DEF NamesKept
<1>2. MadeInv'
  BY DEF MadeInv
<1>3. AttachReady'
  BY DEF AttachReady
<1> QED  BY <1>1, <1>2, <1>3

(* The semaphore is published: unless the pid file was stolen, nobody else *)
(* is making a shared memory.                                              *)
LEMMA NamesOpenSem ==
  ASSUME TypeOK, PidInv, NamesInv, NEW d \in Daemons, OpenSem(d)
  PROVE  NamesInv'
<1>0. ASSUME ~stolen, NEW e \in Daemons, e # d PROVE pc[e] \notin Making
  BY <1>0, OneAtWork DEF OpenSem, Go, AtWork, Handles, Making
<1> USE DaemonAssumption
        DEF TypeOK, NamesInv, OpenSem, Go, clients, ghosts, ShmKeeper, SemKeeper, Running,
            Unmade, Filled, SetUp
<1>1. NamesKept'
  BY DEF NamesKept
<1>2. MadeInv'
  BY <1>0 DEF MadeInv, Making
<1>3. AttachReady'
  BY DEF AttachReady
<1> QED  BY <1>1, <1>2, <1>3

(* The rings are set up in the memory that d has made. *)
LEMMA NamesInitInfo ==
  ASSUME TypeOK, NamesInv, NEW d \in Daemons, InitTraceInfo(d)
  PROVE  NamesInv'
<1> USE DaemonAssumption
        DEF TypeOK, NamesInv, InitTraceInfo, Go, names, clients, ghosts, ShmKeeper, SemKeeper,
            Running, Unmade, Filled, SetUp
<1>1. NamesKept'
  BY DEF NamesKept
<1>2. MadeInv'
  BY DEF MadeInv
<1>3. AttachReady'
  BY DEF AttachReady
<1> QED  BY <1>1, <1>2, <1>3

(* A client looks a name up, or detaches itself. *)
LEMMA NamesClient ==
  ASSUME TypeOK, NamesInv, NEW c \in Clients, Attach(c) \/ AttachSem(c) \/ Detach(c)
  PROVE  NamesInv'
<1> USE DEF TypeOK, NamesInv, names, ghosts
<1>1. CASE Attach(c)
  BY <1>1, DaemonAssumption DEF Attach, NamesKept, MadeInv, AttachReady
<1>2. CASE AttachSem(c)
  <2>1. NamesKept' /\ MadeInv'
    BY <1>2, DaemonAssumption DEF AttachSem, NamesKept, MadeInv
  <2>2. ASSUME sem # None
        PROVE  \/ seg[c] \in ready
               \/ seg[c] \in sized /\ pc[seg[c]] = "info"
               \/ stolen \/ pc[seg[c]] \in Over
    <3>1. seg[c] \in Daemons /\ pc[seg[c]] \in Labels \ Unmade
      BY <1>2 DEF AttachSem, MadeInv
    <3> QED
      BY <2>2, <3>1 DEF MadeInv, Labels, Unmade, Filled, SetUp, SemKeeper, Running, Over
  <2>3. AttachReady'
    BY <1>2, <2>2 DEF AttachSem, AttachReady, Over
  <2> QED  BY <2>1, <2>3
<1>3. CASE Detach(c)
  BY <1>3, DaemonAssumption DEF Detach, NamesKept, MadeInv, AttachReady
<1> QED  BY <1>1, <1>2, <1>3

(* NamesInv is inductive relative to TypeOK and PidInv. *)
LEMMA NamesStep == TypeOK /\ PidInv /\ NamesInv /\ [Next]_vars => NamesInv'
<1> SUFFICES ASSUME TypeOK, PidInv, NamesInv, [Next]_vars PROVE NamesInv'
  OBVIOUS
<1> DEFINE known == <<shm, sem, sized, ready, pc, seg, attached, littered, stolen>>
<1>1. ASSUME NEW d \in Daemons, Start(d) \/ MainStep(d) PROVE NamesInv'
  <2> USE DEF Go, Pass, names, clients, ghosts
  <2>a. ASSUME NEW l \in Labels, pc' = [pc EXCEPT ![d] = l],
               \/ <<pc[d], l>> \in {<<"new", "open_pid">>, <<"open_pid", "lock">>,
                                    <<"lock", "shm_unlink">>, <<"unmap", "close_shm">>,
                                    <<"unlink_pid", "return">>, <<"create", "close_sem">>,
                                    <<"create", "wait_thread">>}
               \/ pc[d] \in Running /\ l \in Running \cup {"close_sem"},
               stolen => stolen', UNCHANGED <<shm, sem, sized, ready, seg, attached, littered>>
        PROVE  NamesInv'
    BY <2>a, NamesPass DEF ShmKeeper, SemKeeper, Running, Unmade, Filled, SetUp, Making, Over
  <2>1. CASE Start(d)
    BY <2>1, <2>a DEF Start, Labels
  <2>2. CASE OpenPid(d)
    BY <2>2, <2>a, NamesGone DEF OpenPid, Labels
  <2>3. CASE LockPid(d)
    BY <2>3, <2>a, NamesGone DEF LockPid, Labels
  <2>4. CASE UnlinkShm(d)
    BY <2>4, NamesShmUnlink DEF UnlinkShm, Labels
  <2>5. CASE UnlinkSem(d)
    BY <2>5, NamesSemUnlink DEF UnlinkSem, Labels
  <2>6. CASE OpenShm(d) \/ MapShm(d) \/ OpenSem(d) \/ InitTraceInfo(d)
    BY <2>6, NamesOpenShm, NamesMapShm, NamesOpenSem, NamesInitInfo
  <2>7. CASE FailShm(d)
    BY <2>7, NamesShmUnlink DEF FailShm, Labels
  <2>8. CASE CreateThread(d)
    BY <2>8, <2>a DEF CreateThread, Labels
  <2>9. CASE WaitThread(d)
    BY <2>9, <2>a DEF WaitThread, Labels, Running
  <2>10. CASE Loop(d)
    BY <2>10, <2>a DEF Loop, Labels, Running
  <2>11. CASE Sleep(d)
    BY <2>11, <2>a DEF Sleep, Labels, Running
  <2>12. CASE Terminate(d)
    BY <2>12, <2>a DEF Terminate, Labels, Running
  <2>13. CASE TestActive(d)
    BY <2>13, <2>a DEF TestActive, Labels, Running
  <2>14. CASE Join(d)
    BY <2>14, <2>a DEF Join, Labels, Running
  <2>15. CASE CloseSem(d)
    BY <2>15, NamesSemUnlink DEF CloseSem, Labels
  <2>16. CASE Unmap(d)
    BY <2>16, <2>a DEF Unmap, Labels
  <2>17. CASE CloseShm(d)
    BY <2>17, NamesShmUnlink DEF CloseShm, Labels
  <2>18. CASE UnlinkPid(d)
    BY <2>18, <2>a DEF UnlinkPid, Labels
  <2>19. CASE Return(d)
    BY <2>19, NamesGone DEF Return
  <2> QED
    BY <1>1, <2>1, <2>2, <2>3, <2>4, <2>5, <2>6, <2>7, <2>8, <2>9, <2>10, <2>11, <2>12,
       <2>13, <2>14, <2>15, <2>16, <2>17, <2>18, <2>19 DEF MainStep
<1>2. ASSUME NEW d \in Daemons, Kill(d) PROVE NamesInv'
  BY <1>2, NamesGone DEF Kill, names, clients
<1>3. ASSUME NEW c \in Clients, Attach(c) \/ AttachSem(c) \/ Detach(c) PROVE NamesInv'
  BY <1>3, NamesClient
<1>4. CASE ShowVersion
  BY <1>4 DEF ShowVersion, clients, NamesInv, NamesKept, MadeInv, AttachReady
<1>5. CASE UNCHANGED known
  BY <1>5 DEF NamesInv, NamesKept, MadeInv, AttachReady
<1>6. ASSUME NEW d \in Daemons, ThreadStep(d) \/ SigHandler(d) PROVE UNCHANGED known
  BY <1>6 DEF ThreadStep, ThreadStart, ThreadTest, ThreadWait, ThreadPass, SigHandler, names,
              clients, ghosts
<1>7. ASSUME UNCHANGED vars PROVE UNCHANGED known
  BY <1>7 DEF vars, names, clients, ghosts
<1> QED  BY <1>1, <1>2, <1>3, <1>4, <1>5, <1>6, <1>7 DEF Next

(* All invariants together hold in every reachable state. *)
LEMMA NamesHold == Spec => [](TypeOK /\ PidInv /\ NamesInv)
<1>1. Init => TypeOK
  BY DaemonAssumption DEF Init, TypeOK, Labels
<1>2. Init => NamesInv
  BY DaemonAssumption DEF Init, NamesInv, NamesKept, MadeInv, AttachReady, Unmade, Filled,
     SetUp, SemKeeper, Running
<1> QED  BY <1>1, <1>2, PidInit, TypeStep, PidStep, NamesStep, PTL DEF Spec

(* When the last instance has ended, none of them killed, whichever calls  *)
(* of rbtrace_daemon_init() failed and whatever instances got in each      *)
(* other's way, shared memory and semaphore have no name any more, and the *)
(* pid file is left only by an instance that could not lock or write it:   *)
(* for each name there is an instance that has yet to remove it.           *)
THEOREM NamesRemoved == Spec => []NamesCleaned
<1>1. TypeOK /\ PidInv /\ NamesInv => NamesCleaned
  BY DEF TypeOK, PidInv, PidKept, NamesInv, NamesKept, NamesCleaned, Working, Opened, ShmKeeper,
         SemKeeper, Running
<1> QED  BY <1>1, NamesHold, PTL

(* A client whose rbtrace_init() succeeded has a shared memory in which    *)
(* the rings are set up, or one of the right size that its daemon is about *)
(* to set up, unless the pid file was stolen or the daemon that made the   *)
(* memory failed or was killed over it: the semaphore is missing from      *)
(* before the memory is made until it has been cleared.                    *)
THEOREM AttachedReady == Spec => []AttachReady
<1>1. NamesInv => AttachReady
  BY DEF NamesInv
<1> QED  BY <1>1, NamesHold, PTL

===========================================================================
