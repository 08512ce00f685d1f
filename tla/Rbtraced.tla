------------------------------ MODULE Rbtraced ------------------------------
(***************************************************************************)
(* The life of the daemon (main() of rbtraced.c, rbtrace_daemon_init() and *)
(* rbtrace_daemon_exit() of rbtrace_backing.c) and of the clients that     *)
(* attach themselves to what it publishes (rbtrace_init() and              *)
(* rbtrace_exit() of rbtrace.c).  What they share are three names of the   *)
(* system: the pid file, the shared memory and the semaphore.  Each name   *)
(* stands for an object or for none, and an object lives on for those who  *)
(* have it open when its name is gone.  An object is called after the      *)
(* instance of rbtraced that made it.  All instances use one pid file,     *)
(* although its default name is relative to the directory in which         *)
(* rbtraced is started.                                                    *)
(*                                                                         *)
(* Faults: a system call fails; SIGTERM arrives at any moment, and ends a  *)
(* process that has no handler yet; SIGKILL ends it anywhere.  The system  *)
(* then closes its descriptors and drops its lock, and the names stay.     *)
(* What the flush thread does in a pass is RbtFlusher.                     *)
(***************************************************************************)
EXTENDS Naturals, FiniteSets

CONSTANTS
  Daemons,      \* instances of rbtraced, each started once at most
  Clients,      \* processes that trace, and rbt
  None,         \* the object of a name that is free
  MaxPosts,     \* bound: signals that main() has not yet taken note of
  MaxShows,     \* bound: rbtraced -v and rbtraced -h
  MaxFaults     \* bound: system calls that fail, and SIGKILL sent

ASSUME DaemonAssumption == None \notin Daemons /\ MaxPosts \in Nat

VARIABLES
  (* The names, and what the system knows of the objects. *)
  pidfile, shm, sem,
  locked,       \* the pid files that are locked, and by whom
  sized,        \* the shared memories that have their size, cleared
  ready,        \* those of which the ring_info has been set up too
  (* An instance of rbtraced. *)
  pc,           \* the statement of main()
  pidfd,        \* the pid file it has opened
  mapped,       \* those that have the shared memory mapped
  terminate,    \* server.terminate
  posts,        \* value of server.sem
  stop,         \* rbt_thread.terminate
  active,       \* rbt_thread.active
  thread,       \* the statement of the flush thread
  (* A client. *)
  seg,          \* the shared memory it has mapped
  attached,     \* rbt_globals.inited: it has the semaphore too
  (* Bounds and history. *)
  faults, shows,
  littered,     \* an instance was killed, and cleaned up nothing
  pidleft,      \* one exited because it could not lock or write the pid file
  stolen        \* a pid file was removed that another instance had open

names   == <<pidfile, shm, sem>>
daemon  == <<pidfd, mapped, terminate, posts, stop, active>>
clients == <<seg, attached>>
ghosts  == <<shows, littered, pidleft, stolen>>
vars    == <<names, locked, sized, ready, pc, daemon, thread, clients, faults, ghosts>>

Go(d, from, to) ==
  /\ pc[d] = from
  /\ pc' = [pc EXCEPT ![d] = to]

(* A step of main() that only reads. *)
Pass(d, from, to) ==
  /\ Go(d, from, to)
  /\ UNCHANGED <<names, locked, sized, ready, daemon, thread, clients, faults, ghosts>>

(* shm_unlink() and sem_unlink(), whoever made what the name stands for *)
ShmUnlink(d, from, to) ==
  /\ Go(d, from, to)
  /\ shm' = None
  /\ UNCHANGED <<pidfile, sem, locked, sized, ready, daemon, thread, clients, faults, ghosts>>

SemUnlink(d, from, to) ==
  /\ Go(d, from, to)
  /\ sem' = None
  /\ UNCHANGED <<pidfile, shm, locked, sized, ready, daemon, thread, clients, faults, ghosts>>

Fault ==
  /\ faults < MaxFaults
  /\ faults' = faults + 1

(* A call fails for the reason given, or for one of the system's own. *)
FailsIf(reason) == (reason /\ UNCHANGED faults) \/ Fault

(* The process d is gone: its lock, its threads and its variables with it. *)
Gone(d) ==
  /\ pc' = [pc EXCEPT ![d] = "ended"]
  /\ thread' = [thread EXCEPT ![d] = "ended"]
  /\ locked' = [i \in Daemons |-> IF locked[i] = d THEN None ELSE locked[i]]
  /\ mapped' = mapped \ {d}
  /\ pidfd' = [pidfd EXCEPT ![d] = None]
  /\ posts' = [posts EXCEPT ![d] = 0]
  /\ terminate' = [terminate EXCEPT ![d] = FALSE]
  /\ stop' = [stop EXCEPT ![d] = FALSE]
  /\ active' = [active EXCEPT ![d] = FALSE]

-----------------------------------------------------------------------------
(* main(), up to the handlers *)

(* rbtraced -v and -h go to the end of main(), where the pid file is       *)
(* removed, and touch nothing else.                                        *)
ShowVersion ==
  /\ shows < MaxShows
  /\ shows' = shows + 1
  /\ pidfile' = None
  /\ stolen' = (stolen \/ \E d \in Daemons : pidfd[d] # None /\ pidfd[d] = pidfile)
  /\ UNCHANGED <<shm, sem, locked, sized, ready, pc, daemon, thread, clients, faults, littered,
                 pidleft>>

Start(d) == Pass(d, "new", "open_pid")

OpenPid(d) ==
  \/ /\ Go(d, "open_pid", "lock")
     /\ pidfile' = IF pidfile = None THEN d ELSE pidfile
     /\ pidfd' = [pidfd EXCEPT ![d] = pidfile']
     /\ UNCHANGED <<shm, sem, locked, sized, ready, mapped, terminate, posts, stop, active, thread,
                    clients, faults, ghosts>>
  \/ /\ pc[d] = "open_pid" /\ Fault
     /\ Gone(d)
     /\ UNCHANGED <<names, sized, ready, clients, ghosts>>

(* The result of lockf() is not looked at. *)
LockPidUntested(d) ==
  /\ Go(d, "lock", "shm_unlink")
  /\ locked' = [locked EXCEPT ![pidfd[d]] = d]
  /\ UNCHANGED <<names, sized, ready, daemon, thread, clients, faults, ghosts>>

(* lockf(F_TLOCK) and ftruncate(); who does not get the lock, or cannot    *)
(* write the file, exits and leaves the file.  The handlers are installed  *)
(* when the file is written.                                               *)
LockPid(d) ==
  \/ /\ Go(d, "lock", "shm_unlink")
     /\ locked[pidfd[d]] = None
     /\ locked' = [locked EXCEPT ![pidfd[d]] = d]
     /\ UNCHANGED <<names, sized, ready, daemon, thread, clients, faults, ghosts>>
  \/ /\ pc[d] = "lock" /\ locked[pidfd[d]] # None
     /\ Gone(d)
     /\ UNCHANGED <<names, sized, ready, clients, faults, ghosts>>
  \/ /\ pc[d] = "lock" /\ Fault
     /\ Gone(d)
     /\ pidleft' = TRUE
     /\ UNCHANGED <<names, sized, ready, clients, shows, littered, stolen>>

-----------------------------------------------------------------------------
(* rbtrace_daemon_init() *)

(* Cleanup garbage of previous run. *)
UnlinkShm(d) == ShmUnlink(d, "shm_unlink", "sem_unlink")

(* The name of the semaphore is left to whoever had it. *)
UnlinkSemNot(d) == Pass(d, "sem_unlink", "shm_open")

UnlinkSem(d) == SemUnlink(d, "sem_unlink", "shm_open")

(* O_EXCL: a name that is there again means failure. *)
OpenShm(d) ==
  /\ \/ Go(d, "shm_open", "truncate") /\ shm = None /\ shm' = d /\ UNCHANGED faults
     \/ Go(d, "shm_open", "unlink_pid") /\ FailsIf(shm # None) /\ UNCHANGED shm
  /\ UNCHANGED <<pidfile, sem, locked, sized, ready, daemon, thread, clients, ghosts>>

(* ftruncate(), mmap() and memset() *)
MapShm(d) ==
  /\ \/ /\ Go(d, "truncate", "sem_open")
        /\ sized' = sized \cup {d}
        /\ mapped' = mapped \cup {d}
        /\ UNCHANGED faults
     \/ /\ Go(d, "truncate", "shm_fail")
        /\ Fault
        /\ sized' \in {sized, sized \cup {d}}
        /\ UNCHANGED mapped
  /\ UNCHANGED <<names, locked, ready, pidfd, terminate, posts, stop, active, thread, clients,
                 ghosts>>

OpenSem(d) ==
  /\ \/ /\ Go(d, "sem_open", "info")
        /\ sem = None /\ sem' = d
        /\ UNCHANGED <<mapped, faults>>
     \/ /\ Go(d, "sem_open", "shm_fail")
        /\ FailsIf(sem # None)
        /\ mapped' = mapped \ {d}
        /\ UNCHANGED sem
  /\ UNCHANGED <<pidfile, shm, locked, sized, ready, pidfd, terminate, posts, stop, active, thread,
                 clients, ghosts>>

(* The error path from sem_open_fail on. *)
FailShm(d) == ShmUnlink(d, "shm_fail", "unlink_pid")

(* update_coredump_filter(), then the limit, the flags and the two offsets *)
(* of the ring, whatever a client that found the semaphore has stored      *)
(* there meanwhile.                                                        *)
InitTraceInfo(d) ==
  /\ Go(d, "info", "create")
  /\ ready' = ready \cup {d}
  /\ UNCHANGED <<names, locked, sized, daemon, thread, clients, faults, ghosts>>

(* pthread_create(); pthread_fail cleans up, and main() does not go to     *)
(* rbtrace_daemon_exit().                                                  *)
CreateThread(d) ==
  /\ \/ /\ Go(d, "create", "wait_thread")
        /\ thread' = [thread EXCEPT ![d] = "start"]
        /\ UNCHANGED faults
     \/ Go(d, "create", "close_sem") /\ Fault /\ UNCHANGED thread
  /\ UNCHANGED <<names, locked, sized, ready, daemon, clients, ghosts>>

(* sem_wait() until the thread runs.  Its result is not looked at: a       *)
(* signal may end it early.                                                *)
WaitThread(d) == (active[d] \/ terminate[d]) /\ Pass(d, "wait_thread", "loop")

-----------------------------------------------------------------------------
(* main() goes on *)

(* while (!server.terminate) *)
Loop(d) == Pass(d, "loop", IF terminate[d] THEN "terminate" ELSE "sleep")

(* sem_wait(&server.sem) *)
Sleep(d) ==
  /\ Go(d, "sleep", "loop")
  /\ posts[d] > 0
  /\ posts' = [posts EXCEPT ![d] = @ - 1]
  /\ UNCHANGED <<names, locked, sized, ready, pidfd, mapped, terminate, stop, active, thread,
                 clients, faults, ghosts>>

(* The thread is woken up, but not told to stop. *)
TerminateNot(d) == Pass(d, "terminate", "test_active")

(* rbtrace_daemon_exit(): the thread is told to stop (the post of its      *)
(* semaphore only cuts its timed wait short) ...                           *)
Terminate(d) ==
  /\ Go(d, "terminate", "test_active")
  /\ stop' = [stop EXCEPT ![d] = TRUE]
  /\ UNCHANGED <<names, locked, sized, ready, pidfd, mapped, terminate, posts, active, thread,
                 clients, faults, ghosts>>

(* ... and waited for only if it is running by now. *)
TestActive(d) == Pass(d, "test_active", IF active[d] THEN "join" ELSE "close_sem")

Join(d) == thread[d] = "ended" /\ Pass(d, "join", "close_sem")

(* rbtrace_globals_cleanup() that keeps the semaphore, as for a client. *)
CloseSemOnly(d) == Pass(d, "close_sem", "unmap")

(* rbtrace_globals_cleanup(true) *)
CloseSem(d) == SemUnlink(d, "close_sem", "unmap")

Unmap(d) ==
  /\ Go(d, "unmap", "close_shm")
  /\ mapped' = mapped \ {d}
  /\ UNCHANGED <<names, locked, sized, ready, pidfd, terminate, posts, stop, active, thread,
                 clients, faults, ghosts>>

CloseShm(d) == ShmUnlink(d, "close_shm", "unlink_pid")

(* out: *)
UnlinkPid(d) ==
  /\ Go(d, "unlink_pid", "return")
  /\ pidfile' = None
  /\ stolen' = (stolen \/ \E e \in Daemons \ {d} : pidfd[e] # None /\ pidfd[e] = pidfile)
  /\ UNCHANGED <<shm, sem, locked, sized, ready, daemon, thread, clients, faults, shows, littered,
                 pidleft>>

Return(d) ==
  /\ pc[d] = "return"
  /\ Gone(d)
  /\ UNCHANGED <<names, sized, ready, clients, faults, ghosts>>

MainStep(d) ==
  \/ OpenPid(d) \/ LockPid(d) \/ UnlinkShm(d) \/ UnlinkSem(d)
  \/ OpenShm(d) \/ MapShm(d) \/ OpenSem(d) \/ InitTraceInfo(d)
  \/ FailShm(d) \/ CreateThread(d)
  \/ WaitThread(d) \/ Loop(d) \/ Sleep(d) \/ Terminate(d) \/ TestActive(d) \/ Join(d)
  \/ CloseSem(d) \/ Unmap(d) \/ CloseShm(d) \/ UnlinkPid(d) \/ Return(d)

-----------------------------------------------------------------------------
(* The loop of rbtrace_thread_fn() *)

ThreadGo(d, from, to) ==
  /\ thread[d] = from
  /\ thread' = [thread EXCEPT ![d] = to]

(* active = true and the post for rbtrace_daemon_init() *)
ThreadStart(d) ==
  /\ ThreadGo(d, "start", "test")
  /\ active' = [active EXCEPT ![d] = TRUE]
  /\ UNCHANGED <<names, locked, sized, ready, pc, pidfd, mapped, terminate, posts, stop, clients,
                 faults, ghosts>>

ThreadTest(d) ==
  /\ ThreadGo(d, "test", IF stop[d] THEN "ended" ELSE "wait")
  /\ UNCHANGED <<names, locked, sized, ready, pc, daemon, clients, faults, ghosts>>

(* sem_timedwait() returns with a post or at its timeout, or with EINTR    *)
(* when the handler of a signal ran in this thread.                        *)
ThreadWait(d) ==
  /\ \/ ThreadGo(d, "wait", "pass")
     \/ ThreadGo(d, "wait", "ended") /\ terminate[d]
  /\ UNCHANGED <<names, locked, sized, ready, pc, daemon, clients, faults, ghosts>>

ThreadPass(d) ==
  /\ ThreadGo(d, "pass", "test")
  /\ UNCHANGED <<names, locked, sized, ready, pc, daemon, clients, faults, ghosts>>

ThreadStep(d) == ThreadStart(d) \/ ThreadTest(d) \/ ThreadWait(d) \/ ThreadPass(d)

-----------------------------------------------------------------------------
(* Signals *)

Handles(d) == pc[d] \notin {"new", "open_pid", "lock", "ended"}

(* The handler forgets to wake main(). *)
SigHandlerNoPost(d) ==
  /\ Handles(d) /\ posts[d] < MaxPosts
  /\ terminate' = [terminate EXCEPT ![d] = TRUE]
  /\ UNCHANGED <<names, locked, sized, ready, pc, pidfd, mapped, posts, stop, active, thread,
                 clients, faults, ghosts>>

SigHandler(d) ==
  /\ Handles(d) /\ posts[d] < MaxPosts
  /\ terminate' = [terminate EXCEPT ![d] = TRUE]
  /\ posts' = [posts EXCEPT ![d] = @ + 1]
  /\ UNCHANGED <<names, locked, sized, ready, pc, pidfd, mapped, stop, active, thread, clients,
                 faults, ghosts>>

(* SIGKILL, or another signal before the handlers are there. *)
Kill(d) ==
  /\ pc[d] \notin {"new", "ended"}
  /\ Fault
  /\ Gone(d)
  /\ littered' = TRUE
  /\ UNCHANGED <<names, sized, ready, clients, shows, pidleft, stolen>>

-----------------------------------------------------------------------------
(* Clients *)

(* rbtrace_init(): shm_open() and mmap() ... *)
Attach(c) ==
  /\ seg[c] = None /\ shm # None
  /\ seg' = [seg EXCEPT ![c] = shm]
  /\ UNCHANGED <<names, locked, sized, ready, pc, daemon, thread, attached, faults, ghosts>>

(* ... then sem_open().  Without a semaphore the memory is unmapped again. *)
AttachSem(c) ==
  /\ seg[c] # None /\ c \notin attached
  /\ IF sem # None THEN attached' = attached \cup {c} /\ UNCHANGED seg
     ELSE seg' = [seg EXCEPT ![c] = None] /\ UNCHANGED attached
  /\ UNCHANGED <<names, locked, sized, ready, pc, daemon, thread, faults, ghosts>>

(* rbt_globals.inited stays set. *)
DetachStaysInited(c) ==
  /\ c \in attached
  /\ seg' = [seg EXCEPT ![c] = None]
  /\ UNCHANGED <<names, locked, sized, ready, pc, daemon, thread, attached, faults, ghosts>>

(* rbtrace_exit() removes no name. *)
Detach(c) ==
  /\ c \in attached
  /\ attached' = attached \ {c}
  /\ seg' = [seg EXCEPT ![c] = None]
  /\ UNCHANGED <<names, locked, sized, ready, pc, daemon, thread, faults, ghosts>>

-----------------------------------------------------------------------------

Init ==
  /\ pidfile = None /\ shm = None /\ sem = None
  /\ locked = [d \in Daemons |-> None] /\ sized = {} /\ ready = {}
  /\ pc = [d \in Daemons |-> "new"]
  /\ pidfd = [d \in Daemons |-> None] /\ mapped = {}
  /\ terminate = [d \in Daemons |-> FALSE] /\ posts = [d \in Daemons |-> 0]
  /\ stop = [d \in Daemons |-> FALSE] /\ active = [d \in Daemons |-> FALSE]
  /\ thread = [d \in Daemons |-> "none"]
  /\ seg = [c \in Clients |-> None] /\ attached = {}
  /\ faults = 0
  /\ shows = 0 /\ littered = FALSE /\ pidleft = FALSE /\ stolen = FALSE

Next ==
  \/ ShowVersion
  \/ \E d \in Daemons :
       Start(d) \/ MainStep(d) \/ ThreadStep(d) \/ SigHandler(d) \/ Kill(d)
  \/ \E c \in Clients : Attach(c) \/ AttachSem(c) \/ Detach(c)

Spec == Init /\ [][Next]_vars

(* Threads that can run do.  That an instance is started, or a client      *)
(* attaches itself, is not assumed.                                        *)
FairSpec ==
  /\ Spec
  /\ \A d \in Daemons : WF_vars(MainStep(d)) /\ WF_vars(ThreadStep(d))

-----------------------------------------------------------------------------

Labels ==
  {"new", "open_pid", "lock", "shm_unlink", "sem_unlink", "shm_open", "truncate", "sem_open",
   "info", "shm_fail", "create", "wait_thread", "loop", "sleep", "terminate", "test_active", "join",
   "close_sem", "unmap", "close_shm", "unlink_pid", "return", "ended"}

(* Every variable has its type; a client with the semaphore has the shared *)
(* memory.                                                                 *)
TypeOK ==
  /\ {pidfile, shm, sem} \subseteq Daemons \cup {None}
  /\ locked \in [Daemons -> Daemons \cup {None}] /\ pidfd \in [Daemons -> Daemons \cup {None}]
  /\ sized \subseteq Daemons /\ ready \subseteq Daemons /\ mapped \subseteq Daemons
  /\ pc \in [Daemons -> Labels]
  /\ posts \in [Daemons -> 0 .. MaxPosts]
  /\ {terminate, stop, active} \subseteq [Daemons -> BOOLEAN]
  /\ thread \in [Daemons -> {"none", "start", "test", "wait", "pass", "ended"}]
  /\ seg \in [Clients -> Daemons \cup {None}] /\ attached \subseteq Clients
  /\ \A c \in attached : seg[c] # None

(* However many instances ran at a time, and whatever failed in            *)
(* rbtrace_daemon_init(): once all have ended, none of them killed, the    *)
(* names of shared memory and semaphore are gone, and so is the pid file   *)
(* unless somebody could not lock or write it and left it.                 *)
NamesCleaned ==
  (\A d \in Daemons : pc[d] \in {"new", "ended"}) /\ ~littered =>
    shm = None /\ sem = None /\ (pidfile = None \/ pidleft)

(* The flush thread never waits at the semaphore or touches the shared     *)
(* memory once rbtrace_globals_cleanup() closed the one and unmapped the   *)
(* other, also when a signal made rbtrace_daemon_init() return before the  *)
(* thread ran, so that rbtrace_daemon_exit() does not wait for it: either  *)
(* main() sees active, or the thread sees terminate.                       *)
FlushMapped ==
  \A d \in Daemons : thread[d] \in {"wait", "pass"} => d \in mapped /\ pc[d] # "unmap"

(* A client that has attached itself has a shared memory in which a daemon *)
(* set up the rings, or, for as long as that daemon is between sem_open()  *)
(* and the set-up, one that at least has its size and was cleared: the     *)
(* semaphore of an earlier daemon is removed before the memory is made.    *)
(* Not so if two daemons can be at work, or if the one that made the       *)
(* memory failed or was killed before it was done with it: the client may  *)
(* have mapped such a memory and then found the semaphore of the next one. *)
AttachReady ==
  \A c \in attached :
    \/ seg[c] \in ready
    \/ seg[c] \in sized /\ pc[seg[c]] = "info"
    \/ stolen
    \/ pc[seg[c]] \in {"shm_fail", "unlink_pid", "return", "ended"}

(* A daemon that got a signal ends, wherever it was: the handler's post    *)
(* is not lost between the test and the wait, and the flush thread and     *)
(* main() do not wait for each other.                                      *)
TermEnds == \A d \in Daemons : terminate[d] ~> pc[d] = "ended"

(* Instances between the lock of the pid file and the end of their         *)
(* cleanup.                                                                *)
AtWork == {d \in Daemons : Handles(d) /\ pc[d] \notin {"unlink_pid", "return"}}

(* The lock of the pid file keeps a second daemon out, so that what        *)
(* rbtrace_daemon_init() removes as garbage of a previous run is nobody's: *)
(* two are at work at a time only if the pid file was removed under an     *)
(* instance that had it open, by rbtraced -v or -h or by an instance that  *)
(* ended at that moment.                                                   *)
SoleDaemon == Cardinality(AtWork) > 1 => stolen

=============================================================================
