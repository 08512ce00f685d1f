----------------------------- MODULE RbtTrace -----------------------------
(***************************************************************************)
(* The tracing system: producers and the flush thread on one ring, and the *)
(* rbt tool, which opens and closes the trace file (rbtrace_ctrl_open(),   *)
(* rbtrace_ctrl_close()) while the others run.                             *)
(***************************************************************************)
EXTENDS RbtFlusher, Functions

CONSTANTS
  MaxWork       \* bound: calls of rbtrace() and opens of a file, together

ASSUME WorkAssumption == MaxWork \in Nat

VARIABLES
  cpc,          \* the statement of the rbt process
  opens,        \* how many opens it has made
  overtaken     \* history: an open was requested while a close was pending

ctlVars == <<cpc, opens, overtaken>>
vars    == <<ringVars, flushVars, ctlVars>>

(* The bound leaves room for another call or open. *)
Room == SumFunction(calls) + opens < MaxWork

-----------------------------------------------------------------------------
(* rbt -o: an open request is accepted when no file is open or requested,  *)
(* and restarts the ring, one field after the other.                       *)

CtrlOpen ==
  /\ cpc = "idle"
  /\ Room
  /\ ri_flags \cap {"OPEN", "DISK"} = {}
  /\ opens' = opens + 1
  /\ overtaken' = (overtaken \/ "CLOSE" \in ri_flags)
  /\ cpc' = "slot"
  /\ UNCHANGED <<ringVars, flushVars>>

CtrlOpenSlot ==
  /\ cpc = "slot"
  /\ ResetSlot
  /\ cpc' = "flush"
  /\ UNCHANGED <<ri_flush, ri_lost, ri_cir_off, ri_alt_off, mem, locals, drawn,
                 owed, forgot, flushVars, opens, overtaken>>

CtrlOpenFlush ==
  /\ cpc = "flush"
  /\ ri_flush' = 0
  /\ forgot' = (forgot \/ Discarded(ri_flush) > 0)
  /\ cpc' = "lost"
  /\ UNCHANGED <<ri_slot, ri_lost, ri_cir_off, ri_alt_off, mem, locals, round,
                 drawn, owed, flushVars, opens, overtaken>>

CtrlOpenLost ==
  /\ cpc = "lost"
  /\ ri_lost' = 0
  /\ forgot' = (forgot \/ ri_lost > 0)
  /\ cpc' = "flags"
  /\ UNCHANGED <<ri_slot, ri_flush, ri_cir_off, ri_alt_off, mem, locals, round,
                 drawn, owed, flushVars, opens, overtaken>>

CtrlOpenFlags ==
  /\ cpc = "flags"
  /\ ri_flags' = ri_flags \cup {"OPEN"}
  /\ cpc' = "idle"
  /\ UNCHANGED <<ringVars, file, torn, fd, fpc, closing, do_flush, buf, len, done,
                 lost, opens, overtaken>>

(* rbt -c: a close request stops the writing to disk and asks the flush    *)
(* thread to write out the rest.                                           *)
CtrlClose ==
  /\ cpc = "idle"
  /\ "DISK" \in ri_flags
  /\ ri_flags' = ri_flags \ {"DISK"}
  /\ cpc' = "close"
  /\ UNCHANGED <<ringVars, file, torn, fd, fpc, closing, do_flush, buf, len, done,
                 lost, opens, overtaken>>

CtrlCloseFlags ==
  /\ cpc = "close"
  /\ ri_flags' = ri_flags \cup {"FLUSH", "CLOSE"}
  /\ cpc' = "idle"
  /\ UNCHANGED <<ringVars, file, torn, fd, fpc, closing, do_flush, buf, len, done,
                 lost, opens, overtaken>>

(* The statements that follow the check of a request. *)
CtrlContinue ==
  \/ CtrlOpenSlot \/ CtrlOpenFlush \/ CtrlOpenLost \/ CtrlOpenFlags
  \/ CtrlCloseFlags

CtrlStep == CtrlOpen \/ CtrlClose \/ CtrlContinue

-----------------------------------------------------------------------------

Init ==
  /\ RingInit
  /\ FlusherInit
  /\ cpc = "idle"
  /\ opens = 0
  /\ overtaken = FALSE

Outside == <<flushVars, ctlVars>>

(* A step of the flush thread, which may be inside rbtrace() itself. *)
FlushThread ==
  \/ FlusherStep /\ UNCHANGED ctlVars
  \/ RingStep(Flusher) /\ UNCHANGED Outside

Next ==
  \/ \E p \in Producers : Room /\ Rbtrace(p) /\ UNCHANGED Outside
  \/ \E p \in Producers : RingStep(p) /\ UNCHANGED Outside
  \/ FlushThread
  \/ CtrlStep

Spec == Init /\ [][Next]_vars

(***************************************************************************)
(* A thread inside rbtrace() and an rbt process inside an operation are    *)
(* scheduled like any other; the flush thread never waits more than        *)
(* RBTRACE_THREAD_WAIT_SECS.  Nothing forces a program to trace or a user  *)
(* to open or close a file.                                                *)
(***************************************************************************)
Fairness ==
  /\ \A p \in Producers : WF_vars(RingStep(p) /\ UNCHANGED Outside)
  /\ WF_vars(FlushThread)
  /\ WF_vars(CtrlContinue)

FairSpec == Spec /\ Fairness

-----------------------------------------------------------------------------

CtrlTypeOK ==
  /\ cpc \in {"idle", "slot", "flush", "lost", "flags", "close"}
  /\ opens \in Nat
  /\ overtaken \in BOOLEAN

(* Every variable has its type.  What could go wrong is the entry that a   *)
(* ticket names: it is an entry of the ring, never one beyond it.          *)
TypeOK == RingTypeOK /\ LossTypeOK /\ FlusherTypeOK /\ CtrlTypeOK

(* Two threads that are about to store into the same entry drew their      *)
(* tickets in different rounds of the ring: within a round the atomic      *)
(* increment of ri_slot gives every entry one writer, whichever of the two *)
(* buffers each of them read from ri_cir_off.                              *)
OneWriterPerRound ==
  \A t, u \in Threads :
    /\ t # u
    /\ pc[t] = "fill" /\ pc[u] = "fill"
    /\ re[t] = re[u]
    => drawn[t] # drawn[u]

(* What is still known of the losses: ri_lost, ri_flush, the count that    *)
(* the flush thread took, and those in the hands of threads that are       *)
(* making a LOST report.                                                   *)
Known ==
  LET carried   == [t \in Threads |-> SumFunction(due[t])]
      reporters == {t \in Threads : due[t] # << >>}
  IN  ri_lost + Discarded(ri_flush) + lost + SumFunctionOnSet(carried, reporters)

(* A loss stays known from the moment it happens until a LOST record that  *)
(* counts it is stored in the ring, whichever threads swap, discard, flush *)
(* and report meanwhile; no loss is known twice, and one is dropped only   *)
(* when the LOST record is lost itself or rbt -o restarts the counters.    *)
LossAccounting == Known <= owed /\ (~forgot => Known = owed)

(* A record is written to the trace file at most once, but for what failed *)
(* writes had written: clearing what was written keeps it from being       *)
(* written again when the buffer comes round with entries nobody filled    *)
(* ("avoid poison data").                                                  *)
AtMostOnce ==
  \A i, j \in (1 .. Len(file)) \ torn :
    file[i] \in Record /\ file[i] = file[j] => i = j

(* The records whose tracing has begun. *)
Traced == {r \in Record : r[2] <= calls[r[1]]}

Log == INSTANCE LossyLog WITH
  Filler <- {RBT_NULL, RBT_LOST}, traced <- Traced, log <- file

(* Ring, swap, flush and control together implement the lossy log: what    *)
(* is in the trace file stays there, and each step of the flush thread     *)
(* adds at most one entry, which is filler or a record that some program   *)
(* began to trace and that no write has put there yet, unless it failed.   *)
ImplementsLossyLog == Log!LogSpec

(* A call of rbtrace() returns, whatever the other threads do: it waits    *)
(* for a swap no longer than the spin loop counts.                         *)
CallReturns == \A p \in Producers : pc[p] # "idle" ~> pc[p] = "idle"

(* A buffer handed over while a file is open is taken by the flush thread, *)
(* unless the file is closed first.                                        *)
HandOverTaken ==
  ri_flush > 0 /\ "DISK" \in ri_flags ~> ri_flush = 0 \/ "DISK" \notin ri_flags

(* A close request is carried out and leaves no file open, unless an open  *)
(* request overtook it: when that arrives between the tests of DO_CLOSE    *)
(* and DO_OPEN, rbtrace_write_header() closes the file, and the pending    *)
(* close then kills the daemon, as in the no_file run of RbtFile.          *)
CloseDone ==
  "CLOSE" \in ri_flags ~>
    ("CLOSE" \notin ri_flags /\ ~fd) \/ (fpc = "crashed" /\ overtaken)

(* What the comment on the swap claims: it is guarded by ri_flush, so that *)
(* the inactive buffer is not being flushed while it is swapped.           *)
SwapGuarded ==
  (\E t \in Threads : pc[t] \in {"swap_temp", "swap_cir", "swap_alt"})
    => ~(fpc \in {"size", "copy", "clear"} /\ ~do_flush)

(* A ring beyond its last entry has a thread that is going to restart it:  *)
(* a swapper, or one that may yet reset ri_slot after its second ticket.   *)
NeverWedged ==
  ri_slot >= RcSize =>
    \/ \E t \in Threads : pc[t] \in {"wrap", "swap_temp", "swap_cir", "swap_alt",
                                     "swap_reset", "swap_lost", "discard", "reclaim"}
    \/ \E t \in Threads : depth[t] > 0
    \/ \E t \in Threads : pc[t] = "restart" /\ slot[t] = ri_slot
    \/ cpc = "slot"

(* A flush writes no more than one buffer. *)
FlushWithinBuffer == len <= RcSize

=============================================================================
