------------------------------ MODULE RbtRing ------------------------------
(***************************************************************************)
(* The lock-free writer side of rbtrace (rbtrace.c): what a thread does    *)
(* inside rbtrace(), from the ticket it takes on ri_slot to the store of   *)
(* the record, or to the NULL that tells it that the record is lost.       *)
(*                                                                         *)
(* Every access to the shared ring_info is a step of its own: the __sync   *)
(* operations are atomic, and each plain C statement on a volatile field   *)
(* is one step, so that any other thread can run between two of them.      *)
(* The five stores that fill a record (traceid, a0 .. a3) are one step,    *)
(* and the stamp that ringwrap() leaves in it (time, cpu, thread) is left  *)
(* out.  RBTRACE_RING_MAX is 1, so there is one ring.                      *)
(***************************************************************************)
EXTENDS Integers, FiniteSets, Sequences

CONSTANTS
  Producers,    \* threads of the traced programs
  Flusher,      \* the rbtrace-flush thread of rbtraced, which also traces
  RcSize,       \* rc_size: number of records in one of the two buffers
  SpinCnt,      \* the 1024 of the spin loop in ringwrap_slot()
  MaxCalls,     \* bound: calls of rbtrace() per producer
  RBT_NULL,     \* an entry that is all zeros (traceid RBT_NULL)
  RBT_LOST      \* a record with traceid RBT_LOST

ASSUME SizeAssumption == RcSize \in Nat \ {0} /\ SpinCnt \in Nat \ {0}
ASSUME ThreadAssumption == Flusher \notin Producers
ASSUME CallsAssumption == MaxCalls \in Nat

Threads == Producers \cup {Flusher}

(* The n-th record that producer p traces is <<p, n>>. *)
Record == Producers \X (1 .. MaxCalls)
Entry  == Record \cup {RBT_NULL, RBT_LOST}

ASSUME EntryAssumption ==
  RBT_NULL \notin Record /\ RBT_LOST \notin Record /\ RBT_NULL # RBT_LOST

Slots     == 0 .. RcSize - 1
Addresses == 0 .. 2 * RcSize - 1

VARIABLES
  ri_slot,      \* current position in the ring, -1 after a reset
  ri_flush,     \* buffers handed over since the last completed flush
  ri_lost,      \* records lost and not yet reported
  ri_cir_off,   \* offset of the active buffer in the entries
  ri_alt_off,   \* offset of the inactive buffer
  mem,          \* the entries: two buffers of RcSize, one after the other
  (* Locals of a thread inside rbtrace(), 0 when they are dead. *)
  pc,           \* the statement the thread is about to execute
  call,         \* the record of its outermost rbtrace() call
  depth,        \* how many LOST reports are nested inside that call
  due,          \* the loss counts (a0) of the reports it is making, innermost first
  slot,         \* the ticket it drew
  re,           \* the entry it is about to fill
  temp,         \* temp of the swap
  cnt,          \* cnt of the spin loop
  calls,        \* how many calls each producer has made
  (* History, read by properties only. *)
  round,        \* how often ri_slot has been reset
  drawn,        \* the round in which a thread drew its ticket
  owed,         \* records lost, less those a LOST record in the ring announced
  forgot        \* a loss count was dropped: with its report, or by rbt -o

ringInfo == <<ri_slot, ri_flush, ri_lost, ri_cir_off, ri_alt_off>>
locals   == <<pc, call, depth, due, slot, re, temp, cnt, calls>>
history  == <<round, drawn, owed, forgot>>
ringVars == <<ringInfo, mem, locals, history>>

(***************************************************************************)
(* C compares ri_slot with the uint32_t rc_size as unsigned numbers, so    *)
(* that -1 is larger than every size.                                      *)
(***************************************************************************)
InBuffer(s) == 0 <= s /\ s < RcSize
Beyond(s)   == s < 0 \/ s > RcSize

(* What the thread is tracing: the LOST report it has nested in its call,  *)
(* or the record of that call.                                             *)
Tracing(t) == IF depth[t] > 0 THEN RBT_LOST ELSE call[t]

Goto(t, label) == pc' = [pc EXCEPT ![t] = label]

(***************************************************************************)
(* rbtrace() returns: to the swap it was nested in, which goes on to draw  *)
(* its own ticket, or to the program.  The count that a report carried is  *)
(* gone, whether or not the report was stored.                             *)
(***************************************************************************)
Return(t) ==
  /\ due' = [due EXCEPT ![t] = IF @ = << >> THEN @ ELSE Tail(@)]
  /\ IF depth[t] > 0
     THEN /\ depth' = [depth EXCEPT ![t] = @ - 1]
          /\ Goto(t, "reclaim")
          /\ UNCHANGED call
     ELSE /\ call' = [call EXCEPT ![t] = RBT_NULL]
          /\ Goto(t, "idle")
          /\ UNCHANGED depth

(* A thread enters rbtrace() with record r. *)
Enter(t, r) ==
  /\ pc[t] = "idle"
  /\ call' = [call EXCEPT ![t] = r]
  /\ Goto(t, "claim")

(***************************************************************************)
(* __sync_add_and_fetch(&ri->ri_slot, 1): the thread draws a ticket and    *)
(* goes on to the entry the ticket names, or to the label `full'.  It      *)
(* keeps the ticket for the entry and for the compare-and-swap.            *)
(***************************************************************************)
Draw(t, full) ==
  LET s == ri_slot + 1 IN
  /\ ri_slot' = s
  /\ slot'    = [slot  EXCEPT ![t] = IF InBuffer(s) \/ full = "restart" THEN s ELSE 0]
  /\ drawn'   = [drawn EXCEPT ![t] = IF InBuffer(s) THEN round ELSE 0]
  /\ Goto(t, IF InBuffer(s) THEN "locate" ELSE full)

ResetSlot ==
  /\ ri_slot' = -1
  /\ round'   = round + 1

(***************************************************************************)
(* Records lost by the (f - 1) buffers that were discarded while f buffers *)
(* were handed over: f - 1 of them found the flush still in progress.      *)
(***************************************************************************)
Discarded(f) == IF f > 1 THEN (f - 1) * RcSize ELSE 0

-----------------------------------------------------------------------------
(* The steps of rbtrace(). *)

(* A program traces its next record. *)
Rbtrace(p) ==
  /\ calls[p] < MaxCalls
  /\ calls' = [calls EXCEPT ![p] = @ + 1]
  /\ Enter(p, <<p, calls[p] + 1>>)
  /\ UNCHANGED <<ringInfo, mem, depth, due, slot, re, temp, cnt, history>>

(* ringwrap(): the first ticket.  rc_size itself is the ticket of the      *)
(* thread that swaps the buffers; a larger one has to wait for the swap.   *)
Claim(t) ==
  /\ pc[t] = "claim"
  /\ Draw(t, IF ri_slot + 1 = RcSize THEN "wrap" ELSE "spin")
  /\ cnt' = [cnt EXCEPT ![t] = IF ri_slot + 1 > RcSize THEN SpinCnt ELSE 0]
  /\ UNCHANGED <<ri_flush, ri_lost, ri_cir_off, ri_alt_off, mem, call, depth, due,
                 re, temp, calls, round, owed, forgot>>

(* The entry after the one that the ticket names. *)
LocateNext(t) ==
  /\ pc[t] = "locate"
  /\ re' = [re EXCEPT ![t] = ri_cir_off + slot[t] + 1]
  /\ Goto(t, "fill")
  /\ UNCHANGED <<ringInfo, mem, call, depth, due, slot, temp, cnt, calls, history>>

(* re = re_base + ri_cir_off + slot: the active buffer is read after the   *)
(* ticket was drawn.                                                       *)
Locate(t) ==
  /\ pc[t] = "locate"
  /\ re' = [re EXCEPT ![t] = ri_cir_off + slot[t]]
  /\ Goto(t, "fill")
  /\ UNCHANGED <<ringInfo, mem, call, depth, due, slot, temp, cnt, calls, history>>

(* The record is stored and rbtrace() returns 0.  A LOST record announces  *)
(* the losses it counts.                                                   *)
Fill(t) ==
  /\ pc[t] = "fill"
  /\ mem'  = [mem EXCEPT ![re[t]] = Tracing(t)]
  /\ re'   = [re EXCEPT ![t] = 0]
  /\ slot' = [slot EXCEPT ![t] = 0]
  /\ drawn' = [drawn EXCEPT ![t] = 0]
  /\ owed' = IF due[t] = << >> THEN owed ELSE owed - Head(due[t])
  /\ Return(t)
  /\ UNCHANGED <<ringInfo, temp, cnt, calls, round, forgot>>

(* ringwrap_slot(): the buffer is full.  The thread that counts the first  *)
(* hand-over swaps the buffers, any other discards the active one.         *)
Wrap(t) ==
  /\ pc[t] = "wrap"
  /\ ri_flush' = ri_flush + 1
  /\ Goto(t, IF ri_flush' = 1 THEN "swap_temp" ELSE "discard")
  /\ owed' = IF ri_flush' = 1 THEN owed ELSE owed + RcSize
  /\ UNCHANGED <<ri_slot, ri_lost, ri_cir_off, ri_alt_off, mem, call, depth, due,
                 slot, re, temp, cnt, calls, round, drawn, forgot>>

SwapTemp(t) ==
  /\ pc[t] = "swap_temp"
  /\ temp' = [temp EXCEPT ![t] = ri_cir_off]
  /\ Goto(t, "swap_cir")
  /\ UNCHANGED <<ringInfo, mem, call, depth, due, slot, re, cnt, calls, history>>

SwapCir(t) ==
  /\ pc[t] = "swap_cir"
  /\ ri_cir_off' = ri_alt_off
  /\ Goto(t, "swap_alt")
  /\ UNCHANGED <<ri_slot, ri_flush, ri_lost, ri_alt_off, mem, call, depth, due,
                 slot, re, temp, cnt, calls, history>>

SwapAlt(t) ==
  /\ pc[t] = "swap_alt"
  /\ ri_alt_off' = temp[t]
  /\ temp' = [temp EXCEPT ![t] = 0]
  /\ Goto(t, "swap_reset")
  /\ UNCHANGED <<ri_slot, ri_flush, ri_lost, ri_cir_off, mem, call, depth, due,
                 slot, re, cnt, calls, history>>

SwapReset(t) ==
  /\ pc[t] = "swap_reset"
  /\ ResetSlot
  /\ Goto(t, "swap_lost")
  /\ UNCHANGED <<ri_flush, ri_lost, ri_cir_off, ri_alt_off, mem, call, depth, due,
                 slot, re, temp, cnt, calls, drawn, owed, forgot>>

(* The swapper takes the loss count and, if there is one, traces it with a *)
(* call of rbtrace() nested in its own; then it signals the flush thread,  *)
(* whose timed wait can return at any time anyway, and draws again.        *)
SwapLost(t) ==
  /\ pc[t] = "swap_lost"
  /\ ri_lost' = 0
  /\ depth'   = [depth EXCEPT ![t] = IF ri_lost > 0 THEN @ + 1 ELSE @]
  /\ due'     = [due EXCEPT ![t] = IF ri_lost > 0 THEN <<ri_lost>> \o @ ELSE @]
  /\ Goto(t, IF ri_lost > 0 THEN "claim" ELSE "reclaim")
  /\ UNCHANGED <<ri_slot, ri_flush, ri_cir_off, ri_alt_off, mem, call, slot,
                 re, temp, cnt, calls, history>>

(* The last flush is still in progress: the ring starts over in the same   *)
(* buffer.                                                                 *)
Discard(t) ==
  /\ pc[t] = "discard"
  /\ ResetSlot
  /\ Goto(t, "reclaim")
  /\ UNCHANGED <<ri_flush, ri_lost, ri_cir_off, ri_alt_off, mem, call, depth, due,
                 slot, re, temp, cnt, calls, drawn, owed, forgot>>

Reclaim(t) ==
  /\ pc[t] = "reclaim"
  /\ Draw(t, "restart")
  /\ UNCHANGED <<ri_flush, ri_lost, ri_cir_off, ri_alt_off, mem, call, depth, due,
                 re, temp, cnt, calls, round, owed, forgot>>

(* __sync_val_compare_and_swap(&ri->ri_slot, slot, -1) *)
Restart(t) ==
  /\ pc[t] = "restart"
  /\ IF ri_slot = slot[t] THEN ResetSlot ELSE UNCHANGED <<ri_slot, round>>
  /\ Goto(t, "lose")
  /\ UNCHANGED <<ri_flush, ri_lost, ri_cir_off, ri_alt_off, mem, call, depth, due,
                 slot, re, temp, cnt, calls, drawn, owed, forgot>>

(* A spin loop that waits for the swap however long it takes. *)
SpinForever(t) ==
  /\ pc[t] = "spin"
  /\ IF Beyond(ri_slot)
     THEN UNCHANGED <<cnt, pc>>
     ELSE cnt' = [cnt EXCEPT ![t] = 0] /\ Goto(t, "retry")
  /\ UNCHANGED <<ringInfo, mem, call, depth, due, slot, re, temp, calls, history>>

(* while ((ri_slot > rc_size) && (--cnt > 0)) pause(); *)
Spin(t) ==
  /\ pc[t] = "spin"
  /\ IF Beyond(ri_slot) /\ cnt[t] > 1
     THEN cnt' = [cnt EXCEPT ![t] = @ - 1] /\ UNCHANGED pc
     ELSE cnt' = [cnt EXCEPT ![t] = 0] /\ Goto(t, "retry")
  /\ UNCHANGED <<ringInfo, mem, call, depth, due, slot, re, temp, calls, history>>

(* A retry that reads the next ticket and does not draw it. *)
RetryUnclaimed(t) ==
  LET s == ri_slot + 1 IN
  /\ pc[t] = "retry"
  /\ slot'  = [slot  EXCEPT ![t] = IF InBuffer(s) THEN s ELSE 0]
  /\ drawn' = [drawn EXCEPT ![t] = IF InBuffer(s) THEN round ELSE 0]
  /\ Goto(t, IF InBuffer(s) THEN "locate" ELSE "lose")
  /\ UNCHANGED <<ringInfo, mem, call, depth, due, re, temp, cnt, calls, round, owed, forgot>>

Retry(t) ==
  /\ pc[t] = "retry"
  /\ Draw(t, "lose")
  /\ UNCHANGED <<ri_flush, ri_lost, ri_cir_off, ri_alt_off, mem, call, depth, due,
                 re, temp, cnt, calls, round, owed, forgot>>

(* The record is counted as lost and rbtrace() returns -1.  When it is a   *)
(* LOST record, the losses it counts are forgotten.                        *)
Lose(t) ==
  /\ pc[t] = "lose"
  /\ ri_lost' = ri_lost + 1
  /\ owed'    = owed + 1
  /\ forgot'  = (forgot \/ due[t] # << >>)
  /\ slot'    = [slot EXCEPT ![t] = 0]
  /\ Return(t)
  /\ UNCHANGED <<ri_slot, ri_flush, ri_cir_off, ri_alt_off, mem, re, temp, cnt,
                 calls, round, drawn>>

RingStep(t) ==
  \/ Claim(t)    \/ Locate(t)    \/ Fill(t)
  \/ Wrap(t)     \/ SwapTemp(t)  \/ SwapCir(t)  \/ SwapAlt(t)
  \/ SwapReset(t) \/ SwapLost(t) \/ Discard(t)
  \/ Reclaim(t)  \/ Restart(t)
  \/ Spin(t)     \/ Retry(t)     \/ Lose(t)

-----------------------------------------------------------------------------

Labels ==
  {"idle", "claim", "locate", "fill", "wrap", "swap_temp", "swap_cir",
   "swap_alt", "swap_reset", "swap_lost", "discard", "reclaim", "restart",
   "spin", "retry", "lose"}

(***************************************************************************)
(* The ring as rbtrace_daemon_init() leaves it: the shared memory is all   *)
(* zeros, so ri_slot is 0 and not -1 until a trace file is opened.         *)
(***************************************************************************)
RingInit ==
  /\ ri_slot = 0 /\ ri_flush = 0 /\ ri_lost = 0
  /\ ri_cir_off = 0 /\ ri_alt_off = RcSize
  /\ mem   = [a \in Addresses |-> RBT_NULL]
  /\ pc    = [t \in Threads |-> "idle"]
  /\ call  = [t \in Threads |-> RBT_NULL]
  /\ depth = [t \in Threads |-> 0]
  /\ due   = [t \in Threads |-> << >>]
  /\ slot  = [t \in Threads |-> 0]
  /\ re    = [t \in Threads |-> 0]
  /\ temp  = [t \in Threads |-> 0]
  /\ cnt   = [t \in Threads |-> 0]
  /\ calls = [p \in Producers |-> 0]
  /\ round = 0
  /\ drawn = [t \in Threads |-> 0]
  /\ owed  = 0
  /\ forgot = FALSE

RingTypeOK ==
  /\ ri_slot \in Nat \cup {-1}
  /\ ri_flush \in Nat /\ ri_lost \in Nat
  /\ ri_cir_off \in {0, RcSize} /\ ri_alt_off \in {0, RcSize}
  /\ mem   \in [Addresses -> Entry]
  /\ pc    \in [Threads -> Labels]
  /\ call  \in [Threads -> Entry]
  /\ depth \in [Threads -> Nat]
  /\ slot  \in [Threads -> Nat]
  /\ re    \in [Threads -> Addresses]
  /\ temp  \in [Threads -> {0, RcSize}]
  /\ cnt   \in [Threads -> 0 .. SpinCnt]
  /\ calls \in [Producers -> 0 .. MaxCalls]
  /\ round \in Nat
  /\ drawn \in [Threads -> Nat]

LossTypeOK ==
  /\ due    \in [Threads -> Seq(Nat)]
  /\ owed   \in Int
  /\ forgot \in BOOLEAN

=============================================================================
