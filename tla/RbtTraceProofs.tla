-------------------------- MODULE RbtTraceProofs --------------------------
(***************************************************************************)
(* Proofs about RbtTrace for any number of producers, any size of the      *)
(* buffers and any number of calls.                                        *)
(***************************************************************************)
EXTENDS RbtTrace, TLAPS

(* A thread that has yet to find its entry holds a ticket of the buffer:   *)
(* without this the entry it computes need not be one.                     *)
TicketOK == \A t \in Threads : pc[t] \in {"locate", "fill"} => slot[t] \in Slots

TypeInv == TypeOK /\ TicketOK

USE SizeAssumption, ThreadAssumption, CallsAssumption, EntryAssumption,
    WorkAssumption

(* The ring as rbtrace_daemon_init() leaves it is well typed. *)
LEMMA TypeInit == Init => TypeInv
<1> SUFFICES ASSUME Init PROVE TypeInv
  OBVIOUS
<1>1. RingTypeOK
  BY DEF Init, RingInit, RingTypeOK, Threads, Labels, Entry, Addresses
<1>2. FlusherTypeOK
  <2>1. file \in Seq(Entry)
    BY DEF Init, FlusherInit
  <2>2. closing \in BOOLEAN /\ do_flush \in BOOLEAN /\ fd \in BOOLEAN
    BY DEF Init, FlusherInit
  <2> QED
    BY <2>1, <2>2 DEF Init, FlusherInit, FlusherTypeOK, FlusherLabels, Flags
<1>3. CtrlTypeOK
  BY DEF Init, CtrlTypeOK
<1>4. TicketOK
  BY DEF Init, RingInit, TicketOK
<1>5. LossTypeOK
  <2>1. << >> \in Seq(Nat)
    OBVIOUS
  <2>2. forgot \in BOOLEAN
    BY DEF Init, RingInit
  <2> QED  BY <2>1, <2>2 DEF Init, RingInit, LossTypeOK
<1> QED  BY <1>1, <1>2, <1>3, <1>4, <1>5 DEF TypeInv, TypeOK

(* Steps of the writers *)
RingType == RingTypeOK /\ TicketOK

(* A program that enters rbtrace() keeps the writers' state well typed. *)
LEMMA RingTypeRbtrace ==
  ASSUME RingType, NEW p \in Producers, Rbtrace(p)
  PROVE  RingType'
BY DEF RingType, RingTypeOK, TicketOK, Rbtrace, Threads, Labels, Entry, Record, Enter, Goto, ringInfo, history

(* A thread that returns from rbtrace() holds no entry. *)
LEMMA ReturnType ==
  ASSUME RingTypeOK, NEW t \in Threads, Return(t)
  PROVE  /\ pc' \in [Threads -> Labels]
         /\ call' \in [Threads -> Entry]
         /\ depth' \in [Threads -> Nat]
         /\ pc'[t] \notin {"locate", "fill"}
         /\ \A u \in Threads : u # t => pc'[u] = pc[u]
<1>1. CASE depth[t] > 0
  <2>1. /\ depth' = [depth EXCEPT ![t] = depth[t] - 1]
        /\ pc' = [pc EXCEPT ![t] = "reclaim"]
        /\ call' = call
    BY <1>1 DEF Return, Goto
  <2> QED  BY <1>1, <2>1 DEF RingTypeOK, Labels
<1>2. CASE ~(depth[t] > 0)
  BY <1>2 DEF RingTypeOK, Return, Goto, Labels, Entry
<1> QED  BY <1>1, <1>2

(* So does every step inside rbtrace(): a ticket of the buffer and the     *)
(* active buffer name an entry of the ring.                                *)
LEMMA RingTypeStep ==
  ASSUME RingType, NEW t \in Threads, RingStep(t)
  PROVE  RingType'
<1> USE DEF RingType, RingTypeOK, TicketOK, Goto, Labels, ringInfo, history
<1>1. CASE Claim(t)
  BY <1>1 DEF Claim, Draw, InBuffer, Slots
<1>2. CASE Locate(t)
  BY <1>2 DEF Locate, Slots, Addresses
<1>3. CASE Fill(t)
  <2>1. Tracing(t) \in Entry /\ RBT_NULL \in Entry /\ 0 \in Addresses
    BY DEF Tracing, Entry, Addresses
  <2> QED  BY <1>3, <2>1, ReturnType DEF Fill
<1>4. CASE Wrap(t)
  BY <1>4 DEF Wrap
<1>5. CASE SwapTemp(t)
  BY <1>5 DEF SwapTemp
<1>6. CASE SwapCir(t)
  BY <1>6 DEF SwapCir
<1>7. CASE SwapAlt(t)
  BY <1>7 DEF SwapAlt
<1>8. CASE SwapReset(t)
  BY <1>8 DEF SwapReset, ResetSlot
<1>9. CASE SwapLost(t)
  BY <1>9 DEF SwapLost
<1>10. CASE Discard(t)
  BY <1>10 DEF Discard, ResetSlot
<1>11. CASE Reclaim(t)
  BY <1>11 DEF Reclaim, Draw, InBuffer, Slots
<1>12. CASE Restart(t)
  BY <1>12 DEF Restart, ResetSlot
<1>13. CASE Spin(t)
  BY <1>13 DEF Spin
<1>14. CASE Retry(t)
  BY <1>14 DEF Retry, Draw, InBuffer, Slots
<1>15. CASE Lose(t)
  <2>1. /\ Return(t)
        /\ ri_lost' = ri_lost + 1 /\ slot' = [slot EXCEPT ![t] = 0]
        /\ UNCHANGED <<ri_slot, ri_flush, ri_cir_off, ri_alt_off, mem, re, temp,
                       cnt, calls, round, drawn>>
    BY <1>15 DEF Lose
  <2>2. /\ pc' \in [Threads -> Labels] /\ pc'[t] \notin {"locate", "fill"}
        /\ call' \in [Threads -> Entry] /\ depth' \in [Threads -> Nat]
        /\ \A u \in Threads : u # t => pc'[u] = pc[u]
    BY <2>1, ReturnType
  <2>3. ri_lost' \in Nat /\ slot' \in [Threads -> Nat]
    BY <2>1
  <2>4. RingTypeOK'
    BY <2>1, <2>2, <2>3
  <2>5. TicketOK'
    BY <2>1, <2>2
  <2> QED  BY <2>4, <2>5
<1> QED  BY <1>1, <1>2, <1>3, <1>4, <1>5, <1>6, <1>7, <1>8, <1>9, <1>10, <1>11, <1>12, <1>13, <1>14, <1>15 DEF RingStep

(* Steps of the flush thread.  Only four of them touch what belongs to    *)
(* the writers.                                                            *)
LEMMA RingTypeFlusherStep ==
  ASSUME RingType, FlusherTypeOK, FlusherStep
  PROVE  RingType'
<1> USE DEF RingType, RingTypeOK, TicketOK
<1>1. CASE Clear
  <2>1. RBT_NULL \in Entry
    BY DEF Entry
  <2> QED  BY <1>1, <2>1 DEF Clear, ringInfo, locals, history
<1>2. CASE TakeLost
  BY <1>2 DEF TakeLost, locals, history
<1>4. CASE TakeFlush
  <2>1. RBT_LOST \in Entry /\ Flusher \in Threads
    BY DEF Entry, Threads
  <2> QED
    BY <1>4, <2>1 DEF TakeFlush, Report, Enter, Goto, Labels, history
<1>5. CASE UNCHANGED ringVars
  BY <1>5 DEF ringVars, ringInfo, locals, history
<1> QED
  BY <1>1, <1>2, <1>4, <1>5
  DEF FlusherStep, Wake, LookOpen, LookDisk, WriteHeader, WriteInactive,
      WriteActive, WriteNoFile, PickBuffer, PickSize, Copy, CopyFails, Reported,
      CloseFile

(* The flush thread keeps its own state well typed. *)
LEMMA FlusherTypeStep ==
  ASSUME RingTypeOK, FlusherTypeOK, FlusherStep
  PROVE  FlusherTypeOK'
<1> USE DEF FlusherTypeOK, FlusherGoto, FlusherLabels, Flags
<1>1. CASE Wake
  BY <1>1 DEF Wake
<1>2. CASE LookOpen
  BY <1>2 DEF LookOpen
<1>3. CASE LookDisk
  BY <1>3 DEF LookDisk
<1>4. CASE WriteHeader
  BY <1>4 DEF WriteHeader
<1>5. CASE WriteInactive
  BY <1>5 DEF WriteInactive
<1>6. CASE WriteActive
  BY <1>6 DEF WriteActive
<1>7. CASE WriteNoFile
  BY <1>7 DEF WriteNoFile
<1>8. CASE PickBuffer
  BY <1>8 DEF PickBuffer, RingTypeOK
<1>9. CASE PickSize
  BY <1>9 DEF PickSize, RingTypeOK
<1>10. CASE Copy
  <2>1. Load(buf + done) \in Entry
    BY DEF Load, Entry, RingTypeOK
  <2>2. file' \in Seq(Entry) /\ Len(file') = Len(file) + 1
    BY <1>10, <2>1 DEF Copy
  <2> QED  BY <1>10, <2>2 DEF Copy, EntryDone
<1>11. CASE CopyFails
  <2>1. torn' \in SUBSET (1 .. Len(file'))
    BY <1>11 DEF CopyFails
  <2> QED  BY <1>11, <2>1 DEF CopyFails
<1>12. CASE Clear
  BY <1>12 DEF Clear, EntryDone
<1>13. CASE TakeLost
  BY <1>13 DEF TakeLost, RingTypeOK
<1>14. CASE TakeFlush
  BY <1>14 DEF TakeFlush, Report
<1>15. CASE Reported
  BY <1>15 DEF Reported
<1>16. CASE CloseFile
  BY <1>16 DEF CloseFile
<1> QED
  BY <1>1, <1>2, <1>3, <1>4, <1>5, <1>6, <1>7, <1>8, <1>9, <1>10,
     <1>11, <1>12, <1>13, <1>14, <1>15, <1>16
  DEF FlusherStep

(* The loss counts: a report carries a natural number.                     *)

(* The records that f hand-overs discarded are a natural number. *)
LEMMA DiscardedType == \A f \in Nat : Discarded(f) \in Nat
BY DEF Discarded

(* A thread that returns from rbtrace() drops at most one count. *)
LEMMA DueReturn ==
  ASSUME LossTypeOK, NEW t \in Threads, Return(t)
  PROVE  due' \in [Threads -> Seq(Nat)]
<1>1. (IF due[t] = << >> THEN due[t] ELSE Tail(due[t])) \in Seq(Nat)
  BY DEF LossTypeOK
<1> QED  BY <1>1 DEF LossTypeOK, Return

(* What is owed changes by the count at the head of the reports. *)
LEMMA LossTypeStep ==
  ASSUME RingTypeOK, LossTypeOK, NEW t \in Threads, RingStep(t)
  PROVE  LossTypeOK'
<1>t. /\ due \in [Threads -> Seq(Nat)] /\ owed \in Int /\ ri_lost \in Nat
      /\ RcSize \in Nat
  BY DEF LossTypeOK, RingTypeOK
<1>b. forgot \in BOOLEAN
  BY DEF LossTypeOK
<1>1. CASE Fill(t)
  <2>1. due' \in [Threads -> Seq(Nat)]
    BY <1>1, DueReturn DEF Fill
  <2>2. owed' \in Int
    <3>1. due[t] # << >> => Head(due[t]) \in Nat
      BY <1>t
    <3> QED  BY <1>1, <1>t, <3>1 DEF Fill
  <2>3. UNCHANGED forgot
    BY <1>1 DEF Fill
  <2> QED  BY <2>1, <2>2, <2>3, <1>b DEF LossTypeOK
<1>2. CASE Lose(t)
  <2>1. due' \in [Threads -> Seq(Nat)]
    BY <1>2, DueReturn DEF Lose
  <2>2. owed' \in Int
    BY <1>2, <1>t DEF Lose
  <2>3. forgot' \in BOOLEAN
    BY <1>2, <1>b DEF Lose
  <2> QED  BY <2>1, <2>2, <2>3 DEF LossTypeOK
<1>3. CASE SwapLost(t)
  <2>1. (IF ri_lost > 0 THEN <<ri_lost>> \o due[t] ELSE due[t]) \in Seq(Nat)
    BY <1>t
  <2>2. due' \in [Threads -> Seq(Nat)]
    BY <1>3, <1>t, <2>1 DEF SwapLost
  <2>3. UNCHANGED <<owed, forgot>>
    BY <1>3 DEF SwapLost, history
  <2> QED  BY <2>2, <2>3, <1>t, <1>b DEF LossTypeOK
<1>4. CASE Wrap(t)
  <2>1. owed' \in Int
    BY <1>4, <1>t DEF Wrap
  <2>2. UNCHANGED <<due, forgot>>
    BY <1>4 DEF Wrap
  <2> QED  BY <2>1, <2>2, <1>t, <1>b DEF LossTypeOK
<1>5. CASE UNCHANGED <<due, owed, forgot>>
  BY <1>5, <1>t, <1>b DEF LossTypeOK
<1> QED
  BY <1>1, <1>2, <1>3, <1>4, <1>5 DEF RingStep, history, Claim, Locate, SwapTemp,
     SwapCir, SwapAlt, SwapReset, Discard, Reclaim, Restart, Spin, Retry

(* The flush thread's report carries one count. *)
LEMMA LossTypeFlusherStep ==
  ASSUME RingTypeOK, LossTypeOK, FlusherTypeOK, FlusherStep
  PROVE  LossTypeOK'
<1>t. /\ due \in [Threads -> Seq(Nat)] /\ owed \in Int /\ Flusher \in Threads
      /\ ri_flush \in Nat /\ lost \in Nat
  BY DEF LossTypeOK, RingTypeOK, FlusherTypeOK, Threads
<1>b. forgot \in BOOLEAN
  BY DEF LossTypeOK
<1>1. CASE TakeFlush
  <2>1. lost + Discarded(ri_flush) \in Nat
    BY <1>t, DiscardedType
  <2>2. <<lost + Discarded(ri_flush)>> \in Seq(Nat)
    BY <2>1
  <2>3. due' \in [Threads -> Seq(Nat)]
    BY <1>1, <1>t, <2>2 DEF TakeFlush, Report
  <2>4. UNCHANGED <<owed, forgot>>
    BY <1>1 DEF TakeFlush, history
  <2> QED  BY <2>3, <2>4, <1>t, <1>b DEF LossTypeOK
<1>2. CASE UNCHANGED <<due, owed, forgot>>
  BY <1>2, <1>t, <1>b DEF LossTypeOK
<1> QED
  BY <1>1, <1>2 DEF FlusherStep, Wake, LookOpen, LookDisk, WriteHeader,
     WriteInactive, WriteActive, WriteNoFile, PickBuffer, PickSize, Copy, CopyFails,
     Clear, TakeLost, Reported, CloseFile, ringVars, locals, history

(* rbt changes what is owed by nothing. *)
LEMMA LossTypeCtrlStep ==
  ASSUME LossTypeOK, CtrlStep
  PROVE  LossTypeOK'
<1>1. UNCHANGED <<due, owed>>
  BY DEF CtrlStep, CtrlContinue, CtrlOpen, CtrlOpenSlot, CtrlOpenFlush,
     CtrlOpenLost, CtrlOpenFlags, CtrlClose, CtrlCloseFlags, ringVars, locals, history
<1>2. forgot' \in BOOLEAN
  <2>1. CASE UNCHANGED forgot
    BY <2>1 DEF LossTypeOK
  <2>2. CASE CtrlOpenFlush
    BY <2>2, Zenon DEF CtrlOpenFlush, LossTypeOK
  <2>3. CASE CtrlOpenLost
    BY <2>3, Zenon DEF CtrlOpenLost, LossTypeOK
  <2> QED
    BY <2>1, <2>2, <2>3 DEF CtrlStep, CtrlContinue, CtrlOpen, CtrlOpenSlot,
       CtrlOpenFlags, CtrlClose, CtrlCloseFlags, ringVars, history
<1> QED  BY <1>1, <1>2 DEF LossTypeOK

(* Steps of rbt. *)
LEMMA CtrlTypeStep ==
  ASSUME TypeInv, CtrlStep
  PROVE  TypeInv'
<1>l. LossTypeOK'
  BY LossTypeCtrlStep DEF TypeInv, TypeOK
<1> USE <1>l DEF TypeInv, TypeOK, RingTypeOK, TicketOK, FlusherTypeOK, CtrlTypeOK
<1>1. CASE CtrlOpen
  BY <1>1 DEF CtrlOpen, ringVars, ringInfo, locals, history, flushVars
<1>2. CASE CtrlOpenSlot
  BY <1>2 DEF CtrlOpenSlot, ResetSlot, locals, flushVars
<1>3. CASE CtrlOpenFlush
  BY <1>3 DEF CtrlOpenFlush, locals, flushVars
<1>4. CASE CtrlOpenLost
  BY <1>4 DEF CtrlOpenLost, locals, flushVars
<1>5. CASE CtrlOpenFlags
  BY <1>5 DEF CtrlOpenFlags, ringVars, ringInfo, locals, history, Flags
<1>6. CASE CtrlClose
  BY <1>6 DEF CtrlClose, ringVars, ringInfo, locals, history
<1>7. CASE CtrlCloseFlags
  BY <1>7 DEF CtrlCloseFlags, ringVars, ringInfo, locals, history, Flags
<1> QED
  BY <1>1, <1>2, <1>3, <1>4, <1>5, <1>6, <1>7 DEF CtrlStep, CtrlContinue

(* TypeInv is inductive. *)
LEMMA TypeStep == TypeInv /\ [Next]_vars => TypeInv'
<1> SUFFICES ASSUME TypeInv, [Next]_vars PROVE TypeInv'
  OBVIOUS
<1> USE DEF TypeInv, TypeOK
<1>1. ASSUME NEW p \in Producers, Rbtrace(p), UNCHANGED Outside PROVE TypeInv'
  <2>1. RingType'
    BY <1>1, RingTypeRbtrace DEF RingType
  <2>2. LossTypeOK'
    BY <1>1 DEF Rbtrace, history, LossTypeOK
  <2> QED
    BY <1>1, <2>1, <2>2 DEF RingType, Outside, flushVars, ctlVars, FlusherTypeOK, CtrlTypeOK
<1>2. ASSUME NEW t \in Threads, RingStep(t), UNCHANGED Outside PROVE TypeInv'
  <2>1. RingType'
    BY <1>2, RingTypeStep DEF RingType
  <2>2. LossTypeOK'
    BY <1>2, LossTypeStep
  <2> QED
    BY <1>2, <2>1, <2>2 DEF RingType, Outside, flushVars, ctlVars, FlusherTypeOK, CtrlTypeOK
<1>3. CASE FlusherStep /\ UNCHANGED ctlVars
  <2>1. RingType' /\ FlusherTypeOK'
    BY <1>3, RingTypeFlusherStep, FlusherTypeStep DEF RingType
  <2>2. LossTypeOK'
    BY <1>3, LossTypeFlusherStep
  <2> QED  BY <1>3, <2>1, <2>2 DEF RingType, ctlVars, CtrlTypeOK
<1>4. CASE CtrlStep
  BY <1>4, CtrlTypeStep
<1>5. CASE UNCHANGED vars
  BY <1>5 DEF vars, ringVars, ringInfo, locals, history, flushVars, ctlVars,
              RingTypeOK, LossTypeOK, TicketOK, FlusherTypeOK, CtrlTypeOK
<1> QED  BY <1>1, <1>2, <1>3, <1>4, <1>5 DEF Next, FlushThread, Threads

(* Every variable keeps its type: the entry that a thread is about to fill *)
(* (ri_cir_off + slot, with both read at different times) is always one of *)
(* the ring.                                                               *)
THEOREM TypeCorrect == Spec => []TypeOK
<1>1. TypeInv => TypeOK
  BY DEF TypeInv
<1> QED  BY TypeInit, TypeStep, <1>1, PTL DEF Spec

-----------------------------------------------------------------------------
(* One writer per entry and round. *)

Holding(t) == pc[t] \in {"locate", "fill"}

(* Within a round the tickets that threads hold were drawn from the same   *)
(* counter: they are below it and differ; an entry keeps the ticket that   *)
(* led to it, whichever buffer it is in.                                   *)
RoundInv ==
  /\ \A t \in Threads : Holding(t) =>
       /\ drawn[t] <= round
       /\ drawn[t] = round => slot[t] <= ri_slot
  /\ \A t \in Threads : pc[t] = "fill" => re[t] \in {slot[t], slot[t] + RcSize}
  /\ \A t, u \in Threads :
       t # u /\ Holding(t) /\ Holding(u) /\ drawn[t] = drawn[u] => slot[t] # slot[u]

(* A thread draws a ticket: the counter grows, and what the others hold    *)
(* of this round is below the new ticket.                                  *)
LEMMA RoundDraw ==
  ASSUME TypeInv, RoundInv, NEW t \in Threads, NEW full, full \notin {"locate", "fill"},
         Draw(t, full), UNCHANGED <<round, re>>
  PROVE  RoundInv'
BY DEF TypeInv, TypeOK, RingTypeOK, RoundInv, Holding, Draw, Goto, InBuffer

(* A new round begins: no ticket held is of that round. *)
LEMMA RoundReset ==
  ASSUME TypeInv, RoundInv, ResetSlot, UNCHANGED <<slot, drawn, re>>,
         \A t \in Threads : pc'[t] \in {"locate", "fill"} => pc'[t] = pc[t]
  PROVE  RoundInv'
BY DEF TypeInv, TypeOK, RingTypeOK, RoundInv, Holding, ResetSlot

(* A step that leaves the tickets alone. *)
LEMMA RoundKeep ==
  ASSUME TypeInv, RoundInv, UNCHANGED <<ri_slot, round, slot, drawn, re>>,
         \A t \in Threads : pc'[t] \in {"locate", "fill"} => pc'[t] = pc[t]
  PROVE  RoundInv'
BY DEF TypeInv, TypeOK, RingTypeOK, RoundInv, Holding

(* RoundInv is inductive relative to TypeInv. *)
LEMMA RoundStep == TypeInv /\ RoundInv /\ [Next]_vars => RoundInv'
<1> SUFFICES ASSUME TypeInv, RoundInv, [Next]_vars PROVE RoundInv'
  OBVIOUS
<1> USE DEF Goto
<1>t. pc \in [Threads -> Labels]
  BY DEF TypeInv, TypeOK, RingTypeOK
<1>1. ASSUME NEW p \in Producers, Rbtrace(p) PROVE RoundInv'
  BY <1>1, <1>t, RoundKeep DEF Rbtrace, Enter, ringInfo, history
<1>2. ASSUME NEW t \in Threads, RingStep(t) PROVE RoundInv'
  <2>1. CASE Claim(t)
    BY <2>1, RoundDraw DEF Claim
  <2>2. CASE Locate(t)
    BY <2>2 DEF Locate, TypeInv, TypeOK, RingTypeOK, TicketOK, Slots, RoundInv,
                Holding, ringInfo, history
  <2>3. CASE Fill(t)
    <3>1. \A u \in Threads : pc'[u] \in {"locate", "fill"} => u # t /\ pc'[u] = pc[u]
      BY <2>3, <1>t DEF Fill, Return
    <3> QED  BY <2>3, <3>1 DEF Fill, TypeInv, TypeOK, RingTypeOK, RoundInv, Holding, ringInfo
  <2>4. CASE Wrap(t)
    BY <2>4, <1>t, RoundKeep DEF Wrap
  <2>5. CASE SwapTemp(t)
    BY <2>5, <1>t, RoundKeep DEF SwapTemp, ringInfo, history
  <2>6. CASE SwapCir(t)
    BY <2>6, <1>t, RoundKeep DEF SwapCir, history
  <2>7. CASE SwapAlt(t)
    BY <2>7, <1>t, RoundKeep DEF SwapAlt, history
  <2>8. CASE SwapReset(t)
    BY <2>8, <1>t, RoundReset DEF SwapReset
  <2>9. CASE SwapLost(t)
    BY <2>9, <1>t, RoundKeep DEF SwapLost, history
  <2>10. CASE Discard(t)
    BY <2>10, <1>t, RoundReset DEF Discard
  <2>11. CASE Reclaim(t)
    BY <2>11, RoundDraw DEF Reclaim
  <2>12. CASE Restart(t)
    BY <2>12, <1>t, RoundReset, RoundKeep DEF Restart
  <2>13. CASE Spin(t)
    BY <2>13, <1>t, RoundKeep DEF Spin, ringInfo, history
  <2>14. CASE Retry(t)
    BY <2>14, RoundDraw DEF Retry
  <2>15. CASE Lose(t)
    <3>1. \A u \in Threads : pc'[u] \in {"locate", "fill"} => u # t /\ pc'[u] = pc[u]
      BY <2>15, <1>t DEF Lose, Return
    <3> QED  BY <2>15, <3>1 DEF Lose, TypeInv, TypeOK, RingTypeOK, RoundInv, Holding
  <2> QED
    BY <1>2, <2>1, <2>2, <2>3, <2>4, <2>5, <2>6, <2>7, <2>8, <2>9, <2>10, <2>11,
       <2>12, <2>13, <2>14, <2>15 DEF RingStep
<1>3. CASE FlusherStep
  <2>1. UNCHANGED <<ri_slot, round, slot, drawn, re>>
    BY <1>3 DEF FlusherStep, Wake, LookOpen, LookDisk, WriteHeader, WriteInactive,
       WriteActive, WriteNoFile, PickBuffer, PickSize, Copy, CopyFails, Clear,
       TakeLost, TakeFlush, Report, Reported,
       CloseFile, ringVars, ringInfo, locals, history
  <2>2. CASE TakeFlush
    BY <2>1, <2>2, <1>t, RoundKeep DEF TakeFlush, Report, Enter
  <2>3. CASE UNCHANGED pc
    BY <2>1, <2>3, RoundKeep
  <2> QED
    BY <1>3, <2>2, <2>3 DEF FlusherStep, Wake, LookOpen, LookDisk, WriteHeader,
       WriteInactive, WriteActive, WriteNoFile, PickBuffer, PickSize, Copy, CopyFails,
       Clear, TakeLost, Reported, CloseFile, ringVars, locals
<1>4. CASE CtrlStep
  <2>1. CASE CtrlOpenSlot
    BY <2>1, RoundReset DEF CtrlOpenSlot, locals
  <2>2. CASE UNCHANGED <<ri_slot, round, slot, drawn, re, pc>>
    BY <2>2, RoundKeep
  <2> QED
    BY <1>4, <2>1, <2>2 DEF CtrlStep, CtrlContinue, CtrlOpen, CtrlOpenFlush,
       CtrlOpenLost, CtrlOpenFlags, CtrlClose, CtrlCloseFlags, ringVars, ringInfo,
       locals, history
<1>5. CASE UNCHANGED vars
  BY <1>5, RoundKeep DEF vars, ringVars, ringInfo, locals, history
<1> QED  BY <1>1, <1>2, <1>3, <1>4, <1>5 DEF Next, FlushThread, Threads

(* In one round of the ring no two threads are about to store into the     *)
(* same entry, although a thread reads the active buffer only after it     *)
(* drew its ticket and a swap may come between.                            *)
THEOREM WritersApart == Spec => []OneWriterPerRound
<1>1. Init => RoundInv
  BY DEF Init, RingInit, RoundInv, Holding
<1>2. TypeInv /\ RoundInv => OneWriterPerRound
  <2> SUFFICES ASSUME TypeInv, RoundInv, NEW t \in Threads, NEW u \in Threads,
                      t # u, pc[t] = "fill", pc[u] = "fill", re[t] = re[u]
               PROVE  drawn[t] # drawn[u]
    BY DEF OneWriterPerRound
  <2>1. /\ slot[t] \in Slots /\ slot[u] \in Slots
        /\ re[t] \in {slot[t], slot[t] + RcSize}
        /\ re[u] \in {slot[u], slot[u] + RcSize}
    BY DEF TypeInv, TicketOK, RoundInv
  <2>2. slot[t] = slot[u]
    BY <2>1 DEF Slots
  <2> QED  BY <2>2 DEF RoundInv, Holding
<1> QED  BY TypeInit, TypeStep, <1>1, RoundStep, <1>2, PTL DEF Spec

=============================================================================
