--------------------------- MODULE RbtLogProofs ---------------------------
(***************************************************************************)
(* Proofs that a record reaches the trace file at most once, and that      *)
(* RbtTrace implements LossyLog.                                           *)
(***************************************************************************)
EXTENDS RbtTraceProofs

USE SizeAssumption, ThreadAssumption, CallsAssumption, EntryAssumption

(* A thread in rbtrace() traces the last record its program began; the     *)
(* flush thread traces reports of losses and no record.                    *)
CallInv ==
  /\ \A p \in Producers : pc[p] # "idle" => call[p] = <<p, calls[p]>> /\ calls[p] > 0
  /\ call[Flusher] \notin Record

(* r was traced, and the call that traced it has returned. *)
Completed(r) ==
  /\ r[2] <= calls[r[1]]
  /\ r[2] = calls[r[1]] => pc[r[1]] = "idle"

(* pwrite() has copied entry a and memset() has yet to clear it. *)
InFlight(a) ==
  \/ fpc = "copy"  /\ buf <= a /\ a < buf + done
  \/ fpc = "clear" /\ buf + done <= a /\ a < buf + len

(* Entry a waits to be cleared because the write under way has put it at   *)
(* place i of the file: if that write fails, the place is torn.            *)
Pending(a, i) ==
  /\ InFlight(a)
  /\ fpc = "copy" => i > Len(file) - done

(* A record is in one entry and, torn places aside, at one place of the    *)
(* file, and in both only between the copy and the clearing of that entry. *)
OnceInv ==
  /\ \A a \in Addresses : mem[a] \in Record => Completed(mem[a])
  /\ \A i \in 1 .. Len(file) : file[i] \in Record => Completed(file[i])
  /\ \A a, b \in Addresses : mem[a] \in Record /\ mem[a] = mem[b] => a = b
  /\ \A a \in Addresses, i \in (1 .. Len(file)) \ torn :
       mem[a] \in Record /\ mem[a] = file[i] => Pending(a, i)
  /\ AtMostOnce
  /\ fpc = "copy" => done <= Len(file)

-----------------------------------------------------------------------------

(* CallInv is inductive relative to TypeInv. *)
LEMMA CallStep == TypeInv /\ CallInv /\ [Next]_vars => CallInv'
<1> SUFFICES ASSUME TypeInv, CallInv, [Next]_vars PROVE CallInv'
  OBVIOUS
<1> USE DEF Goto
<1>t. /\ pc \in [Threads -> Labels] /\ call \in [Threads -> Entry]
      /\ calls \in [Producers -> 0 .. MaxCalls]
      /\ Producers \subseteq Threads /\ Flusher \in Threads
  BY DEF TypeInv, TypeOK, RingTypeOK, Threads
<1>f. RBT_NULL \notin Record /\ RBT_LOST \notin Record
  OBVIOUS
<1>1. ASSUME NEW p \in Producers, Rbtrace(p) PROVE CallInv'
  BY <1>1, <1>t DEF Rbtrace, Enter, CallInv
<1>2. ASSUME NEW t \in Threads, RingStep(t) PROVE CallInv'
  <2>1. /\ UNCHANGED calls
        /\ \A u \in Threads : pc'[u] # "idle" => pc[u] # "idle" /\ call'[u] = call[u]
        /\ \A u \in Threads : call'[u] \in {call[u], RBT_NULL}
    BY <1>2, <1>t DEF RingStep, Claim, Locate, Fill, Wrap, SwapTemp, SwapCir, SwapAlt,
       SwapReset, SwapLost, Discard, Reclaim, Restart, Spin, Retry, Lose, Draw, Return
  <2> QED  BY <2>1, <1>t, <1>f DEF CallInv
<1>3. CASE FlusherStep
  <2>1. CASE TakeFlush
    BY <2>1, <1>t, <1>f DEF TakeFlush, Report, Enter, CallInv
  <2>2. CASE UNCHANGED <<pc, call, calls>>
    BY <2>2 DEF CallInv
  <2> QED
    BY <1>3, <2>1, <2>2 DEF FlusherStep, Wake, LookOpen, LookDisk, WriteHeader,
       WriteInactive, WriteActive, WriteNoFile, PickBuffer, PickSize, Copy, CopyFails,
       Clear, TakeLost, Reported, CloseFile, ringVars, locals
<1>4. CASE CtrlStep
  <2>1. UNCHANGED <<pc, call, calls>>
    BY <1>4 DEF CtrlStep, CtrlContinue, CtrlOpen, CtrlOpenSlot, CtrlOpenFlush,
       CtrlOpenLost, CtrlOpenFlags, CtrlClose, CtrlCloseFlags, ringVars, locals
  <2> QED  BY <2>1 DEF CallInv
<1>5. CASE UNCHANGED vars
  BY <1>5 DEF vars, ringVars, locals, CallInv
<1> QED  BY <1>1, <1>2, <1>3, <1>4, <1>5 DEF Next, FlushThread, Threads

(* Calls are counted upwards, and a call that returned does not resume:    *)
(* what was completed stays so.                                            *)
Forward ==
  \A p \in Producers :
    /\ calls[p] <= calls'[p]
    /\ pc[p] = "idle" /\ calls'[p] = calls[p] => pc'[p] = "idle"

(* r is completed once the step is taken. *)
CompletedNext(r) ==
  /\ r[2] <= calls'[r[1]]
  /\ r[2] = calls'[r[1]] => pc'[r[1]] = "idle"

(* A record whose call has returned stays one. *)
LEMMA CompletedStays ==
  ASSUME TypeInv, TypeInv', Forward
  PROVE  \A r \in Record : Completed(r) => CompletedNext(r)
BY DEF TypeInv, TypeOK, RingTypeOK, Forward, Completed, CompletedNext, Record

(* A step never takes back a call of rbtrace(). *)
LEMMA StepForward == TypeInv /\ [Next]_vars => Forward
<1> SUFFICES ASSUME TypeInv, [Next]_vars PROVE Forward
  OBVIOUS
<1> USE DEF Goto, Forward
<1>t. /\ pc \in [Threads -> Labels] /\ calls \in [Producers -> 0 .. MaxCalls]
      /\ Producers \subseteq Threads
      /\ Flusher \notin Producers
  BY DEF TypeInv, TypeOK, RingTypeOK, Threads
<1>1. ASSUME NEW p \in Producers, Rbtrace(p) PROVE Forward
  BY <1>1, <1>t DEF Rbtrace, Enter
<1>2. ASSUME NEW t \in Threads, RingStep(t) PROVE Forward
  <2>1. /\ UNCHANGED calls
        /\ \A u \in Threads : pc[u] = "idle" => pc'[u] = "idle"
    BY <1>2, <1>t DEF RingStep, Claim, Locate, Fill, Wrap, SwapTemp, SwapCir, SwapAlt,
       SwapReset, SwapLost, Discard, Reclaim, Restart, Spin, Retry, Lose, Draw, Return
  <2> QED  BY <2>1, <1>t
<1>3. CASE FlusherStep
  <2>1. CASE TakeFlush
    BY <2>1, <1>t DEF TakeFlush, Report, Enter
  <2>2. CASE UNCHANGED <<pc, calls>>
    BY <2>2, <1>t
  <2> QED
    BY <1>3, <2>1, <2>2 DEF FlusherStep, Wake, LookOpen, LookDisk, WriteHeader,
       WriteInactive, WriteActive, WriteNoFile, PickBuffer, PickSize, Copy, CopyFails,
       Clear, TakeLost, Reported, CloseFile, ringVars, locals
<1>4. CASE CtrlStep
  <2>1. UNCHANGED <<pc, calls>>
    BY <1>4 DEF CtrlStep, CtrlContinue, CtrlOpen, CtrlOpenSlot, CtrlOpenFlush,
       CtrlOpenLost, CtrlOpenFlags, CtrlClose, CtrlCloseFlags, ringVars, locals
  <2> QED  BY <2>1, <1>t
<1>5. CASE UNCHANGED vars
  BY <1>5, <1>t DEF vars, ringVars, locals
<1> QED  BY <1>1, <1>2, <1>3, <1>4, <1>5 DEF Next, FlushThread, Threads

(* A step that neither stores nor copies nor clears. *)
LEMMA OnceKeep ==
  ASSUME TypeInv, TypeInv', OnceInv, Forward, UNCHANGED <<mem, file, torn>>,
         \A a \in Addresses, i \in 1 .. Len(file) : Pending(a, i) => Pending(a, i)',
         fpc' = "copy" => done' <= Len(file)
  PROVE  OnceInv'
<1>1. \A a \in Addresses : mem[a] \in Record => CompletedNext(mem[a])
  BY CompletedStays DEF OnceInv
<1>2. \A i \in 1 .. Len(file) : file[i] \in Record => CompletedNext(file[i])
  BY CompletedStays DEF OnceInv
<1> QED  BY <1>1, <1>2 DEF OnceInv, AtMostOnce, Completed, CompletedNext

(* The record a thread stores is new to the ring and to the file. *)
LEMMA OnceFill ==
  ASSUME TypeInv, TypeInv', CallInv, OnceInv, Forward, NEW t \in Threads, Fill(t),
         UNCHANGED flushVars
  PROVE  OnceInv'
<1> DEFINE r == Tracing(t)
<1>t. /\ mem \in [Addresses -> Entry] /\ re[t] \in Addresses
      /\ pc \in [Threads -> Labels] /\ depth[t] \in Nat
      /\ calls \in [Producers -> 0 .. MaxCalls]
      /\ mem' = [mem EXCEPT ![re[t]] = r]
      /\ UNCHANGED <<file, torn, fpc, buf, len, done, calls>>
  BY DEF TypeInv, TypeOK, RingTypeOK, Fill, flushVars
<1>1. ASSUME r \in Record
      PROVE  r[1] = t /\ r[2] = calls[t] /\ pc[t] = "fill" /\ pc'[t] = "idle" /\ t \in Producers
  <2>1. depth[t] = 0 /\ r = call[t]
    BY <1>1, <1>t DEF Tracing
  <2>2. t \in Producers
    BY <1>1, <2>1 DEF CallInv, Threads
  <2>3. pc[t] = "fill" /\ call[t] = <<t, calls[t]>>
    BY <2>2 DEF Fill, CallInv
  <2>4. pc'[t] = "idle"
    BY <2>1, <1>t DEF Fill, Return, Goto
  <2> QED  BY <2>1, <2>2, <2>3, <2>4
<1>2. r \in Record => ~Completed(r)
  BY <1>1 DEF Completed
<1>3. r \in Record => CompletedNext(r)
  BY <1>1, <1>t DEF CompletedNext
<1> HIDE DEF r
<1>4. \A a \in Addresses : mem'[a] \in Record => CompletedNext(mem'[a])
  <2> SUFFICES ASSUME NEW a \in Addresses, mem'[a] \in Record PROVE CompletedNext(mem'[a])
    OBVIOUS
  <2>1. CASE a = re[t]
    BY <2>1, <1>t, <1>3
  <2>2. CASE a # re[t]
    BY <2>2, <1>t, CompletedStays DEF OnceInv
  <2> QED  BY <2>1, <2>2
<1>5. \A i \in 1 .. Len(file) : file[i] \in Record => CompletedNext(file[i])
  BY CompletedStays DEF OnceInv
<1>6. \A a, b \in Addresses : mem'[a] \in Record /\ mem'[a] = mem'[b] => a = b
  BY <1>t, <1>2 DEF OnceInv
<1>7. \A a \in Addresses, i \in (1 .. Len(file)) \ torn :
        mem'[a] \in Record /\ mem'[a] = file[i] => Pending(a, i)'
  BY <1>t, <1>2 DEF OnceInv, Pending, InFlight
<1> QED  BY <1>t, <1>4, <1>5, <1>6, <1>7 DEF OnceInv, AtMostOnce, Completed, CompletedNext

(* What pwrite() copies is not in the file yet, torn places aside. *)
LEMMA CopyNew ==
  ASSUME TypeInv, OnceInv, fpc = "copy", Load(buf + done) \in Record
  PROVE  /\ Completed(Load(buf + done))
         /\ buf + done \in Addresses /\ Load(buf + done) = mem[buf + done]
         /\ \A i \in (1 .. Len(file)) \ torn : file[i] # Load(buf + done)
<1>1. buf + done \in Addresses /\ Load(buf + done) = mem[buf + done]
  BY DEF Load
<1>2. ~InFlight(buf + done)
  BY DEF InFlight, TypeInv, TypeOK, FlusherTypeOK
<1> QED  BY <1>1, <1>2 DEF OnceInv, Pending

(* Copying an entry keeps every record in one place of the file. *)
LEMMA OnceCopy ==
  ASSUME TypeInv, TypeInv', OnceInv, Forward, Copy
  PROVE  OnceInv'
<1> DEFINE e == Load(buf + done)
<1>t. /\ buf \in Nat /\ len \in Nat /\ done \in 0 .. len /\ file \in Seq(Entry)
      /\ torn \in SUBSET (1 .. Len(file))
      /\ fpc = "copy" /\ done < len /\ UNCHANGED <<mem, torn, buf, len>>
      /\ file' = Append(file, e)
  BY DEF TypeInv, TypeOK, FlusherTypeOK, Copy, ringVars
<1>1. \/ done' = done + 1 /\ fpc' = "copy" /\ done + 1 < len
      \/ done' = 0 /\ fpc' = "clear" /\ done + 1 = len
  BY <1>t DEF Copy, EntryDone
<1>2. /\ Len(file') = Len(file) + 1 /\ Len(file) \in Nat
      /\ file'[Len(file) + 1] = e
      /\ \A i \in 1 .. Len(file) : file'[i] = file[i]
  BY <1>t
<1>3. \A a \in Addresses : InFlight(a)' <=> InFlight(a) \/ a = buf + done
  BY <1>1, <1>t DEF InFlight, Addresses
<1>4. e \in Record => /\ Completed(e)
                      /\ buf + done \in Addresses /\ e = mem[buf + done]
                      /\ \A i \in (1 .. Len(file)) \ torn : file[i] # e
  BY <1>t, CopyNew
<1> HIDE DEF e
<1>5. \A a \in Addresses : mem[a] \in Record => CompletedNext(mem[a])
  BY CompletedStays DEF OnceInv
<1>6. \A i \in 1 .. Len(file') : file'[i] \in Record => CompletedNext(file'[i])
  BY <1>2, <1>4, CompletedStays DEF OnceInv
<1>7. \A a \in Addresses, i \in (1 .. Len(file')) \ torn :
        mem[a] \in Record /\ mem[a] = file'[i] => Pending(a, i)'
  <2> SUFFICES ASSUME NEW a \in Addresses, NEW i \in (1 .. Len(file')) \ torn,
                      mem[a] \in Record, mem[a] = file'[i]
               PROVE  Pending(a, i)'
    OBVIOUS
  <2>1. CASE i = Len(file) + 1
    <3>1. a = buf + done
      BY <2>1, <1>2, <1>4 DEF OnceInv
    <3> QED  BY <2>1, <3>1, <1>1, <1>2, <1>3, <1>t DEF Pending
  <2>2. CASE i \in (1 .. Len(file)) \ torn
    <3>1. Pending(a, i)
      BY <2>2, <1>2 DEF OnceInv
    <3> QED  BY <3>1, <1>1, <1>2, <1>3, <1>t DEF Pending
  <2> QED  BY <2>1, <2>2, <1>2
<1>8. AtMostOnce'
  BY <1>2, <1>4, <1>t DEF OnceInv, AtMostOnce
<1>9. fpc' = "copy" => done' <= Len(file')
  BY <1>1, <1>2, <1>t DEF OnceInv
<1> QED
  BY <1>t, <1>5, <1>6, <1>7, <1>8, <1>9 DEF OnceInv, Completed, CompletedNext

(* Clearing an entry of the ring keeps OnceInv. *)
LEMMA OnceClear ==
  ASSUME TypeInv, TypeInv', OnceInv, Forward, Clear
  PROVE  OnceInv'
<1>t. /\ buf \in Nat /\ len \in Nat /\ done \in 0 .. len
      /\ fpc = "clear" /\ done < len
      /\ UNCHANGED <<file, torn>> /\ mem \in [Addresses -> Entry]
      /\ RBT_NULL \notin Record
  BY DEF TypeInv, TypeOK, RingTypeOK, FlusherTypeOK, Clear
<1>1. /\ \/ done' = done + 1 /\ UNCHANGED <<fpc, buf, len>>
         \/ fpc' = "take_lost" /\ done + 1 = len
      /\ mem' = IF buf + done \in Addresses
                THEN [mem EXCEPT ![buf + done] = RBT_NULL] ELSE mem
  BY <1>t DEF Clear, EntryDone
<1>2. \A a \in Addresses : mem'[a] = IF a = buf + done THEN RBT_NULL ELSE mem[a]
  BY <1>1, <1>t
<1>3. \A a \in Addresses : InFlight(a) /\ a # buf + done => InFlight(a)'
  BY <1>1, <1>t DEF InFlight, Addresses
<1>4. \A a \in Addresses : mem'[a] \in Record => CompletedNext(mem'[a])
  BY <1>2, <1>t, CompletedStays DEF OnceInv
<1>5. \A i \in 1 .. Len(file) : file[i] \in Record => CompletedNext(file[i])
  BY CompletedStays DEF OnceInv
<1>6. \A a, b \in Addresses : mem'[a] \in Record /\ mem'[a] = mem'[b] => a = b
  BY <1>2, <1>t DEF OnceInv
<1>c. fpc' # "copy"
  BY <1>1, <1>t
<1>7. \A a \in Addresses, i \in (1 .. Len(file)) \ torn :
        mem'[a] \in Record /\ mem'[a] = file[i] => Pending(a, i)'
  BY <1>2, <1>3, <1>c, <1>t DEF OnceInv, Pending
<1> QED
  BY <1>t, <1>c, <1>4, <1>5, <1>6, <1>7 DEF OnceInv, AtMostOnce, Completed, CompletedNext

(* When a write fails, the places it has written are torn. *)
LEMMA OnceCopyFails ==
  ASSUME TypeInv, TypeInv', OnceInv, Forward, CopyFails
  PROVE  OnceInv'
<1>t. /\ fpc = "copy" /\ fpc' = "take_lost" /\ UNCHANGED <<mem, file>>
      /\ torn' = torn \cup {i \in 1 .. Len(file) : i > Len(file) - done}
  BY DEF CopyFails, FlusherGoto, ringVars
<1>1. \A a \in Addresses : mem[a] \in Record => CompletedNext(mem[a])
  BY CompletedStays DEF OnceInv
<1>2. \A i \in 1 .. Len(file) : file[i] \in Record => CompletedNext(file[i])
  BY CompletedStays DEF OnceInv
<1>3. \A a \in Addresses, i \in (1 .. Len(file)) \ torn' :
        ~(mem[a] \in Record /\ mem[a] = file[i])
  BY <1>t DEF OnceInv, Pending
<1>4. AtMostOnce'
  BY <1>t DEF OnceInv, AtMostOnce
<1> QED  BY <1>t, <1>1, <1>2, <1>3, <1>4 DEF OnceInv, Completed, CompletedNext

(* OnceInv is inductive relative to TypeInv and CallInv. *)
LEMMA OnceStep ==
  TypeInv /\ TypeInv' /\ CallInv /\ OnceInv /\ [Next]_vars => OnceInv'
<1> SUFFICES ASSUME TypeInv, TypeInv', CallInv, OnceInv, [Next]_vars PROVE OnceInv'
  OBVIOUS
<1>f. Forward
  BY StepForward
<1>k. ASSUME UNCHANGED <<mem, file, torn, fpc, buf, len, done>> PROVE OnceInv'
  <2>1. fpc' = "copy" => done' <= Len(file)
    BY <1>k DEF OnceInv
  <2>2. \A a \in Addresses, i \in 1 .. Len(file) : Pending(a, i) => Pending(a, i)'
    BY <1>k DEF Pending, InFlight
  <2> QED  BY <1>f, <1>k, <2>1, <2>2, OnceKeep
<1>1. ASSUME NEW p \in Producers, Rbtrace(p), UNCHANGED Outside PROVE OnceInv'
  BY <1>1, <1>k DEF Rbtrace, Outside, flushVars
<1>2. ASSUME NEW t \in Threads, RingStep(t), UNCHANGED Outside PROVE OnceInv'
  <2>1. CASE Fill(t)
    BY <1>2, <2>1, <1>f, OnceFill DEF Outside
  <2>2. CASE UNCHANGED mem
    BY <1>2, <2>2, <1>k DEF Outside, flushVars
  <2> QED
    BY <1>2, <2>1, <2>2 DEF RingStep, Claim, Locate, Wrap, SwapTemp, SwapCir, SwapAlt,
       SwapReset, SwapLost, Discard, Reclaim, Restart, Spin, Retry, Lose
<1>3. CASE FlusherStep
  <2>1. CASE Copy
    BY <2>1, <1>f, OnceCopy
  <2>2. CASE Clear
    BY <2>2, <1>f, OnceClear
  <2>3. CASE CopyFails
    BY <2>3, <1>f, OnceCopyFails
  <2>4. CASE /\ fpc \notin {"copy", "clear"}
             /\ UNCHANGED <<mem, file, torn>>
             /\ fpc' = "copy" => done' = 0
    <3>1. fpc' = "copy" => done' <= Len(file)
      BY <2>4 DEF TypeInv, TypeOK, FlusherTypeOK
    <3>2. \A a \in Addresses, i \in 1 .. Len(file) : Pending(a, i) => Pending(a, i)'
      BY <2>4 DEF Pending, InFlight
    <3> QED  BY <2>4, <3>1, <3>2, <1>f, OnceKeep
  <2> QED
    BY <1>3, <2>1, <2>2, <2>3, <2>4 DEF FlusherStep, FlusherGoto, Wake, LookOpen,
       LookDisk, WriteHeader, WriteInactive, WriteActive, WriteNoFile, PickBuffer,
       PickSize, TakeLost, TakeFlush, Report, Reported, CloseFile, ringVars
<1>4. CASE CtrlStep
  BY <1>4, <1>k DEF CtrlStep, CtrlContinue, CtrlOpen, CtrlOpenSlot, CtrlOpenFlush,
     CtrlOpenLost, CtrlOpenFlags, CtrlClose, CtrlCloseFlags, ringVars, flushVars
<1>5. CASE UNCHANGED vars
  BY <1>5, <1>k DEF vars, ringVars, flushVars
<1> QED  BY <1>1, <1>2, <1>3, <1>4, <1>5 DEF Next, FlushThread, Threads

(* Both hold for the empty ring and the empty file. *)
LEMMA OnceInit == Init => CallInv /\ OnceInv
<1> SUFFICES ASSUME Init PROVE CallInv /\ OnceInv
  OBVIOUS
<1>1. CallInv
  BY DEF Init, RingInit, CallInv, Threads
<1>2. Len(file) = 0
  BY DEF Init, FlusherInit
<1>3. \A a \in Addresses : mem[a] \notin Record
  BY DEF Init, RingInit
<1>4. fpc = "wait"
  BY DEF Init, FlusherInit
<1> QED  BY <1>1, <1>2, <1>3, <1>4 DEF OnceInv, AtMostOnce

-----------------------------------------------------------------------------

(* A record is written to the trace file at most once, not counting what   *)
(* failed writes had written, however the writers, the swap, the flush     *)
(* thread and rbt are interleaved: also when the flush thread writes the   *)
(* wrong buffer, an entry that nobody filled in this round, or more than   *)
(* one buffer, and when a write fails half way and leaves its buffer as it *)
(* is.                                                                     *)
THEOREM WrittenAtMostOnce == Spec => []AtMostOnce
<1>1. OnceInv => AtMostOnce
  BY DEF OnceInv
<1> QED  BY TypeInit, TypeStep, OnceInit, CallStep, OnceStep, <1>1, PTL DEF Spec

(* A step of the system is a step of the log or leaves it alone. *)
LEMMA LogStep ==
  TypeInv /\ TypeInv' /\ OnceInv /\ [Next]_vars => [Log!LogNext]_(Log!logVars)
<1> SUFFICES ASSUME TypeInv, TypeInv', OnceInv, [Next]_vars
             PROVE  Log!LogNext \/ UNCHANGED Log!logVars
  OBVIOUS
<1>t. calls \in [Producers -> 0 .. MaxCalls]
  BY DEF TypeInv, TypeOK, RingTypeOK
<1>k. ASSUME UNCHANGED <<calls, file, torn>> PROVE UNCHANGED Log!logVars
  BY <1>k DEF Log!logVars, Traced
<1>1. ASSUME NEW p \in Producers, Rbtrace(p), UNCHANGED Outside PROVE Log!Trace
  <2> DEFINE r == <<p, calls[p] + 1>>
  <2>1. calls[p] < MaxCalls /\ calls' = [calls EXCEPT ![p] = @ + 1]
    BY <1>1 DEF Rbtrace
  <2>2. r \in Record /\ r \notin Traced
    BY <2>1, <1>t DEF Record, Traced
  <2>3. Traced' = Traced \cup {r}
    <3>1. ASSUME NEW q \in Record PROVE q[2] <= calls'[q[1]] <=> q[2] <= calls[q[1]] \/ q = r
      <4>1. PICK x \in Producers, n \in 1 .. MaxCalls : q = <<x, n>>
        BY DEF Record
      <4> QED  BY <4>1, <2>1, <1>t
    <3> QED  BY <3>1, <2>2 DEF Traced
  <2>4. UNCHANGED <<file, torn>>
    BY <1>1 DEF Outside, flushVars
  <2> QED  BY <2>2, <2>3, <2>4 DEF Log!Trace
<1>2. ASSUME NEW t \in Threads, RingStep(t), UNCHANGED Outside PROVE UNCHANGED Log!logVars
  BY <1>2, <1>k DEF RingStep, Claim, Locate, Fill, Wrap, SwapTemp, SwapCir, SwapAlt,
     SwapReset, SwapLost, Discard, Reclaim, Restart, Spin, Retry, Lose, Outside, flushVars
<1>3. CASE FlusherStep
  <2>1. CASE Copy
    <3> DEFINE e == Load(buf + done)
    <3>1. file' = Append(file, e) /\ UNCHANGED <<calls, torn>> /\ fpc = "copy"
      BY <2>1 DEF Copy, ringVars, locals
    <3>2. e \in Record => e \in Traced /\ \A i \in (1 .. Len(file)) \ torn : file[i] # e
      BY <3>1, CopyNew DEF Traced, Completed
    <3>3. e \in Entry
      BY DEF Load, Entry, TypeInv, TypeOK, RingTypeOK
    <3>4. e \in Traced \cup {RBT_NULL, RBT_LOST}
      BY <3>2, <3>3 DEF Entry
    <3>5. e \in Traced => e \in Record
      BY DEF Traced
    <3>6. UNCHANGED Traced
      BY <3>1 DEF Traced
    <3> HIDE DEF e
    <3> QED  BY <3>1, <3>2, <3>4, <3>5, <3>6 DEF Log!LogNext, Log!Write, Log!InLog
  <2>2. CASE CopyFails
    <3> DEFINE n == Len(file) - done
    <3>1. /\ torn' = torn \cup {i \in 1 .. Len(file) : i > Len(file) - done}
          /\ fpc = "copy" /\ UNCHANGED <<calls, file>>
      BY <2>2 DEF CopyFails, ringVars, locals
    <3>2. Len(file) \in Nat /\ done \in Nat /\ done <= Len(file)
      BY <3>1 DEF TypeInv, TypeOK, FlusherTypeOK, OnceInv
    <3>3. n \in 0 .. Len(file) /\ torn' = torn \cup (n + 1 .. Len(file))
      BY <3>1, <3>2
    <3>4. UNCHANGED Traced
      BY <3>1 DEF Traced
    <3> HIDE DEF n
    <3> QED  BY <3>1, <3>3, <3>4 DEF Log!LogNext, Log!Fail
  <2>3. CASE UNCHANGED <<calls, file, torn>>
    BY <2>3, <1>k
  <2> QED
    BY <1>3, <2>1, <2>2, <2>3 DEF FlusherStep, Wake, LookOpen, LookDisk, WriteHeader,
       WriteInactive, WriteActive, WriteNoFile, PickBuffer, PickSize, Clear, TakeLost,
       TakeFlush, Report, Reported, CloseFile, ringVars, locals
<1>4. CASE CtrlStep
  BY <1>4, <1>k DEF CtrlStep, CtrlContinue, CtrlOpen, CtrlOpenSlot, CtrlOpenFlush,
     CtrlOpenLost, CtrlOpenFlags, CtrlClose, CtrlCloseFlags, ringVars, locals, flushVars
<1>5. CASE UNCHANGED vars
  BY <1>5, <1>k DEF vars, ringVars, locals, flushVars
<1> QED
  BY <1>1, <1>2, <1>3, <1>4, <1>5 DEF Next, FlushThread, Threads, Log!LogNext

(* The tracing system implements the lossy log: the file only grows, what  *)
(* a step appends is filler or a record that some program began to trace   *)
(* and that the file does not hold yet, torn places aside, and a failed    *)
(* write tears no more than the end of the file.                           *)
THEOREM LogImplemented == Spec => ImplementsLossyLog
<1>1. Init => Log!LogInit
  <2> SUFFICES ASSUME Init PROVE Log!LogInit
    OBVIOUS
  <2>1. file = << >> /\ torn = {} /\ calls = [p \in Producers |-> 0]
    BY DEF Init, RingInit, FlusherInit
  <2>2. Traced = {}
    BY <2>1 DEF Traced, Record
  <2> QED  BY <2>1, <2>2 DEF Log!LogInit
<1> QED
  BY <1>1, TypeInit, TypeStep, OnceInit, CallStep, OnceStep, LogStep, PTL
  DEF Spec, ImplementsLossyLog, Log!LogSpec

=============================================================================
