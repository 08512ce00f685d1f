---------------------------- MODULE RbtFlusher ----------------------------
(***************************************************************************)
(* The rbtrace-flush thread of the daemon (rbtrace_backing.c) beside the   *)
(* writers of RbtRing: the loop of rbtrace_thread_fn() and, step by step,  *)
(* the way rbtrace_write_data() copies a buffer of the ring to the trace   *)
(* file, clears it and collects the two loss counters.                     *)
(*                                                                         *)
(* The trace file is the sequence of the entries written to it, in the     *)
(* order in which they were written.  Where they go (seek, wrap_pos) and   *)
(* the size limit are the subject of RbtFile: here no file reaches it.     *)
(*                                                                         *)
(* pwrite() and memset() take one entry per step: the kernel's copy and    *)
(* the loop of memset() run beside the stores of the writers.  A write can *)
(* fail after any number of entries (a full disk, or an overrun that runs  *)
(* off the mapping); an entry of which it wrote only a part counts as      *)
(* written or as not written.                                              *)
(***************************************************************************)
EXTENDS RbtRing

VARIABLES
  ri_flags,     \* the RBTRACE_DO_* bits that are set
  file,         \* all entries written to trace files, in order
  torn,         \* history: the places in it that failed writes had written
  fd,           \* rbt_rfd.fd is an open file
  fpc,          \* the statement of the flush thread
  closing,      \* it is in the DO_CLOSE branch of its loop
  do_flush,     \* argument of rbtrace_write_data(): the active buffer
  buf,          \* offset of the first entry it writes
  len,          \* number of entries it writes
  done,         \* how many of them pwrite() or memset() has done
  lost          \* local of rbtrace_write_data(): loss count it collected

flushVars == <<ri_flags, file, torn, fd, fpc, closing, do_flush, buf, len, done,
               lost>>

Flags == {"OPEN", "DISK", "CLOSE", "FLUSH"}

FlusherGoto(label) == fpc' = label

(* An entry as pwrite() reads it.  Past the ring there is the padding of   *)
(* the last page, and then a write that fails (CopyFails).                 *)
Load(a) == IF a \in Addresses THEN mem[a] ELSE RBT_NULL

-----------------------------------------------------------------------------

(* The timed wait returns, signalled or not, and the thread looks at the   *)
(* flags, one after the other: a close comes first, then an open, then the *)
(* data of an open file.                                                   *)
Wake ==
  /\ fpc = "wait"
  /\ closing' = ("CLOSE" \in ri_flags)
  /\ FlusherGoto(IF "CLOSE" \in ri_flags THEN "data" ELSE "look_open")
  /\ UNCHANGED <<ringVars, ri_flags, file, torn, fd, do_flush, buf, len, done,
                 lost>>

LookOpen ==
  /\ fpc = "look_open"
  /\ FlusherGoto(IF "OPEN" \in ri_flags THEN "open" ELSE "look_disk")
  /\ UNCHANGED <<ringVars, ri_flags, file, torn, fd, closing, do_flush, buf,
                 len, done, lost>>

LookDisk ==
  /\ fpc = "look_disk"
  /\ FlusherGoto(IF "DISK" \in ri_flags THEN "data" ELSE "wait")
  /\ UNCHANGED <<ringVars, ri_flags, file, torn, fd, closing, do_flush, buf,
                 len, done, lost>>

(* rbtrace_write_header(): a file that is still open is closed and the     *)
(* request refused; otherwise open() of the path, or the write of the      *)
(* header, may fail, which leaves the ring without a file.                 *)
WriteHeader ==
  /\ fpc = "open"
  /\ \/ ~fd /\ fd' = TRUE /\ ri_flags' = (ri_flags \ {"OPEN"}) \cup {"DISK"}
     \/ fd' = FALSE /\ ri_flags' = ri_flags \ {"OPEN"}
  /\ FlusherGoto("wait")
  /\ UNCHANGED <<ringVars, file, torn, closing, do_flush, buf, len, done, lost>>

(* if (ri->ri_flush) rbtrace_write_data(ring, false); *)
WriteInactive ==
  /\ fpc = "data"
  /\ do_flush' = FALSE
  /\ FlusherGoto(IF ri_flush # 0 THEN "base" ELSE "flush")
  /\ UNCHANGED <<ringVars, ri_flags, file, torn, fd, closing, buf, len, done,
                 lost>>

(* if (ri->ri_flags & RBTRACE_DO_FLUSH) rbtrace_write_data(ring, true); *)
WriteActive ==
  /\ fpc = "flush"
  /\ do_flush' = ("FLUSH" \in ri_flags)
  /\ FlusherGoto(IF "FLUSH" \in ri_flags THEN "base"
                 ELSE IF closing THEN "close" ELSE "wait")
  /\ UNCHANGED <<ringVars, ri_flags, file, torn, fd, closing, buf, len, done,
                 lost>>

(* rbtrace_write_data() without a file: it goes to its end with ri NULL,   *)
(* and the read of ri->ri_lost there kills the daemon.                     *)
WriteNoFile ==
  /\ fpc = "base" /\ ~fd
  /\ FlusherGoto("crashed")
  /\ UNCHANGED <<ringVars, ri_flags, file, torn, fd, closing, do_flush, buf,
                 len, done, lost>>

(* buf = re_base + ri_cir_off, or re_base + ri_alt_off *)
PickBuffer ==
  /\ fpc = "base" /\ fd
  /\ buf' = IF do_flush THEN ri_cir_off ELSE ri_alt_off
  /\ FlusherGoto("size")
  /\ UNCHANGED <<ringVars, ri_flags, file, torn, fd, closing, do_flush, len,
                 done, lost>>

(* buf_size: what the active buffer holds by now, or the whole buffer.     *)
(* With nothing to write, the loops of pwrite() and memset() end at once.  *)
PickSize ==
  /\ fpc = "size"
  /\ len' = IF do_flush THEN ri_slot + 1 ELSE RcSize
  /\ buf' = IF len' > 0 THEN buf ELSE 0
  /\ done' = 0
  /\ FlusherGoto(IF len' > 0 THEN "copy" ELSE "take_lost")
  /\ UNCHANGED <<ringVars, ri_flags, file, torn, fd, closing, do_flush, lost>>

(* A loop over the entries has done one more, and goes on to the label     *)
(* `next' after the last.                                                  *)
EntryDone(next) ==
  /\ done' = IF done + 1 < len THEN done + 1 ELSE 0
  /\ fpc'  = IF done + 1 < len THEN fpc ELSE next

(* A safe_pwrite() that starts over at buf after a short write. *)
CopyFromStart ==
  /\ fpc = "copy"
  /\ done < len
  /\ file' = Append(file, Load(buf))
  /\ EntryDone("clear")
  /\ UNCHANGED <<ringVars, ri_flags, torn, fd, closing, do_flush, buf, len,
                 lost>>

(* safe_pwrite(), entry by entry *)
Copy ==
  /\ fpc = "copy"
  /\ done < len
  /\ file' = Append(file, Load(buf + done))
  /\ EntryDone("clear")
  /\ UNCHANGED <<ringVars, ri_flags, torn, fd, closing, do_flush, buf, len,
                 lost>>

(* safe_pwrite() fails, perhaps after some short writes: what these wrote  *)
(* stays in the file, and the buffer keeps what it holds.                  *)
CopyFails ==
  /\ fpc = "copy"
  /\ done < len
  /\ torn' = torn \cup {i \in 1 .. Len(file) : i > Len(file) - done}
  /\ done' = 0 /\ buf' = 0 /\ len' = 0
  /\ FlusherGoto("take_lost")
  /\ UNCHANGED <<ringVars, ri_flags, file, fd, closing, do_flush, lost>>

(* The buffer is not cleared. *)
ClearNothing ==
  /\ fpc = "clear"
  /\ done' = 0 /\ buf' = 0 /\ len' = 0
  /\ FlusherGoto("take_lost")
  /\ UNCHANGED <<ringVars, ri_flags, file, torn, fd, closing, do_flush, lost>>

(* memset(buf, 0, buf_size), entry by entry *)
Clear ==
  /\ fpc = "clear"
  /\ done < len
  /\ mem' = IF buf + done \in Addresses
            THEN [mem EXCEPT ![buf + done] = RBT_NULL]
            ELSE mem
  /\ EntryDone("take_lost")
  /\ buf' = IF done + 1 < len THEN buf ELSE 0
  /\ len' = IF done + 1 < len THEN len ELSE 0
  /\ UNCHANGED <<ringInfo, locals, history, ri_flags, file, torn, fd, closing,
                 do_flush, lost>>

(* The loss count is read and not reset. *)
TakeLostAndKeep ==
  /\ fpc = "take_lost"
  /\ lost' = ri_lost
  /\ FlusherGoto("take_flush")
  /\ UNCHANGED <<ringVars, ri_flags, file, torn, fd, closing, do_flush, buf,
                 len, done>>

(* lost = __sync_lock_test_and_set(&ri->ri_lost, 0) *)
TakeLost ==
  /\ fpc = "take_lost"
  /\ lost' = ri_lost
  /\ ri_lost' = 0
  /\ FlusherGoto("take_flush")
  /\ UNCHANGED <<ri_slot, ri_flush, ri_cir_off, ri_alt_off, mem, locals, history,
                 ri_flags, file, torn, fd, closing, do_flush, buf, len, done>>

(* A report that leaves out the buffers that were discarded. *)
ReportLostOnly(flush) ==
  /\ IF flush > 1 \/ lost > 0
     THEN /\ Enter(Flusher, RBT_LOST)
          /\ due' = [due EXCEPT ![Flusher] = <<lost>>]
     ELSE UNCHANGED <<pc, call, due>>
  /\ lost' = 0
  /\ FlusherGoto("reported")

(* The flush thread traces what it found lost, as any other thread would. *)
Report(flush) ==
  /\ IF flush > 1 \/ lost > 0
     THEN /\ Enter(Flusher, RBT_LOST)
          /\ due' = [due EXCEPT ![Flusher] = <<lost + Discarded(flush)>>]
     ELSE UNCHANGED <<pc, call, due>>
  /\ lost' = 0
  /\ FlusherGoto("reported")

(* The hand-overs are read and not reset. *)
TakeFlushAndKeep ==
  /\ fpc = "take_flush"
  /\ Report(ri_flush)
  /\ UNCHANGED <<ringInfo, mem, depth, slot, re, temp, cnt, calls, history,
                 ri_flags, file, torn, fd, closing, do_flush, buf, len, done>>

(* flush = __sync_lock_test_and_set(&ri->ri_flush, 0) *)
TakeFlush ==
  /\ fpc = "take_flush"
  /\ ri_flush' = 0
  /\ Report(ri_flush)
  /\ UNCHANGED <<ri_slot, ri_lost, ri_cir_off, ri_alt_off, mem, depth, slot, re,
                 temp, cnt, calls, history,
                 ri_flags, file, torn, fd, closing, do_flush, buf, len, done>>

(* rbtrace_write_data() returns; after the active buffer DO_FLUSH is done. *)
Reported ==
  /\ fpc = "reported"
  /\ pc[Flusher] = "idle"
  /\ IF do_flush
     THEN /\ ri_flags' = ri_flags \ {"FLUSH"}
          /\ do_flush' = FALSE
          /\ FlusherGoto(IF closing THEN "close" ELSE "wait")
     ELSE /\ FlusherGoto("flush")
          /\ UNCHANGED <<ri_flags, do_flush>>
  /\ UNCHANGED <<ringVars, file, torn, fd, closing, buf, len, done, lost>>

(* The file is closed and the request stays. *)
CloseFileOnly ==
  /\ fpc = "close"
  /\ closing' = FALSE
  /\ fd' = FALSE
  /\ FlusherGoto("wait")
  /\ UNCHANGED <<ringVars, ri_flags, file, torn, do_flush, buf, len, done,
                 lost>>

(* The file descriptor is closed and the request to do so cleared. *)
CloseFile ==
  /\ fpc = "close"
  /\ ri_flags' = ri_flags \ {"CLOSE"}
  /\ closing' = FALSE
  /\ fd' = FALSE
  /\ FlusherGoto("wait")
  /\ UNCHANGED <<ringVars, file, torn, do_flush, buf, len, done, lost>>

FlusherStep ==
  \/ Wake \/ LookOpen \/ LookDisk \/ WriteHeader
  \/ WriteInactive \/ WriteActive \/ WriteNoFile
  \/ PickBuffer \/ PickSize \/ Copy \/ CopyFails \/ Clear
  \/ TakeLost \/ TakeFlush \/ Reported \/ CloseFile

-----------------------------------------------------------------------------

FlusherLabels ==
  {"wait", "look_open", "look_disk", "open", "data", "flush", "base", "size",
   "copy", "clear", "take_lost", "take_flush", "reported", "close",
   "crashed"}

FlusherInit ==
  /\ ri_flags = {}
  /\ file = << >> /\ torn = {}
  /\ fd = FALSE
  /\ fpc = "wait"
  /\ closing = FALSE
  /\ do_flush = FALSE
  /\ buf = 0 /\ len = 0 /\ done = 0
  /\ lost = 0

FlusherTypeOK ==
  /\ ri_flags \in SUBSET Flags
  /\ file \in Seq(Entry) /\ torn \in SUBSET (1 .. Len(file))
  /\ fd \in BOOLEAN
  /\ fpc \in FlusherLabels
  /\ closing \in BOOLEAN /\ do_flush \in BOOLEAN
  /\ buf \in {0, RcSize}
  /\ len \in Nat /\ done \in 0 .. len
  /\ lost \in Nat

=============================================================================
