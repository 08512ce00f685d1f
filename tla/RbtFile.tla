------------------------------ MODULE RbtFile ------------------------------
(***************************************************************************)
(* The trace file as the flush thread lays it out (rbtrace_backing.c): the *)
(* header, where a buffer goes (seek, wrap_pos), and what happens when the *)
(* size limit is reached: wrap, open the next file (zap) or stop.  The rbt *)
(* tool opens and closes files and changes the limit and the mode while    *)
(* the flush thread works.  The ring is not here: RbtTrace says which      *)
(* entries a buffer holds, and here each entry written gets a serial       *)
(* number.                                                                 *)
(*                                                                         *)
(* Offsets count entries, with the header as the first: an entry at        *)
(* offset o is number o of the file's entries, and wrap_pos 0 means that   *)
(* the file has not wrapped.  Any system call may fail.  A change of       *)
(* ri_flags is one step.  A zapped file's name carries the time in         *)
(* milliseconds, taken to be new each time.                                *)
(***************************************************************************)
EXTENDS Prbt

CONSTANTS
  Paths,        \* file names that rbt -o is given
  Sizes,        \* file size limits that rbt -s is given
  RcSize,       \* entries of a buffer
  MaxFlush,     \* bound: entries of a flush of the active buffer
  NoFile,       \* fd -1, or no path
  MaxWrites,    \* bound: buffers handed over
  MaxOpens,     \* bound: opens by rbt
  MaxSets,      \* bound: changes of the limit and the mode
  MaxZaps,      \* bound: zapped files
  MaxFaults     \* bound: system calls that fail

HDR == 1

(* The file a path stands for: itself, or the n-th zapped file. *)
Names == (Paths \cup {NoFile}) \X (0 .. MaxZaps)

(* The largest limit is the default. *)
ASSUME FileAssumption ==
  /\ RcSize \in Nat \ {0}
  /\ MaxFlush \in Nat /\ MaxFlush >= RcSize
  /\ Sizes \subseteq Nat /\ \E m \in Sizes : \A n \in Sizes : n <= m
  /\ MaxZaps \in Nat
  /\ NoFile \notin Paths /\ NoFile \notin Names

VARIABLES
  ri_flags,     \* the RBTRACE_DO_* bits that are set
  ri_file_path, \* path of the open request
  fsize,        \* *fsize_ptr: size limit of a trace file
  fd,           \* the open file, or NoFile
  seek,         \* rfd->seek: offset of the next write
  wrap_pos,     \* of the header in memory: offset of the oldest entry
  disk,         \* the files: header on disk (-1: none) and entries
  fpc,          \* the statement of the flush thread
  closing,      \* it is in the DO_CLOSE branch of its loop
  do_flush,     \* argument of rbtrace_write_data()
  size,         \* buf_size
  update_hdr,   \* local of rbtrace_write_data()
  (* Bounds and history. *)
  serial,       \* number of the last entry written
  writes, opens, sets, zaps, faults,
  cur,          \* the file opened last
  base,         \* serial when it was opened
  regular       \* it was new, no request of an earlier file was left over,
                \* no call failed, and limit and mode stayed

flagVars == <<ri_flags, ri_file_path, fsize>>
fileVars == <<fd, seek, wrap_pos, disk>>
flowVars == <<fpc, closing, do_flush, size, update_hdr>>
histVars == <<serial, writes, opens, sets, zaps, faults, cur, base, regular>>
vars     == <<flagVars, fileVars, flowVars, histVars>>

Goto(label) == fpc' = label

Fault ==
  /\ faults < MaxFaults
  /\ faults' = faults + 1

(* pwrite() of the entries es at offset pos; a gap reads as zeros. *)
WriteAt(f, pos, es) ==
  IF es = << >> THEN f
  ELSE [i \in 1 .. Max({Len(f), pos + Len(es) - 1}) |->
     IF i \in pos .. pos + Len(es) - 1 THEN es[i - pos + 1]
     ELSE IF i <= Len(f) THEN f[i] ELSE 0]

(* The next n entries. *)
Fresh(n) == [i \in 1 .. n |-> serial + i]

-----------------------------------------------------------------------------
(* rbtrace_write_header() *)

(* The name it opens: with the time in it when the file may be zapped. *)
HeaderName == <<ri_file_path, IF "ZAP" \in ri_flags THEN zaps + 1 ELSE 0>>

(* The file is open for business.  It is not truncated. *)
HeaderWritten ==
  /\ IF "ZAP" \in ri_flags THEN zaps < MaxZaps ELSE ri_file_path # NoFile
  /\ fd' = HeaderName
  /\ seek' = HDR
  /\ wrap_pos' = 0
  /\ disk' = [disk EXCEPT ![HeaderName].hdr = 0]
  /\ ri_flags' = (ri_flags \cup {"DISK"}) \ {"OPEN"}
  /\ zaps' = IF "ZAP" \in ri_flags THEN zaps + 1 ELSE zaps
  /\ cur' = HeaderName
  /\ base' = serial
  /\ regular' = (disk[HeaderName].entries = << >> /\ ri_flags \cap {"CLOSE", "FLUSH"} = {})
  /\ UNCHANGED faults

(* A file is still open, or open() or the write of the header failed.  The *)
(* file that was open is closed, and DO_DISK is left as it was.            *)
HeaderFailed(file) ==
  /\ \/ file # NoFile /\ UNCHANGED <<faults, wrap_pos>>
     \/ /\ file = NoFile
        /\ ri_file_path = NoFile /\ "ZAP" \notin ri_flags
        /\ UNCHANGED <<faults, wrap_pos>>
     \/ /\ file = NoFile
        /\ Fault
        /\ wrap_pos' \in {0, wrap_pos}
  /\ fd' = NoFile
  /\ seek' = 0
  /\ ri_flags' = ri_flags \ {"OPEN"}
  /\ UNCHANGED <<disk, zaps, cur, base, regular>>

-----------------------------------------------------------------------------
(* The loop of rbtrace_thread_fn(). *)

(* The thread looks at the flags one after the other, and rbt may change  *)
(* them in between.                                                        *)
Wake ==
  /\ fpc = "wait"
  /\ closing' = ("CLOSE" \in ri_flags)
  /\ Goto(IF "CLOSE" \in ri_flags THEN "inactive" ELSE "look_open")
  /\ UNCHANGED <<flagVars, fileVars, do_flush, size, update_hdr, histVars>>

LookOpen ==
  /\ fpc = "look_open"
  /\ Goto(IF "OPEN" \in ri_flags THEN "open" ELSE "look_disk")
  /\ UNCHANGED <<flagVars, fileVars, closing, do_flush, size, update_hdr, histVars>>

LookDisk ==
  /\ fpc = "look_disk"
  /\ Goto(IF "DISK" \in ri_flags THEN "inactive" ELSE "wait")
  /\ UNCHANGED <<flagVars, fileVars, closing, do_flush, size, update_hdr, histVars>>

WriteHeader ==
  /\ fpc = "open"
  /\ (fd = NoFile /\ HeaderWritten) \/ HeaderFailed(fd)
  /\ Goto("wait")
  /\ UNCHANGED <<ri_file_path, fsize, closing, do_flush, size, update_hdr, serial,
                 writes, opens, sets>>

(* rbtrace_write_data() is called for n entries.  Without a file it goes   *)
(* to its end, where it uses ring_info and ring_config before they are     *)
(* set.                                                                    *)
WriteData(n, active) ==
  /\ writes' = writes + 1
  /\ size' = n
  /\ do_flush' = active
  /\ Goto(IF fd = NoFile THEN "crashed" ELSE "place")
  /\ UNCHANGED <<flagVars, fileVars, closing, update_hdr, serial, opens, sets, zaps,
                 faults, cur, base, regular>>

(* if (ri->ri_flush) rbtrace_write_data(ring, false); *)
WriteInactive ==
  /\ fpc = "inactive"
  /\ \/ writes < MaxWrites /\ WriteData(RcSize, FALSE)
     \/ Goto("active") /\ UNCHANGED <<flagVars, fileVars, closing, do_flush, size,
                                      update_hdr, histVars>>

(* if (ri->ri_flags & RBTRACE_DO_FLUSH) rbtrace_write_data(ring, true),    *)
(* with as many entries as ri_slot says, which can exceed the buffer       *)
(* (RbtTrace!FlushWithinBuffer).                                           *)
WriteActive ==
  /\ fpc = "active"
  /\ \/ /\ "FLUSH" \in ri_flags
        /\ \E n \in 0 .. MaxFlush : WriteData(n, TRUE)
     \/ /\ "FLUSH" \notin ri_flags
        /\ Goto(IF closing THEN "close" ELSE "wait")
        /\ UNCHANGED <<flagVars, fileVars, closing, do_flush, size, update_hdr, histVars>>

(* wrap_pos moves against the direction of writing. *)
PlaceBackwards ==
  /\ fpc = "place"
  /\ IF wrap_pos # 0 /\ "WRAP" \in ri_flags
     THEN /\ seek' = wrap_pos
          /\ wrap_pos' = wrap_pos - size
          /\ update_hdr' = TRUE
     ELSE UNCHANGED <<seek, wrap_pos, update_hdr>>
  /\ Goto("write")
  /\ UNCHANGED <<flagVars, fd, disk, closing, do_flush, size, histVars>>

(* The header on disk is brought up to date before the buffer is written. *)
PlaceHeaderFirst ==
  /\ fpc = "place"
  /\ IF wrap_pos # 0 /\ "WRAP" \in ri_flags
     THEN /\ seek' = wrap_pos
          /\ wrap_pos' = wrap_pos + size
          /\ disk' = [disk EXCEPT ![fd].hdr = wrap_pos + size]
     ELSE UNCHANGED <<seek, wrap_pos, disk>>
  /\ Goto("write")
  /\ UNCHANGED <<flagVars, fd, closing, do_flush, size, update_hdr, histVars>>

(* A full ring file: the buffer goes where the oldest entry is. *)
Place ==
  /\ fpc = "place"
  /\ IF wrap_pos # 0 /\ "WRAP" \in ri_flags
     THEN /\ seek' = wrap_pos
          /\ wrap_pos' = wrap_pos + size
          /\ update_hdr' = TRUE
     ELSE UNCHANGED <<seek, wrap_pos, update_hdr>>
  /\ Goto("write")
  /\ UNCHANGED <<flagVars, fd, disk, closing, do_flush, size, histVars>>

(* The buffer is written. *)
Write ==
  /\ fpc = "write"
  /\ disk' = [disk EXCEPT ![fd].entries = WriteAt(@, seek, Fresh(size))]
  /\ seek' = seek + size
  /\ serial' = serial + size
  /\ Goto("limit")
  /\ UNCHANGED <<flagVars, fd, wrap_pos, closing, do_flush, size, update_hdr, writes,
                 opens, sets, zaps, faults, cur, base, regular>>

(* Or only n entries of it, and nothing that follows is done. *)
WriteFails ==
  /\ fpc = "write"
  /\ Fault
  /\ \E n \in 0 .. size - 1 :
       disk' = [disk EXCEPT ![fd].entries = WriteAt(@, seek, Fresh(n))]
  /\ serial' = serial + size
  /\ regular' = FALSE
  /\ Goto("end")
  /\ UNCHANGED <<flagVars, fd, seek, wrap_pos, closing, do_flush, size, update_hdr,
                 writes, opens, sets, zaps, cur, base>>

(* A limit that is tested before the buffer is added to seek. *)
AtLimitEarly == seek - size >= fsize

AtLimit == seek >= fsize

(* The limit is not reached, or a request to close comes first. *)
LimitPasses ==
  /\ ~AtLimit \/ "CLOSE" \in ri_flags
  /\ Goto("header")
  /\ UNCHANGED <<flagVars, fileVars, update_hdr, zaps, faults, cur, base, regular>>

LimitWraps ==
  /\ AtLimit /\ ri_flags \cap {"CLOSE", "WRAP"} = {"WRAP"}
  /\ wrap_pos' = HDR
  /\ update_hdr' = TRUE
  /\ Goto("header")
  /\ UNCHANGED <<flagVars, fd, seek, disk, zaps, faults, cur, base, regular>>

(* The file is closed and the next one opened. *)
LimitZaps ==
  /\ AtLimit /\ ri_flags \cap {"CLOSE", "WRAP", "ZAP"} = {"ZAP"}
  /\ HeaderWritten \/ HeaderFailed(NoFile)
  /\ Goto("header")
  /\ UNCHANGED <<ri_file_path, fsize, update_hdr>>

(* The file is closed, and then tracing to disk stops. *)
LimitStops ==
  /\ AtLimit /\ ri_flags \cap {"CLOSE", "WRAP", "ZAP"} = {}
  /\ fd' = NoFile
  /\ Goto("stop")
  /\ UNCHANGED <<flagVars, seek, wrap_pos, disk, update_hdr, zaps, faults, cur, base,
                 regular>>

Limit ==
  /\ fpc = "limit"
  /\ LimitPasses \/ LimitWraps \/ LimitZaps \/ LimitStops
  /\ UNCHANGED <<closing, do_flush, size, serial, writes, opens, sets>>

Stop ==
  /\ fpc = "stop"
  /\ ri_flags' = ri_flags \ {"DISK"}
  /\ Goto("header")
  /\ UNCHANGED <<ri_file_path, fsize, fileVars, closing, do_flush, size, update_hdr,
                 histVars>>

(* The header on disk is left as it was when the file was opened. *)
UpdateHeaderNever ==
  /\ fpc = "header"
  /\ Goto("end")
  /\ UNCHANGED <<flagVars, fileVars, closing, do_flush, size, update_hdr, histVars>>

(* if (update_hdr) the header on disk follows the one in memory; the write *)
(* fails when the file has just been closed.                               *)
UpdateHeader ==
  /\ fpc = "header"
  /\ \/ /\ update_hdr /\ fd # NoFile
        /\ disk' = [disk EXCEPT ![fd].hdr = wrap_pos]
        /\ UNCHANGED <<faults, regular>>
     \/ /\ update_hdr /\ fd # NoFile
        /\ Fault
        /\ regular' = FALSE
        /\ UNCHANGED disk
     \/ /\ ~update_hdr \/ fd = NoFile
        /\ UNCHANGED <<disk, faults, regular>>
  /\ Goto("end")
  /\ UNCHANGED <<flagVars, fd, seek, wrap_pos, closing, do_flush, size, update_hdr,
                 serial, writes, opens, sets, zaps, cur, base>>

(* rbtrace_write_data() returns. *)
Written ==
  /\ fpc = "end"
  /\ size' = 0 /\ update_hdr' = FALSE /\ do_flush' = FALSE
  /\ ri_flags' = IF do_flush THEN ri_flags \ {"FLUSH"} ELSE ri_flags
  /\ Goto(IF ~do_flush THEN "active" ELSE IF closing THEN "close" ELSE "wait")
  /\ UNCHANGED <<ri_file_path, fsize, fileVars, closing, histVars>>

(* The file is closed, and its path erased, also when it is the path of a  *)
(* request to open that came in the meantime.                              *)
Close ==
  /\ fpc = "close"
  /\ fd' = NoFile
  /\ ri_file_path' = IF fd # NoFile THEN NoFile ELSE ri_file_path
  /\ ri_flags' = ri_flags \ {"CLOSE"}
  /\ seek' = 0
  /\ closing' = FALSE
  /\ Goto("wait")
  /\ UNCHANGED <<fsize, wrap_pos, disk, do_flush, size, update_hdr, histVars>>

FlusherStep ==
  \/ Wake \/ LookOpen \/ LookDisk \/ WriteHeader \/ WriteInactive \/ WriteActive
  \/ Place \/ Write \/ WriteFails \/ Limit \/ Stop \/ UpdateHeader \/ Written \/ Close

-----------------------------------------------------------------------------
(* The requests of rbt. *)

CtrlOpen(path) ==
  /\ ri_flags \cap {"OPEN", "DISK"} = {}
  /\ opens < MaxOpens
  /\ opens' = opens + 1
  /\ ri_file_path' = path
  /\ ri_flags' = ri_flags \cup {"OPEN"}
  /\ UNCHANGED <<fsize, fileVars, flowVars, serial, writes, sets, zaps, faults, cur,
                 base, regular>>

CtrlClose ==
  /\ "DISK" \in ri_flags
  /\ ri_flags' = (ri_flags \ {"DISK"}) \cup {"FLUSH", "CLOSE"}
  /\ UNCHANGED <<ri_file_path, fsize, fileVars, flowVars, histVars>>

(* A change of the limit or the mode, which an open file feels. *)
Set ==
  /\ sets < MaxSets
  /\ sets' = sets + 1
  /\ regular' = (regular /\ fd = NoFile)
  /\ UNCHANGED <<ri_file_path, fileVars, flowVars, serial, writes, opens, zaps, faults,
                 cur, base>>

CtrlSize(n) ==
  /\ fsize' = n
  /\ Set
  /\ UNCHANGED ri_flags

(* Wrap and zap exclude each other. *)
CtrlWrap(enable) ==
  /\ "ZAP" \notin ri_flags
  /\ ri_flags' = IF enable THEN ri_flags \cup {"WRAP"} ELSE ri_flags \ {"WRAP"}
  /\ Set
  /\ UNCHANGED fsize

CtrlZap(enable) ==
  /\ "WRAP" \notin ri_flags
  /\ ri_flags' = IF enable THEN ri_flags \cup {"ZAP"} ELSE ri_flags \ {"ZAP"}
  /\ Set
  /\ UNCHANGED fsize

CtrlStep ==
  \/ \E path \in Paths : CtrlOpen(path)
  \/ CtrlClose
  \/ \E n \in Sizes : CtrlSize(n)
  \/ \E enable \in BOOLEAN : CtrlWrap(enable)
  \/ \E enable \in BOOLEAN : CtrlZap(enable)

-----------------------------------------------------------------------------

Init ==
  /\ ri_flags = {} /\ ri_file_path = NoFile
  /\ fsize = Max(Sizes)
  /\ fd = NoFile /\ seek = 0 /\ wrap_pos = 0
  /\ disk = [n \in Names |-> [hdr |-> -1, entries |-> << >>]]
  /\ fpc = "wait" /\ closing = FALSE /\ do_flush = FALSE
  /\ size = 0 /\ update_hdr = FALSE
  /\ serial = 0 /\ writes = 0 /\ opens = 0 /\ sets = 0 /\ zaps = 0 /\ faults = 0
  /\ cur = NoFile /\ base = 0 /\ regular = FALSE

Next == FlusherStep \/ CtrlStep

Spec == Init /\ [][Next]_vars

-----------------------------------------------------------------------------

FileLabels ==
  {"wait", "look_open", "look_disk", "open", "inactive", "active", "place", "write", "limit", "stop", "header", "end",
   "close", "crashed"}

(* Every variable has its type; an offset in the header on disk lies       *)
(* behind the header itself.                                               *)
TypeOK ==
  /\ ri_flags \subseteq {"OPEN", "DISK", "WRAP", "ZAP", "CLOSE", "FLUSH"}
  /\ ri_file_path \in Paths \cup {NoFile}
  /\ fsize \in Sizes
  /\ fd \in Names \cup {NoFile}
  /\ seek \in Nat /\ wrap_pos \in Nat
  /\ \A n \in Names : disk[n].hdr >= -1 /\ disk[n].entries \in Seq(0 .. serial)
  /\ fpc \in FileLabels
  /\ closing \in BOOLEAN /\ do_flush \in BOOLEAN /\ update_hdr \in BOOLEAN
  /\ size \in 0 .. MaxFlush

(* The entries written to the file since it was opened, as far as it still *)
(* holds them.                                                             *)
Held == Len(disk[cur].entries)
Latest == [i \in 1 .. Held |-> serial - Held + i]

(* The flush thread is between two buffers of a regular file that nobody   *)
(* has asked to close.                                                     *)
Steady == fpc = "wait" /\ fd # NoFile /\ regular /\ "CLOSE" \notin ri_flags

(* prbt prints a regular file oldest entry first and without a gap, up to  *)
(* the entry written last, wherever the file has wrapped: the header on    *)
(* disk is never behind the data once a buffer is written.  A file that    *)
(* does not wrap holds everything written since it was opened.             *)
PrintsLatest ==
  Steady =>
    /\ Printed(disk[cur], RcSize) = Latest
    /\ "WRAP" \notin ri_flags => Held = serial - base

(* The start and end times that prbt shows for a regular file are those of *)
(* the first and the last entry it prints.                                 *)
SummaryAgrees ==
  Steady /\ Held > 0 => Summary(disk[cur]) = <<Latest[1], Latest[Held]>>

(* The same entries with the newest n of them first. *)
NewestFirst(n) == [i \in 1 .. Held |-> IF i <= n THEN serial - n + i ELSE serial - Held + i - n]

(* A daemon that is killed leaves a file that prbt can print, wherever the *)
(* flush thread was: no entry is left out or printed twice, and at most    *)
(* the buffer whose header is not yet written comes before the older ones. *)
KillSafe ==
  fd # NoFile /\ regular /\ ~closing /\ "CLOSE" \notin ri_flags =>
    \E n \in {0, size} : n <= Held /\ Printed(disk[cur], RcSize) = NewestFirst(n)

(* An open regular file exceeds the limit by less than three writes: the   *)
(* one that reaches it and, when a request to close comes first, one more  *)
(* inactive buffer and the active one.                                     *)
FileBounded ==
  fd # NoFile /\ regular => HDR + Held < Max({fsize, HDR + 1}) + 2 * RcSize + MaxFlush

(* A wrapped file that has been closed can be printed: its wrap_pos is the *)
(* offset of the oldest entry ("Seek for oldest entry").                   *)
ClosedFilePrints ==
  fpc = "wait" /\ fd = NoFile /\ regular => Len(Printed(disk[cur], RcSize)) = Held

(* rbtrace_write_data() without a file says "invalid file descriptor!" and *)
(* returns.                                                                *)
SurvivesNoFile == fpc # "crashed"

=============================================================================
