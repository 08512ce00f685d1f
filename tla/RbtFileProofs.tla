--------------------------- MODULE RbtFileProofs ---------------------------
(***************************************************************************)
(* Proofs about RbtFile for any buffer size, limits, files and faults.     *)
(***************************************************************************)
EXTENDS RbtFile, PrbtProofs

Flags == {"OPEN", "DISK", "WRAP", "ZAP", "CLOSE", "FLUSH"}

(* The statements of rbtrace_write_data(). *)
InWriteData == {"place", "write", "limit", "stop", "header", "end"}

(* Every entry has a number up to s, and no offset is below that of a file *)
(* without a header.                                                       *)
EntrySeq(s) == Seq(0 .. s)

DiskType(d, s) ==
  /\ d \in [Names -> [hdr : Int, entries : EntrySeq(s)]]
  /\ \A n \in Names : d[n].hdr >= -1

DiskOK == DiskType(disk, serial)

(* TypeOK with the types of the history variables; what is open is the     *)
(* file opened last, and seek lies behind its header.                      *)
FlowType ==
  /\ ri_flags \subseteq Flags
  /\ ri_file_path \in Paths \cup {NoFile}
  /\ fsize \in Sizes
  /\ fd \in Names \cup {NoFile}
  /\ seek \in Nat /\ wrap_pos \in Nat
  /\ fpc \in FileLabels
  /\ closing \in BOOLEAN /\ do_flush \in BOOLEAN /\ update_hdr \in BOOLEAN
  /\ size \in 0 .. MaxFlush
  /\ serial \in Nat /\ zaps \in 0 .. MaxZaps /\ base \in Nat /\ regular \in BOOLEAN
  /\ fd # NoFile => fd = cur /\ seek >= HDR
  /\ fpc \in {"place", "write", "limit"} => fd # NoFile
  /\ fpc = "stop" => fd = NoFile

FileType == FlowType /\ DiskOK

(* The requests that a pass of the flush thread is about are not answered  *)
(* behind its back, and an inactive buffer is full.                        *)
RequestInv ==
  /\ closing => "CLOSE" \in ri_flags
  /\ closing => fpc \notin {"wait", "look_open", "look_disk", "open"}
  /\ do_flush => "FLUSH" \in ri_flags
  /\ do_flush => fpc \in InWriteData \cup {"crashed"}
  /\ fpc \in InWriteData /\ ~do_flush => size = RcSize

(* A regular file is open. *)
Regular == fd # NoFile /\ regular

(* For a regular file a flush is requested only together with its close,   *)
(* a close is requested once, and only a file that wraps has a wrap_pos.   *)
CloseInv ==
  Regular =>
    /\ "CLOSE" \in ri_flags => "DISK" \notin ri_flags
    /\ "FLUSH" \in ri_flags => "CLOSE" \in ri_flags
    /\ wrap_pos # 0 => "WRAP" \in ri_flags

-----------------------------------------------------------------------------
(* The size of a file *)

(* Where the next entry of the file goes. *)
Pos == IF fpc # "write" /\ wrap_pos # 0 THEN wrap_pos ELSE seek

(* What may still be written to a file that is being closed: inactive      *)
(* buffers in this pass of the flush thread and in the one that closes the *)
(* file, and the active buffer.                                            *)
Inactive ==
  LET now == fpc = "inactive" \/ (fpc \in {"place", "write"} /\ ~do_flush)
  IN  (IF now THEN RcSize ELSE 0) + (IF closing THEN 0 ELSE RcSize)

Active ==
  IF "FLUSH" \in ri_flags /\ ~(do_flush /\ fpc \notin {"place", "write"}) THEN MaxFlush ELSE 0

(* The limit as far as it matters: there is no file without entries that   *)
(* reaches it.                                                             *)
Lim == IF fsize > HDR + 1 THEN fsize ELSE HDR + 1

SizeInv ==
  Regular =>
    /\ HDR + Held < Lim + 2 * RcSize + MaxFlush
    /\ fpc = "write" /\ wrap_pos # 0 => wrap_pos = seek + size
    /\ fpc = "limit" /\ wrap_pos # 0 => wrap_pos = seek
    /\ "CLOSE" \notin ri_flags => 
         Pos < Lim + (IF fpc = "limit" THEN RcSize ELSE 0)
    /\ "CLOSE" \in ri_flags => Pos + Inactive + Active < Lim + 2 * RcSize + MaxFlush

-----------------------------------------------------------------------------
(* The layout of a file *)

(* n is a number of whole buffers. *)
Whole(n) == \E k \in 0 .. n : n = k * RcSize

(* A regular file that is not being closed grows by whole buffers until it *)
(* reaches the limit, and from then on, if it wraps, has the newest        *)
(* entries before Pos and the oldest from there on.  The boundaries of the *)
(* buffers are the same in each round, so that a buffer never goes beyond  *)
(* the end of the file.                                                    *)
EntriesOK ==
  /\ Whole(Held) /\ Pos >= HDR /\ Whole(Pos - HDR)
  /\ fpc = "limit" => Pos > HDR
  /\ wrap_pos = 0 => Pos = HDR + Held /\ serial = base + Held
  /\ wrap_pos # 0 =>
       /\ fsize <= HDR + Held /\ HDR + Held < Lim + RcSize
       /\ Pos <= IF fpc = "limit" THEN HDR + Held ELSE Held
  /\ \A i \in 1 .. Held :
       disk[cur].entries[i] = IF i < Pos THEN serial - Pos + 1 + i
                              ELSE serial - Held + 1 + i - Pos

(* The header on disk: it is behind from before a buffer is written until  *)
(* after, by that buffer.                                                  *)
HeaderOK ==
  /\ fpc = "write" => IF wrap_pos = 0 THEN disk[cur].hdr = 0
                      ELSE update_hdr /\ disk[cur].hdr = seek
  /\ fpc \in {"limit", "header"} =>
       \/ wrap_pos = 0 /\ disk[cur].hdr = 0
       \/ wrap_pos > HDR /\ update_hdr /\ disk[cur].hdr = wrap_pos - RcSize
       \/ /\ fpc = "header" /\ wrap_pos = HDR /\ update_hdr
          /\ disk[cur].hdr \in {0, HDR + Held - RcSize}
  /\ fpc \notin {"write", "limit", "header"} => disk[cur].hdr = wrap_pos

LayoutInv == Regular /\ "CLOSE" \notin ri_flags => EntriesOK /\ HeaderOK

-----------------------------------------------------------------------------
(* The operators *)

(* The default limit is one of the limits. *)
LEMMA DefaultSize == Max(Sizes) \in Sizes
<1>1. \E m \in Sizes : \A n \in Sizes : m >= n
  BY FileAssumption
<1> QED  BY <1>1 DEF Max

(* n new entries. *)
LEMMA FreshSeq ==
  ASSUME NEW n \in Nat, serial \in Nat
  PROVE  /\ Fresh(n) \in EntrySeq(serial + n) /\ Len(Fresh(n)) = n
         /\ \A i \in 1 .. n : Fresh(n)[i] = serial + i
BY DEF Fresh, EntrySeq

(* What pwrite() leaves in a file. *)
LEMMA WriteAtSeq ==
  ASSUME NEW s \in Nat, NEW f \in EntrySeq(s), NEW pos \in Nat, pos >= 1,
         NEW es \in EntrySeq(s)
  PROVE  /\ WriteAt(f, pos, es) \in EntrySeq(s)
         /\ Len(WriteAt(f, pos, es)) =
              IF es = << >> \/ Len(f) >= pos + Len(es) - 1 THEN Len(f) ELSE pos + Len(es) - 1
         /\ \A i \in 1 .. Len(WriteAt(f, pos, es)) :
              WriteAt(f, pos, es)[i] =
                IF i >= pos /\ i < pos + Len(es) THEN es[i - pos + 1]
                ELSE IF i <= Len(f) THEN f[i] ELSE 0
<1>1. CASE es = << >>
  BY <1>1 DEF WriteAt
<1>2. CASE es # << >>
  <2> DEFINE m == IF Len(f) >= pos + Len(es) - 1 THEN Len(f) ELSE pos + Len(es) - 1
             g == [i \in 1 .. m |-> IF i \in pos .. pos + Len(es) - 1 THEN es[i - pos + 1]
                                    ELSE IF i <= Len(f) THEN f[i] ELSE 0]
  <2>1. Max({Len(f), pos + Len(es) - 1}) = m
    <3>1. Len(f) \in Int /\ pos + Len(es) - 1 \in Int
      OBVIOUS
    <3> QED  BY <3>1, MaxOfTwo, Zenon
  <2>2. WriteAt(f, pos, es) = g
    BY <1>2, <2>1 DEF WriteAt
  <2>3. \A i \in 1 .. m : g[i] \in 0 .. s
    BY DEF EntrySeq
  <2>4. g \in EntrySeq(s) /\ Len(g) = m
    BY <2>3 DEF EntrySeq
  <2> QED  BY <1>2, <2>2, <2>4
<1> QED  BY <1>1, <1>2

(* How long it is then. *)
LEMMA WriteAtLen ==
  ASSUME NEW s \in Nat, NEW f \in EntrySeq(s), NEW pos \in Nat, pos >= 1,
         NEW es \in EntrySeq(s)
  PROVE  Len(WriteAt(f, pos, es)) =
           IF es = << >> \/ Len(f) >= pos + Len(es) - 1 THEN Len(f) ELSE pos + Len(es) - 1
BY WriteAtSeq

-----------------------------------------------------------------------------
(* Types *)

(* The write of a header changes the offset in it and nothing else. *)
LEMMA HdrWrite ==
  ASSUME NEW d, NEW s, DiskType(d, s), NEW n \in Names, NEW h \in Nat
  PROVE  LET e == [d EXCEPT ![n].hdr = h]
         IN  /\ DiskType(e, s)
             /\ e[n].hdr = h
             /\ \A m \in Names : e[m].entries = d[m].entries
             /\ \A m \in Names \ {n} : e[m].hdr = d[m].hdr
BY DEF DiskType

(* The write of entries leaves the header alone. *)
EntriesSet(d, n, es, e) == e = [d EXCEPT ![n].entries = es]

(* The files after such a write. *)
LEMMA EntriesWrite ==
  ASSUME NEW d, NEW s \in Nat, NEW t \in Nat, s <= t, DiskType(d, s), NEW n \in Names,
         NEW es \in EntrySeq(t), NEW e, EntriesSet(d, n, es, e)
  PROVE  /\ DiskType(e, t)
         /\ e[n].entries = es
         /\ \A m \in Names : e[m].hdr = d[m].hdr
         /\ \A m \in Names \ {n} : e[m].entries = d[m].entries
<1>1. \A m \in Names : d[m] \in [hdr : Int, entries : EntrySeq(s)]
  BY DEF DiskType
<1>2. EntrySeq(s) \subseteq EntrySeq(t)
  BY DEF EntrySeq
<1>3. \A m \in Names : d[m] \in [hdr : Int, entries : EntrySeq(t)]
  BY <1>1, <1>2
<1>4. e = [m \in Names |-> IF m = n THEN [d[m] EXCEPT !.entries = es] ELSE d[m]]
  BY DEF DiskType, EntriesSet
<1>5. [d[n] EXCEPT !.entries = es] \in [hdr : Int, entries : EntrySeq(t)]
  BY <1>3
<1>6. e \in [Names -> [hdr : Int, entries : EntrySeq(t)]]
  BY <1>3, <1>4, <1>5
<1>7. e[n].entries = es /\ e[n].hdr = d[n].hdr
  BY <1>1, <1>4
<1>8. \A m \in Names \ {n} : e[m] = d[m]
  BY <1>4
<1> QED  BY <1>6, <1>7, <1>8 DEF DiskType

(* The name of a file that is opened. *)
LEMMA NameInNames ==
  ASSUME FlowType, "ZAP" \in ri_flags => zaps < MaxZaps
  PROVE  HeaderName \in Names /\ HeaderName # NoFile
BY FileAssumption DEF FlowType, HeaderName, Names

(* rbtrace_write_header() keeps the types. *)
LEMMA TypeHeaderWritten ==
  ASSUME FlowType, HeaderWritten, fpc' \in {"wait", "header"},
         UNCHANGED <<ri_file_path, fsize, closing, do_flush, size, update_hdr, serial>>
  PROVE  FlowType'
<1>1. HeaderName \in Names /\ HeaderName # NoFile
  BY NameInNames DEF HeaderWritten
<1>2. fd' = HeaderName /\ cur' = HeaderName /\ seek' = HDR /\ wrap_pos' = 0 /\ base' = serial
  BY DEF HeaderWritten
<1>3. ri_flags' \subseteq Flags
  BY DEF FlowType, HeaderWritten, Flags
<1>4. zaps' \in 0 .. MaxZaps /\ regular' \in BOOLEAN
  BY FileAssumption DEF FlowType, HeaderWritten
<1> HIDE DEF HeaderName
<1> QED  BY <1>1, <1>2, <1>3, <1>4 DEF FlowType, FileLabels, HDR

LEMMA TypeHeaderFailed ==
  ASSUME FlowType, NEW file, HeaderFailed(file), fpc' \in {"wait", "header"},
         UNCHANGED <<ri_file_path, fsize, closing, do_flush, size, update_hdr, serial>>
  PROVE  FlowType'
BY DEF FlowType, HeaderFailed, FileLabels, Flags

(* The steps of the loop of rbtrace_thread_fn() keep the types. *)
LEMMA TypeLoop ==
  ASSUME FlowType,
         Wake \/ LookOpen \/ LookDisk \/ WriteHeader \/ WriteInactive \/ WriteActive
           \/ Written \/ Close
  PROVE  FlowType'
<1> USE DEF FlowType, Goto, FileLabels, flagVars, fileVars, flowVars, histVars
<1>1. CASE Wake
  BY <1>1 DEF Wake
<1>2. CASE LookOpen
  BY <1>2 DEF LookOpen
<1>3. CASE LookDisk
  BY <1>3 DEF LookDisk
<1>4. CASE WriteHeader
  <2>1. fpc' \in {"wait", "header"}
    BY <1>4 DEF WriteHeader
  <2> HIDE DEF FlowType
  <2> QED  BY <1>4, <2>1, TypeHeaderWritten, TypeHeaderFailed DEF WriteHeader
<1>5. CASE WriteInactive
  <2>1. do_flush' \in BOOLEAN
    BY <1>5, Zenon DEF WriteInactive, WriteData
  <2> QED  BY <1>5, <2>1, FileAssumption DEF WriteInactive, WriteData
<1>6. CASE WriteActive
  BY <1>6, FileAssumption DEF WriteActive, WriteData
<1>7. CASE Written
  <2>1. update_hdr' \in BOOLEAN /\ do_flush' \in BOOLEAN
    BY <1>7, Zenon DEF Written
  <2> QED  BY <1>7, <2>1, FileAssumption DEF Written, Flags
<1>8. CASE Close
  BY <1>8 DEF Close, Flags
<1> QED  BY <1>1, <1>2, <1>3, <1>4, <1>5, <1>6, <1>7, <1>8

(* So do the steps of rbtrace_write_data(). *)
LEMMA TypeWriteData ==
  ASSUME FlowType, Place \/ Write \/ WriteFails \/ Limit \/ Stop \/ UpdateHeader
  PROVE  FlowType'
<1> USE DEF Goto, FileLabels, flagVars, fileVars, flowVars, histVars, Flags
<1>1. CASE Place
  <2>1. update_hdr' \in BOOLEAN
    BY <1>1, Zenon DEF Place, FlowType
  <2> QED  BY <1>1, <2>1, FileAssumption DEF FlowType, Place, HDR
<1>2. CASE Write
  BY <1>2, FileAssumption DEF FlowType, Write, HDR
<1>3. CASE WriteFails
  <2>1. regular' \in BOOLEAN
    BY <1>3, Zenon DEF WriteFails
  <2> QED  BY <1>3, <2>1, FileAssumption DEF FlowType, WriteFails
<1>4. CASE Limit
  <2>1. UNCHANGED <<closing, do_flush, size, serial>>
    BY <1>4 DEF Limit
  <2>2. CASE LimitPasses
    BY <1>4, <2>1, <2>2 DEF Limit, LimitPasses, FlowType
  <2>3. CASE LimitWraps
    <3>1. update_hdr' \in BOOLEAN
      BY <2>3, Zenon DEF LimitWraps
    <3> QED  BY <1>4, <2>1, <2>3, <3>1 DEF Limit, LimitWraps, FlowType, HDR
  <2>4. CASE LimitZaps
    <3>1. fpc' \in {"wait", "header"}
      BY <2>4 DEF LimitZaps
    <3> QED  BY <2>1, <2>4, <3>1, TypeHeaderWritten, TypeHeaderFailed DEF LimitZaps
  <2>5. CASE LimitStops
    BY <1>4, <2>1, <2>5 DEF Limit, LimitStops, FlowType
  <2> QED  BY <1>4, <2>2, <2>3, <2>4, <2>5 DEF Limit
<1>5. CASE Stop
  BY <1>5 DEF FlowType, Stop
<1>6. CASE UpdateHeader
  <2>1. regular' \in BOOLEAN
    BY <1>6, Zenon DEF UpdateHeader, FlowType
  <2> QED  BY <1>6, <2>1 DEF FlowType, UpdateHeader
<1> QED  BY <1>1, <1>2, <1>3, <1>4, <1>5, <1>6

(* So do the requests of rbt. *)
LEMMA TypeCtrl ==
  ASSUME FlowType, CtrlStep
  PROVE  FlowType'
<1> USE DEF FlowType, fileVars, flowVars, histVars, Flags, Set
<1>1. ASSUME NEW path \in Paths, CtrlOpen(path)
      PROVE  FlowType'
  BY <1>1 DEF CtrlOpen
<1>2. CASE CtrlClose
  BY <1>2 DEF CtrlClose
<1>3. ASSUME NEW n \in Sizes, CtrlSize(n)
      PROVE  FlowType'
  BY <1>3 DEF CtrlSize
<1>4. ASSUME NEW enable \in BOOLEAN, CtrlWrap(enable) \/ CtrlZap(enable)
      PROVE  FlowType'
  BY <1>4 DEF CtrlWrap, CtrlZap
<1> QED  BY <1>1, <1>2, <1>3, <1>4 DEF CtrlStep

-----------------------------------------------------------------------------
(* The disk *)

(* The file that rbtrace_write_data() writes to. *)
LEMMA OpenInNames ==
  ASSUME FileType, fd # NoFile
  PROVE  /\ fd \in Names /\ fd = cur /\ seek \in Nat /\ seek >= 1 /\ serial \in Nat
         /\ disk[fd].entries \in EntrySeq(serial)
         /\ size \in Nat
BY FileAssumption DEF FileType, FlowType, HDR, DiskOK, DiskType

(* The disk after n entries of a buffer are written. *)
LEMMA Appended ==
  ASSUME FileType, fd # NoFile, NEW n \in 0 .. size,
         disk' = [disk EXCEPT ![fd].entries = WriteAt(@, seek, Fresh(n))]
  PROVE  /\ DiskType(disk', serial + size)
         /\ disk'[fd].entries = WriteAt(disk[fd].entries, seek, Fresh(n))
         /\ \A m \in Names : disk'[m].hdr = disk[m].hdr
<1> DEFINE es == WriteAt(disk[fd].entries, seek, Fresh(n))
           s  == serial + size
<1>1. fd \in Names /\ seek \in Nat /\ seek >= 1 /\ serial \in Nat
        /\ disk[fd].entries \in EntrySeq(serial) /\ size \in Nat
  BY OpenInNames
<1>2. n \in Nat /\ n <= size /\ DiskType(disk, serial)
  BY <1>1 DEF FileType, DiskOK
<1>3. Fresh(n) \in EntrySeq(serial + n)
  BY <1>1, <1>2, FreshSeq
<1>4. s \in Nat /\ serial <= s
  BY <1>1, <1>2
<1>5. Fresh(n) \in EntrySeq(s) /\ disk[fd].entries \in EntrySeq(s)
  BY <1>1, <1>2, <1>3 DEF EntrySeq
<1> HIDE DEF s
<1>6. es \in EntrySeq(s)
  BY <1>1, <1>4, <1>5, WriteAtSeq
<1>7. EntriesSet(disk, fd, es, disk')
  BY <1>1, <1>2 DEF DiskType, EntriesSet
<1> HIDE DEF es
<1>8. /\ DiskType(disk', s)
      /\ disk'[fd].entries = es
      /\ \A m \in Names : disk'[m].hdr = disk[m].hdr
  <2>1. fd \in Names /\ serial \in Nat
    BY <1>1
  <2>2. DiskType(disk', s) /\ \A m \in Names : disk'[m].hdr = disk[m].hdr
    BY <1>2, <1>4, <1>6, <1>7, <2>1, EntriesWrite
  <2>3. disk'[fd].entries = es
    BY <1>2, <1>7, <2>1 DEF EntriesSet, DiskType
  <2> QED  BY <2>2, <2>3
<1> QED  BY <1>8 DEF es, s

(* Of a whole buffer. *)
LEMMA Buffered ==
  ASSUME FileType, fd # NoFile, Write
  PROVE  /\ DiskType(disk', serial + size)
         /\ disk'[fd].entries = WriteAt(disk[fd].entries, seek, Fresh(size))
         /\ \A m \in Names : disk'[m].hdr = disk[m].hdr
<1>1. size \in 0 .. size
  BY OpenInNames
<1> QED  BY <1>1, Appended DEF Write

(* The disk keeps its type. *)
LEMMA DiskStep ==
  ASSUME FileType, Next
  PROVE  DiskOK'
<1>1. CASE UNCHANGED <<disk, serial>>
  BY <1>1 DEF FileType, DiskOK, DiskType
<1>2. CASE HeaderWritten /\ UNCHANGED serial
  <2>1. HeaderName \in Names
    BY <1>2, NameInNames DEF HeaderWritten, FileType
  <2>2. DiskType(disk, serial) /\ 0 \in Nat
    BY DEF FileType, DiskOK
  <2>3. DiskType(disk', serial)
    BY <1>2, <2>1, <2>2, HdrWrite DEF HeaderWritten
  <2> QED  BY <1>2, <2>3 DEF DiskOK, DiskType
<1>3. CASE Write
  <2>1. fd # NoFile
    BY <1>3 DEF FileType, FlowType, Write
  <2>2. DiskType(disk', serial + size)
    BY <1>3, <2>1, Buffered
  <2> QED  BY <1>3, <2>2 DEF Write, DiskOK, DiskType
<1>4. CASE WriteFails
  <2>1. fd # NoFile
    BY <1>4 DEF FileType, FlowType, WriteFails
  <2>2. PICK n \in 0 .. size - 1 :
          disk' = [disk EXCEPT ![fd].entries = WriteAt(@, seek, Fresh(n))]
    BY <1>4 DEF WriteFails
  <2>3. n \in 0 .. size
    BY <2>1, OpenInNames
  <2>4. DiskType(disk', serial + size)
    BY <2>1, <2>2, <2>3, Appended
  <2> QED  BY <1>4, <2>4 DEF WriteFails, DiskOK, DiskType
<1>5. CASE UpdateHeader
  <2>1. CASE fd # NoFile /\ disk' = [disk EXCEPT ![fd].hdr = wrap_pos]
    <3>1. fd \in Names /\ wrap_pos \in Nat /\ DiskType(disk, serial)
      BY <2>1 DEF FileType, FlowType, DiskOK
    <3>2. DiskType(disk', serial)
      BY <2>1, <3>1, HdrWrite
    <3> QED  BY <1>5, <3>2 DEF UpdateHeader, DiskOK, DiskType
  <2> QED  BY <1>1, <1>5, <2>1 DEF UpdateHeader
<1>6. CASE Wake \/ LookOpen \/ LookDisk \/ WriteInactive \/ WriteActive
             \/ Place \/ Stop \/ Written \/ Close
  BY <1>1, <1>6 DEF Wake, LookOpen, LookDisk, WriteInactive, WriteActive, WriteData, Place,
                    Stop, Written, Close, fileVars, histVars
<1>7. CASE WriteHeader
  BY <1>1, <1>2, <1>7 DEF WriteHeader, HeaderFailed
<1>8. CASE Limit
  BY <1>1, <1>2, <1>8 DEF Limit, LimitPasses, LimitWraps, LimitZaps, LimitStops,
                          HeaderFailed, fileVars
<1>9. CASE CtrlStep
  BY <1>1, <1>9 DEF CtrlStep, CtrlOpen, CtrlClose, CtrlSize, CtrlWrap, CtrlZap, Set,
                    fileVars, histVars
<1> QED  BY <1>3, <1>4, <1>5, <1>6, <1>7, <1>8, <1>9 DEF Next, FlusherStep

(* The types hold throughout. *)
LEMMA FileTypeHolds == Spec => []FileType
<1>1. Init => FileType
  <2> SUFFICES ASSUME Init
               PROVE  FileType
    OBVIOUS
  <2>1. FlowType
    <3>1. closing \in BOOLEAN /\ do_flush \in BOOLEAN /\ update_hdr \in BOOLEAN
            /\ regular \in BOOLEAN
      BY Zenon DEF Init
    <3> QED  BY <3>1, DefaultSize, FileAssumption DEF Init, FlowType, FileLabels
  <2>2. DiskOK
    BY DEF Init, DiskOK, DiskType, EntrySeq
  <2> QED  BY <2>1, <2>2 DEF FileType
<1>2. FileType /\ [Next]_vars => FileType'
  <2>1. ASSUME FileType, UNCHANGED vars
        PROVE  FileType'
    BY <2>1 DEF vars, flagVars, fileVars, flowVars, histVars, FileType, FlowType, DiskOK,
                DiskType
  <2>2. ASSUME FileType, Next
        PROVE  FileType'
    BY <2>2, TypeLoop, TypeWriteData, TypeCtrl, DiskStep DEF Next, FlusherStep, FileType
  <2> QED  BY <2>1, <2>2
<1> QED  BY <1>1, <1>2, PTL DEF Spec

(* Every variable has its type, for files of any number and any length:    *)
(* the header on disk never gets a negative offset, and every entry in a   *)
(* file was written to it or is a gap.                                     *)
THEOREM FileTypeCorrect == Spec => []TypeOK
<1>1. FileType => TypeOK
  BY DEF FileType, FlowType, DiskOK, DiskType, EntrySeq, TypeOK, Flags
<1> QED  BY <1>1, FileTypeHolds, PTL

-----------------------------------------------------------------------------
(* Requests *)

(* Every step keeps RequestInv. *)
LEMMA RequestStep ==
  ASSUME FlowType, RequestInv, Next
  PROVE  RequestInv'
<1> USE DEF RequestInv, InWriteData, Goto, flagVars, fileVars, flowVars, histVars
<1>1. CASE Wake
  BY <1>1 DEF Wake
<1>2. CASE LookOpen
  BY <1>2 DEF LookOpen
<1>3. CASE LookDisk
  BY <1>3 DEF LookDisk
<1>4. CASE WriteHeader
  BY <1>4 DEF WriteHeader, HeaderWritten, HeaderFailed
<1>5. CASE WriteInactive
  BY <1>5 DEF WriteInactive, WriteData
<1>6. CASE WriteActive
  BY <1>6 DEF WriteActive, WriteData
<1>7. CASE Place
  BY <1>7 DEF Place
<1>8. CASE Write
  BY <1>8 DEF Write
<1>9. CASE WriteFails
  BY <1>9 DEF WriteFails
<1>10. CASE Limit
  BY <1>10 DEF Limit, LimitPasses, LimitWraps, LimitZaps, LimitStops, HeaderWritten,
               HeaderFailed
<1>11. CASE Stop
  BY <1>11 DEF Stop
<1>12. CASE UpdateHeader
  BY <1>12 DEF UpdateHeader
<1>13. CASE Written
  BY <1>13 DEF Written
<1>14. CASE Close
  BY <1>14 DEF Close
<1>15. CASE CtrlStep
  BY <1>15 DEF CtrlStep, CtrlOpen, CtrlClose, CtrlSize, CtrlWrap, CtrlZap, Set
<1> QED  BY <1>1, <1>2, <1>3, <1>4, <1>5, <1>6, <1>7, <1>8, <1>9, <1>10, <1>11, <1>12,
            <1>13, <1>14, <1>15 DEF Next, FlusherStep

(* A change of the limit or the mode ends the regularity of an open file. *)
LEMMA SetIrregular ==
  ASSUME Set
  PROVE  ~Regular' /\ UNCHANGED <<ri_file_path, fileVars, flowVars, serial, zaps, cur, base>>
BY Zenon DEF Set, Regular, fileVars

(* And CloseInv: a file is regular from its header on only if no request   *)
(* was left over, and ceases to be when the mode changes.                  *)
LEMMA CloseStep ==
  ASSUME FlowType, CloseInv, Next
  PROVE  CloseInv'
<1> USE DEF CloseInv, Regular, Goto, flagVars, fileVars, flowVars, histVars
<1>1. CASE Wake \/ LookOpen \/ LookDisk
  BY <1>1 DEF Wake, LookOpen, LookDisk
<1>2. CASE HeaderWritten
  BY <1>2 DEF HeaderWritten
<1>3. ASSUME NEW file, HeaderFailed(file)
      PROVE  CloseInv'
  BY <1>3 DEF HeaderFailed
<1>4. CASE WriteHeader
  BY <1>2, <1>3, <1>4 DEF WriteHeader
<1>5. CASE WriteInactive \/ WriteActive
  BY <1>5 DEF WriteInactive, WriteActive, WriteData
<1>6. CASE Place
  BY <1>6 DEF Place
<1>7. CASE Write \/ WriteFails
  BY <1>7 DEF Write, WriteFails
<1>8. CASE Limit
  BY <1>2, <1>3, <1>8 DEF Limit, LimitPasses, LimitWraps, LimitZaps, LimitStops
<1>9. CASE Stop
  BY <1>9 DEF Stop
<1>10. CASE UpdateHeader
  BY <1>10 DEF UpdateHeader
<1>11. CASE Written
  BY <1>11 DEF Written
<1>12. CASE Close
  BY <1>12 DEF Close
<1>13. CASE \E path \in Paths : CtrlOpen(path)
  BY <1>13 DEF CtrlOpen
<1>14. CASE CtrlClose
  BY <1>14 DEF CtrlClose
<1>15. CASE Set
  BY <1>15, SetIrregular
<1>16. CASE CtrlStep
  BY <1>13, <1>14, <1>15, <1>16 DEF CtrlStep, CtrlSize, CtrlWrap, CtrlZap
<1> QED  BY <1>1, <1>4, <1>5, <1>6, <1>7, <1>8, <1>9, <1>10, <1>11, <1>12, <1>16
         DEF Next, FlusherStep

-----------------------------------------------------------------------------
(* The size of a file *)

(* The constants and variables that are numbers. *)
LEMMA Numbers ==
  ASSUME FileType
  PROVE  /\ RcSize \in Nat /\ RcSize > 0 /\ MaxFlush \in Nat /\ fsize \in Nat
         /\ seek \in Nat /\ wrap_pos \in Nat /\ size \in Nat /\ size <= MaxFlush
         /\ serial \in Nat /\ base \in Nat
         /\ fd # NoFile => Held \in Nat /\ cur \in Names
BY FileAssumption DEF FileType, FlowType, Held, DiskOK, DiskType

(* A new file that is regular is empty. *)
LEMMA NewFile ==
  ASSUME FileType, HeaderWritten
  PROVE  /\ Regular' => Held' = 0 /\ ri_flags' \cap {"CLOSE", "FLUSH"} = {}
         /\ wrap_pos' = 0 /\ seek' = HDR /\ base' = serial
         /\ disk'[cur'].hdr = 0
<1>1. HeaderName \in Names
  BY NameInNames DEF HeaderWritten, FileType
<1>2. DiskType(disk, serial) /\ cur' = HeaderName
  BY DEF FileType, DiskOK, HeaderWritten
<1>3. /\ disk'[HeaderName].entries = disk[HeaderName].entries
      /\ disk'[HeaderName].hdr = 0
  BY <1>1, <1>2 DEF DiskType, HeaderWritten
<1>4. regular' => disk[HeaderName].entries = << >> /\ ri_flags \cap {"CLOSE", "FLUSH"} = {}
  BY Zenon DEF HeaderWritten
<1> HIDE DEF HeaderName
<1>5. Regular' => Held' = 0
  BY <1>2, <1>3, <1>4 DEF Regular, Held
<1>6. Regular' => ri_flags' \cap {"CLOSE", "FLUSH"} = {}
  BY <1>4 DEF Regular, HeaderWritten
<1> QED  BY <1>2, <1>3, <1>5, <1>6 DEF HeaderWritten

(* The buffer that is written to a regular file. *)
LEMMA HeldWritten ==
  ASSUME FileType, fd # NoFile, Write
  PROVE  Held' = IF size = 0 \/ Held >= seek + size - 1 THEN Held ELSE seek + size - 1
<1>1. fd \in Names /\ fd = cur /\ seek \in Nat /\ seek >= 1 /\ serial \in Nat
        /\ disk[fd].entries \in EntrySeq(serial) /\ size \in Nat
  BY OpenInNames
<1>2. disk'[fd].entries = WriteAt(disk[fd].entries, seek, Fresh(size))
  BY Buffered
<1>3. Fresh(size) \in EntrySeq(serial + size) /\ Len(Fresh(size)) = size
  BY <1>1, FreshSeq
<1>4. disk[fd].entries \in EntrySeq(serial + size) /\ serial + size \in Nat
  BY <1>1 DEF EntrySeq
<1>5. Len(WriteAt(disk[fd].entries, seek, Fresh(size))) =
        IF Fresh(size) = << >> \/ Len(disk[fd].entries) >= seek + size - 1
        THEN Len(disk[fd].entries) ELSE seek + size - 1
  <2> DEFINE f  == disk[fd].entries
             es == Fresh(size)
             s  == serial + size
  <2>1. s \in Nat /\ f \in EntrySeq(s) /\ es \in EntrySeq(s) /\ Len(es) = size
    BY <1>1, <1>3, <1>4
  <2> HIDE DEF f, es, s
  <2>2. Len(WriteAt(f, seek, es)) =
          IF es = << >> \/ Len(f) >= seek + Len(es) - 1 THEN Len(f) ELSE seek + Len(es) - 1
    <3>1. seek \in Nat /\ seek >= 1
      BY <1>1
    <3> QED  BY <2>1, <3>1, WriteAtLen
  <2> QED  BY <2>1, <2>2 DEF f, es
<1>6. Fresh(size) = << >> <=> size = 0
  BY <1>3
<1>7. cur' = cur
  BY DEF Write
<1> QED  BY <1>1, <1>2, <1>5, <1>6, <1>7 DEF Held

(* The steps that leave the entries of a regular file alone. *)
QuietStep ==
  \/ Wake \/ LookOpen \/ LookDisk \/ WriteInactive \/ WriteActive \/ Place
  \/ Limit /\ (LimitPasses \/ LimitWraps)
  \/ UpdateHeader \/ Written
  \/ \E path \in Paths : CtrlOpen(path)
  \/ CtrlClose

Kept == UNCHANGED <<fd, fsize, cur, base, serial>> /\ disk'[cur].entries = disk[cur].entries

(* A file that is regular after a step is a new one, or one to which a     *)
(* buffer is written, or one that the step leaves alone.                   *)
LEMMA RegularCases ==
  ASSUME FileType, Next, Regular'
  PROVE  \/ HeaderWritten /\ UNCHANGED <<fsize, serial>> /\ fpc' \in {"wait", "header"}
         \/ Regular /\ Write
         \/ Regular /\ QuietStep /\ Kept
<1> USE DEF Goto, flagVars, fileVars, flowVars, histVars
<1>1. ASSUME NEW file, HeaderFailed(file)
      PROVE  FALSE
  BY <1>1 DEF HeaderFailed, Regular
<1>2. CASE Set
  BY <1>2, SetIrregular
<1>3. CASE WriteFails
  BY <1>3 DEF WriteFails, Regular
<1>4. CASE Write
  BY <1>4 DEF Write, Regular
<1>5. CASE WriteHeader
  BY <1>1, <1>5 DEF WriteHeader
<1>6. CASE Close \/ Stop
  BY <1>6 DEF Close, Stop, Regular, FileType, FlowType
<1>7. CASE Wake \/ LookOpen \/ LookDisk \/ WriteInactive \/ WriteActive \/ Place \/ Written
  <2>1. UNCHANGED <<fd, fsize, cur, base, serial, regular, disk>>
    BY <1>7 DEF Wake, LookOpen, LookDisk, WriteInactive, WriteActive, WriteData, Place, Written
  <2> QED  BY <1>7, <2>1 DEF QuietStep, Kept, Regular
<1>8. CASE Limit
  <2>1. CASE LimitPasses \/ LimitWraps
    <3>1. UNCHANGED <<fd, fsize, cur, base, serial, regular, disk>>
      BY <1>8, <2>1 DEF Limit, LimitPasses, LimitWraps
    <3> QED  BY <1>8, <2>1, <3>1 DEF QuietStep, Kept, Regular
  <2>2. CASE LimitZaps
    BY <1>1, <1>8, <2>2 DEF LimitZaps, Limit
  <2>3. CASE LimitStops
    BY <2>3 DEF LimitStops, Regular
  <2> QED  BY <1>8, <2>1, <2>2, <2>3 DEF Limit
<1>9. CASE UpdateHeader
  <2>1. UNCHANGED <<fd, fsize, cur, base, serial>> /\ (regular' => regular)
    BY <1>9 DEF UpdateHeader
  <2>2. Regular
    BY <2>1 DEF Regular
  <2>3. UNCHANGED disk \/ disk' = [disk EXCEPT ![fd].hdr = wrap_pos]
    BY <1>9 DEF UpdateHeader
  <2>4. disk'[cur].entries = disk[cur].entries
    BY <2>2, <2>3 DEF Regular, FileType, FlowType, DiskOK, DiskType
  <2> QED  BY <1>9, <2>1, <2>2, <2>4 DEF QuietStep, Kept
<1>10. CASE (\E path \in Paths : CtrlOpen(path)) \/ CtrlClose
  <2>1. UNCHANGED <<fd, fsize, cur, base, serial, regular, disk>>
    BY <1>10 DEF CtrlOpen, CtrlClose
  <2> QED  BY <1>10, <2>1 DEF QuietStep, Kept, Regular
<1>11. CASE CtrlStep
  BY <1>2, <1>10, <1>11 DEF CtrlStep, CtrlSize, CtrlWrap, CtrlZap
<1> QED  BY <1>3, <1>4, <1>5, <1>6, <1>7, <1>8, <1>9, <1>11 DEF Next, FlusherStep

(* Every step keeps SizeInv: a pass of the flush thread either gives back  *)
(* what the file exceeds the limit by, or the file is being closed and     *)
(* less and less can still be written to it.                               *)
LEMMA SizeStep ==
  ASSUME FileType, RequestInv, CloseInv, SizeInv, Next
  PROVE  SizeInv'
<1> SUFFICES ASSUME Regular'
             PROVE  SizeInv'
  BY DEF SizeInv
<1> USE DEF Goto, flagVars, fileVars, flowVars, histVars, HDR
<1>1. /\ RcSize \in Nat /\ RcSize > 0 /\ MaxFlush \in Nat /\ fsize \in Nat
      /\ seek \in Nat /\ wrap_pos \in Nat /\ size \in Nat /\ size <= MaxFlush
      /\ fd # NoFile => Held \in Nat
  BY Numbers
<1>2. CASE HeaderWritten /\ UNCHANGED fsize /\ fpc' \in {"wait", "header"}
  <2>1. Held' = 0 /\ ri_flags' \cap {"CLOSE", "FLUSH"} = {} /\ wrap_pos' = 0 /\ seek' = HDR
    BY <1>2, NewFile
  <2> QED  BY <1>1, <1>2, <2>1 DEF SizeInv, Pos, Lim
<1>3. CASE Regular /\ Write
  <2>1. Held' = IF size = 0 \/ Held >= seek + size - 1 THEN Held ELSE seek + size - 1
    BY <1>3, HeldWritten DEF Regular
  <2>2. ~do_flush => size = RcSize
    BY <1>3 DEF Write, RequestInv, InWriteData
  <2> QED  BY <1>1, <1>3, <2>1, <2>2
           DEF Write, SizeInv, Pos, Lim, Inactive, Active, CloseInv, RequestInv, Regular
<1>4. CASE Regular /\ QuietStep /\ Kept
  <2>1. Held' = Held /\ UNCHANGED <<fd, fsize>>
    BY <1>4 DEF Kept, Held
  <2> USE <1>1, <1>4, <2>1 DEF SizeInv, Pos, Lim, Inactive, Active, RequestInv, CloseInv,
                               InWriteData
  <2>2. CASE Wake
    <3>1. closing' <=> "CLOSE" \in ri_flags
      BY <2>2, Zenon DEF Wake
    <3> QED  BY <2>2, <3>1 DEF Wake
  <2>3. CASE LookOpen \/ LookDisk
    BY <2>3 DEF LookOpen, LookDisk
  <2>4. CASE WriteInactive
    <3>1. (fpc' # "active" => ~do_flush') /\ (fpc' = "active" => UNCHANGED do_flush)
      BY <2>4, Zenon DEF WriteInactive, WriteData, Regular
    <3> QED  BY <2>4, <3>1 DEF WriteInactive, WriteData, Regular
  <2>5. CASE WriteActive
    <3>1. (fpc' = "place" => do_flush') /\ (fpc' # "place" => UNCHANGED do_flush)
      BY <2>5, Zenon DEF WriteActive, WriteData, Regular
    <3> QED  BY <2>5, <3>1 DEF WriteActive, WriteData, Regular
  <2>6. CASE Place
    BY <2>6 DEF Place
  <2>7. CASE Limit /\ LimitPasses
    BY <2>7 DEF Limit, LimitPasses, AtLimit
  <2>8. CASE Limit /\ LimitWraps
    BY <2>8 DEF Limit, LimitWraps
  <2>9. CASE UpdateHeader
    BY <2>9 DEF UpdateHeader
  <2>10. CASE Written
    BY <2>10 DEF Written
  <2>11. CASE \E path \in Paths : CtrlOpen(path)
    BY <2>11 DEF CtrlOpen
  <2>12. CASE CtrlClose
    BY <2>12 DEF CtrlClose
  <2> QED  BY <2>2, <2>3, <2>4, <2>5, <2>6, <2>7, <2>8, <2>9, <2>10, <2>11, <2>12
           DEF QuietStep
<1> QED  BY <1>2, <1>3, <1>4, RegularCases

(* The invariants so far hold throughout. *)
LEMMA SizeHolds == Spec => [](FileType /\ RequestInv /\ CloseInv /\ SizeInv)
<1> DEFINE I == RequestInv /\ CloseInv /\ SizeInv
<1>1. Init => I
  BY DEF Init, RequestInv, CloseInv, SizeInv, Regular, InWriteData
<1>2. FileType /\ I /\ [Next]_vars => I'
  <2>1. ASSUME I, UNCHANGED vars
        PROVE  I'
    BY <2>1 DEF vars, flagVars, fileVars, flowVars, histVars, RequestInv, CloseInv, SizeInv,
                Regular, Held, Pos, Lim, Inactive, Active
  <2>2. ASSUME FileType, I, Next
        PROVE  I'
    BY <2>2, RequestStep, CloseStep, SizeStep DEF FileType
  <2> QED  BY <2>1, <2>2
<1> HIDE DEF I
<1>3. Spec => []I
  BY <1>1, <1>2, FileTypeHolds, PTL DEF Spec
<1> QED  BY <1>3, FileTypeHolds, PTL DEF I

(* The size of a trace file is bounded for every limit, buffer size and    *)
(* number of files and faults: an open regular file exceeds the limit by   *)
(* less than two buffers and a flush of the active one.                    *)
THEOREM FileStaysBounded == Spec => []FileBounded
<1>1. FileType /\ SizeInv => FileBounded
  <2> SUFFICES ASSUME FileType, SizeInv
               PROVE  FileBounded
    OBVIOUS
  <2>1. fsize \in Int /\ HDR + 1 \in Int
    BY Numbers DEF HDR
  <2>2. Max({fsize, HDR + 1}) = IF fsize >= HDR + 1 THEN fsize ELSE HDR + 1
    BY <2>1, MaxOfTwo
  <2>3. Max({fsize, HDR + 1}) = Lim
    BY <2>1, <2>2 DEF Lim
  <2> QED  BY <2>3 DEF FileBounded, SizeInv, Regular
<1> QED  BY <1>1, SizeHolds, PTL

-----------------------------------------------------------------------------
(* The layout of a file *)

(* A product grows with its factor. *)
LEMMA TimesMono ==
  ASSUME NEW a \in Nat, NEW b \in Nat, NEW r \in Nat, a <= b
  PROVE  a * r <= b * r
<1>1. b * r = a * r + (b - a) * r
  OBVIOUS
<1>2. (b - a) * r \in Nat
  OBVIOUS
<1> QED  BY <1>1, <1>2

(* One more buffer. *)
LEMMA WholeAdd ==
  ASSUME NEW a \in Nat, Whole(a)
  PROVE  Whole(a + RcSize)
<1>1. PICK k \in 0 .. a : a = k * RcSize
  BY DEF Whole
<1>2. a + RcSize = (k + 1) * RcSize
  BY <1>1, FileAssumption
<1>3. k + 1 \in 0 .. a + RcSize
  BY <1>1, FileAssumption
<1> QED  BY <1>2, <1>3 DEF Whole

(* Between two boundaries lies at least a buffer. *)
LEMMA WholeGap ==
  ASSUME NEW a \in Nat, NEW b \in Nat, Whole(a), Whole(b), a < b
  PROVE  a + RcSize <= b
<1>1. PICK k \in 0 .. a : a = k * RcSize
  BY DEF Whole
<1>2. PICK l \in 0 .. b : b = l * RcSize
  BY DEF Whole
<1>3. RcSize \in Nat /\ k \in Nat /\ l \in Nat /\ k + 1 \in Nat
  BY FileAssumption
<1>4. k < l
  <2> SUFFICES ASSUME l <= k
               PROVE  FALSE
    BY <1>3
  <2>1. l * RcSize <= k * RcSize
    BY <1>3, TimesMono
  <2> QED  BY <1>1, <1>2, <2>1
<1>5. k + 1 <= l
  BY <1>3, <1>4
<1>6. (k + 1) * RcSize <= l * RcSize
  BY <1>3, <1>5, TimesMono
<1>7. (k + 1) * RcSize = k * RcSize + RcSize
  BY <1>3
<1> QED  BY <1>1, <1>2, <1>6, <1>7

(* What a buffer that is written leaves in the file. *)
LEMMA EntriesWritten ==
  ASSUME FileType, fd # NoFile, Write
  PROVE  \A i \in 1 .. Held' :
           disk'[cur].entries[i] = IF i >= seek /\ i < seek + size THEN serial + 1 + i - seek
                                   ELSE IF i <= Held THEN disk[cur].entries[i] ELSE 0
<1> DEFINE f  == disk[fd].entries
           es == Fresh(size)
           s  == serial + size
           g  == disk'[fd].entries
<1>1. fd = cur /\ seek \in Nat /\ seek >= 1 /\ serial \in Nat /\ size \in Nat
  BY OpenInNames
<1>2. g = WriteAt(f, seek, es)
  BY Buffered
<1>3. es \in EntrySeq(s) /\ Len(es) = size /\ \A i \in 1 .. size : es[i] = serial + i
  BY <1>1, FreshSeq
<1>4. f \in EntrySeq(s) /\ s \in Nat
  BY OpenInNames DEF EntrySeq
<1>5. Held' = Len(g) /\ Held = Len(f)
  BY <1>1 DEF Held, Write
<1> HIDE DEF f, es, s, g
<1>6. \A i \in 1 .. Len(WriteAt(f, seek, es)) :
        WriteAt(f, seek, es)[i] =
          IF i >= seek /\ i < seek + Len(es) THEN es[i - seek + 1]
          ELSE IF i <= Len(f) THEN f[i] ELSE 0
  <2>1. seek \in Nat /\ seek >= 1
    BY <1>1
  <2> QED  BY <1>3, <1>4, <2>1, WriteAtSeq
<1>7. \A i \in 1 .. Len(g) :
        g[i] = IF i >= seek /\ i < seek + size THEN es[i - seek + 1]
               ELSE IF i <= Len(f) THEN f[i] ELSE 0
  BY <1>2, <1>3, <1>6
<1>8. \A i \in 1 .. Len(g) : i >= seek /\ i < seek + size => es[i - seek + 1] = serial + 1 + i - seek
  <2> SUFFICES ASSUME NEW i \in Int, i >= seek, i < seek + size
               PROVE  es[i - seek + 1] = serial + 1 + i - seek
    BY <1>5
  <2>1. i - seek + 1 \in 1 .. size
    BY <1>1
  <2> QED  BY <1>1, <1>3, <2>1
<1> QED  BY <1>1, <1>5, <1>7, <1>8 DEF f, g

(* A buffer that is written to a regular file goes behind the newest       *)
(* entries, over the oldest ones if the file has wrapped.                  *)
LEMMA LayoutWrite ==
  ASSUME FileType, RequestInv, CloseInv, SizeInv, Regular, "CLOSE" \notin ri_flags,
         EntriesOK, HeaderOK, Write
  PROVE  EntriesOK' /\ HeaderOK'
<1> USE DEF HDR
<1>1. /\ RcSize \in Nat /\ RcSize > 0 /\ fsize \in Nat /\ seek \in Nat /\ wrap_pos \in Nat
      /\ serial \in Nat /\ base \in Nat /\ Held \in Nat
  BY Numbers DEF Regular
<1>2. size = RcSize
  BY DEF Write, RequestInv, CloseInv, InWriteData
<1>3. Pos = seek /\ seek >= 1 /\ fpc = "write"
  BY DEF Pos, EntriesOK, Write
<1>4. /\ seek' = seek + RcSize /\ serial' = serial + RcSize /\ fpc' = "limit"
      /\ UNCHANGED <<wrap_pos, base, fsize, cur, fd, update_hdr>>
  BY <1>2 DEF Write, Goto, flagVars
<1>5. Held' = IF Held >= seek + RcSize - 1 THEN Held ELSE seek + RcSize - 1
  BY <1>1, <1>2, HeldWritten DEF Regular
<1>6. \A i \in 1 .. Held' :
        disk'[cur].entries[i] = IF i >= seek /\ i < seek + RcSize THEN serial + 1 + i - seek
                                ELSE IF i <= Held THEN disk[cur].entries[i] ELSE 0
  BY <1>2, EntriesWritten DEF Regular
<1>7. disk'[cur].hdr = disk[cur].hdr
  <2>1. \A m \in Names : disk'[m].hdr = disk[m].hdr
    BY Buffered DEF Regular
  <2> QED  BY <2>1, OpenInNames DEF Regular
<1>8. Pos' = seek + RcSize
  BY <1>1, <1>2, <1>3, <1>4 DEF Pos, SizeInv
<1>9. wrap_pos # 0 => seek - 1 + RcSize <= Held
  <2> SUFFICES ASSUME wrap_pos # 0
               PROVE  seek - 1 + RcSize <= Held
    OBVIOUS
  <2>1. Whole(seek - 1) /\ Whole(Held) /\ seek - 1 < Held /\ seek - 1 \in Nat
    BY <1>1, <1>3 DEF EntriesOK
  <2> QED  BY <1>1, <2>1, WholeGap
<1>10. Held' = IF wrap_pos = 0 THEN Held + RcSize ELSE Held
  BY <1>1, <1>3, <1>5, <1>9 DEF EntriesOK
<1>11. Whole(Held')
  BY <1>1, <1>10, WholeAdd DEF EntriesOK
<1>12. Whole(seek - 1 + RcSize)
  <2>1. Whole(seek - 1) /\ seek - 1 \in Nat
    BY <1>1, <1>3 DEF EntriesOK
  <2> QED  BY <2>1, WholeAdd
<1>13. \A i \in 1 .. Held' :
         disk'[cur].entries[i] = IF i < Pos' THEN serial' - Pos' + 1 + i
                                 ELSE serial' - Held' + 1 + i - Pos'
  <2>1. \A i \in 1 .. Held :
          disk[cur].entries[i] = IF i < seek THEN serial - seek + 1 + i
                                 ELSE serial - Held + 1 + i - seek
    BY <1>3 DEF EntriesOK
  <2>2. wrap_pos = 0 => seek = 1 + Held
    BY <1>3 DEF EntriesOK
  <2> QED  BY <1>1, <1>3, <1>4, <1>6, <1>8, <1>10, <2>1, <2>2
<1>14. EntriesOK'
  <2>1. Whole(Pos' - 1)
    <3>1. Pos' - 1 = seek - 1 + RcSize
      BY <1>1, <1>8
    <3> QED  BY <1>12, <3>1
  <2>2. wrap_pos = 0 => seek = 1 + Held /\ serial = base + Held
    BY <1>3 DEF EntriesOK
  <2>3. wrap_pos # 0 => fsize <= 1 + Held /\ 1 + Held < Lim + RcSize
    BY DEF EntriesOK
  <2>4. Lim' = Lim
    BY <1>4 DEF Lim
  <2>5. Whole(Held)'
    BY <1>11 DEF Whole
  <2>6. Whole(Pos - HDR)'
    BY <2>1 DEF Whole
  <2>7. /\ Pos' >= 1 /\ Pos' > 1
        /\ wrap_pos' = 0 => Pos' = 1 + Held' /\ serial' = base' + Held'
        /\ wrap_pos' # 0 => fsize' <= 1 + Held' /\ 1 + Held' < Lim' + RcSize /\ Pos' <= 1 + Held'
    BY <1>1, <1>3, <1>4, <1>8, <1>9, <1>10, <2>2, <2>3, <2>4
  <2> QED  BY <1>4, <1>13, <2>5, <2>6, <2>7 DEF EntriesOK
<1>15. HeaderOK'
  BY <1>1, <1>2, <1>3, <1>4, <1>7 DEF HeaderOK, SizeInv
<1> QED  BY <1>14, <1>15

(* What keeps the layout: the entries stay, and so does Pos. *)
LEMMA LayoutKept ==
  ASSUME EntriesOK, Kept, Pos' = Pos, wrap_pos' = 0 <=> wrap_pos = 0,
         fpc' = "limit" <=> fpc = "limit"
  PROVE  EntriesOK'
<1>1. Held' = Held /\ Lim' = Lim /\ UNCHANGED <<fsize, serial, base, cur>>
  BY DEF Kept, Held, Lim
<1>2. disk'[cur'].entries = disk[cur].entries
  BY <1>1 DEF Kept
<1> QED  BY <1>1, <1>2 DEF EntriesOK, Whole

(* The steps that leave the entries alone keep the layout: Place makes Pos *)
(* the offset of the write, and a file that is found full is read from its *)
(* beginning again.                                                        *)
LEMMA LayoutQuiet ==
  ASSUME FileType, RequestInv, CloseInv, SizeInv, Regular, Regular',
         "CLOSE" \notin ri_flags', LayoutInv, QuietStep, Kept
  PROVE  EntriesOK' /\ HeaderOK'
<1> USE DEF Goto, flagVars, fileVars, flowVars, histVars, HDR
<1>1. /\ RcSize \in Nat /\ RcSize > 0 /\ fsize \in Nat /\ seek \in Nat /\ wrap_pos \in Nat
      /\ serial \in Nat /\ base \in Nat /\ Held \in Nat
  BY Numbers DEF Regular
<1>2. "CLOSE" \notin ri_flags
  BY DEF QuietStep, Wake, LookOpen, LookDisk, WriteInactive, WriteActive, WriteData, Place,
         Limit, LimitPasses, LimitWraps, UpdateHeader, Written, CtrlOpen, CtrlClose
<1>3. EntriesOK /\ HeaderOK
  BY <1>2 DEF LayoutInv
<1>4. Held' = Held /\ Lim' = Lim /\ UNCHANGED <<cur, fd, fsize, serial, base>>
  BY DEF Kept, Held, Lim
<1>5. CASE Wake \/ LookOpen \/ LookDisk \/ WriteInactive \/ WriteActive \/ Written
  <2>1. UNCHANGED <<seek, wrap_pos, disk>> /\ {fpc, fpc'} \cap {"write", "limit", "header"} = {}
    BY <1>5 DEF Wake, LookOpen, LookDisk, WriteInactive, WriteActive, WriteData, Written
  <2>2. EntriesOK'
    BY <1>3, <2>1, LayoutKept DEF Pos
  <2>3. HeaderOK'
    BY <1>3, <1>4, <2>1 DEF HeaderOK
  <2> QED  BY <2>2, <2>3
<1>6. CASE \E path \in Paths : CtrlOpen(path)
  <2>1. UNCHANGED <<seek, wrap_pos, disk, fpc, update_hdr>>
    BY <1>6 DEF CtrlOpen
  <2>2. EntriesOK'
    BY <1>3, <2>1, LayoutKept DEF Pos
  <2>3. HeaderOK'
    BY <1>3, <1>4, <2>1 DEF HeaderOK
  <2> QED  BY <2>2, <2>3
<1>7. CASE CtrlClose
  BY <1>7 DEF CtrlClose
<1>8. CASE Place
  <2>1. wrap_pos # 0 => "WRAP" \in ri_flags
    BY DEF CloseInv
  <2>2. fpc = "place" /\ fpc' = "write" /\ UNCHANGED disk
    BY <1>8 DEF Place
  <2>3. wrap_pos = 0 => UNCHANGED <<seek, wrap_pos>>
    BY <1>8 DEF Place
  <2>4. wrap_pos # 0 => seek' = wrap_pos /\ wrap_pos' = wrap_pos + size
    BY <1>8, <2>1 DEF Place
  <2>5. wrap_pos # 0 => update_hdr'
    BY <1>8, <2>1, Zenon DEF Place
  <2>6. Pos' = Pos /\ (wrap_pos' = 0 <=> wrap_pos = 0)
    BY <1>1, <2>2, <2>3, <2>4, Numbers DEF Pos
  <2>7. EntriesOK'
    BY <1>3, <2>2, <2>6, LayoutKept
  <2>8. HeaderOK'
    BY <1>3, <1>4, <2>2, <2>3, <2>4, <2>5, <2>6 DEF HeaderOK
  <2> QED  BY <2>7, <2>8
<1>9. CASE UpdateHeader
  <2>1. fpc = "header" /\ fpc' = "end" /\ UNCHANGED <<seek, wrap_pos>>
    BY <1>9 DEF UpdateHeader
  <2>2. EntriesOK'
    BY <1>3, <2>1, LayoutKept DEF Pos
  <2>3. regular' => disk'[cur].hdr = wrap_pos
    <3>1. fd # NoFile /\ fd = cur /\ fd \in Names /\ wrap_pos \in Nat /\ DiskType(disk, serial)
      BY DEF Regular, FileType, FlowType, DiskOK
    <3>2. CASE update_hdr /\ disk' = [disk EXCEPT ![fd].hdr = wrap_pos]
      BY <3>1, <3>2, HdrWrite
    <3>3. CASE ~update_hdr /\ UNCHANGED disk
      BY <1>3, <2>1, <3>3 DEF HeaderOK
    <3> QED  BY <1>9, <3>1, <3>2, <3>3, Zenon DEF UpdateHeader
  <2> QED  BY <1>4, <2>1, <2>2, <2>3 DEF HeaderOK, Regular
<1>10. CASE Limit /\ LimitPasses
  <2>1. fpc = "limit" /\ fpc' = "header" /\ seek < fsize
          /\ UNCHANGED <<seek, wrap_pos, disk, update_hdr>>
    BY <1>1, <1>2, <1>10 DEF Limit, LimitPasses, AtLimit
  <2>2. wrap_pos # 0 => Pos <= Held
    BY <1>1, <1>3, <2>1 DEF EntriesOK, SizeInv, Pos
  <2>3. Pos' = Pos /\ disk'[cur'].entries = disk[cur].entries
    BY <1>4, <2>1 DEF Pos
  <2>4. EntriesOK'
    BY <1>3, <1>4, <2>1, <2>2, <2>3 DEF EntriesOK, Whole
  <2>5. HeaderOK'
    BY <1>3, <1>4, <2>1 DEF HeaderOK
  <2> QED  BY <2>4, <2>5
<1>11. CASE Limit /\ LimitWraps
  <2>1. fpc = "limit" /\ fpc' = "header" /\ seek >= fsize /\ wrap_pos' = 1 /\ UNCHANGED disk
    BY <1>11 DEF Limit, LimitWraps, AtLimit
  <2>2. update_hdr'
    BY <1>11, Zenon DEF LimitWraps
  <2>3. Pos = seek /\ Pos > 1 /\ Pos' = 1 /\ (wrap_pos # 0 => wrap_pos = Pos)
    BY <1>1, <1>3, <2>1 DEF EntriesOK, SizeInv, Pos
  <2>4. Pos >= Lim
    BY <1>1, <2>1, <2>3 DEF Lim
  <2>5. Pos = 1 + Held /\ 1 + Held < Lim + RcSize
    <3>1. CASE wrap_pos = 0
      BY <1>2, <1>3, <2>1, <3>1 DEF EntriesOK, SizeInv
    <3>2. CASE wrap_pos # 0
      <4>1. 1 + Held < Lim + RcSize /\ Pos <= 1 + Held
        BY <1>3, <2>1, <3>2 DEF EntriesOK
      <4>2. Whole(Held) /\ Whole(Pos - 1)
        BY <1>3 DEF EntriesOK
      <4>3. Pos \in Nat /\ Pos - 1 \in Nat /\ Lim \in Nat
        BY <1>1, <2>3 DEF Lim
      <4>4. ~(Pos - 1 < Held)
        <5>1. Pos - 1 < Held => Pos - 1 + RcSize <= Held
          BY <1>1, <4>2, <4>3, WholeGap
        <5> QED  BY <1>1, <2>4, <4>1, <4>3, <5>1
      <4> QED  BY <1>1, <4>1, <4>3, <4>4
    <3> QED  BY <3>1, <3>2
  <2>6. \A i \in 1 .. Held : disk'[cur].entries[i] = serial - Held + i
    <3>1. \A i \in 1 .. Held : disk[cur].entries[i] = IF i < Pos THEN serial - Pos + 1 + i
                                                      ELSE serial - Held + 1 + i - Pos
      BY <1>3 DEF EntriesOK
    <3> QED  BY <1>1, <2>1, <2>5, <3>1
  <2>7. Whole(Held)' /\ Whole(Pos - HDR)'
    <3>1. Whole(Held)
      BY <1>3 DEF EntriesOK
    <3>2. Pos' - 1 = 0
      BY <2>3
    <3> QED  BY <1>1, <1>4, <3>1, <3>2 DEF Whole
  <2>8. EntriesOK'
    <3>1. fsize <= 1 + Held /\ Held >= 1
      BY <1>1, <2>1, <2>3, <2>5
    <3>2. \A i \in 1 .. Held' : disk'[cur'].entries[i] = IF i < Pos' THEN serial' - Pos' + 1 + i
                                                         ELSE serial' - Held' + 1 + i - Pos'
      BY <1>1, <1>4, <2>3, <2>6
    <3> QED  BY <1>1, <1>4, <2>1, <2>3, <2>5, <2>7, <3>1, <3>2 DEF EntriesOK
  <2>9. HeaderOK'
    BY <1>1, <1>3, <1>4, <2>1, <2>2, <2>3, <2>5 DEF HeaderOK
  <2> QED  BY <2>8, <2>9
<1> QED  BY <1>5, <1>6, <1>7, <1>8, <1>9, <1>10, <1>11 DEF QuietStep

(* Every step keeps LayoutInv. *)
LEMMA LayoutStep ==
  ASSUME FileType, RequestInv, CloseInv, SizeInv, LayoutInv, Next
  PROVE  LayoutInv'
<1> SUFFICES ASSUME Regular', "CLOSE" \notin ri_flags'
             PROVE  EntriesOK' /\ HeaderOK'
  BY DEF LayoutInv
<1>1. CASE HeaderWritten /\ UNCHANGED <<fsize, serial>> /\ fpc' \in {"wait", "header"}
  <2>1. Held' = 0 /\ wrap_pos' = 0 /\ seek' = HDR /\ base' = serial /\ disk'[cur'].hdr = 0
    BY <1>1, NewFile
  <2>2. Pos' = HDR /\ serial \in Nat /\ RcSize \in Nat
    BY <1>1, <2>1, Numbers DEF Pos
  <2>3. Whole(Held)' /\ Whole(Pos - HDR)'
    BY <2>1, <2>2 DEF Whole, HDR
  <2> QED  BY <1>1, <2>1, <2>2, <2>3 DEF EntriesOK, HeaderOK, HDR
<1>2. CASE Regular /\ Write
  <2>1. "CLOSE" \notin ri_flags
    BY <1>2 DEF Write, flagVars
  <2> QED  BY <1>2, <2>1, LayoutWrite DEF LayoutInv
<1>3. CASE Regular /\ QuietStep /\ Kept
  BY <1>3, LayoutQuiet
<1> QED  BY <1>1, <1>2, <1>3, RegularCases

(* LayoutInv holds throughout. *)
LEMMA LayoutHolds == Spec => []LayoutInv
<1> DEFINE I == FileType /\ RequestInv /\ CloseInv /\ SizeInv
<1>1. Init => LayoutInv
  BY DEF Init, LayoutInv, Regular
<1>2. I /\ LayoutInv /\ [Next]_vars => LayoutInv'
  <2>1. ASSUME LayoutInv, UNCHANGED vars
        PROVE  LayoutInv'
    BY <2>1 DEF vars, flagVars, fileVars, flowVars, histVars, LayoutInv, Regular, EntriesOK,
                HeaderOK, Held, Pos, Lim, Whole
  <2> QED  BY <2>1, LayoutStep
<1> HIDE DEF I
<1>3. Spec => []I
  BY SizeHolds DEF I
<1> QED  BY <1>1, <1>2, <1>3, PTL DEF Spec

(* The times that prbt shows as the start and the end of a regular file    *)
(* are those of its oldest and its newest entry, wherever it has wrapped,  *)
(* for every buffer size and limit.                                        *)
THEOREM SummaryCorrect == Spec => []SummaryAgrees
<1>1. FileType /\ LayoutInv => SummaryAgrees
  <2> SUFFICES ASSUME FileType, LayoutInv, Steady, Held > 0
               PROVE  Summary(disk[cur]) = <<Latest[1], Latest[Held]>>
    BY DEF SummaryAgrees
  <2>1. EntriesOK /\ HeaderOK /\ fpc = "wait"
    BY DEF LayoutInv, Steady, Regular
  <2>2. Held \in Nat /\ serial \in Nat /\ wrap_pos \in Nat /\ seek \in Nat
    BY Numbers DEF Steady
  <2>3. disk[cur].hdr = wrap_pos
    BY <2>1 DEF HeaderOK
  <2>4. Latest[1] = serial - Held + 1 /\ Latest[Held] = serial
    BY <2>2 DEF Latest
  <2>5. Len(disk[cur].entries) = Held /\ disk[cur].entries # << >>
    BY DEF Held
  <2>6. CASE wrap_pos = 0
    <3>1. disk[cur].entries[1] = serial - Held + 1 /\ disk[cur].entries[Held] = serial
      BY <2>1, <2>2, <2>6 DEF EntriesOK, HDR
    <3> QED  BY <2>2, <2>3, <2>4, <2>5, <2>6, <3>1 DEF Summary, FirstOffset
  <2>7. CASE wrap_pos # 0
    <3>1. Pos = wrap_pos /\ wrap_pos <= Held
      BY <2>1, <2>7 DEF Pos, EntriesOK
    <3>2. disk[cur].entries[wrap_pos] = serial - Held + 1
      BY <2>1, <2>2, <2>7, <3>1 DEF EntriesOK
    <3>3. disk[cur].entries[IF wrap_pos > 1 THEN wrap_pos - 1 ELSE Held] = serial
      BY <2>1, <2>2, <2>7, <3>1 DEF EntriesOK
    <3> QED  BY <2>2, <2>3, <2>4, <2>5, <2>7, <3>1, <3>2, <3>3 DEF Summary, FirstOffset
  <2> QED  BY <2>6, <2>7
<1> QED  BY <1>1, FileTypeHolds, LayoutHolds, PTL

(* What prbt prints of a file whose header is up to date, or behind by a   *)
(* number k of entries.                                                    *)
LEMMA PrintsRotated ==
  ASSUME FileType, Regular, EntriesOK, NEW k \in 0 .. Held,
         NEW p \in 1 .. Held + 1, p = Pos \/ (Pos = HDR /\ p = Held + 1),
         \/ k = 0 /\ p = Held + 1 /\ disk[cur].hdr = 0
         \/ p - k >= 1 /\ p - k <= Held /\ disk[cur].hdr = p - k
  PROVE  Printed(disk[cur], RcSize) = NewestFirst(k)
<1> DEFINE f   == disk[cur]
           out == NewestFirst(k)
<1>1. Held \in Nat /\ serial \in Nat /\ RcSize \in Nat \ {0} /\ k \in Nat /\ p \in Nat /\ k <= Held
        /\ p >= 1 /\ p <= Held + 1
  BY Numbers DEF Regular
<1>2. f.entries \in Seq(Int) /\ Len(f.entries) = Held
  BY OpenInNames DEF Regular, EntrySeq, Held
<1>3. f.hdr \in 0 .. Held
  BY <1>1
<1>4. out \in Seq(Int) /\ Len(out) = Held
  BY <1>1 DEF NewestFirst
<1>5. \A i \in 1 .. Held : out[i] = IF i <= k THEN serial - k + i ELSE serial - Held + i - k
  BY DEF NewestFirst
<1>6. \A i \in 1 .. Held : f.entries[i] = IF i < p THEN serial - p + 1 + i
                                          ELSE serial - Held + 1 + i - p
  <2>1. \A i \in 1 .. Held : f.entries[i] = IF i < Pos THEN serial - Pos + 1 + i
                                            ELSE serial - Held + 1 + i - Pos
    BY DEF EntriesOK
  <2> QED  BY <1>1, <2>1 DEF HDR
<1>7. ASSUME NEW i \in 1 .. Held
      PROVE  out[i] = f.entries[IF f.hdr <= FirstOffset THEN i
                                ELSE IF i <= Held - f.hdr + 1 THEN f.hdr + i - 1
                                ELSE i - (Held - f.hdr + 1)]
  <2> DEFINE j == IF f.hdr <= FirstOffset THEN i
                  ELSE IF i <= Held - f.hdr + 1 THEN f.hdr + i - 1 ELSE i - (Held - f.hdr + 1)
  <2>1. j \in 1 .. Held
    BY <1>1, <1>3 DEF FirstOffset
  <2>2. f.entries[j] = IF j < p THEN serial - p + 1 + j ELSE serial - Held + 1 + j - p
    <3> HIDE DEF j
    <3> QED  BY <1>6, <2>1
  <2>3. out[i] = IF i <= k THEN serial - k + i ELSE serial - Held + i - k
    BY <1>5
  <2>4. (IF j < p THEN serial - p + 1 + j ELSE serial - Held + 1 + j - p) =
          IF i <= k THEN serial - k + i ELSE serial - Held + i - k
    <3> HIDE DEF out, f
    <3> QED  BY <1>1, <1>3 DEF FirstOffset, f
  <2> QED  BY <2>2, <2>3, <2>4
<1> HIDE DEF f, out
<1>8. Printed(f, RcSize) = out
  <2>1. \A i \in 1 .. Len(out) :
          out[i] = f.entries[IF f.hdr <= FirstOffset THEN i
                             ELSE IF i <= Len(out) - f.hdr + 1 THEN f.hdr + i - 1
                             ELSE i - (Len(out) - f.hdr + 1)]
    BY <1>4, <1>7
  <2>2. f.hdr \in 0 .. Len(f.entries) /\ Len(out) = Len(f.entries) /\ RcSize \in Nat \ {0}
    BY <1>1, <1>2, <1>3, <1>4
  <2> QED  BY <1>2, <1>4, <2>1, <2>2, PrintsAs
<1> QED  BY <1>8 DEF f, out

(* prbt prints a regular file oldest entry first, without a gap and up to  *)
(* the entry written last, however often the file has wrapped and wherever *)
(* the pages of prbt lie; a file that does not wrap is printed whole.      *)
THEOREM OldestFirst == Spec => []PrintsLatest
<1>1. FileType /\ CloseInv /\ LayoutInv => PrintsLatest
  <2> SUFFICES ASSUME FileType, CloseInv, LayoutInv, Steady
               PROVE  /\ Printed(disk[cur], RcSize) = Latest
                      /\ "WRAP" \notin ri_flags => Held = serial - base
    BY DEF PrintsLatest
  <2>1. EntriesOK /\ HeaderOK /\ Regular /\ fpc = "wait"
    BY DEF LayoutInv, Steady, Regular
  <2>2. Held \in Nat /\ serial \in Nat /\ base \in Nat /\ wrap_pos \in Nat /\ seek \in Nat
    BY Numbers DEF Steady
  <2>3. NewestFirst(0) = Latest
    BY <2>2 DEF NewestFirst, Latest
  <2>4. disk[cur].hdr = wrap_pos
    BY <2>1 DEF HeaderOK
  <2>5. CASE wrap_pos = 0
    <3>1. Pos = Held + 1 /\ serial = base + Held
      BY <2>1, <2>2, <2>5 DEF EntriesOK, HDR
    <3>2. Printed(disk[cur], RcSize) = NewestFirst(0)
      BY <2>1, <2>2, <2>4, <2>5, <3>1, PrintsRotated
    <3> QED  BY <2>2, <2>3, <3>1, <3>2
  <2>6. CASE wrap_pos # 0
    <3>1. Pos = wrap_pos /\ wrap_pos <= Held /\ "WRAP" \in ri_flags
      BY <2>1, <2>6 DEF Pos, EntriesOK, CloseInv
    <3>2. 0 \in 0 .. Held /\ wrap_pos \in 1 .. Held + 1 /\ wrap_pos - 0 >= 1
            /\ wrap_pos - 0 <= Held /\ disk[cur].hdr = wrap_pos - 0
      BY <2>2, <2>4, <2>6, <3>1
    <3>3. Printed(disk[cur], RcSize) = NewestFirst(0)
      BY <2>1, <3>1, <3>2, PrintsRotated
    <3> QED  BY <2>3, <3>1, <3>3
  <2> QED  BY <2>5, <2>6
<1> QED  BY <1>1, SizeHolds, LayoutHolds, PTL

(* A daemon that is killed between any two steps of the flush thread       *)
(* leaves a file of which prbt prints every entry once, with at most the   *)
(* buffer whose header was not written yet before the older entries.       *)
THEOREM KilledAnywhere == Spec => []KillSafe
<1>1. FileType /\ RequestInv /\ CloseInv /\ LayoutInv => KillSafe
  <2> SUFFICES ASSUME FileType, RequestInv, CloseInv, LayoutInv, Regular, "CLOSE" \notin ri_flags
               PROVE  \E n \in {0, size} :
                        n <= Held /\ Printed(disk[cur], RcSize) = NewestFirst(n)
    BY DEF KillSafe, Regular
  <2>1. EntriesOK /\ HeaderOK
    BY DEF LayoutInv
  <2>2. /\ Held \in Nat /\ wrap_pos \in Nat /\ seek \in Nat /\ RcSize \in Nat /\ RcSize > 0
    BY Numbers DEF Regular
  <2>3. ASSUME NEW k \in {0, size}, NEW p, k \in 0 .. Held, p \in 1 .. Held + 1,
               p = Pos \/ (Pos = HDR /\ p = Held + 1),
               \/ k = 0 /\ p = Held + 1 /\ disk[cur].hdr = 0
               \/ p - k >= 1 /\ p - k <= Held /\ disk[cur].hdr = p - k
        PROVE  \E n \in {0, size} :
                 n <= Held /\ Printed(disk[cur], RcSize) = NewestFirst(n)
    <3>1. Printed(disk[cur], RcSize) = NewestFirst(k)
      BY <2>1, <2>3, PrintsRotated
    <3> QED  BY <2>2, <2>3, <3>1
  <2>4. fpc = "write" /\ wrap_pos # 0 => Pos = seek /\ disk[cur].hdr = seek
    BY <2>1 DEF HeaderOK, Pos
  <2>5. CASE wrap_pos = 0
    <3>1. Pos = Held + 1 /\ disk[cur].hdr = 0
      BY <2>1, <2>2, <2>5 DEF EntriesOK, HeaderOK, HDR
    <3>2. 0 \in 0 .. Held /\ Held + 1 \in 1 .. Held + 1
      BY <2>2
    <3> QED  BY <2>3, <3>1, <3>2
  <2>6. CASE wrap_pos # 0 /\ disk[cur].hdr = Pos
    <3>1. Pos >= 1 /\ Pos \in Nat
      BY <2>1, <2>2 DEF EntriesOK, HDR, Pos
    <3>2. Pos <= Held
      BY <2>1, <2>2, <2>6 DEF EntriesOK, HeaderOK, HDR, Pos
    <3>3. 0 \in 0 .. Held /\ Pos \in 1 .. Held + 1 /\ Pos - 0 = Pos
      BY <2>2, <3>1, <3>2
    <3> QED  BY <2>3, <2>6, <3>1, <3>2, <3>3
  <2>7. CASE fpc \in {"limit", "header"} /\ wrap_pos # 0
    <3>1. size = RcSize /\ Pos = wrap_pos /\ Whole(Pos - 1) /\ Whole(Held) /\ Pos <= Held + 1
      BY <2>1, <2>2, <2>7 DEF RequestInv, CloseInv, InWriteData, Pos, EntriesOK, HDR
    <3>2. CASE wrap_pos > 1 /\ disk[cur].hdr = wrap_pos - RcSize
      <4>1. Whole(0) /\ 0 < Pos - 1 /\ Pos - 1 \in Nat
        BY <2>2, <3>1, <3>2 DEF Whole
      <4>2. 0 + RcSize <= Pos - 1
        BY <3>1, <4>1, WholeGap
      <4>3. size \in 0 .. Held /\ Pos \in 1 .. Held + 1 /\ Pos - size >= 1 /\ Pos - size <= Held
              /\ disk[cur].hdr = Pos - size
        BY <2>2, <3>1, <3>2, <4>2
      <4> QED  BY <2>3, <4>3
    <3>3. CASE wrap_pos = 1 /\ disk[cur].hdr = 0 /\ fpc = "header"
      <4>1. Held >= 1
        BY <2>1, <2>2, <3>1, <3>3 DEF EntriesOK
      <4>2. 0 \in 0 .. Held /\ Held + 1 \in 1 .. Held + 1 /\ Pos = HDR
        BY <2>2, <3>1, <3>3 DEF HDR
      <4> QED  BY <2>3, <3>3, <4>2
    <3>4. CASE wrap_pos = 1 /\ disk[cur].hdr = 1 + Held - RcSize /\ fpc = "header"
      <4>1. Whole(0) /\ 0 < Held
        BY <2>1, <2>2, <3>1, <3>4 DEF Whole, EntriesOK
      <4>2. 0 + RcSize <= Held
        BY <2>2, <3>1, <4>1, WholeGap
      <4>3. size \in 0 .. Held /\ Held + 1 \in 1 .. Held + 1 /\ (Held + 1) - size >= 1
              /\ (Held + 1) - size <= Held /\ disk[cur].hdr = (Held + 1) - size /\ Pos = HDR
        BY <2>2, <3>1, <3>4, <4>2 DEF HDR
      <4> QED  BY <2>3, <4>3
    <3> QED  BY <2>1, <2>7, <3>2, <3>3, <3>4 DEF HeaderOK, HDR
  <2>8. CASE fpc \notin {"limit", "header"} /\ wrap_pos # 0
    BY <2>1, <2>4, <2>6, <2>8 DEF HeaderOK, Pos
  <2> QED  BY <2>5, <2>7, <2>8
<1> QED  BY <1>1, SizeHolds, LayoutHolds, PTL

============================================================================
