------------------------------- MODULE RbtCtl -------------------------------
(***************************************************************************)
(* The control interface: rbt processes change ri_flags, ri_tflags, the    *)
(* path and the size limit in shared memory (rbt.c, the rbtrace_ctrl_*     *)
(* handlers) while the flush thread tests the same flags and answers by    *)
(* changing them.  Nothing locks them: |= and &= are a load and a store,   *)
(* and a store puts back every bit that somebody else changed since the    *)
(* load.  RbtFile and RbtTrace take a change of flags to be one step; here *)
(* the two halves are apart, and the contents of the file and of the ring  *)
(* are left out: a buffer may be full whenever the thread looks, and may   *)
(* or may not reach the size limit.                                        *)
(***************************************************************************)
EXTENDS Naturals, Sequences

CONSTANTS
  Rbts,         \* rbt processes
  Flusher,      \* the flush thread
  Commands,     \* the sets of options that rbt is started with
  MaxCommands,  \* bound: commands in all
  MaxFaults     \* bound: headers that cannot be written

(* -w, -z, -s, -o, -c, -S and -C *)
Options == {"wrap_on", "wrap_off", "zap_on", "zap_off", "size", "open", "close", "set", "clear"}

ASSUME CtlAssumption ==
  /\ Flusher \notin Rbts
  /\ Commands \subseteq SUBSET Options

Actors == Rbts \cup {Flusher}

VARIABLES
  ri_flags,     \* the RBTRACE_DO_* bits that are set
  ri_tflags,    \* the traffic bits that are set
  fsize,        \* *fsize_ptr: the default, or what rbt -s gave
  ri_file_path, \* a path is stored
  fd,           \* the flush thread has a file open
  fpc,          \* the statement of the flush thread
  closing,      \* it is in the DO_CLOSE branch of its loop
  todo,         \* requests that an rbt process has still to make
  rmw,          \* changes of a flag word that an actor has still to make
  old,          \* the word it loaded for the first of them, or NotLoaded
  (* Bounds and history. *)
  commands, faults,
  want,         \* what the commands ask for, taken one by one
  calm          \* each began in a settled state, no limit was reached while
                \* one was under way, and no zap has failed

shared == <<ri_flags, ri_tflags, fsize, ri_file_path>>
thread == <<fd, fpc, closing>>
history == <<commands, faults, want, calm>>
vars == <<shared, thread, todo, rmw, old, history>>

NotLoaded == {"not loaded"}

-----------------------------------------------------------------------------
(* word |= set and word &= ~clear *)

SetBits(word, bits)   == [word |-> word, clear |-> {}, set |-> bits]
ClearBits(word, bits) == [word |-> word, clear |-> bits, set |-> {}]

Load(a) ==
  /\ rmw[a] # << >> /\ old[a] = NotLoaded
  /\ old' = [old EXCEPT ![a] = IF Head(rmw[a]).word = "flags" THEN ri_flags
                               ELSE ri_tflags]
  /\ UNCHANGED <<shared, thread, todo, rmw, history>>

Store(a) ==
  /\ rmw[a] # << >> /\ old[a] # NotLoaded
  /\ LET new == (old[a] \ Head(rmw[a]).clear) \cup Head(rmw[a]).set
     IN  IF Head(rmw[a]).word = "flags"
         THEN ri_flags' = new /\ UNCHANGED ri_tflags
         ELSE ri_tflags' = new /\ UNCHANGED ri_flags
  /\ old' = [old EXCEPT ![a] = NotLoaded]
  /\ rmw' = [rmw EXCEPT ![a] = Tail(@)]
  /\ UNCHANGED <<fsize, ri_file_path, thread, todo, history>>

-----------------------------------------------------------------------------
(* rbt *)

(* -z is ignored beside -w, and -c beside -o. *)
Requests(options) ==
  LET wrap == options \cap {"wrap_on", "wrap_off"} # {}
  IN  options \ ((IF wrap THEN {"zap_on", "zap_off"} ELSE {}) \cup
                 (IF "open" \in options THEN {"close"} ELSE {}))

(* The order in which main() makes the requests, whatever the order of the *)
(* options.                                                                *)
Turn(q) ==
  CASE q = "wrap_on" -> 1 [] q = "wrap_off" -> 2 [] q = "zap_on" -> 3 [] q = "zap_off" -> 4
    [] q = "size" -> 5 [] q = "open" -> 6 [] q = "close" -> 7 [] q = "set" -> 8
    [] q = "clear" -> 9

Idle(r) == todo[r] = {} /\ rmw[r] = << >>

(* No request is waiting, and nobody is changing a flag. *)
Settled ==
  /\ \A r \in Rbts : Idle(r)
  /\ rmw[Flusher] = << >> /\ fpc \in {"wait", "look_open", "look_disk"}
  /\ ri_flags \cap {"OPEN", "CLOSE", "FLUSH"} = {}

(* The settings that commands ask for: the modes, with DO_DISK for a file, *)
(* the traffic bits and the limit, and how far the command has come.       *)
Nothing == [flags |-> {}, tflags |-> {}, fsize |-> "default", state |-> "go"]

(* What request q is to do to the settings w: refused, it ends the         *)
(* command.                                                                *)
Honour(w, q) ==
  LET refused == \/ w.state = "refused"
                 \/ q \in {"wrap_on", "wrap_off"} /\ "ZAP" \in w.flags
                 \/ q \in {"zap_on", "zap_off"} /\ "WRAP" \in w.flags
                 \/ q = "open" /\ "DISK" \in w.flags
                 \/ q = "close" /\ "DISK" \notin w.flags
  IN  CASE refused -> [w EXCEPT !.state = "refused"]
        [] ~refused /\ q = "wrap_on"  -> [w EXCEPT !.flags = @ \cup {"WRAP"}]
        [] ~refused /\ q = "wrap_off" -> [w EXCEPT !.flags = @ \ {"WRAP"}]
        [] ~refused /\ q = "zap_on"   -> [w EXCEPT !.flags = @ \cup {"ZAP"}]
        [] ~refused /\ q = "zap_off"  -> [w EXCEPT !.flags = @ \ {"ZAP"}]
        [] ~refused /\ q = "size"     -> [w EXCEPT !.fsize = "given"]
        [] ~refused /\ q = "open"     -> [w EXCEPT !.flags = @ \cup {"DISK"}]
        [] ~refused /\ q = "close"    -> [w EXCEPT !.flags = @ \ {"DISK"}]
        [] ~refused /\ q = "set"      -> [w EXCEPT !.tflags = @ \cup {"t"}]
        [] ~refused /\ q = "clear"    -> [w EXCEPT !.tflags = @ \ {"t"}]

(* What the requests qs are to do, one after the other. *)
IfAsked(w, q, qs) == IF q \in qs THEN Honour(w, q) ELSE w
Honoured(w, qs) ==
  LET do(v, q) == IfAsked(v, q, qs)
      modes == do(do(do(do(w, "wrap_on"), "wrap_off"), "zap_on"), "zap_off")
  IN  do(do(do(do(do(modes, "size"), "open"), "close"), "set"), "clear")

(* History: from here on w is asked for, as long as all is calm. *)
Wanted(w, still_calm) ==
  /\ calm' = still_calm
  /\ want' = IF still_calm THEN w ELSE Nothing

NoFileWanted == [want EXCEPT !.flags = @ \ {"DISK"}]

Alone == \A r \in Rbts : Idle(r)

(* rbt is started and has attached itself to the shared memory. *)
Begin(r, options) ==
  /\ Idle(r) /\ commands < MaxCommands
  /\ commands' = commands + 1
  /\ todo' = [todo EXCEPT ![r] = Requests(options)]
  /\ Wanted([Honoured(want, Requests(options)) EXCEPT !.state = "go"], calm /\ Settled)
  /\ UNCHANGED <<shared, thread, rmw, old, faults>>

(* A request that passes the test of its handler leaves the changes cs to *)
(* make.                                                                   *)
Accept(r, q, cs) ==
  /\ todo' = [todo EXCEPT ![r] = @ \ {q}]
  /\ rmw' = [rmw EXCEPT ![r] = cs]
  /\ UNCHANGED <<ri_flags, ri_tflags, thread, old, history>>

Request(r, q) ==
  /\ rmw[r] = << >>
  /\ q \in todo[r] /\ \A p \in todo[r] : Turn(q) <= Turn(p)

CtrlWrap(r) ==
  \E q \in {"wrap_on", "wrap_off"} :
    /\ Request(r, q)
    /\ "ZAP" \notin ri_flags
    /\ Accept(r, q, <<IF q = "wrap_on" THEN SetBits("flags", {"WRAP"})
                      ELSE ClearBits("flags", {"WRAP"})>>)
    /\ UNCHANGED <<fsize, ri_file_path>>

(* Zap mode is changed without a look at wrap mode. *)
CtrlZapAnyway(r) ==
  \E q \in {"zap_on", "zap_off"} :
    /\ Request(r, q)
    /\ Accept(r, q, <<IF q = "zap_on" THEN SetBits("flags", {"ZAP"})
                      ELSE ClearBits("flags", {"ZAP"})>>)
    /\ UNCHANGED <<fsize, ri_file_path>>

CtrlZap(r) ==
  \E q \in {"zap_on", "zap_off"} :
    /\ Request(r, q)
    /\ "WRAP" \notin ri_flags
    /\ Accept(r, q, <<IF q = "zap_on" THEN SetBits("flags", {"ZAP"})
                      ELSE ClearBits("flags", {"ZAP"})>>)
    /\ UNCHANGED <<fsize, ri_file_path>>

CtrlSize(r) ==
  /\ Request(r, "size")
  /\ fsize' = "given"
  /\ Accept(r, "size", << >>)
  /\ UNCHANGED ri_file_path

(* The path is stored first, then the request. *)
CtrlOpen(r) ==
  /\ Request(r, "open")
  /\ ri_flags \cap {"OPEN", "DISK"} = {}
  /\ ri_file_path' = TRUE
  /\ Accept(r, "open", <<SetBits("flags", {"OPEN"})>>)
  /\ UNCHANGED fsize

(* The request comes before the end of writing to disk. *)
CtrlCloseSwapped(r) ==
  /\ Request(r, "close")
  /\ "DISK" \in ri_flags
  /\ Accept(r, "close", <<SetBits("flags", {"FLUSH", "CLOSE"}), ClearBits("flags", {"DISK"})>>)
  /\ UNCHANGED <<fsize, ri_file_path>>

CtrlClose(r) ==
  /\ Request(r, "close")
  /\ "DISK" \in ri_flags
  /\ Accept(r, "close", <<ClearBits("flags", {"DISK"}), SetBits("flags", {"FLUSH", "CLOSE"})>>)
  /\ UNCHANGED <<fsize, ri_file_path>>

(* The traffic bits go to the wrong word. *)
CtrlTflagsWrongWord(r) ==
  \E q \in {"set", "clear"} :
    /\ Request(r, q)
    /\ Accept(r, q, <<IF q = "set" THEN SetBits("flags", {"t"}) ELSE ClearBits("flags", {"t"})>>)
    /\ UNCHANGED <<fsize, ri_file_path>>

CtrlTflags(r) ==
  \E q \in {"set", "clear"} :
    /\ Request(r, q)
    /\ Accept(r, q, <<IF q = "set" THEN SetBits("tflags", {"t"}) ELSE ClearBits("tflags", {"t"})>>)
    /\ UNCHANGED <<fsize, ri_file_path>>

(* A refused request ends the command: what follows is not done. *)
Refused(r) ==
  /\ \/ \E q \in {"wrap_on", "wrap_off"} : Request(r, q) /\ "ZAP" \in ri_flags
     \/ \E q \in {"zap_on", "zap_off"} : Request(r, q) /\ "WRAP" \in ri_flags
     \/ Request(r, "open") /\ ri_flags \cap {"OPEN", "DISK"} # {}
     \/ Request(r, "close") /\ "DISK" \notin ri_flags
  /\ todo' = [todo EXCEPT ![r] = {}]
  /\ UNCHANGED <<shared, thread, rmw, old, history>>

RbtStep(r) ==
  \/ CtrlWrap(r) \/ CtrlZap(r) \/ CtrlSize(r) \/ CtrlOpen(r) \/ CtrlClose(r)
  \/ CtrlTflags(r) \/ Refused(r) \/ Load(r) \/ Store(r)

-----------------------------------------------------------------------------
(* The flush thread *)

(* It is at label, with no change of its own under way. *)
At(label) == fpc = label /\ rmw[Flusher] = << >>

(* It goes on at label, once the changes cs are made. *)
Goto(label, cs) ==
  /\ fpc' = label
  /\ rmw' = [rmw EXCEPT ![Flusher] = cs]

(* A look at the flags, which changes nothing. *)
Look(from, to) ==
  /\ At(from)
  /\ Goto(to, << >>)
  /\ UNCHANGED <<shared, fd, closing, todo, old, history>>

Wake ==
  /\ At("wait")
  /\ Goto(IF "CLOSE" \in ri_flags THEN "inactive" ELSE "look_open", << >>)
  /\ closing' = ("CLOSE" \in ri_flags)
  /\ UNCHANGED <<shared, fd, todo, old, history>>

LookOpen == Look("look_open", IF "OPEN" \in ri_flags THEN "header" ELSE "look_disk")

LookDisk == Look("look_disk", IF "DISK" \in ri_flags THEN "inactive" ELSE "wait")

(* rbtrace_write_header() with no file open: either it is written, and     *)
(* DO_DISK is set before DO_OPEN is cleared, or open() or the write        *)
(* failed.                                                                 *)
HeaderWritten(next) ==
  /\ ri_file_path \/ "ZAP" \in ri_flags
  /\ fd' = TRUE
  /\ Goto(next, <<SetBits("flags", {"DISK"}), ClearBits("flags", {"OPEN"})>>)
  /\ UNCHANGED faults

HeaderFailed(next) ==
  /\ \/ ~ri_file_path /\ "ZAP" \notin ri_flags /\ UNCHANGED faults
     \/ faults < MaxFaults /\ faults' = faults + 1
  /\ fd' = FALSE
  /\ Goto(next, <<ClearBits("flags", {"OPEN"})>>)

(* A request to open that is answered only when the file could be opened. *)
WriteHeaderOrRetry ==
  /\ At("header")
  /\ \/ ~fd /\ HeaderWritten("wait") /\ UNCHANGED want
     \/ /\ fd \/ ~ri_file_path
        /\ fd' = FALSE /\ Goto("wait", << >>)
        /\ want' = NoFileWanted
        /\ UNCHANGED faults
  /\ UNCHANGED <<shared, closing, todo, old, commands, calm>>

(* A request to open: a file that is open already is closed instead. *)
WriteHeader ==
  /\ At("header")
  /\ \/ ~fd /\ HeaderWritten("wait") /\ UNCHANGED want
     \/ ~fd /\ HeaderFailed("wait") /\ want' = NoFileWanted
     \/ /\ fd
        /\ fd' = FALSE /\ Goto("wait", <<ClearBits("flags", {"OPEN"})>>)
        /\ UNCHANGED <<faults, want>>
  /\ UNCHANGED <<shared, closing, todo, old, commands, calm>>

(* rbtrace_write_data() writes a buffer below the limit, or the limit      *)
(* makes no difference to the flags: a close is coming, or the file wraps. *)
DataWritten(next) ==
  /\ fd
  /\ Goto(next, << >>)
  /\ UNCHANGED <<fd, faults, want, calm>>

(* At the limit, without a mode: the file is closed and DO_DISK cleared. *)
LimitStops(next) ==
  /\ fd /\ ri_flags \cap {"CLOSE", "WRAP", "ZAP"} = {}
  /\ fd' = FALSE
  /\ Goto(next, <<ClearBits("flags", {"DISK"})>>)
  /\ Wanted(NoFileWanted, calm /\ Alone)
  /\ UNCHANGED faults

(* At the limit, in zap mode: the next file is opened.  If that fails,     *)
(* DO_DISK stays set with no file, which the next write does not survive:  *)
(* history is no longer calm then, also if no rbt is at work.              *)
LimitZaps(next) ==
  /\ fd /\ ri_flags \cap {"CLOSE", "WRAP", "ZAP"} = {"ZAP"}
  /\ \/ HeaderWritten(next) /\ Wanted(want, calm /\ Alone)
     \/ HeaderFailed(next) /\ Wanted(want, FALSE)

(* Without a file, ri and cfg are used before they are set. *)
DataCrash ==
  /\ ~fd
  /\ Goto("crashed", << >>)
  /\ UNCHANGED <<fd, faults, want, calm>>

WriteData(next) ==
  \/ DataWritten(next) \/ LimitStops(next) \/ LimitZaps(next) \/ DataCrash

(* if (ri->ri_flush): the inactive buffer may be full or not. *)
WriteInactive ==
  /\ At("inactive")
  /\ \/ WriteData("active")
     \/ Goto("active", << >>) /\ UNCHANGED <<fd, faults, want, calm>>
  /\ UNCHANGED <<shared, closing, todo, old, commands>>

AfterFlush == IF closing THEN "close" ELSE "wait"

(* if (ri->ri_flags & RBTRACE_DO_FLUSH) *)
WriteActive ==
  /\ At("active")
  /\ IF "FLUSH" \in ri_flags
     THEN WriteData("flushed")
     ELSE Goto(AfterFlush, << >>) /\ UNCHANGED <<fd, faults, want, calm>>
  /\ UNCHANGED <<shared, closing, todo, old, commands>>

ClearFlush ==
  /\ At("flushed")
  /\ Goto(AfterFlush, <<ClearBits("flags", {"FLUSH"})>>)
  /\ UNCHANGED <<shared, fd, closing, todo, old, history>>

(* The path is erased with the file. *)
Close ==
  /\ At("close")
  /\ fd' = FALSE
  /\ ri_file_path' = (ri_file_path /\ ~fd)
  /\ closing' = FALSE
  /\ Goto("wait", <<ClearBits("flags", {"CLOSE"})>>)
  /\ UNCHANGED <<ri_flags, ri_tflags, fsize, todo, old, history>>

FlusherStep ==
  \/ Wake \/ LookOpen \/ LookDisk \/ WriteHeader \/ WriteInactive \/ WriteActive
  \/ ClearFlush \/ Close \/ Load(Flusher) \/ Store(Flusher)

-----------------------------------------------------------------------------

Init ==
  /\ ri_flags = {} /\ ri_tflags = {} /\ fsize = "default" /\ ri_file_path = FALSE
  /\ fd = FALSE /\ fpc = "wait" /\ closing = FALSE
  /\ todo = [r \in Rbts |-> {}]
  /\ rmw = [a \in Actors |-> << >>]
  /\ old = [a \in Actors |-> NotLoaded]
  /\ commands = 0 /\ faults = 0 /\ calm = TRUE
  /\ want = Nothing

Next ==
  \/ \E r \in Rbts : (\E options \in Commands : Begin(r, options)) \/ RbtStep(r)
  \/ FlusherStep

Spec == Init /\ [][Next]_vars

(* The flush thread wakes up at least every RBTRACE_THREAD_WAIT_SECS, and  *)
(* an rbt process that is started runs on; that one is started is not      *)
(* assumed.                                                                *)
FairSpec ==
  /\ Spec
  /\ WF_vars(FlusherStep)
  /\ \A r \in Rbts : WF_vars(RbtStep(r))

-----------------------------------------------------------------------------

(* Every variable has its type: a flag word holds its own bits only.       *)
TypeOK ==
  /\ ri_flags \subseteq {"OPEN", "DISK", "WRAP", "ZAP", "CLOSE", "FLUSH"}
  /\ ri_tflags \subseteq {"t"} /\ fsize \in {"default", "given"}
  /\ ri_file_path \in BOOLEAN /\ fd \in BOOLEAN /\ closing \in BOOLEAN /\ calm \in BOOLEAN
  /\ fpc \in {"wait", "look_open", "look_disk", "header", "inactive", "active", "flushed",
              "close", "crashed"}
  /\ \A r \in Rbts : todo[r] \subseteq Options
  /\ \A a \in Actors : rmw[a] = << >> => old[a] = NotLoaded

(* Commands given one at a time, each once the one before it has been      *)
(* answered, do together what they ask for: the modes, the traffic flags   *)
(* and the limit are those set last, a mode that excludes another is       *)
(* refused and ends its command, DO_DISK is set exactly while the flush    *)
(* thread has a file open, and no change of the flush thread undoes one of *)
(* rbt, unless a file reaches its limit while rbt is at work, or the next  *)
(* file of a zap could not be opened.                                      *)
CalmHonoured ==
  calm /\ Settled =>
    /\ ri_flags = want.flags
    /\ fd <=> "DISK" \in want.flags
    /\ ri_tflags = want.tflags
    /\ fsize = want.fsize

(* The flush thread does not crash over such commands. *)
CalmSurvives == calm => fpc # "crashed"

(* Requests to open and to close are answered in the end, also when        *)
(* commands and the flush thread overwrite each other's changes: at last   *)
(* none is left, or the flush thread has crashed for want of a file.       *)
RequestsEnd ==
  <>[](ri_flags \cap {"OPEN", "CLOSE"} = {} \/ fpc = "crashed")

=============================================================================
