---------------------------- MODULE RbtCtlProofs ----------------------------
(***************************************************************************)
(* Proofs about RbtCtl for any number of rbt processes and commands.       *)
(***************************************************************************)
EXTENDS RbtCtl, TLAPS

FlagBits == {"OPEN", "DISK", "WRAP", "ZAP", "CLOSE", "FLUSH"}
FlagChanges    == [word : {"flags"}, clear : SUBSET FlagBits, set : SUBSET FlagBits]
TrafficChanges == [word : {"tflags"}, clear : SUBSET {"t"}, set : SUBSET {"t"}]
Changes == FlagChanges \cup TrafficChanges

(* The bits of the word that change c is about. *)
BitsOf(c) == IF c.word = "flags" THEN FlagBits ELSE {"t"}
WordOf(c) == IF c.word = "flags" THEN ri_flags ELSE ri_tflags

Labels == {"wait", "look_open", "look_disk", "header", "inactive", "active", "flushed",
           "close", "crashed"}

(* TypeOK with the types of the changes under way: what is stored in a     *)
(* word was loaded from it, and is changed in its own bits.                *)
CtlType ==
  /\ ri_flags \subseteq FlagBits
  /\ ri_tflags \subseteq {"t"} /\ fsize \in {"default", "given"}
  /\ ri_file_path \in BOOLEAN /\ fd \in BOOLEAN /\ closing \in BOOLEAN /\ calm \in BOOLEAN
  /\ fpc \in Labels
  /\ todo \in [Rbts -> SUBSET Options]
  /\ rmw \in [Actors -> Seq(Changes)]
  /\ DOMAIN old = Actors
  /\ \A a \in Actors : old[a] # NotLoaded => rmw[a] # << >> /\ old[a] \subseteq BitsOf(Head(rmw[a]))

-----------------------------------------------------------------------------
(* Calm states *)

(* The bits of the requests and the file are bs. *)
Bits(bs) == \A b \in {"OPEN", "DISK", "CLOSE", "FLUSH"} : b \in ri_flags <=> b \in bs

Set(bits)   == SetBits("flags", bits)
Clear(bits) == ClearBits("flags", bits)
InLoop == {"wait", "look_open", "look_disk"}

(* The flush thread has no change to make and no request to answer.  It    *)
(* may be writing a buffer of the file.                                    *)
Quiet ==
  /\ rmw[Flusher] = << >> /\ ~closing
  /\ Bits(IF fd THEN {"DISK"} ELSE {})
  /\ fpc \in InLoop \cup {"active", "inactive"}
  /\ ~fd => fpc # "inactive" /\ (fpc = "active" => Alone)

(* rbt -c has cleared DO_DISK and not yet asked for the close. *)
Half ==
  /\ rmw[Flusher] = << >> /\ ~closing /\ fd
  /\ Bits({})
  /\ fpc \in InLoop \cup {"active", "inactive"}

(* A file is to be opened; it is open, or could not be opened, and the     *)
(* flags are to follow.                                                    *)
Opening ==
  /\ ~closing
  /\ \/ /\ ~fd /\ Bits({"OPEN"})
        /\ rmw[Flusher] = << >> /\ fpc \in InLoop \cup {"header"}
     \/ /\ fd /\ Bits({"OPEN"})
        /\ rmw[Flusher] = <<Set({"DISK"}), Clear({"OPEN"})>> /\ fpc = "wait"
     \/ /\ fd /\ Bits({"OPEN", "DISK"})
        /\ rmw[Flusher] = <<Clear({"OPEN"})>> /\ fpc = "wait"
     \/ /\ ~fd /\ Bits({"OPEN"})
        /\ rmw[Flusher] = <<Clear({"OPEN"})>> /\ fpc = "wait"

(* The file is to be flushed and closed; it is closed, and the flags are   *)
(* to follow.                                                              *)
Closing ==
  \/ /\ fd /\ Bits({"CLOSE", "FLUSH"})
     /\ rmw[Flusher] = << >>
     /\ fpc \in {"inactive", "active", "flushed"} \cup (IF closing THEN {} ELSE InLoop)
  \/ /\ fd /\ Bits({"CLOSE", "FLUSH"})
     /\ rmw[Flusher] = <<Clear({"FLUSH"})>> /\ fpc = IF closing THEN "close" ELSE "wait"
  \/ /\ fd /\ Bits({"CLOSE"})
     /\ rmw[Flusher] = << >>
     /\ fpc \in IF closing THEN {"inactive", "active", "close"} ELSE {"wait"}
  \/ /\ ~fd /\ ~closing /\ Bits({"CLOSE"})
     /\ rmw[Flusher] = <<Clear({"CLOSE"})>> /\ fpc = "wait"

(* The limit was reached while no rbt was at work: the file is closed, or  *)
(* the next one open, and the flags are to follow.                         *)
AtLimit ==
  /\ ~closing /\ Alone /\ fpc = "active" /\ Bits({"DISK"})
  /\ \/ ~fd /\ rmw[Flusher] = <<Clear({"DISK"})>>
     \/ fd /\ rmw[Flusher] = <<Set({"DISK"}), Clear({"OPEN"})>>
     \/ fd /\ rmw[Flusher] = <<Clear({"OPEN"})>>

PhaseInv == Quiet \/ Half \/ Opening \/ Closing \/ AtLimit

(* The changes that a request leaves. *)
ModeChanges ==
  {<<Set({"WRAP"})>>, <<Clear({"WRAP"})>>, <<Set({"ZAP"})>>, <<Clear({"ZAP"})>>}
OpenChange  == <<Set({"OPEN"})>>
CloseChange == <<Clear({"DISK"}), Set({"FLUSH", "CLOSE"})>>
CloseRest   == <<Set({"FLUSH", "CLOSE"})>>
TChanges == {<<SetBits("tflags", {"t"})>>, <<ClearBits("tflags", {"t"})>>}

FlagRequests == {"wrap_on", "wrap_off", "zap_on", "zap_off", "open", "close"}

(* An rbt process changes flags only while the flush thread does not: it   *)
(* asks for the opening or the close of a file last.                       *)
RbtOK(r) ==
  /\ ~({"open", "close"} \subseteq todo[r])
  /\ rmw[r] \in {<< >>, OpenChange, CloseChange, CloseRest} \cup ModeChanges \cup TChanges
  /\ rmw[r] \in ModeChanges => Quiet
  /\ rmw[r] = OpenChange => Quiet /\ ~fd
  /\ rmw[r] = CloseChange => Quiet /\ fd
  /\ rmw[r] = CloseRest => Half
  /\ todo[r] \cap FlagRequests # {} => Quiet /\ rmw[r] \in {<< >>} \cup ModeChanges

(* One command at a time, and what was loaded is still true. *)
OneInv ==
  /\ \A r, s \in Rbts : Idle(r) \/ Idle(s) \/ r = s
  /\ \A r \in Rbts : RbtOK(r)
  /\ Half => \E r \in Rbts : rmw[r] = CloseRest
  /\ \A a \in Actors : old[a] # NotLoaded => old[a] = WordOf(Head(rmw[a]))

(* A word once the change c is made, and once the changes cs are. *)
Changed(word, c, bits) == IF c.word = word THEN (bits \ c.clear) \cup c.set ELSE bits
Made(word, cs, bits) ==
  IF cs = << >> THEN bits
  ELSE IF Len(cs) = 1 THEN Changed(word, cs[1], bits)
       ELSE Changed(word, cs[2], Changed(word, cs[1], bits))

(* The settings once the changes under way are made: own are those of the  *)
(* flush thread, cs those of rbt.  A file that is about to be opened       *)
(* counts as open.                                                         *)
Asked(flags) == (flags \cap {"WRAP", "ZAP"}) \cup
                (IF flags \cap {"OPEN", "DISK"} # {} THEN {"DISK"} ELSE {})
Rec(flags, tflags, size, state) ==
  [flags |-> flags, tflags |-> tflags, fsize |-> size, state |-> state]
SettingsOf(flags, tflags, size, own, cs) ==
  Rec(Asked(Made("flags", own, Made("flags", cs, flags))), Made("tflags", cs, tflags), size, "go")
Settings(cs) == SettingsOf(ri_flags, ri_tflags, fsize, rmw[Flusher], cs)

(* The commands so far have asked for the settings, once the requests that *)
(* are still to be made are honoured.                                      *)
WantInv ==
  /\ Alone => want = Settings(<< >>)
  /\ \A r \in Rbts : ~Idle(r) =>
       want = [Honoured(Settings(rmw[r]), todo[r]) EXCEPT !.state = "go"]

CalmPhase == calm => PhaseInv /\ OneInv
CalmWant  == calm => WantInv

-----------------------------------------------------------------------------
(* Types *)

LEMMA ChangeTypes ==
  /\ \A b \in SUBSET FlagBits : SetBits("flags", b) \in Changes /\ ClearBits("flags", b) \in Changes
  /\ \A b \in SUBSET {"t"} : SetBits("tflags", b) \in Changes /\ ClearBits("tflags", b) \in Changes
BY DEF SetBits, ClearBits, Changes, FlagChanges, TrafficChanges

(* Changes cs are put before an actor that has none. *)
LEMMA NewChanges ==
  ASSUME CtlType, NEW a \in Actors, NEW cs \in Seq(Changes),
         rmw[a] = << >>, rmw' = [rmw EXCEPT ![a] = cs], old' = old
  PROVE  /\ rmw' \in [Actors -> Seq(Changes)]
         /\ DOMAIN old' = Actors
         /\ \A b \in Actors : old'[b] # NotLoaded =>
              rmw'[b] # << >> /\ old'[b] \subseteq BitsOf(Head(rmw'[b]))
<1>1. rmw' \in [Actors -> Seq(Changes)]
  BY DEF CtlType
<1>2. old[a] = NotLoaded
  BY DEF CtlType
<1>3. \A b \in Actors \ {a} : rmw'[b] = rmw[b]
  BY DEF CtlType
<1>4. DOMAIN old' = Actors
  BY DEF CtlType
<1> QED
  BY <1>1, <1>2, <1>3, <1>4 DEF CtlType

(* What one change makes of the word that it is about. *)
LEMMA StoreType ==
  ASSUME NEW c \in Changes, NEW w, w \subseteq BitsOf(c)
  PROVE  (w \ c.clear) \cup c.set \subseteq BitsOf(c)
BY DEF BitsOf, Changes, FlagChanges, TrafficChanges

LEMMA LoadKeepsType ==
  ASSUME CtlType, NEW a \in Actors, Load(a)
  PROVE  CtlType'
<1>1. UNCHANGED <<ri_flags, ri_tflags, fsize, ri_file_path, fd, closing, calm, fpc, todo, rmw>>
  BY DEF Load, shared, thread, history
<1>2. DOMAIN old' = Actors /\ \A b \in Actors \ {a} : old'[b] = old[b]
  BY DEF Load, CtlType
<1>3. rmw[a] # << >> /\ old'[a] \subseteq BitsOf(Head(rmw[a]))
  <2>1. old'[a] = IF Head(rmw[a]).word = "flags" THEN ri_flags ELSE ri_tflags
    BY DEF Load, CtlType
  <2> QED
    BY <2>1 DEF Load, CtlType, BitsOf
<1> QED
  BY <1>1, <1>2, <1>3 DEF CtlType, BitsOf

LEMMA StoreKeepsType ==
  ASSUME CtlType, NEW a \in Actors, Store(a)
  PROVE  CtlType'
<1>1. UNCHANGED <<fsize, ri_file_path, fd, closing, calm, fpc, todo>>
  BY DEF Store, thread, history
<1>2. rmw[a] \in Seq(Changes) /\ rmw[a] # << >>
  BY DEF CtlType, Store
<1>3. Head(rmw[a]) \in Changes /\ Tail(rmw[a]) \in Seq(Changes)
  BY <1>2
<1>4. old[a] \subseteq BitsOf(Head(rmw[a]))
  BY DEF CtlType, Store
<1> DEFINE new == (old[a] \ Head(rmw[a]).clear) \cup Head(rmw[a]).set
<1>5. new \subseteq BitsOf(Head(rmw[a]))
  BY <1>3, <1>4, StoreType
<1>6. \/ Head(rmw[a]).word = "flags" /\ ri_flags' = new /\ ri_tflags' = ri_tflags
      \/ Head(rmw[a]).word # "flags" /\ ri_tflags' = new /\ ri_flags' = ri_flags
  BY DEF Store
<1> HIDE DEF new
<1>7. ri_flags' \subseteq FlagBits /\ ri_tflags' \subseteq {"t"}
  BY <1>5, <1>6 DEF BitsOf, CtlType
<1>8. rmw' = [rmw EXCEPT ![a] = Tail(rmw[a])] /\ old' = [old EXCEPT ![a] = NotLoaded]
  BY DEF Store
<1>9. rmw' \in [Actors -> Seq(Changes)]
  BY <1>3, <1>8 DEF CtlType
<1>10. /\ DOMAIN old' = Actors /\ old'[a] = NotLoaded
       /\ \A b \in Actors \ {a} : old'[b] = old[b] /\ rmw'[b] = rmw[b]
  BY <1>8 DEF CtlType
<1> QED
  BY <1>1, <1>7, <1>9, <1>10 DEF CtlType

LEMMA BeginKeepsType ==
  ASSUME CtlType, NEW r \in Rbts, NEW options \in Commands, Begin(r, options)
  PROVE  CtlType'
<1>1. /\ UNCHANGED <<ri_flags, ri_tflags, fsize, ri_file_path, fd, closing, fpc, rmw, old>>
      /\ todo' = [todo EXCEPT ![r] = Requests(options)]
  BY DEF Begin, shared, thread
<1>2. Requests(options) \subseteq Options
  BY CtlAssumption DEF Requests
<1>3. todo' \in [Rbts -> SUBSET Options]
  BY <1>1, <1>2 DEF CtlType
<1>4. calm' \in BOOLEAN
  <2>1. calm' = (calm /\ Settled)
    BY DEF Begin, Wanted
  <2> QED
    BY <2>1
<1> QED
  BY <1>1, <1>3, <1>4 DEF CtlType, BitsOf

LEMMA AcceptKeepsType ==
  ASSUME CtlType, NEW r \in Rbts, NEW q, NEW cs \in Seq(Changes), rmw[r] = << >>,
         Accept(r, q, cs), fsize' \in {"default", "given"}, ri_file_path' \in BOOLEAN
  PROVE  CtlType'
<1>1. /\ UNCHANGED <<ri_flags, ri_tflags, fd, closing, calm, fpc, old>>
      /\ todo' = [todo EXCEPT ![r] = todo[r] \ {q}]
      /\ rmw' = [rmw EXCEPT ![r] = cs]
  BY DEF Accept, thread, history
<1>2. todo' \in [Rbts -> SUBSET Options]
  BY <1>1 DEF CtlType
<1>3. r \in Actors
  BY DEF Actors
<1>4. /\ rmw' \in [Actors -> Seq(Changes)]
      /\ DOMAIN old' = Actors
      /\ \A b \in Actors : old'[b] # NotLoaded =>
           rmw'[b] # << >> /\ old'[b] \subseteq BitsOf(Head(rmw'[b]))
  BY <1>1, <1>3, NewChanges
<1> QED
  BY <1>1, <1>2, <1>4 DEF CtlType

LEMMA RbtKeepsType ==
  ASSUME CtlType, NEW r \in Rbts, RbtStep(r)
  PROVE  CtlType'
<1>1. r \in Actors
  BY DEF Actors
<1>2. \A c \in Changes : <<c>> \in Seq(Changes)
  OBVIOUS
<1>3. \A c, d \in Changes : <<c, d>> \in Seq(Changes)
  OBVIOUS
<1>4. << >> \in Seq(Changes)
  OBVIOUS
<1>5. CASE CtrlWrap(r)
  <2>1. PICK q \in {"wrap_on", "wrap_off"} :
          /\ rmw[r] = << >> /\ UNCHANGED <<fsize, ri_file_path>>
          /\ Accept(r, q, <<IF q = "wrap_on" THEN SetBits("flags", {"WRAP"})
                            ELSE ClearBits("flags", {"WRAP"})>>)
    BY <1>5 DEF CtrlWrap, Request
  <2>2. <<IF q = "wrap_on" THEN SetBits("flags", {"WRAP"})
          ELSE ClearBits("flags", {"WRAP"})>> \in Seq(Changes)
    BY ChangeTypes, <1>2 DEF FlagBits
  <2>3. fsize' \in {"default", "given"} /\ ri_file_path' \in BOOLEAN
    BY <2>1 DEF CtlType
  <2> QED
    BY <2>1, <2>2, <2>3, AcceptKeepsType
<1>6. CASE CtrlZap(r)
  <2>1. PICK q \in {"zap_on", "zap_off"} :
          /\ rmw[r] = << >> /\ UNCHANGED <<fsize, ri_file_path>>
          /\ Accept(r, q, <<IF q = "zap_on" THEN SetBits("flags", {"ZAP"})
                            ELSE ClearBits("flags", {"ZAP"})>>)
    BY <1>6 DEF CtrlZap, Request
  <2>2. <<IF q = "zap_on" THEN SetBits("flags", {"ZAP"})
          ELSE ClearBits("flags", {"ZAP"})>> \in Seq(Changes)
    BY ChangeTypes, <1>2 DEF FlagBits
  <2>3. fsize' \in {"default", "given"} /\ ri_file_path' \in BOOLEAN
    BY <2>1 DEF CtlType
  <2> QED
    BY <2>1, <2>2, <2>3, AcceptKeepsType
<1>7. CASE CtrlSize(r)
  <2>1. /\ rmw[r] = << >> /\ fsize' = "given" /\ ri_file_path' = ri_file_path
        /\ Accept(r, "size", << >>)
    BY <1>7 DEF CtrlSize, Request
  <2>3. fsize' \in {"default", "given"} /\ ri_file_path' \in BOOLEAN
    BY <2>1 DEF CtlType
  <2> QED
    BY <1>4, <2>1, <2>3, AcceptKeepsType
<1>8. CASE CtrlOpen(r)
  <2>1. /\ rmw[r] = << >> /\ fsize' = fsize /\ ri_file_path' = TRUE
        /\ Accept(r, "open", <<SetBits("flags", {"OPEN"})>>)
    BY <1>8 DEF CtrlOpen, Request
  <2>2. <<SetBits("flags", {"OPEN"})>> \in Seq(Changes)
    BY ChangeTypes, <1>2 DEF FlagBits
  <2>3. fsize' \in {"default", "given"} /\ ri_file_path' \in BOOLEAN
    BY <2>1 DEF CtlType
  <2> QED
    BY <2>1, <2>2, <2>3, AcceptKeepsType
<1>9. CASE CtrlClose(r)
  <2>1. /\ rmw[r] = << >> /\ UNCHANGED <<fsize, ri_file_path>>
        /\ Accept(r, "close", <<ClearBits("flags", {"DISK"}), SetBits("flags", {"FLUSH", "CLOSE"})>>)
    BY <1>9 DEF CtrlClose, Request
  <2>2. <<ClearBits("flags", {"DISK"}), SetBits("flags", {"FLUSH", "CLOSE"})>> \in Seq(Changes)
    BY ChangeTypes, <1>3 DEF FlagBits
  <2>3. fsize' \in {"default", "given"} /\ ri_file_path' \in BOOLEAN
    BY <2>1 DEF CtlType
  <2> QED
    BY <2>1, <2>2, <2>3, AcceptKeepsType
<1>10. CASE CtrlTflags(r)
  <2>1. PICK q \in {"set", "clear"} :
          /\ rmw[r] = << >> /\ UNCHANGED <<fsize, ri_file_path>>
          /\ Accept(r, q, <<IF q = "set" THEN SetBits("tflags", {"t"})
                            ELSE ClearBits("tflags", {"t"})>>)
    BY <1>10 DEF CtrlTflags, Request
  <2>2. <<IF q = "set" THEN SetBits("tflags", {"t"})
          ELSE ClearBits("tflags", {"t"})>> \in Seq(Changes)
    BY ChangeTypes, <1>2
  <2>3. fsize' \in {"default", "given"} /\ ri_file_path' \in BOOLEAN
    BY <2>1 DEF CtlType
  <2> QED
    BY <2>1, <2>2, <2>3, AcceptKeepsType
<1>11. CASE Refused(r)
  <2>1. /\ UNCHANGED <<ri_flags, ri_tflags, fsize, ri_file_path, fd, closing, calm, fpc, rmw, old>>
        /\ todo' = [todo EXCEPT ![r] = {}]
    BY <1>11 DEF Refused, shared, thread, history
  <2>2. todo' \in [Rbts -> SUBSET Options]
    BY <2>1 DEF CtlType
  <2> QED
    BY <2>1, <2>2 DEF CtlType, BitsOf
<1> QED
  BY <1>1, <1>5, <1>6, <1>7, <1>8, <1>9, <1>10, <1>11, LoadKeepsType, StoreKeepsType DEF RbtStep

(* A step of the flush thread leaves it changes of its own to make. *)
LEMMA GotoKeepsType ==
  ASSUME CtlType, NEW label \in Labels, NEW cs \in Seq(Changes),
         rmw[Flusher] = << >>, Goto(label, cs),
         UNCHANGED <<ri_flags, ri_tflags, fsize, todo, old>>,
         fd' \in BOOLEAN, closing' \in BOOLEAN, calm' \in BOOLEAN, ri_file_path' \in BOOLEAN
  PROVE  CtlType'
<1>1. Flusher \in Actors /\ rmw' = [rmw EXCEPT ![Flusher] = cs] /\ fpc' = label
  BY DEF Actors, Goto
<1>2. /\ rmw' \in [Actors -> Seq(Changes)]
      /\ DOMAIN old' = Actors
      /\ \A b \in Actors : old'[b] # NotLoaded =>
           rmw'[b] # << >> /\ old'[b] \subseteq BitsOf(Head(rmw'[b]))
  BY <1>1, NewChanges
<1> QED
  BY <1>1, <1>2 DEF CtlType

(* The changes that the flush thread makes. *)
ThreadChanges ==
  {<< >>, <<SetBits("flags", {"DISK"}), ClearBits("flags", {"OPEN"})>>,
   <<ClearBits("flags", {"OPEN"})>>, <<ClearBits("flags", {"DISK"})>>,
   <<ClearBits("flags", {"FLUSH"})>>, <<ClearBits("flags", {"CLOSE"})>>}

LEMMA ThreadChangesType == ThreadChanges \subseteq Seq(Changes)
<1>1. \A c \in Changes : <<c>> \in Seq(Changes)
  OBVIOUS
<1>2. \A c, d \in Changes : <<c, d>> \in Seq(Changes)
  OBVIOUS
<1>3. << >> \in Seq(Changes)
  OBVIOUS
<1>4. \A b \in {{"DISK"}, {"OPEN"}, {"FLUSH"}, {"CLOSE"}} :
        SetBits("flags", b) \in Changes /\ ClearBits("flags", b) \in Changes
  BY ChangeTypes DEF FlagBits
<1> QED
  BY <1>1, <1>2, <1>3, <1>4 DEF ThreadChanges

LEMMA WriteDataForm ==
  ASSUME CtlType, NEW next, WriteData(next)
  PROVE  /\ \E cs \in ThreadChanges, l \in {next, "crashed"} : Goto(l, cs)
         /\ fd' \in BOOLEAN /\ calm' \in BOOLEAN
<1>1. CASE DataWritten(next)
  BY <1>1 DEF DataWritten, ThreadChanges, CtlType
<1>2. CASE LimitStops(next)
  <2>1. Goto(next, <<ClearBits("flags", {"DISK"})>>) /\ fd' \in BOOLEAN
    BY <1>2 DEF LimitStops
  <2>2. calm' = (calm /\ Alone)
    BY <1>2 DEF LimitStops, Wanted
  <2>3. calm' \in BOOLEAN
    BY <2>2
  <2> QED
    BY <2>1, <2>3 DEF ThreadChanges
<1>3. CASE LimitZaps(next)
  <2>1. HeaderWritten(next) \/ HeaderFailed(next)
    BY <1>3 DEF LimitZaps
  <2>2. /\ \E cs \in ThreadChanges, l \in {next, "crashed"} : Goto(l, cs)
        /\ fd' \in BOOLEAN
    BY <2>1 DEF HeaderWritten, HeaderFailed, ThreadChanges
  <2>3. calm' = (calm /\ Alone) \/ calm' = FALSE
    BY <1>3 DEF LimitZaps, Wanted
  <2>4. calm' \in BOOLEAN
    BY <2>3
  <2> QED
    BY <2>2, <2>4
<1>4. CASE DataCrash
  BY <1>4 DEF DataCrash, ThreadChanges, CtlType
<1> QED
  BY <1>1, <1>2, <1>3, <1>4 DEF WriteData

LEMMA FlusherKeepsType ==
  ASSUME CtlType, FlusherStep
  PROVE  CtlType'
<1> Flusher \in Actors
  BY DEF Actors
<1>1. CASE Load(Flusher) \/ Store(Flusher)
  BY <1>1, LoadKeepsType, StoreKeepsType
<1>2. ASSUME NEW l \in Labels, NEW cs \in ThreadChanges, Goto(l, cs), rmw[Flusher] = << >>,
             UNCHANGED <<ri_flags, ri_tflags, fsize, todo, old>>,
             fd' \in BOOLEAN, closing' \in BOOLEAN, calm' \in BOOLEAN, ri_file_path' \in BOOLEAN
      PROVE  CtlType'
  BY <1>2, GotoKeepsType, ThreadChangesType
<1>3. << >> \in ThreadChanges
  BY DEF ThreadChanges
<1>4. CASE Wake
  <2>1. /\ rmw[Flusher] = << >>
        /\ UNCHANGED <<ri_flags, ri_tflags, fsize, ri_file_path, fd, todo, old, calm>>
        /\ Goto(IF "CLOSE" \in ri_flags THEN "inactive" ELSE "look_open", << >>)
        /\ closing' = ("CLOSE" \in ri_flags)
    BY <1>4 DEF Wake, At, shared, history
  <2>2. closing' \in BOOLEAN
    BY <2>1
  <2> QED
    BY <1>2, <1>3, <2>1, <2>2 DEF CtlType, Labels
<1>5. CASE LookOpen
  <2>1. /\ rmw[Flusher] = << >>
        /\ UNCHANGED <<ri_flags, ri_tflags, fsize, ri_file_path, fd, closing, todo, old, calm>>
        /\ Goto(IF "OPEN" \in ri_flags THEN "header" ELSE "look_disk", << >>)
    BY <1>5 DEF LookOpen, Look, At, shared, history
  <2> QED
    BY <1>2, <1>3, <2>1 DEF CtlType, Labels
<1>6. CASE LookDisk
  <2>1. /\ rmw[Flusher] = << >>
        /\ UNCHANGED <<ri_flags, ri_tflags, fsize, ri_file_path, fd, closing, todo, old, calm>>
        /\ Goto(IF "DISK" \in ri_flags THEN "inactive" ELSE "wait", << >>)
    BY <1>6 DEF LookDisk, Look, At, shared, history
  <2> QED
    BY <1>2, <1>3, <2>1 DEF CtlType, Labels
<1>7. CASE WriteHeader
  <2>1. /\ rmw[Flusher] = << >>
        /\ UNCHANGED <<ri_flags, ri_tflags, fsize, ri_file_path, closing, todo, old, calm>>
    BY <1>7 DEF WriteHeader, At, shared
  <2>2. fd' \in BOOLEAN /\ \E cs \in ThreadChanges : Goto("wait", cs)
    BY <1>7 DEF WriteHeader, HeaderWritten, HeaderFailed, ThreadChanges
  <2> QED
    BY <1>2, <2>1, <2>2 DEF CtlType, Labels
<1>8. CASE WriteInactive
  <2>1. /\ rmw[Flusher] = << >>
        /\ UNCHANGED <<ri_flags, ri_tflags, fsize, ri_file_path, closing, todo, old>>
        /\ WriteData("active") \/ (Goto("active", << >>) /\ UNCHANGED <<fd, calm>>)
    BY <1>8 DEF WriteInactive, At, shared
  <2>2. CASE WriteData("active")
    <3>1. /\ fd' \in BOOLEAN /\ calm' \in BOOLEAN
          /\ \E cs \in ThreadChanges, l \in {"active", "crashed"} : Goto(l, cs)
      BY <2>2, WriteDataForm
    <3> QED
      BY <1>2, <2>1, <3>1 DEF CtlType, Labels
  <2>3. CASE Goto("active", << >>) /\ UNCHANGED <<fd, calm>>
    BY <1>2, <1>3, <2>1, <2>3 DEF CtlType, Labels
  <2> QED
    BY <2>1, <2>2, <2>3
<1>9. CASE WriteActive
  <2>1. /\ rmw[Flusher] = << >>
        /\ UNCHANGED <<ri_flags, ri_tflags, fsize, ri_file_path, closing, todo, old>>
        /\ WriteData("flushed") \/ (Goto(AfterFlush, << >>) /\ UNCHANGED <<fd, calm>>)
    BY <1>9 DEF WriteActive, At, shared
  <2>2. CASE WriteData("flushed")
    <3>1. /\ fd' \in BOOLEAN /\ calm' \in BOOLEAN
          /\ \E cs \in ThreadChanges, l \in {"flushed", "crashed"} : Goto(l, cs)
      BY <2>2, WriteDataForm
    <3> QED
      BY <1>2, <2>1, <3>1 DEF CtlType, Labels
  <2>3. CASE Goto(AfterFlush, << >>) /\ UNCHANGED <<fd, calm>>
    BY <1>2, <1>3, <2>1, <2>3 DEF CtlType, Labels, AfterFlush
  <2> QED
    BY <2>1, <2>2, <2>3
<1>10. CASE ClearFlush
  <2>1. /\ rmw[Flusher] = << >>
        /\ UNCHANGED <<ri_flags, ri_tflags, fsize, ri_file_path, fd, closing, todo, old, calm>>
        /\ Goto(AfterFlush, <<ClearBits("flags", {"FLUSH"})>>)
    BY <1>10 DEF ClearFlush, At, shared, history
  <2>2. <<ClearBits("flags", {"FLUSH"})>> \in ThreadChanges
    BY DEF ThreadChanges
  <2> QED
    BY <1>2, <2>1, <2>2 DEF CtlType, Labels, AfterFlush
<1>11. CASE Close
  <2>1. /\ rmw[Flusher] = << >>
        /\ UNCHANGED <<ri_flags, ri_tflags, fsize, todo, old, calm>>
        /\ fd' \in BOOLEAN /\ closing' \in BOOLEAN
        /\ Goto("wait", <<ClearBits("flags", {"CLOSE"})>>)
    BY <1>11 DEF Close, At, history
  <2>2. <<ClearBits("flags", {"CLOSE"})>> \in ThreadChanges
    BY DEF ThreadChanges
  <2>3. ri_file_path' = (ri_file_path /\ ~fd)
    BY <1>11 DEF Close
  <2>4. ri_file_path' \in BOOLEAN
    BY <2>3
  <2> QED
    BY <1>2, <2>1, <2>2, <2>4 DEF CtlType, Labels
<1> QED
  BY <1>1, <1>4, <1>5, <1>6, <1>7, <1>8, <1>9, <1>10, <1>11 DEF FlusherStep

LEMMA InitType == Init => CtlType
<1> SUFFICES ASSUME Init PROVE CtlType
  OBVIOUS
<1>1. rmw = [a \in Actors |-> << >>] /\ \A a \in Actors : old[a] = NotLoaded
  BY DEF Init
<1>2. rmw \in [Actors -> Seq(Changes)] /\ DOMAIN old = Actors
  BY <1>1 DEF Init
<1>3. todo \in [Rbts -> SUBSET Options]
  BY DEF Init
<1> QED
  BY <1>1, <1>2, <1>3 DEF Init, CtlType, Labels

LEMMA StepType == CtlType /\ [Next]_vars => CtlType'
<1> SUFFICES ASSUME CtlType, [Next]_vars PROVE CtlType'
  OBVIOUS
<1>1. CASE Next
  BY <1>1, BeginKeepsType, RbtKeepsType, FlusherKeepsType DEF Next
<1>2. CASE UNCHANGED vars
  BY <1>2 DEF vars, shared, thread, history, CtlType, BitsOf
<1> QED
  BY <1>1, <1>2

(* For any number of rbt processes and commands: a flag word never holds a *)
(* bit of the other one, whatever changes overtake each other, and nobody  *)
(* keeps a loaded word that it does not put back.                          *)
THEOREM CtlTypeCorrect == Spec => []TypeOK
<1>1. CtlType => TypeOK
  <2> SUFFICES ASSUME CtlType PROVE TypeOK
    OBVIOUS
  <2>1. \A r \in Rbts : todo[r] \subseteq Options
    BY DEF CtlType
  <2> QED
    BY <2>1 DEF CtlType, TypeOK, FlagBits, Labels
<1> QED
  BY <1>1, InitType, StepType, PTL DEF Spec

-----------------------------------------------------------------------------
(* Changes and sequences of them *)

LEMMA ChangeFields ==
  \A word, bits :
    /\ SetBits(word, bits).word = word /\ ClearBits(word, bits).word = word
    /\ SetBits(word, bits).clear = {} /\ SetBits(word, bits).set = bits
    /\ ClearBits(word, bits).clear = bits /\ ClearBits(word, bits).set = {}
BY DEF SetBits, ClearBits

LEMMA Short ==
  /\ \A c : Head(<<c>>) = c /\ Tail(<<c>>) = << >> /\ <<c>> # << >>
  /\ \A c, d : Head(<<c, d>>) = c /\ Tail(<<c, d>>) = <<d>> /\ <<c, d>> # << >>
<1>1. \A c : Head(<<c>>) = c /\ <<c>> # << >>
  OBVIOUS
<1>2. \A c : Tail(<<c>>) = << >>
  OBVIOUS
<1>3. \A c, d : Head(<<c, d>>) = c /\ <<c, d>> # << >>
  OBVIOUS
<1>4. \A c, d : Tail(<<c, d>>) = <<d>>
  OBVIOUS
<1> QED
  BY <1>1, <1>2, <1>3, <1>4

(* Which change is under way can be told. *)
LEMMA Distinct ==
  /\ << >> \notin ModeChanges \cup TChanges \cup {OpenChange, CloseChange, CloseRest}
  /\ OpenChange \notin ModeChanges \cup TChanges \cup {CloseChange, CloseRest}
  /\ CloseChange \notin ModeChanges \cup TChanges \cup {CloseRest}
  /\ CloseRest \notin ModeChanges \cup TChanges
  /\ ModeChanges \cap TChanges = {}
<1>1. \A c, d : <<c>> = <<d>> => c = d
  OBVIOUS
<1>2. \A c, d, e : <<c, d>> # <<e>>
  OBVIOUS
<1>3. {"OPEN"} # {"WRAP"} /\ {"OPEN"} # {"ZAP"} /\ {"OPEN"} # {} /\ {"OPEN"} # {"FLUSH", "CLOSE"}
      /\ {"FLUSH", "CLOSE"} # {"WRAP"} /\ {"FLUSH", "CLOSE"} # {"ZAP"} /\ {"FLUSH", "CLOSE"} # {}
  OBVIOUS
<1>4. \A c : c \in ModeChanges \cup {OpenChange, CloseRest} => \E d : c = <<d>> /\ d.word = "flags"
  BY ChangeFields DEF ModeChanges, OpenChange, CloseRest, Set, Clear
<1>5. \A c \in TChanges : \E d : c = <<d>> /\ d.word = "tflags"
  BY ChangeFields DEF TChanges
<1>6. \A c \in ModeChanges : \E d : c = <<d>> /\ d.set \in {{"WRAP"}, {"ZAP"}, {}}
  BY ChangeFields DEF ModeChanges, Set, Clear
<1>7. OpenChange = <<Set({"OPEN"})>> /\ Set({"OPEN"}).set = {"OPEN"}
  BY ChangeFields DEF OpenChange, Set
<1>8. CloseRest = <<Set({"FLUSH", "CLOSE"})>> /\ Set({"FLUSH", "CLOSE"}).set = {"FLUSH", "CLOSE"}
  BY ChangeFields DEF CloseRest, Set
<1>9. CloseChange = <<Clear({"DISK"}), Set({"FLUSH", "CLOSE"})>>
  BY DEF CloseChange
<1>10. OpenChange \notin ModeChanges /\ CloseRest \notin ModeChanges
  BY <1>1, <1>3, <1>6, <1>7, <1>8
<1>11. OpenChange # CloseRest
  BY <1>1, <1>3, <1>7, <1>8
<1>12. CloseChange \notin ModeChanges \cup TChanges \cup {CloseRest, OpenChange}
  BY <1>2, <1>4, <1>5, <1>9
<1>13. TChanges \cap (ModeChanges \cup {OpenChange, CloseRest}) = {}
  BY <1>1, <1>4, <1>5
<1>14. << >> \notin ModeChanges \cup TChanges \cup {OpenChange, CloseRest}
  BY <1>4, <1>5, Short
<1>15. << >> # CloseChange
  BY <1>9, Short
<1> QED
  BY <1>10, <1>11, <1>12, <1>13, <1>14, <1>15

-----------------------------------------------------------------------------
(* Calm states: steps of rbt *)

LEMMA IdleOK ==
  ASSUME NEW s, Idle(s)
  PROVE  RbtOK(s)
BY Distinct DEF Idle, RbtOK

LEMMA IdleNotLoaded ==
  ASSUME CtlType, NEW s \in Rbts, Idle(s)
  PROVE  old[s] = NotLoaded
BY DEF CtlType, Idle, Actors

(* While rbt is at work, its steps that leave the flags alone leave the    *)
(* phase.                                                                  *)
LEMMA PhaseStays ==
  ASSUME PhaseInv, NEW r \in Rbts, ~Idle(r),
         UNCHANGED <<ri_flags, fd, fpc, closing>>, rmw'[Flusher] = rmw[Flusher]
  PROVE  PhaseInv' /\ (Quiet => Quiet') /\ (Half' => Half)
<1>1. ~Alone
  BY DEF Alone
<1>2. \A bs : Bits(bs)' <=> Bits(bs)
  BY DEF Bits
<1>3. Quiet => Quiet'
  BY <1>1, <1>2 DEF Quiet
<1>4. Half <=> Half'
  BY <1>2 DEF Half
<1>5. Opening => Opening'
  BY <1>2 DEF Opening
<1>6. Closing => Closing'
  BY <1>2 DEF Closing
<1> QED
  BY <1>1, <1>3, <1>4, <1>5, <1>6 DEF PhaseInv, AtLimit

(* After a step of rbt r, what is to be shown is about r. *)
LEMMA OnlyOne ==
  ASSUME CtlType, OneInv, NEW r \in Rbts, ~Idle(r),
         \A s \in Rbts \ {r} : todo'[s] = todo[s] /\ rmw'[s] = rmw[s] /\ old'[s] = old[s],
         RbtOK(r)', Half' => rmw'[r] = CloseRest,
         old'[r] # NotLoaded => old'[r] = WordOf(Head(rmw[r]))',
         old'[Flusher] # NotLoaded => old'[Flusher] = WordOf(Head(rmw[Flusher]))'
  PROVE  OneInv'
<1>1. \A s \in Rbts \ {r} : Idle(s)
  BY DEF OneInv
<1>2. \A s \in Rbts \ {r} : Idle(s)' /\ old'[s] = NotLoaded
  BY <1>1, IdleNotLoaded DEF Idle
<1>3. \A s \in Rbts \ {r} : Idle(s)' => RbtOK(s)'
  BY Distinct DEF Idle, RbtOK
<1>4. \A s \in Rbts : RbtOK(s)'
  BY <1>2, <1>3
<1>5. \A s, t \in Rbts : Idle(s)' \/ Idle(t)' \/ s = t
  BY <1>2
<1>6. \A a \in Actors : old'[a] # NotLoaded => old'[a] = WordOf(Head(rmw[a]))'
  BY <1>2 DEF Actors
<1> QED
  BY <1>4, <1>5, <1>6 DEF OneInv

LEMMA FlusherWord ==
  ASSUME PhaseInv, rmw[Flusher] # << >>
  PROVE  Head(rmw[Flusher]).word = "flags"
BY Short, ChangeFields DEF PhaseInv, Quiet, Half, Opening, Closing, AtLimit, Set, Clear

(* A request is accepted: the changes cs are under way. *)
LEMMA AcceptOne ==
  ASSUME CtlType, PhaseInv, OneInv, NEW r \in Rbts, NEW q, NEW cs,
         rmw[r] = << >>, q \in todo[r], Accept(r, q, cs),
         \/ q = "open" /\ cs = OpenChange /\ ~fd /\ todo[r] \cap FlagRequests = {"open"}
         \/ q = "close" /\ cs = CloseChange /\ fd /\ todo[r] \cap FlagRequests = {"close"}
         \/ q \in {"wrap_on", "wrap_off", "zap_on", "zap_off"} /\ cs \in ModeChanges
         \/ q = "size" /\ cs = << >>
         \/ q \in {"set", "clear"} /\ cs \in TChanges /\ todo[r] \cap FlagRequests = {}
  PROVE  PhaseInv' /\ OneInv'
<1> Flusher \notin Rbts
  BY CtlAssumption
<1>1. ~Idle(r)
  BY DEF Idle
<1>2. /\ UNCHANGED <<ri_flags, ri_tflags, fd, fpc, closing, old>>
      /\ todo' = [todo EXCEPT ![r] = todo[r] \ {q}]
      /\ rmw' = [rmw EXCEPT ![r] = cs]
  BY DEF Accept, thread
<1>3. /\ rmw'[r] = cs /\ todo'[r] = todo[r] \ {q} /\ rmw'[Flusher] = rmw[Flusher]
      /\ \A s \in Rbts \ {r} : todo'[s] = todo[s] /\ rmw'[s] = rmw[s] /\ old'[s] = old[s]
  BY <1>2 DEF CtlType, Actors
<1>4. PhaseInv' /\ (Quiet => Quiet') /\ (Half' => Half)
  BY <1>1, <1>2, <1>3, PhaseStays
<1>5. RbtOK(r)'
  <2>1. RbtOK(r)
    BY DEF OneInv
  <2>2. q \in FlagRequests => Quiet'
    BY <1>4, <2>1 DEF RbtOK
  <2>3. todo[r] \cap FlagRequests # {} => Quiet'
    BY <1>4, <2>1 DEF RbtOK
  <2> QED
    BY <1>2, <1>3, <2>1, <2>2, <2>3, Distinct DEF RbtOK, FlagRequests
<1>6. ~Half'
  <2>1. \A s \in Rbts \ {r} : rmw[s] = << >>
    BY <1>1 DEF OneInv, Idle
  <2> QED
    BY <1>4, <2>1, Distinct DEF OneInv
<1>7. old'[r] = NotLoaded
  BY <1>2 DEF CtlType, Actors
<1>8. old'[Flusher] # NotLoaded => old'[Flusher] = WordOf(Head(rmw[Flusher]))'
  BY <1>2, <1>3 DEF OneInv, WordOf, Actors
<1> QED
  BY <1>1, <1>3, <1>4, <1>5, <1>6, <1>7, <1>8, OnlyOne

LEMMA Turns ==
  /\ Turn("wrap_on") = 1 /\ Turn("wrap_off") = 2 /\ Turn("zap_on") = 3 /\ Turn("zap_off") = 4
  /\ Turn("size") = 5 /\ Turn("open") = 6 /\ Turn("close") = 7 /\ Turn("set") = 8
  /\ Turn("clear") = 9
BY DEF Turn

(* The requests that come before the one that is made are done. *)
LEMMA FirstRequest ==
  ASSUME NEW r, NEW q, Request(r, q)
  PROVE  /\ rmw[r] = << >> /\ q \in todo[r]
         /\ q \in {"open", "close"} =>
              todo[r] \cap {"wrap_on", "wrap_off", "zap_on", "zap_off"} = {}
         /\ q \in {"set", "clear"} => todo[r] \cap FlagRequests = {}
BY Turns DEF Request, FlagRequests

LEMMA CtrlOne ==
  ASSUME CtlType, PhaseInv, OneInv, NEW r \in Rbts,
         \/ CtrlWrap(r) \/ CtrlZap(r) \/ CtrlSize(r) \/ CtrlOpen(r) \/ CtrlClose(r)
         \/ CtrlTflags(r)
  PROVE  PhaseInv' /\ OneInv'
<1>0. RbtOK(r)
  BY DEF OneInv
<1>1. CASE CtrlWrap(r)
  <2>1. PICK q \in {"wrap_on", "wrap_off"} :
          /\ Request(r, q)
          /\ Accept(r, q, <<IF q = "wrap_on" THEN SetBits("flags", {"WRAP"})
                            ELSE ClearBits("flags", {"WRAP"})>>)
    BY <1>1 DEF CtrlWrap
  <2>2. <<IF q = "wrap_on" THEN SetBits("flags", {"WRAP"}) ELSE ClearBits("flags", {"WRAP"})>>
          \in ModeChanges
    BY DEF ModeChanges, Set, Clear
  <2> QED
    BY <2>1, <2>2, FirstRequest, AcceptOne
<1>2. CASE CtrlZap(r)
  <2>1. PICK q \in {"zap_on", "zap_off"} :
          /\ Request(r, q)
          /\ Accept(r, q, <<IF q = "zap_on" THEN SetBits("flags", {"ZAP"})
                            ELSE ClearBits("flags", {"ZAP"})>>)
    BY <1>2 DEF CtrlZap
  <2>2. <<IF q = "zap_on" THEN SetBits("flags", {"ZAP"}) ELSE ClearBits("flags", {"ZAP"})>>
          \in ModeChanges
    BY DEF ModeChanges, Set, Clear
  <2> QED
    BY <2>1, <2>2, FirstRequest, AcceptOne
<1>3. CASE CtrlSize(r)
  BY <1>3, FirstRequest, AcceptOne DEF CtrlSize
<1>4. CASE CtrlOpen(r)
  <2>1. /\ Request(r, "open") /\ ri_flags \cap {"OPEN", "DISK"} = {}
        /\ Accept(r, "open", OpenChange)
    BY <1>4 DEF CtrlOpen, OpenChange, Set
  <2>2. todo[r] \cap FlagRequests = {"open"}
    BY <1>0, <2>1, FirstRequest DEF RbtOK, FlagRequests
  <2>3. Quiet
    BY <1>0, <2>2 DEF RbtOK
  <2>4. ~fd
    BY <2>1, <2>3 DEF Quiet, Bits
  <2> QED
    BY <2>1, <2>2, <2>4, FirstRequest, AcceptOne
<1>5. CASE CtrlClose(r)
  <2>1. /\ Request(r, "close") /\ "DISK" \in ri_flags
        /\ Accept(r, "close", CloseChange)
    BY <1>5 DEF CtrlClose, CloseChange, Set, Clear
  <2>2. todo[r] \cap FlagRequests = {"close"}
    BY <1>0, <2>1, FirstRequest DEF RbtOK, FlagRequests
  <2>3. Quiet
    BY <1>0, <2>2 DEF RbtOK
  <2>4. fd
    BY <2>1, <2>3 DEF Quiet, Bits
  <2> QED
    BY <2>1, <2>2, <2>4, FirstRequest, AcceptOne
<1>6. CASE CtrlTflags(r)
  <2>1. PICK q \in {"set", "clear"} :
          /\ Request(r, q)
          /\ Accept(r, q, <<IF q = "set" THEN SetBits("tflags", {"t"})
                            ELSE ClearBits("tflags", {"t"})>>)
    BY <1>6 DEF CtrlTflags
  <2>2. <<IF q = "set" THEN SetBits("tflags", {"t"}) ELSE ClearBits("tflags", {"t"})>>
          \in TChanges
    BY DEF TChanges
  <2> QED
    BY <2>1, <2>2, FirstRequest, AcceptOne
<1> QED
  BY <1>1, <1>2, <1>3, <1>4, <1>5, <1>6

LEMMA RefusedOne ==
  ASSUME CtlType, PhaseInv, OneInv, NEW r \in Rbts, Refused(r)
  PROVE  PhaseInv' /\ OneInv'
<1>1. /\ rmw[r] = << >> /\ todo[r] # {}
      /\ UNCHANGED <<ri_flags, ri_tflags, fd, fpc, closing, rmw, old>>
      /\ todo' = [todo EXCEPT ![r] = {}]
  BY DEF Refused, Request, shared, thread
<1>2. ~Idle(r) /\ rmw'[Flusher] = rmw[Flusher]
  BY <1>1 DEF Idle
<1>3. PhaseInv' /\ (Half' => Half)
  BY <1>1, <1>2, PhaseStays
<1>4. /\ todo'[r] = {} /\ rmw'[r] = << >>
      /\ \A s \in Rbts \ {r} : todo'[s] = todo[s] /\ rmw'[s] = rmw[s] /\ old'[s] = old[s]
  BY <1>1 DEF CtlType
<1>5. RbtOK(r)'
  BY <1>4, Distinct DEF RbtOK
<1>6. ~Half'
  <2>1. \A s \in Rbts \ {r} : rmw[s] = << >>
    BY <1>2 DEF OneInv, Idle
  <2> QED
    BY <1>1, <1>3, <2>1, Distinct DEF OneInv
<1>7. old'[r] = NotLoaded
  BY <1>1 DEF CtlType, Actors
<1>8. old'[Flusher] # NotLoaded => old'[Flusher] = WordOf(Head(rmw[Flusher]))'
  BY <1>1 DEF OneInv, WordOf, Actors
<1> QED
  BY <1>2, <1>3, <1>4, <1>5, <1>6, <1>7, <1>8, OnlyOne

(* A word that is loaded is the word. *)
LEMMA LoadOne ==
  ASSUME CtlType, PhaseInv, OneInv, NEW a \in Actors, Load(a)
  PROVE  PhaseInv' /\ OneInv'
<1>1. UNCHANGED <<ri_flags, ri_tflags, fd, fpc, closing, rmw, todo>>
  BY DEF Load, shared, thread
<1>2. PhaseInv' /\ (Quiet' <=> Quiet) /\ (Half' <=> Half)
  <2>1. \A bs : Bits(bs)' <=> Bits(bs)
    BY <1>1 DEF Bits
  <2>2. Alone' <=> Alone
    BY <1>1 DEF Alone, Idle
  <2>3. (Quiet' <=> Quiet) /\ (Half' <=> Half)
    BY <1>1, <2>1, <2>2 DEF Quiet, Half
  <2>4. (Opening => Opening') /\ (Closing => Closing') /\ (AtLimit => AtLimit')
    BY <1>1, <2>1, <2>2 DEF Opening, Closing, AtLimit
  <2> QED
    BY <2>3, <2>4 DEF PhaseInv
<1>3. /\ old'[a] = WordOf(Head(rmw[a])) /\ \A b \in Actors \ {a} : old'[b] = old[b]
  BY DEF Load, CtlType, WordOf
<1>4. \A b \in Actors : old'[b] # NotLoaded => old'[b] = WordOf(Head(rmw[b]))'
  BY <1>1, <1>3 DEF OneInv, WordOf
<1>5. \A s \in Rbts : RbtOK(s)' /\ (Idle(s)' <=> Idle(s))
  BY <1>1, <1>2 DEF OneInv, RbtOK, Idle
<1> QED
  BY <1>1, <1>2, <1>4, <1>5 DEF OneInv

(* What rbt has loaded is still in the word when it stores. *)
LEMMA StoredWord ==
  ASSUME CtlType, OneInv, NEW a \in Actors, Store(a)
  PROVE  /\ rmw[a] # << >> /\ rmw'[a] = Tail(rmw[a]) /\ old'[a] = NotLoaded
         /\ \A b \in Actors \ {a} : rmw'[b] = rmw[b] /\ old'[b] = old[b]
         /\ UNCHANGED <<fsize, ri_file_path, fd, fpc, closing, todo, commands, faults, want, calm>>
         /\ Head(rmw[a]).word = "flags" =>
              /\ ri_tflags' = ri_tflags
              /\ ri_flags' = (ri_flags \ Head(rmw[a]).clear) \cup Head(rmw[a]).set
         /\ Head(rmw[a]).word # "flags" =>
              /\ ri_flags' = ri_flags
              /\ ri_tflags' = (ri_tflags \ Head(rmw[a]).clear) \cup Head(rmw[a]).set
<1>1. /\ rmw[a] # << >> /\ old[a] # NotLoaded
      /\ rmw' = [rmw EXCEPT ![a] = Tail(rmw[a])] /\ old' = [old EXCEPT ![a] = NotLoaded]
      /\ UNCHANGED <<fsize, ri_file_path, fd, fpc, closing, todo, commands, faults, want, calm>>
  BY DEF Store, thread, history
<1>2. /\ rmw'[a] = Tail(rmw[a]) /\ old'[a] = NotLoaded
      /\ \A b \in Actors \ {a} : rmw'[b] = rmw[b] /\ old'[b] = old[b]
  BY <1>1 DEF CtlType
<1>3. old[a] = WordOf(Head(rmw[a]))
  BY <1>1 DEF OneInv
<1>4. LET new == (old[a] \ Head(rmw[a]).clear) \cup Head(rmw[a]).set
      IN  IF Head(rmw[a]).word = "flags"
          THEN ri_flags' = new /\ UNCHANGED ri_tflags
          ELSE ri_tflags' = new /\ UNCHANGED ri_flags
  BY DEF Store
<1> QED
  BY <1>1, <1>2, <1>3, <1>4 DEF WordOf

(* The changes of a request that changes one thing. *)
LEMMA SingleChanges ==
  /\ \A cs \in ModeChanges : \E c : /\ cs = <<c>> /\ c.word = "flags"
                                   /\ c.set \in {{}, {"WRAP"}, {"ZAP"}}
                                   /\ c.clear \in {{}, {"WRAP"}, {"ZAP"}}
  /\ \A cs \in TChanges : \E c : cs = <<c>> /\ c.word = "tflags"
BY ChangeFields DEF ModeChanges, TChanges, Set, Clear

LEMMA RbtStoreOne ==
  ASSUME CtlType, PhaseInv, OneInv, NEW r \in Rbts, Store(r)
  PROVE  PhaseInv' /\ OneInv'
<1> Flusher \in Actors /\ r \in Actors /\ Flusher # r
  BY CtlAssumption DEF Actors
<1>1. /\ rmw[r] # << >> /\ rmw'[r] = Tail(rmw[r]) /\ old'[r] = NotLoaded
      /\ \A b \in Actors \ {r} : rmw'[b] = rmw[b] /\ old'[b] = old[b]
      /\ UNCHANGED <<fd, fpc, closing, todo>>
      /\ Head(rmw[r]).word = "flags" =>
           /\ ri_tflags' = ri_tflags
           /\ ri_flags' = (ri_flags \ Head(rmw[r]).clear) \cup Head(rmw[r]).set
      /\ Head(rmw[r]).word # "flags" =>
           /\ ri_flags' = ri_flags
           /\ ri_tflags' = (ri_tflags \ Head(rmw[r]).clear) \cup Head(rmw[r]).set
  BY StoredWord
<1>2. ~Idle(r) /\ ~Alone
  BY <1>1 DEF Idle, Alone
<1>3. RbtOK(r)
  BY DEF OneInv
<1>4. /\ rmw'[Flusher] = rmw[Flusher] /\ old'[Flusher] = old[Flusher]
      /\ \A s \in Rbts \ {r} : todo'[s] = todo[s] /\ rmw'[s] = rmw[s] /\ old'[s] = old[s]
  BY <1>1 DEF Actors
<1>5. rmw[Flusher] = << >> => old[Flusher] = NotLoaded
  BY DEF CtlType
<1>6. ASSUME PhaseInv', RbtOK(r)', Half' => rmw'[r] = CloseRest,
             rmw[Flusher] = << >> \/ ri_flags' = ri_flags
      PROVE  PhaseInv' /\ OneInv'
  <2>1. old'[Flusher] # NotLoaded => old'[Flusher] = WordOf(Head(rmw[Flusher]))'
    BY <1>4, <1>5, <1>6, FlusherWord DEF OneInv, WordOf
  <2> QED
    BY <1>1, <1>2, <1>4, <1>6, <2>1, OnlyOne
<1>7. CASE rmw[r] \in TChanges
  <2>1. rmw'[r] = << >> /\ Head(rmw[r]).word = "tflags"
    <3>1. PICK c : rmw[r] = <<c>> /\ c.word = "tflags"
      BY <1>7, SingleChanges
    <3>2. Head(rmw[r]) = c /\ Tail(rmw[r]) = << >>
      BY <3>1, Short
    <3> QED
      BY <1>1, <3>1, <3>2
  <2>2. ri_flags' = ri_flags
    BY <1>1, <2>1
  <2>3. PhaseInv' /\ (Half' => Half)
    BY <1>1, <1>2, <1>4, <2>2, PhaseStays
  <2>4. todo[r] \cap FlagRequests = {}
    BY <1>3, <1>7, Distinct DEF RbtOK
  <2>5. RbtOK(r)'
    BY <1>1, <1>3, <2>1, <2>4, Distinct DEF RbtOK
  <2>6. ~Half
    <3>1. \A s \in Rbts \ {r} : rmw[s] = << >>
      BY <1>2 DEF OneInv, Idle
    <3> QED
      BY <1>7, <3>1, Distinct DEF OneInv
  <2> QED
    BY <1>6, <2>2, <2>3, <2>5, <2>6
<1>8. CASE rmw[r] \in ModeChanges
  <2>1. /\ rmw'[r] = << >> /\ Head(rmw[r]).word = "flags"
        /\ Head(rmw[r]).set \subseteq {"WRAP", "ZAP"} /\ Head(rmw[r]).clear \subseteq {"WRAP", "ZAP"}
    <3>1. PICK c : /\ rmw[r] = <<c>> /\ c.word = "flags"
                   /\ c.set \in {{}, {"WRAP"}, {"ZAP"}} /\ c.clear \in {{}, {"WRAP"}, {"ZAP"}}
      BY <1>8, SingleChanges
    <3>2. Head(rmw[r]) = c /\ Tail(rmw[r]) = << >>
      BY <3>1, Short
    <3> QED
      BY <1>1, <3>1, <3>2
  <2>2. Quiet
    BY <1>3, <1>8 DEF RbtOK
  <2>3. \A bs : Bits(bs)' <=> Bits(bs)
    BY <1>1, <2>1 DEF Bits
  <2>4. Quiet' /\ rmw[Flusher] = << >>
    BY <1>1, <1>2, <1>4, <2>2, <2>3 DEF Quiet
  <2>5. ~Half'
    BY <2>4 DEF Quiet, Half, Bits
  <2>6. RbtOK(r)'
    BY <1>1, <1>3, <2>1, <2>4, Distinct DEF RbtOK
  <2> QED
    BY <1>6, <2>4, <2>5, <2>6 DEF PhaseInv
<1>9. CASE rmw[r] = OpenChange
  <2>1. /\ rmw'[r] = << >> /\ Head(rmw[r]).word = "flags"
        /\ Head(rmw[r]).set = {"OPEN"} /\ Head(rmw[r]).clear = {}
    BY <1>1, <1>9, Short, ChangeFields DEF OpenChange, Set
  <2>2. Quiet /\ ~fd /\ todo[r] \cap FlagRequests = {}
    BY <1>3, <1>9, Distinct DEF RbtOK
  <2>3. Bits({"OPEN"})'
    BY <1>1, <2>1, <2>2 DEF Quiet, Bits
  <2>4. Opening' /\ rmw[Flusher] = << >> /\ ~fd'
    BY <1>1, <1>2, <1>4, <2>2, <2>3 DEF Quiet, Opening
  <2>5. ~Half'
    BY <2>4 DEF Half
  <2>6. RbtOK(r)'
    BY <1>1, <1>3, <2>1, <2>2, Distinct DEF RbtOK
  <2> QED
    BY <1>6, <2>4, <2>5, <2>6 DEF PhaseInv
<1>10. CASE rmw[r] = CloseChange
  <2>1. /\ rmw'[r] = CloseRest /\ Head(rmw[r]).word = "flags"
        /\ Head(rmw[r]).set = {} /\ Head(rmw[r]).clear = {"DISK"}
    BY <1>1, <1>10, Short, ChangeFields DEF CloseChange, CloseRest, Set, Clear
  <2>2. Quiet /\ fd /\ todo[r] \cap FlagRequests = {}
    BY <1>3, <1>10, Distinct DEF RbtOK
  <2>3. Bits({})'
    BY <1>1, <2>1, <2>2 DEF Quiet, Bits
  <2>4. Half' /\ rmw[Flusher] = << >>
    BY <1>1, <1>2, <1>4, <2>2, <2>3 DEF Quiet, Half
  <2>6. RbtOK(r)'
    BY <1>1, <1>3, <2>1, <2>2, <2>4, Distinct DEF RbtOK
  <2> QED
    BY <1>6, <2>1, <2>4, <2>6 DEF PhaseInv
<1>11. CASE rmw[r] = CloseRest
  <2>1. /\ rmw'[r] = << >> /\ Head(rmw[r]).word = "flags"
        /\ Head(rmw[r]).set = {"FLUSH", "CLOSE"} /\ Head(rmw[r]).clear = {}
    BY <1>1, <1>11, Short, ChangeFields DEF CloseRest, Set
  <2>2. Half /\ todo[r] \cap FlagRequests = {}
    BY <1>3, <1>11, Distinct DEF RbtOK
  <2>3. Bits({"CLOSE", "FLUSH"})'
    BY <1>1, <2>1, <2>2 DEF Half, Bits
  <2>4. Closing' /\ rmw[Flusher] = << >>
    BY <1>1, <1>2, <1>4, <2>2, <2>3 DEF Half, Closing
  <2>5. ~Half'
    BY <2>3 DEF Half, Bits
  <2>6. RbtOK(r)'
    BY <1>1, <1>3, <2>1, <2>2, Distinct DEF RbtOK
  <2> QED
    BY <1>6, <2>4, <2>5, <2>6 DEF PhaseInv
<1> QED
  BY <1>1, <1>3, <1>7, <1>8, <1>9, <1>10, <1>11 DEF RbtOK

(* A command begins in a settled state: the flush thread is quiet. *)
LEMMA SettledQuiet ==
  ASSUME PhaseInv, OneInv, Settled
  PROVE  Quiet /\ Alone /\ fpc \in InLoop
<1>1. Alone /\ rmw[Flusher] = << >> /\ fpc \in InLoop
  BY DEF Settled, Alone, InLoop
<1>2. ~Half
  BY <1>1, Distinct DEF OneInv, Alone, Idle
<1>3. "OPEN" \notin ri_flags /\ "CLOSE" \notin ri_flags /\ "FLUSH" \notin ri_flags
  BY DEF Settled
<1>4. ~Opening
  BY <1>3 DEF Opening, Bits
<1>5. ~Closing
  BY <1>3 DEF Closing, Bits
<1>6. ~AtLimit
  BY <1>1 DEF AtLimit, InLoop
<1> QED
  BY <1>1, <1>2, <1>4, <1>5, <1>6 DEF PhaseInv

LEMMA BeginOne ==
  ASSUME CtlType, PhaseInv, OneInv, NEW r \in Rbts, NEW options \in Commands,
         Begin(r, options), Settled
  PROVE  PhaseInv' /\ OneInv' /\ Quiet'
<1>1. /\ UNCHANGED <<ri_flags, ri_tflags, fd, closing, fpc, rmw, old>>
      /\ todo' = [todo EXCEPT ![r] = Requests(options)]
  BY DEF Begin, shared, thread
<1>2. Quiet /\ Alone /\ fpc \in InLoop
  BY SettledQuiet
<1>3. Quiet'
  <2>1. \A bs : Bits(bs)' <=> Bits(bs)
    BY <1>1 DEF Bits
  <2> QED
    BY <1>1, <1>2, <2>1 DEF Quiet, InLoop
<1>4. ~Half'
  BY <1>3 DEF Quiet, Half, Bits
<1>5. /\ todo'[r] = Requests(options) /\ \A s \in Rbts \ {r} : todo'[s] = {}
      /\ \A s \in Rbts : rmw'[s] = << >>
  BY <1>1, <1>2 DEF CtlType, Alone, Idle
<1>6. ~({"open", "close"} \subseteq Requests(options))
  BY DEF Requests
<1>7. \A s \in Rbts : RbtOK(s)'
  BY <1>3, <1>5, <1>6, Distinct DEF RbtOK
<1>8. \A s, t \in Rbts : Idle(s)' \/ Idle(t)' \/ s = t
  BY <1>5 DEF Idle
<1>9. \A a \in Actors : old'[a] = NotLoaded
  BY <1>1, <1>2 DEF CtlType, Quiet, Actors, Alone, Idle
<1> QED
  BY <1>3, <1>4, <1>7, <1>8, <1>9 DEF PhaseInv, OneInv

-----------------------------------------------------------------------------
(* Calm states: steps of the flush thread *)

(* The flush thread leaves what rbt has under way as it is, and changes    *)
(* flags only while rbt does not.                                          *)
LEMMA ThreadOne ==
  ASSUME CtlType, OneInv, todo' = todo, ri_tflags' = ri_tflags,
         \A r \in Rbts : rmw'[r] = rmw[r] /\ old'[r] = old[r],
         ri_flags' = ri_flags \/ rmw[Flusher] # << >>,
         Half' => Half, Half => Half', Quiet /\ ~Alone => Quiet' /\ fd' = fd,
         old'[Flusher] # NotLoaded => old'[Flusher] = WordOf(Head(rmw[Flusher]))'
  PROVE  OneInv'
<1>1. \A r \in Rbts : Idle(r)' <=> Idle(r)
  BY DEF Idle
<1>2. \A r \in Rbts : RbtOK(r)'
  <2> SUFFICES ASSUME NEW r \in Rbts PROVE RbtOK(r)'
    OBVIOUS
  <2>1. CASE Idle(r)
    BY <2>1, Distinct DEF Idle, RbtOK
  <2>2. CASE ~Idle(r)
    <3>1. Quiet => Quiet' /\ fd' = fd
      BY <2>2 DEF Alone
    <3>2. RbtOK(r)
      BY DEF OneInv
    <3> QED
      BY <3>1, <3>2 DEF RbtOK
  <2> QED
    BY <2>1, <2>2
<1>3. \A r \in Rbts : old'[r] # NotLoaded => old'[r] = WordOf(Head(rmw[r]))'
  <2> SUFFICES ASSUME NEW r \in Rbts, old'[r] # NotLoaded
               PROVE  old'[r] = WordOf(Head(rmw[r]))'
    OBVIOUS
  <2>1. rmw[r] # << >> /\ old'[r] = WordOf(Head(rmw[r])) /\ RbtOK(r)
    BY DEF CtlType, OneInv, Actors
  <2>2. CASE ri_flags' = ri_flags
    BY <2>1, <2>2 DEF WordOf
  <2>3. CASE rmw[Flusher] # << >>
    <3>1. ~Quiet /\ ~Half
      BY <2>3 DEF Quiet, Half
    <3>2. rmw[r] \in TChanges
      BY <2>1, <3>1 DEF RbtOK
    <3>3. PICK c : rmw[r] = <<c>> /\ c.word = "tflags"
      BY <3>2, SingleChanges
    <3>4. Head(rmw[r]) = c
      BY <3>3, Short
    <3> QED
      BY <2>1, <3>3, <3>4 DEF WordOf
  <2> QED
    BY <2>2, <2>3
<1>4. Half' => \E r \in Rbts : rmw'[r] = CloseRest
  BY DEF OneInv
<1>5. \A a \in Actors : old'[a] # NotLoaded => old'[a] = WordOf(Head(rmw[a]))'
  BY <1>3 DEF Actors
<1> QED
  BY <1>1, <1>2, <1>4, <1>5 DEF OneInv

(* A step of the flush thread that leaves the flags alone. *)
LEMMA GotoOne ==
  ASSUME CtlType, OneInv, NEW label, NEW cs, rmw[Flusher] = << >>, Goto(label, cs),
         UNCHANGED <<ri_flags, ri_tflags, todo, old>>,
         Half' => Half, Half => Half', Quiet /\ ~Alone => Quiet' /\ fd' = fd
  PROVE  OneInv'
<1>1. Flusher \in Actors /\ Flusher \notin Rbts /\ Rbts \subseteq Actors
  BY CtlAssumption DEF Actors
<1>2. \A r \in Rbts : rmw'[r] = rmw[r] /\ old'[r] = old[r]
  BY <1>1 DEF Goto, CtlType
<1>3. old'[Flusher] = NotLoaded
  BY <1>1 DEF CtlType
<1> QED
  BY <1>2, <1>3, ThreadOne

LEMMA GotoFacts ==
  ASSUME CtlType, NEW label, NEW cs, Goto(label, cs), todo' = todo
  PROVE  rmw'[Flusher] = cs /\ fpc' = label /\ (Alone' <=> Alone)
<1>1. Flusher \in Actors /\ Flusher \notin Rbts /\ Rbts \subseteq Actors
  BY CtlAssumption DEF Actors
<1>2. rmw'[Flusher] = cs /\ fpc' = label /\ \A r \in Rbts : rmw'[r] = rmw[r]
  BY <1>1 DEF Goto, CtlType
<1> QED
  BY <1>2 DEF Alone, Idle

(* Half a close is under way only while rbt is at work. *)
LEMMA HalfNotAlone ==
  ASSUME OneInv, Half
  PROVE  ~Alone
BY Distinct DEF OneInv, Alone, Idle

LEMMA SameBits ==
  ASSUME ri_flags' = ri_flags
  PROVE  \A bs : Bits(bs)' <=> Bits(bs)
BY DEF Bits

LEMMA LooksOne ==
  ASSUME CtlType, PhaseInv, OneInv, Wake \/ LookOpen \/ LookDisk
  PROVE  PhaseInv' /\ OneInv'
<1>1. /\ rmw[Flusher] = << >>
      /\ UNCHANGED <<ri_flags, ri_tflags, fd, todo, old>>
  BY DEF Wake, LookOpen, LookDisk, Look, At, shared
<1>2. PICK label \in {"inactive", "look_open", "look_disk", "wait", "header"} : Goto(label, << >>)
  BY DEF Wake, LookOpen, LookDisk, Look
<1>3. rmw'[Flusher] = << >> /\ fpc' = label /\ (Alone' <=> Alone)
  BY <1>1, <1>2, GotoFacts
<1>4. \A bs : Bits(bs)' <=> Bits(bs)
  BY <1>1, SameBits
<1>5. /\ fpc = "wait" => /\ label = IF "CLOSE" \in ri_flags THEN "inactive" ELSE "look_open"
                         /\ closing' <=> "CLOSE" \in ri_flags
      /\ fpc = "look_open" => /\ label = IF "OPEN" \in ri_flags THEN "header" ELSE "look_disk"
                              /\ closing' = closing
      /\ fpc = "look_disk" => /\ label = IF "DISK" \in ri_flags THEN "inactive" ELSE "wait"
                              /\ closing' = closing
      /\ fpc \in InLoop
  BY <1>3 DEF Wake, LookOpen, LookDisk, Look, At, Goto, InLoop
<1>6. CASE Quiet
  <2>1. Bits(IF fd THEN {"DISK"} ELSE {})'
    BY <1>1, <1>4, <1>6 DEF Quiet
  <2>2. /\ "CLOSE" \notin ri_flags /\ "OPEN" \notin ri_flags /\ ("DISK" \in ri_flags <=> fd)
        /\ ~closing
    BY <1>6 DEF Quiet, Bits
  <2>3. ~closing' /\ fpc' \in InLoop \cup (IF fd THEN {"inactive"} ELSE {})
    BY <1>3, <1>5, <2>2 DEF InLoop
  <2>4. Quiet'
    BY <1>1, <1>3, <2>1, <2>3 DEF Quiet, InLoop
  <2>5. ~Half' /\ ~Half
    BY <1>6, <2>4 DEF Quiet, Half, Bits
  <2> QED
    BY <1>1, <1>2, <2>4, <2>5, GotoOne DEF PhaseInv
<1>7. CASE Half
  <2>1. "CLOSE" \notin ri_flags /\ "OPEN" \notin ri_flags /\ "DISK" \notin ri_flags /\ ~closing
    BY <1>7 DEF Half, Bits
  <2>2. ~closing' /\ fpc' \in InLoop
    BY <1>3, <1>5, <2>1 DEF InLoop
  <2>3. Half'
    BY <1>1, <1>3, <1>4, <1>7, <2>2 DEF Half
  <2>4. ~Quiet
    BY <1>7 DEF Quiet, Half, Bits
  <2> QED
    BY <1>1, <1>2, <1>7, <2>3, <2>4, GotoOne DEF PhaseInv
<1>8. CASE Opening
  <2>1. /\ "CLOSE" \notin ri_flags /\ "OPEN" \in ri_flags /\ "DISK" \notin ri_flags /\ ~closing
        /\ Bits({"OPEN"}) /\ ~fd
    BY <1>1, <1>8, Short DEF Opening, Bits
  <2>2. ~closing' /\ fpc' \in InLoop \cup {"header"}
    BY <1>3, <1>5, <2>1 DEF InLoop
  <2>3. Opening'
    BY <1>1, <1>3, <1>4, <2>1, <2>2 DEF Opening
  <2>4. ~Quiet /\ ~Half /\ ~Half'
    BY <1>1, <2>1 DEF Quiet, Half, Bits
  <2> QED
    BY <1>1, <1>2, <2>3, <2>4, GotoOne DEF PhaseInv
<1>9. CASE Closing
  <2>1. /\ "CLOSE" \in ri_flags /\ "OPEN" \notin ri_flags /\ "DISK" \notin ri_flags
        /\ Bits({"CLOSE", "FLUSH"}) \/ Bits({"CLOSE"})
        /\ fd
    BY <1>1, <1>9, Short DEF Closing, Bits
  <2>2. fpc' = "inactive" \/ (Bits({"CLOSE", "FLUSH"}) /\ fpc' \in InLoop /\ ~closing')
    BY <1>1, <1>3, <1>5, <1>9, <2>1, Short DEF Closing, InLoop
  <2>3. fpc = "wait" => closing'
    BY <1>5, <2>1
  <2>4. fpc # "wait" => ~Bits({"CLOSE"}) \/ closing
    BY <1>1, <1>5, <1>9, Short DEF Closing, InLoop, Bits
  <2>5. Closing'
    BY <1>1, <1>3, <1>4, <1>5, <2>1, <2>2, <2>3, <2>4 DEF Closing, InLoop
  <2>6. ~Quiet /\ ~Half /\ ~Half'
    BY <1>1, <2>1 DEF Quiet, Half, Bits
  <2> QED
    BY <1>1, <1>2, <2>5, <2>6, GotoOne DEF PhaseInv
<1>10. ~AtLimit
  BY <1>1, Short DEF AtLimit
<1> QED
  BY <1>6, <1>7, <1>8, <1>9, <1>10 DEF PhaseInv

LEMMA WriteHeaderOne ==
  ASSUME CtlType, PhaseInv, OneInv, WriteHeader
  PROVE  PhaseInv' /\ OneInv' /\ ~fd
<1>1. /\ rmw[Flusher] = << >> /\ fpc = "header"
      /\ UNCHANGED <<ri_flags, ri_tflags, closing, todo, old>>
  BY DEF WriteHeader, At, shared
<1>2. Opening /\ ~fd /\ Bits({"OPEN"}) /\ ~closing
  BY <1>1, Short DEF PhaseInv, Quiet, Half, Opening, Closing, AtLimit, InLoop
<1>3. \/ fd' = TRUE /\ Goto("wait", <<Set({"DISK"}), Clear({"OPEN"})>>)
      \/ fd' = FALSE /\ Goto("wait", <<Clear({"OPEN"})>>)
  BY <1>2 DEF WriteHeader, HeaderWritten, HeaderFailed, Set, Clear
<1>4. PICK cs : Goto("wait", cs) /\ (\/ fd' /\ cs = <<Set({"DISK"}), Clear({"OPEN"})>>
                                     \/ ~fd' /\ cs = <<Clear({"OPEN"})>>)
  BY <1>3
<1>5. rmw'[Flusher] = cs /\ fpc' = "wait"
  BY <1>1, <1>4, GotoFacts
<1>6. \A bs : Bits(bs)' <=> Bits(bs)
  BY <1>1, SameBits
<1>7. Opening'
  BY <1>1, <1>2, <1>4, <1>5, <1>6 DEF Opening
<1>8. ~Quiet /\ ~Half /\ ~Half'
  BY <1>1, <1>2 DEF Quiet, Half, Bits
<1> QED
  BY <1>1, <1>2, <1>4, <1>7, <1>8, GotoOne DEF PhaseInv

(* A buffer is written and the limit makes no difference. *)
LEMMA WrittenOne ==
  ASSUME CtlType, PhaseInv, OneInv, NEW label, rmw[Flusher] = << >>,
         Goto(label, << >>), UNCHANGED <<ri_flags, ri_tflags, fd, closing, todo, old>>,
         \/ fpc = "inactive" /\ label = "active"
         \/ fpc = "active" /\ "FLUSH" \in ri_flags /\ label = "flushed"
         \/ fpc = "active" /\ "FLUSH" \notin ri_flags /\ label = AfterFlush
  PROVE  PhaseInv' /\ OneInv'
<1>1. rmw'[Flusher] = << >> /\ fpc' = label /\ (Alone' <=> Alone)
  BY GotoFacts
<1>2. \A bs : Bits(bs)' <=> Bits(bs)
  BY SameBits
<1>3. CASE Quiet
  <2>1. "FLUSH" \notin ri_flags /\ ~closing
    BY <1>3 DEF Quiet, Bits
  <2>2. Quiet'
    BY <1>1, <1>2, <1>3, <2>1 DEF Quiet, AfterFlush, InLoop
  <2>3. ~Half' /\ ~Half
    BY <1>3, <2>2 DEF Quiet, Half, Bits
  <2> QED
    BY <2>2, <2>3, GotoOne DEF PhaseInv
<1>4. CASE Half
  <2>1. "FLUSH" \notin ri_flags /\ ~closing
    BY <1>4 DEF Half, Bits
  <2>2. Half'
    BY <1>1, <1>2, <1>4, <2>1 DEF Half, AfterFlush, InLoop
  <2>3. ~Quiet
    BY <1>4 DEF Quiet, Half, Bits
  <2> QED
    BY <1>4, <2>2, <2>3, GotoOne DEF PhaseInv
<1>5. CASE Closing
  <2>1. \/ fd /\ Bits({"CLOSE", "FLUSH"}) /\ "FLUSH" \in ri_flags
        \/ fd /\ Bits({"CLOSE"}) /\ closing /\ "FLUSH" \notin ri_flags
    BY <1>5, Short DEF Closing, Bits
  <2>2. Closing'
    BY <1>1, <1>2, <2>1 DEF Closing, AfterFlush
  <2>3. ~Quiet /\ ~Half /\ ~Half'
    BY <2>1 DEF Quiet, Half, Bits
  <2> QED
    BY <2>2, <2>3, GotoOne DEF PhaseInv
<1>6. ~Opening /\ ~AtLimit
  BY Short DEF Opening, AtLimit, InLoop
<1> QED
  BY <1>3, <1>4, <1>5, <1>6 DEF PhaseInv

(* Whoever writes a buffer has a file. *)
LEMMA WritesFile ==
  ASSUME PhaseInv, rmw[Flusher] = << >>,
         fpc = "inactive" \/ (fpc = "active" /\ "FLUSH" \in ri_flags)
  PROVE  fd
<1>1. ~Opening /\ ~AtLimit
  BY Short DEF Opening, AtLimit, InLoop
<1>2. CASE Quiet
  BY <1>2 DEF Quiet, Bits
<1>3. CASE Half
  BY <1>3 DEF Half
<1>4. CASE Closing
  BY <1>4, Short DEF Closing
<1> QED
  BY <1>1, <1>2, <1>3, <1>4 DEF PhaseInv

(* The limit is reached, and no rbt is at work. *)
LEMMA LimitOne ==
  ASSUME CtlType, PhaseInv, OneInv, NEW next, rmw[Flusher] = << >>, Alone,
         \/ fpc = "inactive" /\ next = "active"
         \/ fpc = "active" /\ "FLUSH" \in ri_flags,
         "CLOSE" \notin ri_flags,
         UNCHANGED <<ri_flags, ri_tflags, closing, todo, old>>,
         \/ fd' = FALSE /\ Goto(next, <<Clear({"DISK"})>>)
         \/ fd' = TRUE /\ Goto(next, <<Set({"DISK"}), Clear({"OPEN"})>>)
  PROVE  PhaseInv' /\ OneInv' /\ Quiet /\ fd
<1>1. ~Opening /\ ~AtLimit /\ ~Closing /\ ~Half
  BY Short, HalfNotAlone DEF Opening, AtLimit, InLoop, Closing, Bits
<1>2. Quiet /\ fd
  BY <1>1, WritesFile DEF PhaseInv
<1>3. /\ fpc = "inactive" /\ next = "active" /\ ~closing /\ Bits({"DISK"})
  BY <1>2 DEF Quiet, Bits
<1>4. PICK cs : Goto("active", cs) /\ (\/ fd' /\ cs = <<Set({"DISK"}), Clear({"OPEN"})>>
                                       \/ ~fd' /\ cs = <<Clear({"DISK"})>>)
  BY <1>3
<1>5. rmw'[Flusher] = cs /\ fpc' = "active" /\ (Alone' <=> Alone)
  BY <1>4, GotoFacts
<1>6. \A bs : Bits(bs)' <=> Bits(bs)
  BY SameBits
<1>7. AtLimit'
  BY <1>3, <1>4, <1>5, <1>6 DEF AtLimit
<1>8. ~Half'
  BY <1>3, <1>6 DEF Half, Bits
<1> QED
  BY <1>1, <1>2, <1>4, <1>7, <1>8, GotoOne DEF PhaseInv

LEMMA WriteDataOne ==
  ASSUME CtlType, PhaseInv, OneInv, NEW next, rmw[Flusher] = << >>, WriteData(next), calm',
         UNCHANGED <<ri_flags, ri_tflags, closing, todo, old>>,
         \/ fpc = "inactive" /\ next = "active"
         \/ fpc = "active" /\ "FLUSH" \in ri_flags /\ next = "flushed"
  PROVE  PhaseInv' /\ OneInv'
<1>1. fd
  BY WritesFile
<1>2. CASE DataWritten(next)
  BY <1>2, WrittenOne DEF DataWritten
<1>3. CASE LimitStops(next)
  <2>1. Alone /\ fd' = FALSE /\ Goto(next, <<Clear({"DISK"})>>) /\ "CLOSE" \notin ri_flags
    BY <1>3 DEF LimitStops, Wanted, Clear
  <2> QED
    BY <2>1, LimitOne
<1>4. CASE LimitZaps(next)
  <2>1. HeaderWritten(next) /\ Alone /\ "CLOSE" \notin ri_flags
    <3>1. ri_flags \cap {"CLOSE", "WRAP", "ZAP"} = {"ZAP"}
      BY <1>4 DEF LimitZaps
    <3>2. "CLOSE" \notin ri_flags
      BY <3>1
    <3>3. (HeaderWritten(next) /\ calm' = (calm /\ Alone)) \/ calm' = FALSE
      BY <1>4, Zenon DEF LimitZaps, Wanted
    <3> QED
      BY <3>2, <3>3, Zenon
  <2>2. fd' = TRUE /\ Goto(next, <<Set({"DISK"}), Clear({"OPEN"})>>)
    BY <2>1 DEF HeaderWritten, Set, Clear
  <2> QED
    BY <2>1, <2>2, LimitOne
<1> QED
  BY <1>1, <1>2, <1>3, <1>4 DEF WriteData, DataCrash

LEMMA WriteInactiveOne ==
  ASSUME CtlType, PhaseInv, OneInv, WriteInactive, calm'
  PROVE  PhaseInv' /\ OneInv'
<1>1. /\ rmw[Flusher] = << >> /\ fpc = "inactive"
      /\ UNCHANGED <<ri_flags, ri_tflags, closing, todo, old>>
  BY DEF WriteInactive, At, shared
<1>2. CASE WriteData("active")
  BY <1>1, <1>2, WriteDataOne
<1>3. CASE Goto("active", << >>) /\ fd' = fd
  BY <1>1, <1>3, WrittenOne
<1> QED
  BY <1>2, <1>3 DEF WriteInactive

LEMMA WriteActiveOne ==
  ASSUME CtlType, PhaseInv, OneInv, WriteActive, calm'
  PROVE  PhaseInv' /\ OneInv'
<1>1. /\ rmw[Flusher] = << >> /\ fpc = "active"
      /\ UNCHANGED <<ri_flags, ri_tflags, closing, todo, old>>
  BY DEF WriteActive, At, shared
<1>2. CASE "FLUSH" \in ri_flags /\ WriteData("flushed")
  BY <1>1, <1>2, WriteDataOne
<1>3. CASE "FLUSH" \notin ri_flags /\ Goto(AfterFlush, << >>) /\ fd' = fd
  BY <1>1, <1>3, WrittenOne
<1> QED
  BY <1>2, <1>3 DEF WriteActive

LEMMA ClearFlushOne ==
  ASSUME CtlType, PhaseInv, OneInv, ClearFlush
  PROVE  PhaseInv' /\ OneInv'
<1>1. /\ rmw[Flusher] = << >> /\ fpc = "flushed"
      /\ UNCHANGED <<ri_flags, ri_tflags, fd, closing, todo, old>>
      /\ Goto(AfterFlush, <<Clear({"FLUSH"})>>)
  BY DEF ClearFlush, At, shared, Clear
<1>2. fd /\ Bits({"CLOSE", "FLUSH"})
  BY <1>1, Short DEF PhaseInv, Quiet, Half, Opening, Closing, AtLimit, InLoop
<1>3. rmw'[Flusher] = <<Clear({"FLUSH"})>> /\ fpc' = AfterFlush
  BY <1>1, GotoFacts
<1>4. Closing'
  BY <1>1, <1>2, <1>3, SameBits DEF Closing, AfterFlush
<1>5. ~Quiet /\ ~Half /\ ~Half'
  BY <1>1, <1>2 DEF Quiet, Half, Bits
<1> QED
  BY <1>1, <1>4, <1>5, GotoOne DEF PhaseInv

LEMMA CloseOne ==
  ASSUME CtlType, PhaseInv, OneInv, Close
  PROVE  PhaseInv' /\ OneInv' /\ Bits({"CLOSE"})
<1>1. /\ rmw[Flusher] = << >> /\ fpc = "close" /\ fd' = FALSE /\ closing' = FALSE
      /\ UNCHANGED <<ri_flags, ri_tflags, todo, old>>
      /\ Goto("wait", <<Clear({"CLOSE"})>>)
  BY DEF Close, At, Clear
<1>2. Bits({"CLOSE"})
  BY <1>1, Short DEF PhaseInv, Quiet, Half, Opening, Closing, AtLimit, InLoop
<1>3. rmw'[Flusher] = <<Clear({"CLOSE"})>> /\ fpc' = "wait"
  BY <1>1, GotoFacts
<1>4. Closing'
  BY <1>1, <1>2, <1>3, SameBits DEF Closing
<1>5. ~Quiet /\ ~Half /\ ~Half'
  BY <1>1, <1>2 DEF Quiet, Half, Bits
<1> QED
  BY <1>1, <1>2, <1>4, <1>5, GotoOne DEF PhaseInv

(* The flush thread puts back a word that nobody has changed. *)
LEMMA ThreadStoreOne ==
  ASSUME CtlType, PhaseInv, OneInv, Store(Flusher)
  PROVE  PhaseInv' /\ OneInv'
<1> Flusher \in Actors /\ Flusher \notin Rbts /\ Rbts \subseteq Actors
  BY CtlAssumption DEF Actors
<1>1. /\ rmw[Flusher] # << >> /\ rmw'[Flusher] = Tail(rmw[Flusher]) /\ old'[Flusher] = NotLoaded
      /\ \A b \in Actors \ {Flusher} : rmw'[b] = rmw[b] /\ old'[b] = old[b]
      /\ UNCHANGED <<fd, fpc, closing, todo>>
      /\ Head(rmw[Flusher]).word = "flags" =>
           /\ ri_tflags' = ri_tflags
           /\ ri_flags' = (ri_flags \ Head(rmw[Flusher]).clear) \cup Head(rmw[Flusher]).set
  BY StoredWord
<1>2. /\ ri_tflags' = ri_tflags
      /\ ri_flags' = (ri_flags \ Head(rmw[Flusher]).clear) \cup Head(rmw[Flusher]).set
  BY <1>1, FlusherWord
<1>3. \A r \in Rbts : rmw'[r] = rmw[r] /\ old'[r] = old[r]
  BY <1>1
<1>4. ~Quiet /\ ~Half /\ (Alone' <=> Alone)
  BY <1>1, <1>3 DEF Quiet, Half, Alone, Idle
<1>5. ASSUME ~Half', PhaseInv' PROVE PhaseInv' /\ OneInv'
  BY <1>1, <1>2, <1>3, <1>4, <1>5, ThreadOne
<1>6. CASE rmw[Flusher] = <<Set({"DISK"}), Clear({"OPEN"})>>
  <2>1. /\ rmw'[Flusher] = <<Clear({"OPEN"})>> /\ ri_flags' = ri_flags \cup {"DISK"}
    BY <1>1, <1>2, <1>6, Short, ChangeFields DEF Set
  <2>2. \/ fd /\ ~closing /\ fpc = "wait" /\ Bits({"OPEN"})
        \/ fd /\ ~closing /\ fpc = "active" /\ Bits({"DISK"}) /\ Alone
    <3>1. \A c, d, e : <<c, d>> # <<e>>
      OBVIOUS
    <3> QED
      BY <1>4, <1>6, <3>1, Short DEF PhaseInv, Opening, Closing, AtLimit
  <2>3. \/ fd /\ ~closing /\ fpc = "wait" /\ Bits({"OPEN", "DISK"})'
        \/ fd /\ ~closing /\ fpc = "active" /\ Bits({"DISK"})' /\ Alone
    BY <2>1, <2>2 DEF Bits
  <2>4. Opening' \/ AtLimit'
    BY <1>1, <1>4, <2>1, <2>3 DEF Opening, AtLimit
  <2>5. ~Half'
    BY <2>3 DEF Half, Bits
  <2> QED
    BY <1>5, <2>4, <2>5 DEF PhaseInv
<1>7. ASSUME NEW b, rmw[Flusher] = <<Clear({b})>>
      PROVE  rmw'[Flusher] = << >> /\ ri_flags' = ri_flags \ {b}
  BY <1>1, <1>2, <1>7, Short, ChangeFields DEF Clear
<1>8. CASE Opening /\ ~(rmw[Flusher] = <<Set({"DISK"}), Clear({"OPEN"})>>)
  <2>1. /\ rmw[Flusher] = <<Clear({"OPEN"})>> /\ ~closing /\ fpc = "wait"
        /\ Bits(IF fd THEN {"OPEN", "DISK"} ELSE {"OPEN"})
    BY <1>1, <1>8 DEF Opening
  <2>2. rmw'[Flusher] = << >> /\ ri_flags' = ri_flags \ {"OPEN"}
    BY <1>7, <2>1
  <2>3. Bits(IF fd THEN {"DISK"} ELSE {})'
    BY <1>1, <2>1, <2>2 DEF Bits
  <2>4. Quiet'
    BY <1>1, <2>1, <2>2, <2>3 DEF Quiet, InLoop
  <2>5. ~Half'
    BY <2>4 DEF Quiet, Half, Bits
  <2> QED
    BY <1>5, <2>4, <2>5 DEF PhaseInv
<1>9. CASE Closing
  <2>1. \/ /\ rmw[Flusher] = <<Clear({"FLUSH"})>> /\ fd /\ Bits({"CLOSE", "FLUSH"})
           /\ fpc = IF closing THEN "close" ELSE "wait"
        \/ /\ rmw[Flusher] = <<Clear({"CLOSE"})>> /\ ~fd /\ ~closing /\ fpc = "wait"
           /\ Bits({"CLOSE"})
    BY <1>1, <1>9 DEF Closing
  <2>2. CASE rmw[Flusher] = <<Clear({"FLUSH"})>> /\ fd /\ Bits({"CLOSE", "FLUSH"})
             /\ fpc = IF closing THEN "close" ELSE "wait"
    <3>1. rmw'[Flusher] = << >> /\ ri_flags' = ri_flags \ {"FLUSH"}
      BY <1>7, <2>2
    <3>2. Bits({"CLOSE"})'
      BY <2>2, <3>1 DEF Bits
    <3>3. Closing'
      BY <1>1, <2>2, <3>1, <3>2 DEF Closing
    <3>4. ~Half'
      BY <3>2 DEF Half, Bits
    <3> QED
      BY <1>5, <3>3, <3>4 DEF PhaseInv
  <2>3. CASE /\ rmw[Flusher] = <<Clear({"CLOSE"})>> /\ ~fd /\ ~closing /\ fpc = "wait"
             /\ Bits({"CLOSE"})
    <3>1. rmw'[Flusher] = << >> /\ ri_flags' = ri_flags \ {"CLOSE"}
      BY <1>7, <2>3
    <3>2. Bits({})'
      BY <2>3, <3>1 DEF Bits
    <3>3. Quiet'
      BY <1>1, <2>3, <3>1, <3>2 DEF Quiet, InLoop
    <3>4. ~Half'
      BY <1>1, <2>3 DEF Half
    <3> QED
      BY <1>5, <3>3, <3>4 DEF PhaseInv
  <2> QED
    BY <2>1, <2>2, <2>3
<1>10. CASE AtLimit /\ ~(rmw[Flusher] = <<Set({"DISK"}), Clear({"OPEN"})>>)
  <2>1. /\ ~closing /\ Alone /\ fpc = "active" /\ Bits({"DISK"})
        /\ \/ ~fd /\ rmw[Flusher] = <<Clear({"DISK"})>>
           \/ fd /\ rmw[Flusher] = <<Clear({"OPEN"})>>
    BY <1>10 DEF AtLimit
  <2>2. /\ rmw'[Flusher] = << >>
        /\ ri_flags' = IF fd THEN ri_flags \ {"OPEN"} ELSE ri_flags \ {"DISK"}
    <3>1. CASE fd
      <4>1. rmw[Flusher] = <<Clear({"OPEN"})>>
        BY <2>1, <3>1
      <4>2. rmw'[Flusher] = << >> /\ ri_flags' = ri_flags \ {"OPEN"}
        BY <1>7, <4>1
      <4> QED
        BY <3>1, <4>2
    <3>2. CASE ~fd
      <4>1. rmw[Flusher] = <<Clear({"DISK"})>>
        BY <2>1, <3>2
      <4>2. rmw'[Flusher] = << >> /\ ri_flags' = ri_flags \ {"DISK"}
        BY <1>7, <4>1
      <4> QED
        BY <3>2, <4>2
    <3> QED
      BY <3>1, <3>2
  <2>3. Bits(IF fd THEN {"DISK"} ELSE {})'
    BY <1>1, <2>1, <2>2 DEF Bits
  <2>4. Quiet'
    BY <1>1, <1>4, <2>1, <2>2, <2>3 DEF Quiet, InLoop
  <2>5. ~Half'
    BY <2>4 DEF Quiet, Half, Bits
  <2> QED
    BY <1>5, <2>4, <2>5 DEF PhaseInv
<1> QED
  BY <1>4, <1>6, <1>8, <1>9, <1>10 DEF PhaseInv

(* Calm is not restored. *)
LEMMA StaysCalm ==
  ASSUME Next, calm'
  PROVE  /\ calm
         /\ \A r \in Rbts, options \in Commands : Begin(r, options) => Settled
<1>1. \A r \in Rbts, options \in Commands : Begin(r, options) => calm' = (calm /\ Settled)
  BY Zenon DEF Begin, Wanted
<1>2. \A r \in Rbts : RbtStep(r) => calm' = calm
  BY DEF RbtStep, CtrlWrap, CtrlZap, CtrlSize, CtrlOpen, CtrlClose, CtrlTflags, Accept, Refused,
         Load, Store, history
<1>3. \A l : WriteData(l) => calm' = calm \/ calm' = (calm /\ Alone) \/ calm' = FALSE
  BY Zenon DEF WriteData, DataWritten, DataCrash, LimitStops, LimitZaps, Wanted
<1>4. FlusherStep => calm' = calm \/ calm' = (calm /\ Alone) \/ calm' = FALSE
  <2>1. WriteInactive \/ WriteActive =>
          calm' = calm \/ calm' = (calm /\ Alone) \/ calm' = FALSE
    BY <1>3, Zenon DEF WriteInactive, WriteActive
  <2>2. ASSUME Wake \/ LookOpen \/ LookDisk \/ WriteHeader \/ ClearFlush \/ Close
               \/ Load(Flusher) \/ Store(Flusher)
        PROVE  calm' = calm
    BY <2>2 DEF Wake, LookOpen, LookDisk, Look, WriteHeader, ClearFlush, Close, Load, Store, history
  <2> QED
    BY <2>1, <2>2, Zenon DEF FlusherStep
<1> QED
  BY <1>1, <1>2, <1>4, Zenon DEF Next

LEMMA InitPhase == Init => CalmPhase
<1> SUFFICES ASSUME Init PROVE PhaseInv /\ OneInv
  BY DEF CalmPhase
<1> Flusher \in Actors /\ Rbts \subseteq Actors
  BY DEF Actors
<1>1. Quiet
  BY DEF Init, Quiet, Bits, InLoop
<1>2. ~Half
  BY <1>1 DEF Init, Half
<1>3. \A r \in Rbts : Idle(r)
  BY DEF Init, Idle
<1>4. \A r \in Rbts : RbtOK(r)
  BY <1>3, IdleOK
<1>5. \A a \in Actors : old[a] = NotLoaded
  BY DEF Init
<1> QED
  BY <1>1, <1>2, <1>3, <1>4, <1>5 DEF PhaseInv, OneInv

LEMMA StepPhase == CtlType /\ CalmPhase /\ [Next]_vars => CalmPhase'
<1> SUFFICES ASSUME CtlType, CalmPhase, [Next]_vars, calm' PROVE PhaseInv' /\ OneInv'
  BY DEF CalmPhase
<1>1. CASE Next
  <2>1. PhaseInv /\ OneInv
    BY <1>1, StaysCalm DEF CalmPhase
  <2>2. ASSUME NEW r \in Rbts, NEW options \in Commands, Begin(r, options)
        PROVE  PhaseInv' /\ OneInv'
    BY <1>1, <2>1, <2>2, StaysCalm, BeginOne
  <2>3. ASSUME NEW r \in Rbts, RbtStep(r)
        PROVE  PhaseInv' /\ OneInv'
    <3>1. r \in Actors
      BY DEF Actors
    <3>2. CASE Refused(r)
      BY <2>1, <3>2, RefusedOne
    <3>3. CASE Load(r)
      BY <2>1, <3>1, <3>3, LoadOne
    <3>4. CASE Store(r)
      BY <2>1, <3>4, RbtStoreOne
    <3> QED
      BY <2>1, <2>3, <3>2, <3>3, <3>4, CtrlOne DEF RbtStep
  <2>4. CASE FlusherStep
    <3>1. Flusher \in Actors
      BY DEF Actors
    <3>2. CASE WriteInactive \/ WriteActive
      BY <2>1, <3>2, WriteInactiveOne, WriteActiveOne
    <3>3. CASE Load(Flusher) \/ Store(Flusher)
      BY <2>1, <3>1, <3>3, LoadOne, ThreadStoreOne
    <3>4. CASE WriteHeader \/ ClearFlush \/ Close
      BY <2>1, <3>4, WriteHeaderOne, ClearFlushOne, CloseOne
    <3> QED
      BY <2>1, <2>4, <3>2, <3>3, <3>4, LooksOne DEF FlusherStep
  <2> QED
    BY <1>1, <2>2, <2>3, <2>4 DEF Next
<1>2. CASE UNCHANGED vars
  <2>1. /\ UNCHANGED <<ri_flags, ri_tflags, fd, fpc, closing, todo, rmw, old, calm>>
    BY <1>2 DEF vars, shared, thread, history
  <2>2. PhaseInv /\ OneInv
    BY <2>1 DEF CalmPhase
  <2>3. \A bs : Bits(bs)' <=> Bits(bs)
    BY <2>1, SameBits
  <2>4. (Alone' <=> Alone) /\ \A r \in Rbts : Idle(r)' <=> Idle(r)
    BY <2>1 DEF Alone, Idle
  <2>5. (Quiet' <=> Quiet) /\ (Half' <=> Half)
    BY <2>1, <2>3, <2>4 DEF Quiet, Half
  <2>6. (Opening => Opening') /\ (Closing => Closing') /\ (AtLimit => AtLimit')
    BY <2>1, <2>3, <2>4 DEF Opening, Closing, AtLimit
  <2>7. \A r \in Rbts : RbtOK(r) => RbtOK(r)'
    BY <2>1, <2>5 DEF RbtOK
  <2> QED
    BY <2>1, <2>2, <2>4, <2>5, <2>6, <2>7 DEF PhaseInv, OneInv, WordOf
<1> QED
  BY <1>1, <1>2

(* For any number of rbt processes and commands: as long as each command   *)
(* begins in a settled state and no limit is reached while one is under    *)
(* way, the flush thread never writes a buffer without a file.             *)
THEOREM CalmNeverCrashes == Spec => []CalmSurvives
<1>1. CalmPhase => CalmSurvives
  <2>1. PhaseInv => fpc # "crashed"
    BY DEF PhaseInv, Quiet, Half, Opening, Closing, AtLimit, InLoop
  <2> QED
    BY <2>1 DEF CalmPhase, CalmSurvives
<1> QED
  BY <1>1, InitType, StepType, InitPhase, StepPhase, PTL DEF Spec

-----------------------------------------------------------------------------
(* What commands ask for *)

LEMMA RecFacts ==
  \A f, t, s, x :
    /\ Rec(f, t, s, x).flags = f /\ Rec(f, t, s, x).tflags = t
    /\ Rec(f, t, s, x).fsize = s /\ Rec(f, t, s, x).state = x
    /\ \A y : [Rec(f, t, s, x) EXCEPT !.flags = y] = Rec(y, t, s, x)
    /\ \A y : [Rec(f, t, s, x) EXCEPT !.tflags = y] = Rec(f, y, s, x)
    /\ \A y : [Rec(f, t, s, x) EXCEPT !.fsize = y] = Rec(f, t, y, x)
    /\ \A y : [Rec(f, t, s, x) EXCEPT !.state = y] = Rec(f, t, s, y)
BY DEF Rec

(* A request that is refused ends the command, and no other does. *)
LEMMA HonourRefused ==
  ASSUME NEW f, NEW t, NEW s, NEW q
  PROVE  /\ Honour(Rec(f, t, s, "refused"), q) = Rec(f, t, s, "refused")
         /\ \/ q \in {"wrap_on", "wrap_off"} /\ "ZAP" \in f
            \/ q \in {"zap_on", "zap_off"} /\ "WRAP" \in f
            \/ q = "open" /\ "DISK" \in f
            \/ q = "close" /\ "DISK" \notin f
            => Honour(Rec(f, t, s, "go"), q) = Rec(f, t, s, "refused")
BY RecFacts DEF Honour

LEMMA HonourDone ==
  \A f, t, s :
    /\ "ZAP" \notin f =>
         Honour(Rec(f, t, s, "go"), "wrap_on") = Rec(f \cup {"WRAP"}, t, s, "go")
    /\ "ZAP" \notin f =>
         Honour(Rec(f, t, s, "go"), "wrap_off") = Rec(f \ {"WRAP"}, t, s, "go")
    /\ "WRAP" \notin f =>
         Honour(Rec(f, t, s, "go"), "zap_on") = Rec(f \cup {"ZAP"}, t, s, "go")
    /\ "WRAP" \notin f =>
         Honour(Rec(f, t, s, "go"), "zap_off") = Rec(f \ {"ZAP"}, t, s, "go")
    /\ "DISK" \notin f =>
         Honour(Rec(f, t, s, "go"), "open") = Rec(f \cup {"DISK"}, t, s, "go")
<1> TAKE f, t, s
<1> DEFINE w == Rec(f, t, s, "go")
<1>1. w.flags = f /\ w.tflags = t /\ w.fsize = s /\ w.state = "go"
  BY RecFacts
<1>2. /\ \A y : [w EXCEPT !.flags = y] = Rec(y, t, s, "go")
      /\ \A y : [w EXCEPT !.tflags = y] = Rec(f, y, s, "go")
      /\ \A y : [w EXCEPT !.fsize = y] = Rec(f, t, y, "go")
  BY RecFacts
<1> HIDE DEF w
<1>3. "ZAP" \notin f => Honour(w, "wrap_on") = Rec(f \cup {"WRAP"}, t, s, "go")
  BY <1>1, <1>2 DEF Honour
<1>4. "ZAP" \notin f => Honour(w, "wrap_off") = Rec(f \ {"WRAP"}, t, s, "go")
  BY <1>1, <1>2 DEF Honour
<1>5. "WRAP" \notin f => Honour(w, "zap_on") = Rec(f \cup {"ZAP"}, t, s, "go")
  BY <1>1, <1>2 DEF Honour
<1>6. "WRAP" \notin f => Honour(w, "zap_off") = Rec(f \ {"ZAP"}, t, s, "go")
  BY <1>1, <1>2 DEF Honour
<1>7. "DISK" \notin f => Honour(w, "open") = Rec(f \cup {"DISK"}, t, s, "go")
  BY <1>1, <1>2 DEF Honour
<1> QED
  BY <1>3, <1>4, <1>5, <1>6, <1>7 DEF w

LEMMA HonourClose ==
  ASSUME NEW f, NEW t, NEW s, "DISK" \in f
  PROVE  Honour(Rec(f, t, s, "go"), "close") = Rec(f \ {"DISK"}, t, s, "go")
<1> DEFINE w == Rec(f, t, s, "go")
<1>1. w.flags = f /\ w.state = "go"
  BY RecFacts
<1>2. \A y : [w EXCEPT !.flags = y] = Rec(y, t, s, "go")
  BY RecFacts
<1> HIDE DEF w
<1>3. Honour(w, "close") = Rec(f \ {"DISK"}, t, s, "go")
  BY <1>1, <1>2 DEF Honour
<1> QED
  BY <1>3 DEF w

LEMMA HonourPlain ==
  \A f, t, s :
    /\ Honour(Rec(f, t, s, "go"), "size") = Rec(f, t, "given", "go")
    /\ Honour(Rec(f, t, s, "go"), "set") = Rec(f, t \cup {"t"}, s, "go")
    /\ Honour(Rec(f, t, s, "go"), "clear") = Rec(f, t \ {"t"}, s, "go")
<1> TAKE f, t, s
<1> DEFINE w == Rec(f, t, s, "go")
<1>1. w.flags = f /\ w.tflags = t /\ w.fsize = s /\ w.state = "go"
  BY RecFacts
<1>2. /\ \A y : [w EXCEPT !.flags = y] = Rec(y, t, s, "go")
      /\ \A y : [w EXCEPT !.tflags = y] = Rec(f, y, s, "go")
      /\ \A y : [w EXCEPT !.fsize = y] = Rec(f, t, y, "go")
  BY RecFacts
<1> HIDE DEF w
<1>3. Honour(w, "size") = Rec(f, t, "given", "go")
  BY <1>1, <1>2 DEF Honour
<1>4. Honour(w, "set") = Rec(f, t \cup {"t"}, s, "go")
  BY <1>1, <1>2 DEF Honour
<1>5. Honour(w, "clear") = Rec(f, t \ {"t"}, s, "go")
  BY <1>1, <1>2 DEF Honour
<1> QED
  BY <1>3, <1>4, <1>5 DEF w

(* Once the first of the requests is honoured, the others follow. *)
LEMMA HonouredFirst ==
  ASSUME NEW w, NEW S, S \subseteq Options, NEW q \in S, \A p \in S : Turn(q) <= Turn(p)
  PROVE  Honoured(w, S) = Honoured(Honour(w, q), S \ {q})
<1>1. \A p, v : p # q => IfAsked(v, p, S) = IfAsked(v, p, S \ {q})
  BY DEF IfAsked
<1>2. \A v : IfAsked(v, q, S) = Honour(v, q) /\ IfAsked(v, q, S \ {q}) = v
  BY DEF IfAsked
<1>3. \A p, v : p \notin S => IfAsked(v, p, S) = v /\ IfAsked(v, p, S \ {q}) = v
  BY DEF IfAsked
<1>4. CASE q = "wrap_on"
  BY <1>1, <1>2, <1>4 DEF Honoured
<1>5. CASE q = "wrap_off"
  <2>1. "wrap_on" \notin S
    BY <1>5, Turns
  <2> QED
    BY <1>1, <1>2, <1>3, <1>5, <2>1 DEF Honoured
<1>6. CASE q = "zap_on"
  <2>1. "wrap_on" \notin S /\ "wrap_off" \notin S
    BY <1>6, Turns
  <2> QED
    BY <1>1, <1>2, <1>3, <1>6, <2>1 DEF Honoured
<1>7. CASE q = "zap_off"
  <2>1. "wrap_on" \notin S /\ "wrap_off" \notin S /\ "zap_on" \notin S
    BY <1>7, Turns
  <2> QED
    BY <1>1, <1>2, <1>3, <1>7, <2>1 DEF Honoured
<1>8. ASSUME q \in {"size", "open", "close", "set", "clear"}
      PROVE  \A p \in {"wrap_on", "wrap_off", "zap_on", "zap_off"} : p \notin S
  BY <1>8, Turns
<1>9. CASE q = "size"
  BY <1>1, <1>2, <1>3, <1>8, <1>9 DEF Honoured
<1>10. CASE q = "open"
  <2>1. "size" \notin S
    BY <1>10, Turns
  <2> QED
    BY <1>1, <1>2, <1>3, <1>8, <1>10, <2>1 DEF Honoured
<1>11. CASE q = "close"
  <2>1. "size" \notin S /\ "open" \notin S
    BY <1>11, Turns
  <2> QED
    BY <1>1, <1>2, <1>3, <1>8, <1>11, <2>1 DEF Honoured
<1>12. CASE q = "set"
  <2>1. "size" \notin S /\ "open" \notin S /\ "close" \notin S
    BY <1>12, Turns
  <2> QED
    BY <1>1, <1>2, <1>3, <1>8, <1>12, <2>1 DEF Honoured
<1>13. CASE q = "clear"
  <2>1. "size" \notin S /\ "open" \notin S /\ "close" \notin S /\ "set" \notin S
    BY <1>13, Turns
  <2> QED
    BY <1>1, <1>2, <1>3, <1>8, <1>13, <2>1 DEF Honoured
<1> QED
  BY <1>4, <1>5, <1>6, <1>7, <1>9, <1>10, <1>11, <1>12, <1>13 DEF Options

LEMMA HonouredNone ==
  ASSUME NEW w
  PROVE  Honoured(w, {}) = w
<1>1. \A p, v : IfAsked(v, p, {}) = v
  BY DEF IfAsked
<1> QED
  BY <1>1 DEF Honoured

LEMMA HonouredRefused ==
  ASSUME NEW f, NEW t, NEW s, NEW S
  PROVE  Honoured(Rec(f, t, s, "refused"), S) = Rec(f, t, s, "refused")
<1>1. \A p : IfAsked(Rec(f, t, s, "refused"), p, S) = Rec(f, t, s, "refused")
  BY HonourRefused DEF IfAsked
<1> QED
  BY <1>1 DEF Honoured

(* Commands that leave the flags alone. *)
LEMMA HonouredPlain ==
  ASSUME NEW S, S \cap FlagRequests = {}, NEW t, NEW s
  PROVE  \E t2, s2 : \A f : Honoured(Rec(f, t, s, "go"), S) = Rec(f, t2, s2, "go")
<1>1. \A q, v : q \in FlagRequests => IfAsked(v, q, S) = v
  BY DEF IfAsked
<1>2. \A w : Honoured(w, S) = IfAsked(IfAsked(IfAsked(w, "size", S), "set", S), "clear", S)
  BY <1>1 DEF Honoured, FlagRequests
<1> DEFINE s2 == IF "size" \in S THEN "given" ELSE s
           t1 == IF "set" \in S THEN t \cup {"t"} ELSE t
           t2 == IF "clear" \in S THEN t1 \ {"t"} ELSE t1
<1>3. \A f : IfAsked(Rec(f, t, s, "go"), "size", S) = Rec(f, t, s2, "go")
  BY HonourPlain DEF IfAsked
<1>4. \A f, v : IfAsked(Rec(f, t, v, "go"), "set", S) = Rec(f, t1, v, "go")
  BY HonourPlain DEF IfAsked
<1>5. \A f, v : IfAsked(Rec(f, t1, v, "go"), "clear", S) = Rec(f, t2, v, "go")
  <2> HIDE DEF t1
  <2> QED
    BY HonourPlain DEF IfAsked
<1> HIDE DEF s2, t1, t2
<1>6. \A f : Honoured(Rec(f, t, s, "go"), S) = Rec(f, t2, s2, "go")
  BY <1>2, <1>3, <1>4, <1>5
<1> QED
  BY <1>6

LEMMA AskedFacts ==
  \A F :
    /\ Asked(F \cup {"WRAP"}) = Asked(F) \cup {"WRAP"} /\ Asked(F \ {"WRAP"}) = Asked(F) \ {"WRAP"}
    /\ Asked(F \cup {"ZAP"}) = Asked(F) \cup {"ZAP"} /\ Asked(F \ {"ZAP"}) = Asked(F) \ {"ZAP"}
    /\ Asked(F \cup {"OPEN"}) = Asked(F) \cup {"DISK"}
    /\ "OPEN" \notin F => Asked((F \ {"DISK"}) \cup {"FLUSH", "CLOSE"}) = Asked(F) \ {"DISK"}
    /\ "ZAP" \in Asked(F) <=> "ZAP" \in F
    /\ "WRAP" \in Asked(F) <=> "WRAP" \in F
    /\ "DISK" \in Asked(F) <=> "OPEN" \in F \/ "DISK" \in F
<1> TAKE F
<1>1. /\ "ZAP" \in Asked(F) <=> "ZAP" \in F
      /\ "WRAP" \in Asked(F) <=> "WRAP" \in F
      /\ "DISK" \in Asked(F) <=> "OPEN" \in F \/ "DISK" \in F
  BY DEF Asked
<1>2. Asked(F \cup {"WRAP"}) = Asked(F) \cup {"WRAP"} /\ Asked(F \ {"WRAP"}) = Asked(F) \ {"WRAP"}
  BY DEF Asked
<1>3. Asked(F \cup {"ZAP"}) = Asked(F) \cup {"ZAP"} /\ Asked(F \ {"ZAP"}) = Asked(F) \ {"ZAP"}
  BY DEF Asked
<1>4. Asked(F \cup {"OPEN"}) = Asked(F) \cup {"DISK"}
  BY DEF Asked
<1>5. "OPEN" \notin F => Asked((F \ {"DISK"}) \cup {"FLUSH", "CLOSE"}) = Asked(F) \ {"DISK"}
  BY DEF Asked
<1> QED
  BY <1>1, <1>2, <1>3, <1>4, <1>5

LEMMA MadeFacts ==
  /\ \A w, b : Made(w, << >>, b) = b
  /\ \A w, b, c : Made(w, <<c>>, b) = Changed(w, c, b)
  /\ \A w, b, c, d : Made(w, <<c, d>>, b) = Changed(w, d, Changed(w, c, b))
<1>1. \A w, b : Made(w, << >>, b) = b
  BY DEF Made
<1>2. \A c : <<c>> # << >> /\ Len(<<c>>) = 1 /\ <<c>>[1] = c
  OBVIOUS
<1>3. \A c, d : <<c, d>> # << >> /\ Len(<<c, d>>) = 2 /\ <<c, d>>[1] = c /\ <<c, d>>[2] = d
  OBVIOUS
<1>4. \A w, b, c : Made(w, <<c>>, b) = Changed(w, c, b)
  BY <1>2 DEF Made
<1>5. \A w, b, c, d : Made(w, <<c, d>>, b) = Changed(w, d, Changed(w, c, b))
  BY <1>3 DEF Made
<1> QED
  BY <1>1, <1>4, <1>5

(* The first of some changes is made. *)
LEMMA MadeFirst ==
  ASSUME NEW cs, (\E c : cs = <<c>>) \/ (\E c, d : cs = <<c, d>>), NEW w, NEW b
  PROVE  Made(w, cs, b) = Made(w, Tail(cs), Changed(w, Head(cs), b))
<1>1. CASE \E c : cs = <<c>>
  BY <1>1, Short, MadeFacts
<1>2. CASE \E c, d : cs = <<c, d>>
  BY <1>2, Short, MadeFacts
<1> QED
  BY <1>1, <1>2

(* Changes of the traffic word leave the flags, and the other way round. *)
LEMMA OtherWord ==
  /\ \A b : \A cs \in TChanges : Made("flags", cs, b) = b
  /\ \A b : \A cs \in ModeChanges \cup {OpenChange, CloseChange, CloseRest, << >>} :
       Made("tflags", cs, b) = b
<1>1. \A w, c, b : c.word # w => Changed(w, c, b) = b
  BY DEF Changed
<1>2. ASSUME NEW cs \in TChanges, NEW b PROVE Made("flags", cs, b) = b
  <2>1. PICK c : cs = <<c>> /\ c.word = "tflags"
    BY <1>2, SingleChanges
  <2>2. Changed("flags", c, b) = b
    BY <1>1, <2>1
  <2> QED
    BY <2>1, <2>2, MadeFacts
<1>3. ASSUME NEW cs \in ModeChanges, NEW b PROVE Made("tflags", cs, b) = b
  <2>1. PICK c : cs = <<c>> /\ c.word = "flags"
    BY <1>3, SingleChanges
  <2>2. Changed("tflags", c, b) = b
    BY <1>1, <2>1
  <2> QED
    BY <2>1, <2>2, MadeFacts
<1>4. \A bits, b : /\ Changed("tflags", Set(bits), b) = b
                  /\ Changed("tflags", Clear(bits), b) = b
  BY <1>1, ChangeFields DEF Set, Clear
<1>5. \A b : Made("tflags", OpenChange, b) = b /\ Made("tflags", CloseRest, b) = b
  BY <1>4, MadeFacts DEF OpenChange, CloseRest
<1>6. \A b : Made("tflags", CloseChange, b) = b
  BY <1>4, MadeFacts DEF CloseChange
<1>7. \A b : Made("tflags", << >>, b) = b
  BY MadeFacts
<1> QED
  BY <1>2, <1>3, <1>5, <1>6, <1>7

(* After a step of rbt r: what its requests are to do is the same as       *)
(* before.                                                                 *)
LEMMA WantStep ==
  ASSUME WantInv, OneInv, NEW r \in Rbts, ~Idle(r), want' = want,
         \A s \in Rbts \ {r} : todo'[s] = todo[s] /\ rmw'[s] = rmw[s],
         NEW w, w = SettingsOf(ri_flags', ri_tflags', fsize', rmw'[Flusher], rmw'[r]),
         [Honoured(Settings(rmw[r]), todo[r]) EXCEPT !.state = "go"] =
           [Honoured(w, todo'[r]) EXCEPT !.state = "go"]
  PROVE  WantInv'
<1>1. want' = [Honoured(w, todo'[r]) EXCEPT !.state = "go"]
  BY DEF WantInv
<1>2. \A s \in Rbts \ {r} : Idle(s)'
  BY DEF OneInv, Idle
<1>3. Idle(r)' => want' = Settings(<< >>)'
  <2> SUFFICES ASSUME todo'[r] = {}, rmw'[r] = << >> PROVE want' = Settings(<< >>)'
    BY DEF Idle
  <2>1. Honoured(w, todo'[r]) = w
    BY HonouredNone
  <2>2. [w EXCEPT !.state = "go"] = w
    BY RecFacts DEF SettingsOf
  <2>3. w = Settings(<< >>)'
    BY DEF Settings
  <2> QED
    BY <1>1, <2>1, <2>2, <2>3
<1>4. want' = [Honoured(Settings(rmw[r]), todo[r]) EXCEPT !.state = "go"]'
  BY <1>1 DEF Settings
<1>5. Alone' => want' = Settings(<< >>)'
  BY <1>3 DEF Alone
<1>6. \A s \in Rbts : ~Idle(s)' => s = r
  BY <1>2
<1>7. \A s \in Rbts : ~Idle(s)' =>
        want' = [Honoured(Settings(rmw[s]), todo[s]) EXCEPT !.state = "go"]'
  BY <1>4, <1>6
<1> QED
  BY <1>5, <1>7 DEF WantInv

LEMMA AcceptWant ==
  ASSUME CtlType, WantInv, OneInv, NEW r \in Rbts, NEW q, Request(r, q), NEW cs,
         Accept(r, q, cs),
         SettingsOf(ri_flags, ri_tflags, fsize', rmw[Flusher], cs) = Honour(Settings(<< >>), q)
  PROVE  WantInv'
<1>1. Flusher \notin Rbts /\ r \in Actors /\ Rbts \subseteq Actors /\ Flusher \in Actors
  BY CtlAssumption DEF Actors
<1>2. /\ UNCHANGED <<ri_flags, ri_tflags, want>>
      /\ todo' = [todo EXCEPT ![r] = todo[r] \ {q}]
      /\ rmw' = [rmw EXCEPT ![r] = cs]
  BY DEF Accept, history
<1>3. /\ todo'[r] = todo[r] \ {q} /\ rmw'[r] = cs /\ rmw'[Flusher] = rmw[Flusher]
      /\ \A s \in Rbts \ {r} : todo'[s] = todo[s] /\ rmw'[s] = rmw[s]
  BY <1>1, <1>2 DEF CtlType
<1>4. /\ rmw[r] = << >> /\ todo[r] \subseteq Options /\ q \in todo[r]
      /\ \A p \in todo[r] : Turn(q) <= Turn(p)
  BY DEF Request, CtlType
<1>5. ~Idle(r)
  BY <1>4 DEF Idle
<1> DEFINE w == SettingsOf(ri_flags', ri_tflags', fsize', rmw'[Flusher], rmw'[r])
<1>6. w = Honour(Settings(<< >>), q)
  BY <1>2, <1>3
<1>7. Honoured(Settings(rmw[r]), todo[r]) = Honoured(Honour(Settings(rmw[r]), q), todo[r] \ {q})
  BY <1>4, HonouredFirst
<1>8. Honoured(Settings(rmw[r]), todo[r]) = Honoured(w, todo'[r])
  BY <1>3, <1>4, <1>6, <1>7
<1>9. w = SettingsOf(ri_flags', ri_tflags', fsize', rmw'[Flusher], rmw'[r])
  OBVIOUS
<1> HIDE DEF w
<1> QED
  BY <1>2, <1>3, <1>5, <1>8, <1>9, WantStep

(* Settings when the flush thread has no change to make. *)
LEMMA QuietSettings ==
  ASSUME Quiet
  PROVE  /\ Settings(<< >>) = Rec(Asked(ri_flags), ri_tflags, fsize, "go")
         /\ "OPEN" \notin ri_flags
         /\ \A s : \A cs \in ModeChanges \cup {OpenChange, CloseChange} :
              SettingsOf(ri_flags, ri_tflags, s, rmw[Flusher], cs) =
                Rec(Asked(Made("flags", cs, ri_flags)), ri_tflags, s, "go")
<1>1. rmw[Flusher] = << >> /\ "OPEN" \notin ri_flags
  BY DEF Quiet, Bits
<1>2. Settings(<< >>) = Rec(Asked(ri_flags), ri_tflags, fsize, "go")
  BY <1>1, MadeFacts DEF Settings, SettingsOf
<1>3. ASSUME NEW cs \in ModeChanges \cup {OpenChange, CloseChange}, NEW s
      PROVE  SettingsOf(ri_flags, ri_tflags, s, rmw[Flusher], cs) =
               Rec(Asked(Made("flags", cs, ri_flags)), ri_tflags, s, "go")
  <2>1. Made("tflags", cs, ri_tflags) = ri_tflags
    BY OtherWord
  <2>2. Made("flags", rmw[Flusher], Made("flags", cs, ri_flags)) = Made("flags", cs, ri_flags)
    BY <1>1, MadeFacts
  <2> QED
    BY <2>1, <2>2 DEF SettingsOf
<1> QED
  BY <1>1, <1>2, <1>3

LEMMA MadeFlags ==
  /\ \A bits, F : Made("flags", <<SetBits("flags", bits)>>, F) = F \cup bits
  /\ \A bits, F : Made("flags", <<ClearBits("flags", bits)>>, F) = F \ bits
  /\ \A b, c, F : Made("flags", <<ClearBits("flags", b), SetBits("flags", c)>>, F) = (F \ b) \cup c
  /\ \A bits, F : Made("tflags", <<SetBits("tflags", bits)>>, F) = F \cup bits
  /\ \A bits, F : Made("tflags", <<ClearBits("tflags", bits)>>, F) = F \ bits
<1>1. \A word, bits, F : /\ Changed(word, SetBits(word, bits), F) = F \cup bits
                         /\ Changed(word, ClearBits(word, bits), F) = F \ bits
  BY ChangeFields DEF Changed
<1>2. \A word, bits, F : /\ Made(word, <<SetBits(word, bits)>>, F) = F \cup bits
                         /\ Made(word, <<ClearBits(word, bits)>>, F) = F \ bits
  BY <1>1, MadeFacts
<1>3. \A b, c, F : Made("flags", <<ClearBits("flags", b), SetBits("flags", c)>>, F) = (F \ b) \cup c
  BY <1>1, MadeFacts
<1> QED
  BY <1>2, <1>3

(* A request that changes flags. *)
LEMMA FlagsWant ==
  ASSUME CtlType, OneInv, WantInv, NEW r \in Rbts, NEW q \in FlagRequests, Request(r, q),
         NEW cs \in ModeChanges \cup {OpenChange, CloseChange}, Accept(r, q, cs), fsize' = fsize,
         NEW G, Made("flags", cs, ri_flags) = G,
         Honour(Rec(Asked(ri_flags), ri_tflags, fsize, "go"), q) =
           Rec(Asked(G), ri_tflags, fsize, "go")
  PROVE  WantInv'
<1>1. Quiet
  BY DEF OneInv, RbtOK, Request
<1>2. Settings(<< >>) = Rec(Asked(ri_flags), ri_tflags, fsize, "go")
  BY <1>1, QuietSettings
<1>3. SettingsOf(ri_flags, ri_tflags, fsize', rmw[Flusher], cs) =
        Rec(Asked(Made("flags", cs, ri_flags)), ri_tflags, fsize', "go")
  BY <1>1, QuietSettings
<1>4. SettingsOf(ri_flags, ri_tflags, fsize', rmw[Flusher], cs) = Honour(Settings(<< >>), q)
  BY <1>2, <1>3
<1> QED
  BY <1>4, AcceptWant

LEMMA CtrlWant ==
  ASSUME CtlType, PhaseInv, OneInv, WantInv, NEW r \in Rbts,
         \/ CtrlWrap(r) \/ CtrlZap(r) \/ CtrlSize(r) \/ CtrlOpen(r) \/ CtrlClose(r)
         \/ CtrlTflags(r)
  PROVE  WantInv'
<1>1. CASE CtrlWrap(r)
  <2>1. PICK q \in {"wrap_on", "wrap_off"} :
          /\ Request(r, q) /\ "ZAP" \notin ri_flags /\ fsize' = fsize
          /\ Accept(r, q, <<IF q = "wrap_on" THEN SetBits("flags", {"WRAP"})
                            ELSE ClearBits("flags", {"WRAP"})>>)
    BY <1>1 DEF CtrlWrap
  <2>2. "ZAP" \notin Asked(ri_flags)
    BY <2>1, AskedFacts
  <2>3. CASE q = "wrap_on"
    <3>1. <<Set({"WRAP"})>> \in ModeChanges \cup {OpenChange, CloseChange} /\ "wrap_on" \in FlagRequests
      BY DEF ModeChanges, FlagRequests
    <3>2. Made("flags", <<Set({"WRAP"})>>, ri_flags) = ri_flags \cup {"WRAP"}
      BY MadeFlags DEF Set
    <3>3. Asked(ri_flags \cup {"WRAP"}) = Asked(ri_flags) \cup {"WRAP"}
      BY <2>2, AskedFacts
    <3>4. Honour(Rec(Asked(ri_flags), ri_tflags, fsize, "go"), "wrap_on") =
            Rec(Asked(ri_flags) \cup {"WRAP"}, ri_tflags, fsize, "go")
      BY <2>2, HonourDone
    <3>5. Request(r, "wrap_on") /\ Accept(r, "wrap_on", <<Set({"WRAP"})>>)
      BY <2>1, <2>3 DEF Set
    <3> QED
      BY <2>1, <3>1, <3>2, <3>3, <3>4, <3>5, FlagsWant
  <2>4. CASE q = "wrap_off"
    <3>1. <<Clear({"WRAP"})>> \in ModeChanges \cup {OpenChange, CloseChange} /\ "wrap_off" \in FlagRequests
      BY DEF ModeChanges, FlagRequests
    <3>2. Made("flags", <<Clear({"WRAP"})>>, ri_flags) = ri_flags \ {"WRAP"}
      BY MadeFlags DEF Clear
    <3>3. Asked(ri_flags \ {"WRAP"}) = Asked(ri_flags) \ {"WRAP"}
      BY <2>2, AskedFacts
    <3>4. Honour(Rec(Asked(ri_flags), ri_tflags, fsize, "go"), "wrap_off") =
            Rec(Asked(ri_flags) \ {"WRAP"}, ri_tflags, fsize, "go")
      BY <2>2, HonourDone
    <3>5. Request(r, "wrap_off") /\ Accept(r, "wrap_off", <<Clear({"WRAP"})>>)
      BY <2>1, <2>4 DEF Clear
    <3> QED
      BY <2>1, <3>1, <3>2, <3>3, <3>4, <3>5, FlagsWant
  <2> QED
    BY <2>3, <2>4
<1>2. CASE CtrlZap(r)
  <2>1. PICK q \in {"zap_on", "zap_off"} :
          /\ Request(r, q) /\ "WRAP" \notin ri_flags /\ fsize' = fsize
          /\ Accept(r, q, <<IF q = "zap_on" THEN SetBits("flags", {"ZAP"})
                            ELSE ClearBits("flags", {"ZAP"})>>)
    BY <1>2 DEF CtrlZap
  <2>2. "WRAP" \notin Asked(ri_flags)
    BY <2>1, AskedFacts
  <2>3. CASE q = "zap_on"
    <3>1. <<Set({"ZAP"})>> \in ModeChanges \cup {OpenChange, CloseChange} /\ "zap_on" \in FlagRequests
      BY DEF ModeChanges, FlagRequests
    <3>2. Made("flags", <<Set({"ZAP"})>>, ri_flags) = ri_flags \cup {"ZAP"}
      BY MadeFlags DEF Set
    <3>3. Asked(ri_flags \cup {"ZAP"}) = Asked(ri_flags) \cup {"ZAP"}
      BY <2>2, AskedFacts
    <3>4. Honour(Rec(Asked(ri_flags), ri_tflags, fsize, "go"), "zap_on") =
            Rec(Asked(ri_flags) \cup {"ZAP"}, ri_tflags, fsize, "go")
      BY <2>2, HonourDone
    <3>5. Request(r, "zap_on") /\ Accept(r, "zap_on", <<Set({"ZAP"})>>)
      BY <2>1, <2>3 DEF Set
    <3> QED
      BY <2>1, <3>1, <3>2, <3>3, <3>4, <3>5, FlagsWant
  <2>4. CASE q = "zap_off"
    <3>1. <<Clear({"ZAP"})>> \in ModeChanges \cup {OpenChange, CloseChange} /\ "zap_off" \in FlagRequests
      BY DEF ModeChanges, FlagRequests
    <3>2. Made("flags", <<Clear({"ZAP"})>>, ri_flags) = ri_flags \ {"ZAP"}
      BY MadeFlags DEF Clear
    <3>3. Asked(ri_flags \ {"ZAP"}) = Asked(ri_flags) \ {"ZAP"}
      BY <2>2, AskedFacts
    <3>4. Honour(Rec(Asked(ri_flags), ri_tflags, fsize, "go"), "zap_off") =
            Rec(Asked(ri_flags) \ {"ZAP"}, ri_tflags, fsize, "go")
      BY <2>2, HonourDone
    <3>5. Request(r, "zap_off") /\ Accept(r, "zap_off", <<Clear({"ZAP"})>>)
      BY <2>1, <2>4 DEF Clear
    <3> QED
      BY <2>1, <3>1, <3>2, <3>3, <3>4, <3>5, FlagsWant
  <2> QED
    BY <2>3, <2>4
<1>3. CASE CtrlSize(r)
  <2>1. Request(r, "size") /\ fsize' = "given" /\ Accept(r, "size", << >>)
    BY <1>3 DEF CtrlSize
  <2>2. SettingsOf(ri_flags, ri_tflags, "given", rmw[Flusher], << >>) =
          Honour(SettingsOf(ri_flags, ri_tflags, fsize, rmw[Flusher], << >>), "size")
    BY HonourPlain DEF SettingsOf
  <2> QED
    BY <2>1, <2>2, AcceptWant DEF Settings
<1>4. CASE CtrlOpen(r)
  <2>1. /\ Request(r, "open") /\ ri_flags \cap {"OPEN", "DISK"} = {} /\ fsize' = fsize
        /\ Accept(r, "open", OpenChange)
    BY <1>4 DEF CtrlOpen, OpenChange, Set
  <2>2. "DISK" \notin Asked(ri_flags)
    BY <2>1, AskedFacts
  <2>3. OpenChange \in ModeChanges \cup {OpenChange, CloseChange} /\ "open" \in FlagRequests
    BY DEF ModeChanges, FlagRequests
  <2>4. Made("flags", OpenChange, ri_flags) = ri_flags \cup {"OPEN"}
    BY MadeFlags DEF OpenChange, Set
  <2>5. Asked(ri_flags \cup {"OPEN"}) = Asked(ri_flags) \cup {"DISK"}
    BY <2>2, AskedFacts
  <2>6. Honour(Rec(Asked(ri_flags), ri_tflags, fsize, "go"), "open") =
          Rec(Asked(ri_flags) \cup {"DISK"}, ri_tflags, fsize, "go")
    BY <2>2, HonourDone
  <2> QED
    BY <2>1, <2>3, <2>4, <2>5, <2>6, FlagsWant
<1>5. CASE CtrlClose(r)
  <2>1. /\ Request(r, "close") /\ "DISK" \in ri_flags /\ fsize' = fsize
        /\ Accept(r, "close", CloseChange)
    BY <1>5 DEF CtrlClose, CloseChange, Set, Clear
  <2>2. "DISK" \in Asked(ri_flags) /\ "OPEN" \notin ri_flags
    <3>1. Quiet
      BY <2>1 DEF OneInv, RbtOK, Request, FlagRequests
    <3> QED
      BY <2>1, <3>1, QuietSettings, AskedFacts
  <2>3. CloseChange \in ModeChanges \cup {OpenChange, CloseChange} /\ "close" \in FlagRequests
    BY DEF ModeChanges, FlagRequests
  <2>4. Made("flags", CloseChange, ri_flags) = (ri_flags \ {"DISK"}) \cup {"FLUSH", "CLOSE"}
    BY MadeFlags DEF CloseChange, Set, Clear
  <2>5. Asked((ri_flags \ {"DISK"}) \cup {"FLUSH", "CLOSE"}) = Asked(ri_flags) \ {"DISK"}
    BY <2>2, AskedFacts
  <2>6. Honour(Rec(Asked(ri_flags), ri_tflags, fsize, "go"), "close") =
          Rec(Asked(ri_flags) \ {"DISK"}, ri_tflags, fsize, "go")
    BY <2>2, HonourClose
  <2> QED
    BY <2>1, <2>3, <2>4, <2>5, <2>6, FlagsWant
<1>6. CASE CtrlTflags(r)
  <2>1. PICK q \in {"set", "clear"} :
          /\ Request(r, q) /\ fsize' = fsize
          /\ Accept(r, q, <<IF q = "set" THEN SetBits("tflags", {"t"})
                            ELSE ClearBits("tflags", {"t"})>>)
    BY <1>6 DEF CtrlTflags
  <2>2. ASSUME NEW cs \in TChanges
        PROVE  SettingsOf(ri_flags, ri_tflags, fsize, rmw[Flusher], cs) =
                 Rec(Asked(Made("flags", rmw[Flusher], ri_flags)), Made("tflags", cs, ri_tflags),
                     fsize, "go")
    BY <2>2, OtherWord DEF SettingsOf
  <2>3. Settings(<< >>) =
          Rec(Asked(Made("flags", rmw[Flusher], ri_flags)), ri_tflags, fsize, "go")
    BY MadeFacts DEF Settings, SettingsOf
  <2>4. CASE q = "set"
    <3>1. <<SetBits("tflags", {"t"})>> \in TChanges
      BY DEF TChanges
    <3>2. Made("tflags", <<SetBits("tflags", {"t"})>>, ri_tflags) = ri_tflags \cup {"t"}
      BY MadeFlags
    <3>3. SettingsOf(ri_flags, ri_tflags, fsize', rmw[Flusher], <<SetBits("tflags", {"t"})>>) =
            Honour(Settings(<< >>), "set")
      BY <2>1, <2>2, <2>3, <3>1, <3>2, HonourPlain
    <3>4. Request(r, "set") /\ Accept(r, "set", <<SetBits("tflags", {"t"})>>)
      BY <2>1, <2>4
    <3> QED
      BY <3>3, <3>4, AcceptWant
  <2>5. CASE q = "clear"
    <3>1. <<ClearBits("tflags", {"t"})>> \in TChanges
      BY DEF TChanges
    <3>2. Made("tflags", <<ClearBits("tflags", {"t"})>>, ri_tflags) = ri_tflags \ {"t"}
      BY MadeFlags
    <3>3. SettingsOf(ri_flags, ri_tflags, fsize', rmw[Flusher], <<ClearBits("tflags", {"t"})>>) =
            Honour(Settings(<< >>), "clear")
      BY <2>1, <2>2, <2>3, <3>1, <3>2, HonourPlain
    <3>4. Request(r, "clear") /\ Accept(r, "clear", <<ClearBits("tflags", {"t"})>>)
      BY <2>1, <2>5
    <3> QED
      BY <3>3, <3>4, AcceptWant
  <2> QED
    BY <2>4, <2>5
<1> QED
  BY <1>1, <1>2, <1>3, <1>4, <1>5, <1>6

LEMMA RefusedWant ==
  ASSUME CtlType, PhaseInv, OneInv, WantInv, NEW r \in Rbts, Refused(r)
  PROVE  WantInv'
<1>1. /\ UNCHANGED <<ri_flags, ri_tflags, fsize, rmw, want>>
      /\ todo' = [todo EXCEPT ![r] = {}]
  BY DEF Refused, shared, history
<1>2. PICK q \in FlagRequests :
        /\ Request(r, q)
        /\ \/ q \in {"wrap_on", "wrap_off"} /\ "ZAP" \in ri_flags
           \/ q \in {"zap_on", "zap_off"} /\ "WRAP" \in ri_flags
           \/ q = "open" /\ ri_flags \cap {"OPEN", "DISK"} # {}
           \/ q = "close" /\ "DISK" \notin ri_flags
  BY DEF Refused, FlagRequests
<1>3. /\ rmw[r] = << >> /\ todo[r] \subseteq Options /\ q \in todo[r]
      /\ \A p \in todo[r] : Turn(q) <= Turn(p)
  BY <1>2 DEF Request, CtlType
<1>4. Quiet /\ ~Idle(r)
  BY <1>2, <1>3 DEF OneInv, RbtOK, Idle
<1>5. "OPEN" \notin ri_flags
  BY <1>4, QuietSettings
<1> DEFINE A == Asked(ri_flags)
           w == SettingsOf(ri_flags', ri_tflags', fsize', rmw'[Flusher], rmw'[r])
<1>6. \/ q \in {"wrap_on", "wrap_off"} /\ "ZAP" \in A
      \/ q \in {"zap_on", "zap_off"} /\ "WRAP" \in A
      \/ q = "open" /\ "DISK" \in A
      \/ q = "close" /\ "DISK" \notin A
  <2>1. /\ "ZAP" \in A <=> "ZAP" \in ri_flags
        /\ "WRAP" \in A <=> "WRAP" \in ri_flags
        /\ "DISK" \in A <=> "OPEN" \in ri_flags \/ "DISK" \in ri_flags
    BY AskedFacts
  <2> HIDE DEF A
  <2>2. ri_flags \cap {"OPEN", "DISK"} # {} => "DISK" \in ri_flags
    BY <1>5
  <2> QED
    BY <1>2, <1>5, <2>1, <2>2
<1>7. Settings(<< >>) = Rec(A, ri_tflags, fsize, "go") /\ w = Settings(<< >>)
  BY <1>1, <1>3, <1>4, QuietSettings DEF Settings
<1> HIDE DEF A
<1>8. Honour(Settings(<< >>), q) = Rec(A, ri_tflags, fsize, "refused")
  BY <1>6, <1>7, HonourRefused
<1>9. Honoured(Settings(rmw[r]), todo[r]) = Honoured(Honour(Settings(rmw[r]), q), todo[r] \ {q})
  BY <1>3, HonouredFirst
<1>10. Honoured(Settings(rmw[r]), todo[r]) = Rec(A, ri_tflags, fsize, "refused")
  BY <1>3, <1>8, <1>9, HonouredRefused
<1>11. [Honoured(Settings(rmw[r]), todo[r]) EXCEPT !.state = "go"] = Rec(A, ri_tflags, fsize, "go")
  BY <1>10, RecFacts
<1>12. todo'[r] = {} /\ \A s \in Rbts \ {r} : todo'[s] = todo[s] /\ rmw'[s] = rmw[s]
  BY <1>1 DEF CtlType
<1>13. w = SettingsOf(ri_flags', ri_tflags', fsize', rmw'[Flusher], rmw'[r])
  OBVIOUS
<1> HIDE DEF w
<1>14. [Honoured(w, todo'[r]) EXCEPT !.state = "go"] = Rec(A, ri_tflags, fsize, "go")
  <2>1. Honoured(w, todo'[r]) = Rec(A, ri_tflags, fsize, "go")
    BY <1>7, <1>12, HonouredNone
  <2> QED
    BY <2>1, RecFacts
<1> QED
  BY <1>1, <1>4, <1>11, <1>12, <1>13, <1>14, WantStep

LEMMA RbtStoreWant ==
  ASSUME CtlType, PhaseInv, OneInv, WantInv, NEW r \in Rbts, Store(r)
  PROVE  WantInv'
<1> Flusher \in Actors /\ r \in Actors /\ Flusher # r /\ Rbts \subseteq Actors
  BY CtlAssumption DEF Actors
<1>1. /\ rmw[r] # << >> /\ rmw'[r] = Tail(rmw[r])
      /\ \A b \in Actors \ {r} : rmw'[b] = rmw[b]
      /\ UNCHANGED <<fsize, todo, want>>
      /\ Head(rmw[r]).word = "flags" =>
           /\ ri_tflags' = ri_tflags
           /\ ri_flags' = (ri_flags \ Head(rmw[r]).clear) \cup Head(rmw[r]).set
      /\ Head(rmw[r]).word # "flags" =>
           /\ ri_flags' = ri_flags
           /\ ri_tflags' = (ri_tflags \ Head(rmw[r]).clear) \cup Head(rmw[r]).set
  BY StoredWord
<1>2. ~Idle(r)
  BY <1>1 DEF Idle
<1>3. RbtOK(r)
  BY DEF OneInv
<1>4. (\E c : rmw[r] = <<c>>) \/ (\E c, d : rmw[r] = <<c, d>>)
  BY <1>1, <1>3, SingleChanges DEF RbtOK, OpenChange, CloseChange, CloseRest
<1>5. Head(rmw[r]).word \in {"flags", "tflags"}
  <2>1. rmw[r] \in Seq(Changes)
    BY DEF CtlType
  <2>2. Head(rmw[r]) \in Changes
    BY <1>1, <2>1
  <2> QED
    BY <2>2 DEF Changes, FlagChanges, TrafficChanges
<1>6. /\ ri_flags' = Changed("flags", Head(rmw[r]), ri_flags)
      /\ ri_tflags' = Changed("tflags", Head(rmw[r]), ri_tflags)
  BY <1>1, <1>5 DEF Changed
<1>7. /\ Made("flags", rmw[r], ri_flags) = Made("flags", rmw'[r], ri_flags')
      /\ Made("tflags", rmw[r], ri_tflags) = Made("tflags", rmw'[r], ri_tflags')
  <2>1. /\ Made("flags", rmw[r], ri_flags) =
             Made("flags", Tail(rmw[r]), Changed("flags", Head(rmw[r]), ri_flags))
        /\ Made("tflags", rmw[r], ri_tflags) =
             Made("tflags", Tail(rmw[r]), Changed("tflags", Head(rmw[r]), ri_tflags))
    BY <1>4, MadeFirst
  <2> QED
    BY <1>1, <1>6, <2>1
<1>8. rmw'[Flusher] = rmw[Flusher]
  BY <1>1
<1> DEFINE w == SettingsOf(ri_flags', ri_tflags', fsize', rmw'[Flusher], rmw'[r])
<1>9. Settings(rmw[r]) = w
  BY <1>1, <1>7, <1>8 DEF Settings, SettingsOf
<1>10. w = SettingsOf(ri_flags', ri_tflags', fsize', rmw'[Flusher], rmw'[r])
  OBVIOUS
<1> HIDE DEF w
<1>11. [Honoured(Settings(rmw[r]), todo[r]) EXCEPT !.state = "go"] =
         [Honoured(w, todo'[r]) EXCEPT !.state = "go"]
  BY <1>1, <1>9
<1>12. \A s \in Rbts \ {r} : todo'[s] = todo[s] /\ rmw'[s] = rmw[s]
  BY <1>1
<1> QED
  BY <1>1, <1>2, <1>10, <1>11, <1>12, WantStep

LEMMA BeginWant ==
  ASSUME CtlType, PhaseInv, OneInv, WantInv, NEW r \in Rbts, NEW options \in Commands,
         Begin(r, options), Settled, calm'
  PROVE  WantInv'
<1>1. /\ UNCHANGED <<ri_flags, ri_tflags, fsize, rmw>>
      /\ todo' = [todo EXCEPT ![r] = Requests(options)]
  BY DEF Begin, shared
<1>2. calm' = (calm /\ Settled) /\
      want' = IF calm /\ Settled THEN [Honoured(want, Requests(options)) EXCEPT !.state = "go"]
              ELSE Nothing
  BY Zenon DEF Begin, Wanted
<1>3. want' = [Honoured(want, Requests(options)) EXCEPT !.state = "go"]
  BY <1>2
<1>4. Alone
  BY SettledQuiet
<1>5. want = Settings(<< >>) /\ \A s \in Rbts : rmw[s] = << >>
  BY <1>4 DEF WantInv, Alone, Idle
<1>6. Settings(<< >>)' = Settings(<< >>)
  BY <1>1 DEF Settings
<1>7. todo'[r] = Requests(options) /\ \A s \in Rbts \ {r} : todo'[s] = {}
  BY <1>1, <1>4 DEF CtlType, Alone, Idle
<1>8. want' = [Honoured(Settings(<< >>)', todo'[r]) EXCEPT !.state = "go"]
  BY <1>3, <1>5, <1>6, <1>7
<1>9. Alone' => want' = Settings(<< >>)'
  <2> SUFFICES ASSUME todo'[r] = {} PROVE want' = Settings(<< >>)'
    BY DEF Alone, Idle
  <2>1. Honoured(Settings(<< >>)', todo'[r]) = Settings(<< >>)'
    BY HonouredNone
  <2>2. [Settings(<< >>)' EXCEPT !.state = "go"] = Settings(<< >>)'
    BY <1>6, RecFacts DEF Settings, SettingsOf
  <2> QED
    BY <1>8, <2>1, <2>2
<1>10. \A s \in Rbts : ~Idle(s)' => s = r /\ rmw'[r] = << >>
  BY <1>1, <1>5, <1>7 DEF Idle
<1>11. \A s \in Rbts : ~Idle(s)' =>
         want' = [Honoured(Settings(rmw[s]), todo[s]) EXCEPT !.state = "go"]'
  BY <1>8, <1>10 DEF Settings
<1> QED
  BY <1>9, <1>11 DEF WantInv

(* A step that leaves the settings, the changes under way and the requests *)
(* alone.                                                                  *)
LEMMA SameWant ==
  ASSUME WantInv, UNCHANGED <<ri_flags, ri_tflags, fsize, todo, want>>,
         rmw'[Flusher] = rmw[Flusher], \A r \in Rbts : rmw'[r] = rmw[r]
  PROVE  WantInv'
<1>1. (Alone' <=> Alone) /\ \A r \in Rbts : Idle(r)' <=> Idle(r)
  BY DEF Alone, Idle
<1>2. Settings(<< >>)' = Settings(<< >>)
  BY DEF Settings
<1>3. \A r \in Rbts : SettingsOf(ri_flags', ri_tflags', fsize', rmw'[Flusher], rmw'[r]) =
                        SettingsOf(ri_flags, ri_tflags, fsize, rmw[Flusher], rmw[r])
  OBVIOUS
<1>4. \A r \in Rbts : ~Idle(r)' =>
        want' = [Honoured(Settings(rmw[r]), todo[r]) EXCEPT !.state = "go"]'
  BY <1>1, <1>3 DEF WantInv, Settings
<1> QED
  BY <1>1, <1>2, <1>4 DEF WantInv

(* While the flush thread answers, rbt has no flag to change. *)
LEMMA PlainRbt ==
  ASSUME OneInv, ~Quiet, ~Half, NEW r \in Rbts
  PROVE  todo[r] \cap FlagRequests = {} /\ \A b : Made("flags", rmw[r], b) = b
<1>1. todo[r] \cap FlagRequests = {} /\ rmw[r] \in {<< >>} \cup TChanges
  BY DEF OneInv, RbtOK
<1>2. \A b : Made("flags", rmw[r], b) = b
  BY <1>1, OtherWord, MadeFacts
<1> QED
  BY <1>1, <1>2

(* The flush thread answers as it was asked. *)
LEMMA AnswerWant ==
  ASSUME WantInv, OneInv, Alone \/ (~Quiet /\ ~Half),
         UNCHANGED <<ri_tflags, fsize, todo, want>>, \A r \in Rbts : rmw'[r] = rmw[r],
         Asked(Made("flags", rmw'[Flusher], ri_flags')) = Asked(Made("flags", rmw[Flusher], ri_flags))
  PROVE  WantInv'
<1>1. (Alone' <=> Alone) /\ \A r \in Rbts : Idle(r)' <=> Idle(r)
  BY DEF Alone, Idle
<1>2. Settings(<< >>)' = Settings(<< >>)
  BY MadeFacts DEF Settings, SettingsOf
<1>3. ASSUME NEW r \in Rbts, ~Idle(r)
      PROVE  SettingsOf(ri_flags', ri_tflags', fsize', rmw'[Flusher], rmw'[r]) =
               SettingsOf(ri_flags, ri_tflags, fsize, rmw[Flusher], rmw[r])
  <2>1. ~Quiet /\ ~Half
    BY <1>3 DEF Alone
  <2>2. \A b : Made("flags", rmw[r], b) = b
    BY <2>1, PlainRbt
  <2> QED
    BY <2>2 DEF SettingsOf
<1>4. \A r \in Rbts : ~Idle(r)' =>
        want' = [Honoured(Settings(rmw[r]), todo[r]) EXCEPT !.state = "go"]'
  BY <1>1, <1>3 DEF WantInv, Settings
<1> QED
  BY <1>1, <1>2, <1>4 DEF WantInv

(* The flush thread goes on without a file. *)
LEMMA NoFileWant ==
  ASSUME WantInv, OneInv, Alone \/ (~Quiet /\ ~Half), want' = NoFileWanted,
         UNCHANGED <<ri_tflags, fsize, todo>>, \A r \in Rbts : rmw'[r] = rmw[r],
         Asked(Made("flags", rmw'[Flusher], ri_flags')) =
           Asked(Made("flags", rmw[Flusher], ri_flags)) \ {"DISK"}
  PROVE  WantInv'
<1> DEFINE A == Asked(Made("flags", rmw[Flusher], ri_flags))
           B == Asked(Made("flags", rmw'[Flusher], ri_flags'))
<1>1. (Alone' <=> Alone) /\ \A r \in Rbts : Idle(r)' <=> Idle(r)
  BY DEF Alone, Idle
<1>2. /\ Settings(<< >>) = Rec(A, ri_tflags, fsize, "go")
      /\ Settings(<< >>)' = Rec(B, ri_tflags, fsize, "go")
  BY MadeFacts DEF Settings, SettingsOf
<1>3. want' = [want EXCEPT !.flags = want.flags \ {"DISK"}]
  BY DEF NoFileWanted
<1>4. B = A \ {"DISK"}
  OBVIOUS
<1>5. ASSUME NEW f, NEW t, NEW s, want = Rec(f, t, s, "go")
      PROVE  want' = Rec(f \ {"DISK"}, t, s, "go")
  <2>1. want.flags = f /\ \A y : [want EXCEPT !.flags = y] = Rec(y, t, s, "go")
    BY <1>5, RecFacts
  <2> QED
    BY <1>3, <2>1
<1>6. ASSUME NEW r \in Rbts, ~Idle(r)
      PROVE  /\ Settings(rmw[r]) = Rec(A, Made("tflags", rmw[r], ri_tflags), fsize, "go")
             /\ SettingsOf(ri_flags', ri_tflags', fsize', rmw'[Flusher], rmw'[r]) =
                  Rec(B, Made("tflags", rmw[r], ri_tflags), fsize, "go")
             /\ todo[r] \cap FlagRequests = {}
  <2>1. ~Quiet /\ ~Half
    BY <1>6 DEF Alone
  <2>2. todo[r] \cap FlagRequests = {} /\ \A b : Made("flags", rmw[r], b) = b
    BY <2>1, PlainRbt
  <2> QED
    BY <2>2 DEF Settings, SettingsOf
<1> HIDE DEF A, B
<1>7. Alone' => want' = Settings(<< >>)'
  BY <1>1, <1>2, <1>4, <1>5 DEF WantInv
<1>8. ASSUME NEW r \in Rbts, ~Idle(r)
      PROVE  want' = [Honoured(Settings(rmw[r]), todo[r]) EXCEPT !.state = "go"]'
  <2> DEFINE t == Made("tflags", rmw[r], ri_tflags)
  <2>1. /\ Settings(rmw[r]) = Rec(A, t, fsize, "go")
        /\ SettingsOf(ri_flags', ri_tflags', fsize', rmw'[Flusher], rmw'[r]) =
             Rec(B, t, fsize, "go")
        /\ todo[r] \cap FlagRequests = {}
    BY <1>6, <1>8
  <2> HIDE DEF t
  <2>2. PICK t2, s2 : \A f : Honoured(Rec(f, t, fsize, "go"), todo[r]) = Rec(f, t2, s2, "go")
    BY <2>1, HonouredPlain
  <2>3. want = [Honoured(Settings(rmw[r]), todo[r]) EXCEPT !.state = "go"]
    BY <1>8 DEF WantInv
  <2>4. Honoured(Settings(rmw[r]), todo[r]) = Rec(A, t2, s2, "go")
    BY <2>1, <2>2
  <2>5. want = Rec(A, t2, s2, "go")
    BY <2>3, <2>4, RecFacts
  <2>6. want' = Rec(B, t2, s2, "go")
    BY <1>4, <1>5, <2>5
  <2>7. Honoured(Rec(B, t, fsize, "go"), todo'[r]) = Rec(B, t2, s2, "go")
    BY <2>2
  <2>8. want' = [Honoured(Rec(B, t, fsize, "go"), todo'[r]) EXCEPT !.state = "go"]
    BY <2>6, <2>7, RecFacts
  <2> QED
    BY <2>1, <2>8 DEF Settings
<1> QED
  BY <1>1, <1>7, <1>8 DEF WantInv

(* What the answers of the flush thread do to the settings. *)
LEMMA AnswersAsked ==
  \A F : /\ "OPEN" \in F \/ "DISK" \in F => Asked((F \cup {"DISK"}) \ {"OPEN"}) = Asked(F)
         /\ "DISK" \notin F => Asked(F \ {"OPEN"}) = Asked(F) \ {"DISK"}
         /\ "OPEN" \notin F => Asked(F \ {"DISK"}) = Asked(F) \ {"DISK"}
         /\ Asked(F \ {"FLUSH"}) = Asked(F)
         /\ Asked(F \ {"CLOSE"}) = Asked(F)
<1> TAKE F
<1>1. "OPEN" \in F \/ "DISK" \in F => Asked((F \cup {"DISK"}) \ {"OPEN"}) = Asked(F)
  BY DEF Asked
<1>2. "DISK" \notin F => Asked(F \ {"OPEN"}) = Asked(F) \ {"DISK"}
  BY DEF Asked
<1>3. "OPEN" \notin F => Asked(F \ {"DISK"}) = Asked(F) \ {"DISK"}
  BY DEF Asked
<1>4. Asked(F \ {"FLUSH"}) = Asked(F) /\ Asked(F \ {"CLOSE"}) = Asked(F)
  BY DEF Asked
<1> QED
  BY <1>1, <1>2, <1>3, <1>4

LEMMA MadeOpened ==
  \A F : Made("flags", <<Set({"DISK"}), Clear({"OPEN"})>>, F) = (F \cup {"DISK"}) \ {"OPEN"}
<1>1. \A F : /\ Changed("flags", Set({"DISK"}), F) = F \cup {"DISK"}
             /\ Changed("flags", Clear({"OPEN"}), F) = F \ {"OPEN"}
  BY ChangeFields DEF Changed, Set, Clear
<1> QED
  BY <1>1, MadeFacts

LEMMA GotoRest ==
  ASSUME CtlType, NEW label, NEW cs, Goto(label, cs)
  PROVE  rmw'[Flusher] = cs /\ \A r \in Rbts : rmw'[r] = rmw[r]
<1>1. Flusher \in Actors /\ Flusher \notin Rbts /\ Rbts \subseteq Actors
  BY CtlAssumption DEF Actors
<1> QED
  BY <1>1 DEF Goto, CtlType

(* The flush thread looks at the flags, or writes a buffer. *)
LEMMA GotoWant ==
  ASSUME CtlType, WantInv, NEW label, Goto(label, << >>), rmw[Flusher] = << >>,
         UNCHANGED <<ri_flags, ri_tflags, fsize, todo, want>>
  PROVE  WantInv'
BY GotoRest, SameWant

LEMMA WriteHeaderWant ==
  ASSUME CtlType, PhaseInv, OneInv, WantInv, WriteHeader
  PROVE  WantInv'
<1>1. /\ rmw[Flusher] = << >> /\ fpc = "header"
      /\ UNCHANGED <<ri_flags, ri_tflags, fsize, todo>>
  BY DEF WriteHeader, At, shared
<1>2. ~fd /\ Bits({"OPEN"})
  BY <1>1, Short DEF PhaseInv, Quiet, Half, Opening, Closing, AtLimit, InLoop
<1>3. ~Quiet /\ ~Half /\ "OPEN" \in ri_flags /\ "DISK" \notin ri_flags
  BY <1>2 DEF Quiet, Half, Bits
<1>4. Made("flags", rmw[Flusher], ri_flags) = ri_flags
  BY <1>1, MadeFacts
<1>5. CASE Goto("wait", <<Set({"DISK"}), Clear({"OPEN"})>>) /\ want' = want
  <2>1. /\ rmw'[Flusher] = <<Set({"DISK"}), Clear({"OPEN"})>>
        /\ \A r \in Rbts : rmw'[r] = rmw[r]
    BY <1>5, GotoRest
  <2>2. Made("flags", rmw'[Flusher], ri_flags') = (ri_flags \cup {"DISK"}) \ {"OPEN"}
    BY <1>1, <2>1, MadeOpened
  <2>3. Asked(Made("flags", rmw'[Flusher], ri_flags')) =
          Asked(Made("flags", rmw[Flusher], ri_flags))
    BY <1>3, <1>4, <2>2, AnswersAsked
  <2> QED
    BY <1>1, <1>3, <1>5, <2>1, <2>3, AnswerWant
<1>6. CASE Goto("wait", <<Clear({"OPEN"})>>) /\ want' = NoFileWanted
  <2>1. rmw'[Flusher] = <<Clear({"OPEN"})>> /\ \A r \in Rbts : rmw'[r] = rmw[r]
    BY <1>6, GotoRest
  <2>2. Made("flags", rmw'[Flusher], ri_flags') = ri_flags \ {"OPEN"}
    BY <1>1, <2>1, MadeFlags DEF Clear
  <2>3. Asked(Made("flags", rmw'[Flusher], ri_flags')) =
          Asked(Made("flags", rmw[Flusher], ri_flags)) \ {"DISK"}
    BY <1>3, <1>4, <2>2, AnswersAsked
  <2> QED
    BY <1>1, <1>3, <1>6, <2>1, <2>3, NoFileWant
<1> QED
  BY <1>2, <1>5, <1>6 DEF WriteHeader, HeaderWritten, HeaderFailed, Set, Clear

LEMMA WriteDataWant ==
  ASSUME CtlType, PhaseInv, OneInv, WantInv, NEW next, rmw[Flusher] = << >>, WriteData(next),
         calm', UNCHANGED <<ri_flags, ri_tflags, fsize, closing, todo, old>>,
         \/ fpc = "inactive" /\ next = "active"
         \/ fpc = "active" /\ "FLUSH" \in ri_flags /\ next = "flushed"
  PROVE  WantInv'
<1>1. fd
  BY WritesFile
<1>2. Made("flags", rmw[Flusher], ri_flags) = ri_flags
  BY MadeFacts
<1>3. CASE DataWritten(next)
  BY <1>3, GotoWant DEF DataWritten
<1>4. CASE LimitStops(next)
  <2>1. /\ fd' = FALSE /\ Goto(next, <<Clear({"DISK"})>>) /\ "CLOSE" \notin ri_flags
        /\ Wanted(NoFileWanted, calm /\ Alone)
    BY <1>4 DEF LimitStops, Clear
  <2>2. (calm' = (calm /\ Alone)) /\ want' = IF calm /\ Alone THEN NoFileWanted ELSE Nothing
    BY <2>1, Zenon DEF Wanted
  <2>3. Alone /\ want' = NoFileWanted
    BY <2>2
  <2>4. Quiet
    BY <2>1, <2>3, LimitOne
  <2>5. rmw'[Flusher] = <<Clear({"DISK"})>> /\ \A r \in Rbts : rmw'[r] = rmw[r]
    BY <2>1, GotoRest
  <2>6. Made("flags", rmw'[Flusher], ri_flags') = ri_flags \ {"DISK"}
    BY <2>5, MadeFlags DEF Clear
  <2>7. "OPEN" \notin ri_flags
    BY <2>4, QuietSettings
  <2>8. Asked(Made("flags", rmw'[Flusher], ri_flags')) =
          Asked(Made("flags", rmw[Flusher], ri_flags)) \ {"DISK"}
    BY <1>2, <2>6, <2>7, AnswersAsked
  <2> QED
    BY <2>3, <2>5, <2>8, NoFileWant
<1>5. CASE LimitZaps(next)
  <2>1. ri_flags \cap {"CLOSE", "WRAP", "ZAP"} = {"ZAP"}
    BY <1>5 DEF LimitZaps
  <2>2. "CLOSE" \notin ri_flags
    BY <2>1
  <2>3. \/ /\ HeaderWritten(next) /\ calm' = (calm /\ Alone)
           /\ want' = IF calm /\ Alone THEN want ELSE Nothing
        \/ calm' = FALSE
    BY <1>5, Zenon DEF LimitZaps, Wanted
  <2>4. HeaderWritten(next) /\ Alone /\ want' = want
    BY <2>3, Zenon
  <2>5. fd' = TRUE /\ Goto(next, <<Set({"DISK"}), Clear({"OPEN"})>>)
    BY <2>4 DEF HeaderWritten, Set, Clear
  <2>6. Quiet /\ fd
    BY <2>2, <2>4, <2>5, LimitOne
  <2>7. /\ rmw'[Flusher] = <<Set({"DISK"}), Clear({"OPEN"})>>
        /\ \A r \in Rbts : rmw'[r] = rmw[r]
    BY <2>5, GotoRest
  <2>8. Made("flags", rmw'[Flusher], ri_flags') = (ri_flags \cup {"DISK"}) \ {"OPEN"}
    BY <2>7, MadeOpened
  <2>9. "DISK" \in ri_flags
    BY <2>6 DEF Quiet, Bits
  <2>10. Asked(Made("flags", rmw'[Flusher], ri_flags')) =
           Asked(Made("flags", rmw[Flusher], ri_flags))
    BY <1>2, <2>8, <2>9, AnswersAsked
  <2> QED
    BY <2>4, <2>7, <2>10, AnswerWant
<1> QED
  BY <1>1, <1>3, <1>4, <1>5 DEF WriteData, DataCrash

(* Changes of the flush thread, made or left for later, that are no part   *)
(* of the settings.                                                        *)
LEMMA CloseWant ==
  ASSUME CtlType, PhaseInv, OneInv, WantInv, ClearFlush \/ Close
  PROVE  WantInv'
<1>1. PICK b \in {"FLUSH", "CLOSE"}, label \in Labels :
        /\ rmw[Flusher] = << >> /\ fpc \in {"flushed", "close"}
        /\ UNCHANGED <<ri_flags, ri_tflags, fsize, todo, want>>
        /\ Goto(label, <<Clear({b})>>)
  BY DEF ClearFlush, Close, At, shared, history, Clear, AfterFlush, Labels
<1>2. ~Quiet /\ ~Half
  BY <1>1 DEF Quiet, Half, InLoop
<1>3. rmw'[Flusher] = <<Clear({b})>> /\ \A r \in Rbts : rmw'[r] = rmw[r]
  BY <1>1, GotoRest
<1>4. Made("flags", rmw'[Flusher], ri_flags') = ri_flags \ {b}
  BY <1>1, <1>3, MadeFlags DEF Clear
<1>5. Made("flags", rmw[Flusher], ri_flags) = ri_flags
  BY <1>1, MadeFacts
<1>6. Asked(ri_flags \ {b}) = Asked(ri_flags)
  BY <1>1, AnswersAsked
<1> QED
  BY <1>1, <1>2, <1>3, <1>4, <1>5, <1>6, AnswerWant

LEMMA ThreadStoreWant ==
  ASSUME CtlType, PhaseInv, OneInv, WantInv, Store(Flusher)
  PROVE  WantInv'
<1> Flusher \in Actors /\ Flusher \notin Rbts /\ Rbts \subseteq Actors
  BY CtlAssumption DEF Actors
<1>1. /\ rmw[Flusher] # << >> /\ rmw'[Flusher] = Tail(rmw[Flusher])
      /\ \A b \in Actors \ {Flusher} : rmw'[b] = rmw[b]
      /\ UNCHANGED <<fsize, todo, want>>
      /\ Head(rmw[Flusher]).word = "flags" =>
           /\ ri_tflags' = ri_tflags
           /\ ri_flags' = (ri_flags \ Head(rmw[Flusher]).clear) \cup Head(rmw[Flusher]).set
  BY StoredWord
<1>2. Head(rmw[Flusher]).word = "flags"
  BY <1>1, FlusherWord
<1>3. ri_tflags' = ri_tflags /\ ri_flags' = Changed("flags", Head(rmw[Flusher]), ri_flags)
  BY <1>1, <1>2 DEF Changed
<1>4. ~Quiet /\ ~Half
  BY <1>1 DEF Quiet, Half
<1>5. (\E c : rmw[Flusher] = <<c>>) \/ (\E c, d : rmw[Flusher] = <<c, d>>)
  BY <1>1, <1>4 DEF PhaseInv, Opening, Closing, AtLimit
<1>6. Made("flags", rmw[Flusher], ri_flags) =
        Made("flags", Tail(rmw[Flusher]), Changed("flags", Head(rmw[Flusher]), ri_flags))
  BY <1>5, MadeFirst
<1>7. Made("flags", rmw'[Flusher], ri_flags') = Made("flags", rmw[Flusher], ri_flags)
  BY <1>1, <1>3, <1>6
<1>8. \A r \in Rbts : rmw'[r] = rmw[r]
  BY <1>1
<1> QED
  BY <1>1, <1>3, <1>4, <1>7, <1>8, AnswerWant

LEMMA FlusherWant ==
  ASSUME CtlType, PhaseInv, OneInv, WantInv, FlusherStep, calm'
  PROVE  WantInv'
<1>1. CASE Wake \/ LookOpen \/ LookDisk
  <2>1. /\ rmw[Flusher] = << >> /\ \E label : Goto(label, << >>)
        /\ UNCHANGED <<ri_flags, ri_tflags, fsize, todo, want>>
    BY <1>1 DEF Wake, LookOpen, LookDisk, Look, At, shared, history
  <2> QED
    BY <2>1, GotoWant
<1>2. CASE WriteInactive
  <2>1. /\ rmw[Flusher] = << >> /\ fpc = "inactive"
        /\ UNCHANGED <<ri_flags, ri_tflags, fsize, closing, todo, old>>
    BY <1>2 DEF WriteInactive, At, shared
  <2>2. CASE WriteData("active")
    BY <2>1, <2>2, WriteDataWant
  <2>3. CASE Goto("active", << >>) /\ want' = want
    BY <2>1, <2>3, GotoWant
  <2> QED
    BY <1>2, <2>2, <2>3 DEF WriteInactive
<1>3. CASE WriteActive
  <2>1. /\ rmw[Flusher] = << >> /\ fpc = "active"
        /\ UNCHANGED <<ri_flags, ri_tflags, fsize, closing, todo, old>>
    BY <1>3 DEF WriteActive, At, shared
  <2>2. CASE "FLUSH" \in ri_flags /\ WriteData("flushed")
    BY <2>1, <2>2, WriteDataWant
  <2>3. CASE Goto(AfterFlush, << >>) /\ want' = want
    BY <2>1, <2>3, GotoWant
  <2> QED
    BY <1>3, <2>2, <2>3 DEF WriteActive
<1>4. CASE Load(Flusher)
  BY <1>4, SameWant DEF Load, shared, history
<1> QED
  BY <1>1, <1>2, <1>3, <1>4, WriteHeaderWant, CloseWant, ThreadStoreWant DEF FlusherStep

LEMMA InitWant == Init => CalmWant
<1> SUFFICES ASSUME Init PROVE WantInv
  BY DEF CalmWant
<1>1. \A r \in Rbts : Idle(r)
  BY DEF Init, Idle, Actors
<1>2. rmw[Flusher] = << >>
  BY DEF Init, Actors
<1>3. Asked({}) = {}
  BY DEF Asked
<1>4. Settings(<< >>) = Rec({}, {}, "default", "go")
  BY <1>2, <1>3, MadeFacts DEF Init, Settings, SettingsOf
<1>5. want = Rec({}, {}, "default", "go")
  BY DEF Init, Nothing, Rec
<1> QED
  BY <1>1, <1>4, <1>5 DEF WantInv

LEMMA StepWant == CtlType /\ CalmPhase /\ CalmWant /\ [Next]_vars => CalmWant'
<1> SUFFICES ASSUME CtlType, CalmPhase, CalmWant, [Next]_vars, calm' PROVE WantInv'
  BY DEF CalmWant
<1>1. CASE Next
  <2>1. PhaseInv /\ OneInv /\ WantInv
    BY <1>1, StaysCalm DEF CalmPhase, CalmWant
  <2>2. ASSUME NEW r \in Rbts, NEW options \in Commands, Begin(r, options)
        PROVE  WantInv'
    BY <1>1, <2>1, <2>2, StaysCalm, BeginWant
  <2>3. ASSUME NEW r \in Rbts, RbtStep(r)
        PROVE  WantInv'
    <3>1. CASE Load(r)
      BY <2>1, <3>1, SameWant DEF Load, shared, history
    <3> QED
      BY <2>1, <2>3, <3>1, CtrlWant, RefusedWant, RbtStoreWant DEF RbtStep
  <2>4. CASE FlusherStep
    BY <2>1, <2>4, FlusherWant
  <2> QED
    BY <1>1, <2>2, <2>3, <2>4 DEF Next
<1>2. CASE UNCHANGED vars
  <2>1. UNCHANGED <<ri_flags, ri_tflags, fsize, todo, rmw, want, calm>>
    BY <1>2 DEF vars, shared, history
  <2> QED
    BY <2>1, SameWant DEF CalmWant
<1> QED
  BY <1>1, <1>2

(* For any number of rbt processes and commands, of any options: as long   *)
(* as each command begins in a settled state and no limit is reached while *)
(* one is under way, every settled state holds exactly what the commands   *)
(* asked for, although flag words are loaded and stored in two steps and   *)
(* without a lock.                                                         *)
THEOREM CalmCommandsHonoured == Spec => []CalmHonoured
<1>1. CtlType /\ CalmPhase /\ CalmWant => CalmHonoured
  <2> SUFFICES ASSUME CtlType, CalmPhase, CalmWant, calm, Settled
               PROVE  /\ ri_flags = want.flags
                      /\ fd <=> "DISK" \in want.flags
                      /\ ri_tflags = want.tflags
                      /\ fsize = want.fsize
    BY DEF CalmHonoured
  <2>1. Quiet /\ Alone
    BY SettledQuiet DEF CalmPhase
  <2>2. want = Rec(Asked(ri_flags), ri_tflags, fsize, "go")
    BY <2>1, QuietSettings DEF CalmWant, WantInv
  <2>3. want.flags = Asked(ri_flags) /\ want.tflags = ri_tflags /\ want.fsize = fsize
    BY <2>2, RecFacts
  <2>4. /\ "OPEN" \notin ri_flags /\ "CLOSE" \notin ri_flags /\ "FLUSH" \notin ri_flags
        /\ fd <=> "DISK" \in ri_flags
    BY <2>1 DEF Quiet, Bits
  <2>5. Asked(ri_flags) = ri_flags
    BY <2>4 DEF Asked, CtlType, FlagBits
  <2> QED
    BY <2>3, <2>4, <2>5
<1> QED
  BY <1>1, InitType, StepType, InitPhase, StepPhase, InitWant, StepWant, PTL DEF Spec

=============================================================================
