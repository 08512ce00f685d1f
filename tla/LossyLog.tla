------------------------------ MODULE LossyLog ------------------------------
(***************************************************************************)
(* What a trace file promises, with no ring, no buffers and no threads:    *)
(* programs trace records, and a log grows at its end.  A record reaches   *)
(* the log only after it was traced and at most once; it may never reach   *)
(* it, and nothing is said about the order.  Between the records the log   *)
(* may hold filler: entries that nobody filled, and reports of losses.     *)
(* A write that fails leaves a torn tail, which does not count: what it    *)
(* holds may be written again.                                             *)
(***************************************************************************)
EXTENDS Sequences, Naturals

CONSTANTS Record, Filler

VARIABLES
  traced,       \* records whose tracing has begun
  log,          \* the log
  torn          \* the places of the log that failed writes had written

logVars == <<traced, log, torn>>

InLog(r) == \E i \in (1 .. Len(log)) \ torn : log[i] = r

LogInit == traced = {} /\ log = << >> /\ torn = {}

Trace ==
  /\ \E r \in Record \ traced : traced' = traced \cup {r}
  /\ UNCHANGED <<log, torn>>

Write ==
  /\ \E e \in traced \cup Filler :
       /\ e \in traced => ~InLog(e)
       /\ log' = Append(log, e)
  /\ UNCHANGED <<traced, torn>>

Fail ==
  /\ \E n \in 0 .. Len(log) : torn' = torn \cup (n + 1 .. Len(log))
  /\ UNCHANGED <<traced, log>>

LogNext == Trace \/ Write \/ Fail

LogSpec == LogInit /\ [][LogNext]_logVars

=============================================================================
