------------------------------- MODULE Prbt -------------------------------
(***************************************************************************)
(* How prbt reads a trace file (prbt.c): page by page, a page being the    *)
(* rc_size entries that the header calls nr_records, starting at wrap_pos  *)
(* and, when the file has wrapped, once more from the first page up to     *)
(* wrap_pos.  A file is a record of the wrap_pos in its header (-1 when    *)
(* there is no header) and the sequence of its entries; offsets count      *)
(* entries as in RbtFile.  The result is the sequence of entries printed.  *)
(* The formatting of an entry and the filter on trace IDs are left out.    *)
(***************************************************************************)
EXTENDS Integers, Sequences, FiniteSetsExt

FirstOffset == 1

(* load_trace_page(): how many entries pread() returns for page pg. *)
LoadTracePage(es, pg, n) == Min({n, Max({0, Len(es) - pg * n})})

(* One of the two loops of parse_trace_file(): the entries from number     *)
(* `off' of page pg on, and none at or after number `last'.  `ok' is FALSE *)
(* when the loop gives up on a page that ends before `off'.                *)
Pages(es, n, pg0, off0, last) ==
  LET loop[pg \in {p \in Nat : p >= pg0}] ==
        LET nbytes == LoadTracePage(es, pg, n)
            off    == IF pg = pg0 THEN off0 ELSE 0
            upto   == Min({pg * n + nbytes, last})
            page   == SubSeq(es, pg * n + off + 1, upto)
        IN CASE nbytes = 0    -> [ok |-> TRUE, out |-> << >>]
             [] nbytes <= off /\ nbytes # 0 -> [ok |-> FALSE, out |-> << >>]
             [] OTHER -> IF nbytes < n \/ upto = last
                         THEN [ok |-> TRUE, out |-> page]
                         ELSE [loop[pg + 1] EXCEPT !.out = page \o @]
  IN loop[pg0]

ParseTraceFile(f, n) ==
  LET es      == f.entries
      wrapped == f.hdr > FirstOffset
      start   == IF wrapped THEN f.hdr - FirstOffset ELSE 0
      newer   == Pages(es, n, start \div n, start % n, Len(es))
      older   == Pages(es, n, 0, 0, start)
  IN IF wrapped /\ newer.ok THEN newer.out \o older.out ELSE newer.out

(* parse_trace_header() refuses a file without a complete header.  (After  *)
(* a short read it returns errno; should that be 0, prbt goes on with what *)
(* it has read of the header, which is left out here.)                     *)
Printed(f, n) == IF f.hdr < 0 THEN << >> ELSE ParseTraceFile(f, n)

(* A summary that takes the last entry of the file for the latest. *)
SummaryOfFile(f) ==
  LET es    == f.entries
      start == IF f.hdr # 0 THEN f.hdr ELSE FirstOffset
  IN IF f.hdr < 0 \/ es = << >> \/ start > Len(es) THEN << >> ELSE <<es[start], es[Len(es)]>>

(* print_trace_summary(): the entries whose times are shown as start and   *)
(* end, or nothing when one of them cannot be read.                        *)
Summary(f) ==
  LET es    == f.entries
      start == IF f.hdr # 0 THEN f.hdr ELSE FirstOffset
      end   == IF start > FirstOffset THEN start - 1 ELSE Len(es)
  IN IF f.hdr < 0 \/ es = << >> \/ start > Len(es) THEN << >> ELSE <<es[start], es[end]>>

=============================================================================
