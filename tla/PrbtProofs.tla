----------------------------- MODULE PrbtProofs -----------------------------
(***************************************************************************)
(* What the page loops of prbt print, for any file and any page size.      *)
(***************************************************************************)
EXTENDS Prbt, WellFoundedInduction, SequenceTheorems, TLAPS

(* A set of numbers has a least element. *)
LEMMA LeastNat ==
  ASSUME NEW T, T \subseteq Nat, T # {}
  PROVE  \E x \in T : \A y \in T : x <= y
<1>1. PICK x \in T : \A y \in T : ~(<<y, x>> \in OpToRel(<, Nat))
  BY NatLessThanWellFounded, WFMin, Zenon
<1>2. \A y \in T : ~(y < x)
  BY <1>1 DEF OpToRel
<1> QED  BY <1>2

(* The larger and the smaller of two numbers. *)
LEMMA MaxOfTwo ==
  ASSUME NEW a \in Int, NEW b \in Int
  PROVE  Max({a, b}) = IF a >= b THEN a ELSE b
<1>1. \A m \in {a, b} : (\A y \in {a, b} : m >= y) => m = IF a >= b THEN a ELSE b
  OBVIOUS
<1>2. \E m \in {a, b} : \A y \in {a, b} : m >= y
  OBVIOUS
<1> QED  BY <1>1, <1>2 DEF Max

(* The smaller of two numbers. *)
LEMMA MinOfTwo ==
  ASSUME NEW a \in Int, NEW b \in Int
  PROVE  Min({a, b}) = IF a <= b THEN a ELSE b
<1>1. \A m \in {a, b} : (\A y \in {a, b} : m <= y) => m = IF a <= b THEN a ELSE b
  OBVIOUS
<1>2. \E m \in {a, b} : \A y \in {a, b} : m <= y
  OBVIOUS
<1> QED  BY <1>1, <1>2 DEF Min

(* What pread() returns of page pg. *)
LEMMA PageLoaded ==
  ASSUME NEW S, NEW es \in Seq(S), NEW n \in Nat, NEW pg \in Nat
  PROVE  LET left == Len(es) - pg * n
         IN  LoadTracePage(es, pg, n) = IF left <= 0 THEN 0 ELSE IF left < n THEN left ELSE n
<1> DEFINE left == Len(es) - pg * n
<1>1. left \in Int /\ 0 \in Int
  OBVIOUS
<1> HIDE DEF left
<1>2. Max({0, left}) = IF 0 >= left THEN 0 ELSE left
  BY <1>1, MaxOfTwo
<1>3. Max({0, left}) \in Int /\ n \in Int
  BY <1>1, <1>2
<1>4. Min({n, Max({0, left})}) = IF n <= Max({0, left}) THEN n ELSE Max({0, left})
  BY <1>3, MinOfTwo
<1>5. LoadTracePage(es, pg, n) = IF left <= 0 THEN 0 ELSE IF left < n THEN left ELSE n
  BY <1>1, <1>2, <1>4 DEF left, LoadTracePage
<1> QED  BY <1>5 DEF left

(* A loop that does not give up on its first page prints the entries from  *)
(* where it starts up to `last', whatever the pages are.                   *)
LEMMA PagesPrinted ==
  ASSUME NEW S, NEW es \in Seq(S), NEW n \in Nat \ {0}, NEW pg0 \in Nat,
         NEW off0 \in 0 .. n - 1, NEW last \in 0 .. Len(es),
         off0 = 0 \/ pg0 * n + off0 < Len(es)
  PROVE  /\ Pages(es, n, pg0, off0, last).ok
         /\ Pages(es, n, pg0, off0, last).out = SubSeq(es, pg0 * n + off0 + 1, last)
<1> DEFINE D       == {p \in Nat : p >= pg0}
           Off(pg) == IF pg = pg0 THEN off0 ELSE 0
           Upto(pg) == Min({pg * n + LoadTracePage(es, pg, n), last})
           Page(pg) == SubSeq(es, pg * n + Off(pg) + 1, Upto(pg))
           Body(f, pg) ==
             CASE LoadTracePage(es, pg, n) = 0 -> [ok |-> TRUE, out |-> << >>]
               [] LoadTracePage(es, pg, n) <= Off(pg) /\ LoadTracePage(es, pg, n) # 0 ->
                    [ok |-> FALSE, out |-> << >>]
               [] OTHER -> IF LoadTracePage(es, pg, n) < n \/ Upto(pg) = last
                           THEN [ok |-> TRUE, out |-> Page(pg)]
                           ELSE [f[pg + 1] EXCEPT !.out = Page(pg) \o @]
           Rest(pg) == SubSeq(es, pg * n + Off(pg) + 1, last)
           Want     == [pg \in D |-> [ok |-> TRUE, out |-> Rest(pg)]]
           Stops(pg) == last <= pg * n + n
<1>1. Pages(es, n, pg0, off0, last) = (CHOOSE f : f = [pg \in D |-> Body(f, pg)])[pg0]
  BY DEF Pages
<1>2. \A pg \in D : pg * n \in Nat /\ pg * n >= pg /\ (pg + 1) * n = pg * n + n /\ Off(pg) \in 0 .. n - 1
  OBVIOUS
<1>3. \A pg \in D : LoadTracePage(es, pg, n) = IF Len(es) - pg * n <= 0 THEN 0
                                               ELSE IF Len(es) - pg * n < n THEN Len(es) - pg * n ELSE n
  BY PageLoaded
<1>4. \A pg \in D : pg * n + LoadTracePage(es, pg, n) \in Int
  BY <1>2, <1>3
<1>5. \A pg \in D : Upto(pg) = IF pg * n + LoadTracePage(es, pg, n) <= last
                               THEN pg * n + LoadTracePage(es, pg, n) ELSE last
  <2>1. last \in Int
    OBVIOUS
  <2> QED  BY <1>4, <2>1, MinOfTwo
<1> HIDE DEF Upto
<1>6. ASSUME NEW f, NEW pg \in D
      PROVE  Body(f, pg) = IF Stops(pg) THEN [ok |-> TRUE, out |-> Rest(pg)]
                           ELSE [f[pg + 1] EXCEPT !.out = SubSeq(es, pg * n + Off(pg) + 1, (pg + 1) * n) \o @]
  <2> DEFINE nbytes == LoadTracePage(es, pg, n)
             p    == pg * n
             o    == Off(pg)
             u    == Upto(pg)
             next == [f[pg + 1] EXCEPT !.out = SubSeq(es, p + o + 1, u) \o @]
  <2>1. /\ p \in Nat /\ (pg + 1) * n = p + n /\ o \in 0 .. n - 1
        /\ nbytes = IF Len(es) - p <= 0 THEN 0 ELSE IF Len(es) - p < n THEN Len(es) - p ELSE n
        /\ u = IF p + nbytes <= last THEN p + nbytes ELSE last
        /\ Stops(pg) <=> last <= p + n
    BY <1>2, <1>3, <1>5
  <2>2. nbytes = 0 \/ nbytes > o
    BY <2>1
  <2>3. Body(f, pg) =
          IF nbytes = 0 THEN [ok |-> TRUE, out |-> << >>]
          ELSE IF nbytes < n \/ u = last THEN [ok |-> TRUE, out |-> SubSeq(es, p + o + 1, u)]
          ELSE next
    <3> HIDE DEF next, Off
    <3>1. Page(pg) = SubSeq(es, p + o + 1, u) /\ [f[pg + 1] EXCEPT !.out = Page(pg) \o @] = next
      BY DEF next
    <3> HIDE DEF Page
    <3>2. ~(nbytes <= Off(pg) /\ nbytes # 0)
      BY <2>1, <2>2
    <3> HIDE DEF p
    <3> QED  BY <3>1, <3>2, Zenon
  <2>4. Rest(pg) = SubSeq(es, p + o + 1, last)
    OBVIOUS
  <2> HIDE DEF nbytes, p, o, u, Rest, Stops, Body
  <2>5. CASE nbytes = 0
    <3>1. Stops(pg) /\ p + o + 1 > last /\ p + o + 1 \in Int
      BY <2>1, <2>5
    <3>2. Rest(pg) = << >>
      BY <2>4, <3>1, SubSeqEmpty
    <3> QED  BY <2>3, <2>5, <3>1, <3>2
  <2>6. CASE nbytes # 0 /\ Stops(pg)
    <3>1. u = last
      BY <2>1, <2>6
    <3> QED  BY <2>3, <2>4, <2>6, <3>1
  <2>7. CASE nbytes # 0 /\ ~Stops(pg)
    <3>1. u = p + n /\ u # last /\ nbytes = n
      BY <2>1, <2>7
    <3>2. Body(f, pg) = next
      BY <2>1, <2>3, <2>7, <3>1
    <3> QED  BY <2>1, <2>7, <3>1, <3>2 DEF p, o
  <2> QED  BY <2>5, <2>6, <2>7
<1> HIDE DEF Body
<1>7. ASSUME NEW pg \in D, ~Stops(pg)
      PROVE  [Want[pg + 1] EXCEPT !.out = SubSeq(es, pg * n + Off(pg) + 1, (pg + 1) * n) \o @] = Want[pg]
  <2>1. pg + 1 \in D /\ Off(pg + 1) = 0
    OBVIOUS
  <2>2. SubSeq(es, pg * n + Off(pg) + 1, (pg + 1) * n) \o Rest(pg + 1) = Rest(pg)
    <3> DEFINE a == pg * n + Off(pg) + 1
               k == (pg + 1) * n
    <3>1. a \in 1 .. Len(es) + 1 /\ k \in a - 1 .. Len(es) /\ last \in k .. Len(es)
      BY <1>2, <1>7
    <3>2. Rest(pg + 1) = SubSeq(es, k + 1, last)
      BY <1>2, <2>1
    <3> HIDE DEF a, k
    <3>3. SubSeq(es, a, k) \o SubSeq(es, k + 1, last) = SubSeq(es, a, last)
      BY <3>1, ConcatAdjacentSubSeq
    <3> QED  BY <3>2, <3>3 DEF a, k
  <2>3. Want[pg] = [ok |-> TRUE, out |-> Rest(pg)] /\ Want[pg + 1] = [ok |-> TRUE, out |-> Rest(pg + 1)]
    BY <2>1
  <2> HIDE DEF Want, Rest, Off
  <2>4. ASSUME NEW page
        PROVE  [Want[pg + 1] EXCEPT !.out = page \o @] = [ok |-> TRUE, out |-> page \o Rest(pg + 1)]
    <3> DEFINE r    == Want[pg + 1]
               rest == Rest(pg + 1)
               yes  == TRUE
    <3>1. r = [ok |-> yes, out |-> rest]
      BY <2>3
    <3> HIDE DEF r, rest, yes
    <3>2. [r EXCEPT !.out = page \o @] = [ok |-> yes, out |-> page \o rest]
      <4>1. \A z : [r EXCEPT !.out = z] = [ok |-> yes, out |-> z]
        BY <3>1
      <4>2. r.out = rest
        BY <3>1
      <4> QED  BY <4>1, <4>2, Zenon
    <3> QED  BY <3>2, Zenon DEF r, rest, yes
  <2> QED  BY <2>2, <2>3, <2>4, Zenon
<1>8. Want = [pg \in D |-> Body(Want, pg)]
  <2>1. ASSUME NEW pg \in D
        PROVE  Body(Want, pg) = Want[pg]
    <3>1. Want[pg] = [ok |-> TRUE, out |-> Rest(pg)]
      OBVIOUS
    <3> HIDE DEF Want, Rest, Stops, Off, D
    <3> QED  BY <1>6, <1>7, <3>1, Zenon
  <2> QED  BY <2>1
<1>9. ASSUME NEW f, f = [pg \in D |-> Body(f, pg)]
      PROVE  f[pg0] = Want[pg0]
  <2> DEFINE Bad == {pg \in D : f[pg] # Want[pg]}
             T   == {last - pg : pg \in Bad}
  <2>1. ASSUME NEW pg \in Bad
        PROVE  pg + 1 \in Bad /\ last - pg \in Nat
    <3>1. f[pg] = Body(f, pg)
      BY <1>9
    <3>2. ~Stops(pg)
      BY <1>6, <3>1
    <3>3. f[pg] = [f[pg + 1] EXCEPT !.out = SubSeq(es, pg * n + Off(pg) + 1, (pg + 1) * n) \o @]
      BY <1>6, <3>1, <3>2
    <3>4. f[pg + 1] # Want[pg + 1]
      BY <1>7, <3>2, <3>3
    <3>5. pg \in Nat /\ pg * n \in Nat /\ pg * n >= pg /\ pg + 1 \in D
      BY <1>2
    <3>6. last - pg \in Nat
      BY <3>2, <3>5
    <3> HIDE DEF Want
    <3> QED  BY <3>4, <3>5, <3>6
  <2> HIDE DEF Want
  <2> SUFFICES Bad = {}
    OBVIOUS
  <2> SUFFICES ASSUME Bad # {}
               PROVE  FALSE
    OBVIOUS
  <2>2. T \subseteq Nat /\ T # {}
    BY <2>1
  <2>3. PICK x \in T : \A y \in T : x <= y
    BY <2>2, LeastNat
  <2>4. PICK pg \in Bad : x = last - pg
    OBVIOUS
  <2>5. last - (pg + 1) \in T /\ pg \in Nat
    BY <2>1
  <2>6. x <= last - (pg + 1)
    BY <2>3, <2>5
  <2> QED  BY <2>4, <2>5, <2>6
<1> HIDE DEF Want
<1>10. (CHOOSE f : f = [pg \in D |-> Body(f, pg)])[pg0] = Want[pg0]
  BY <1>8, <1>9
<1>11. Pages(es, n, pg0, off0, last) = Want[pg0]
  BY <1>1, <1>10
<1>12. Want[pg0] = [ok |-> TRUE, out |-> SubSeq(es, pg0 * n + off0 + 1, last)]
  BY DEF Want
<1>13. Want[pg0].ok /\ Want[pg0].out = SubSeq(es, pg0 * n + off0 + 1, last)
  <2> DEFINE r == Want[pg0]
             x == SubSeq(es, pg0 * n + off0 + 1, last)
  <2>1. r = [ok |-> TRUE, out |-> x]
    BY <1>12
  <2> HIDE DEF r, x
  <2>2. r.ok /\ r.out = x
    BY <2>1, Zenon
  <2> QED  BY <2>2 DEF r, x
<1> QED  BY <1>11, <1>13, Zenon

(* prbt prints every entry of a file once: as they are in the file, or     *)
(* from the one that wrap_pos is the offset of and then those before it.   *)
THEOREM PrintsAll ==
  ASSUME NEW S, NEW f, f.entries \in Seq(S), f.hdr \in 0 .. Len(f.entries), NEW n \in Nat \ {0}
  PROVE  Printed(f, n) = IF f.hdr <= FirstOffset THEN f.entries
                         ELSE SubSeq(f.entries, f.hdr, Len(f.entries))
                                \o SubSeq(f.entries, 1, f.hdr - 1)
<1> DEFINE es    == f.entries
           hdr   == f.hdr
           start == IF hdr > FirstOffset THEN hdr - FirstOffset ELSE 0
           pg0   == start \div n
           off0  == start % n
           L     == Len(es)
<1>1. es \in Seq(S) /\ L \in Nat /\ hdr \in 0 .. L /\ start \in 0 .. L
  BY DEF FirstOffset
<1>2. start > 0 => start < L /\ start = hdr - 1
  BY DEF FirstOffset
<1>3. pg0 \in Nat /\ off0 \in 0 .. n - 1 /\ pg0 * n + off0 = start
  <2> HIDE DEF start
  <2> QED  BY <1>1
<1>4. Pages(es, n, pg0, off0, L).ok /\ Pages(es, n, pg0, off0, L).out = SubSeq(es, start + 1, L)
  <2>1. off0 = 0 \/ pg0 * n + off0 < Len(es)
    <3> HIDE DEF start, pg0
    <3>1. CASE start > 0
      BY <1>2, <1>3, <3>1
    <3>2. CASE start = 0
      BY <1>1, <3>2
    <3> QED  BY <1>1, <3>1, <3>2
  <2>2. L \in 0 .. Len(es) /\ es \in Seq(S)
    BY <1>1
  <2>3. pg0 \in Nat /\ off0 \in 0 .. n - 1 /\ n \in Nat \ {0}
    BY <1>3
  <2> HIDE DEF es, start, pg0, off0, L
  <2>4. /\ Pages(es, n, pg0, off0, L).ok
        /\ Pages(es, n, pg0, off0, L).out = SubSeq(es, pg0 * n + off0 + 1, L)
    BY <2>1, <2>2, <2>3, PagesPrinted
  <2> QED  BY <1>3, <2>4
<1>5. Pages(es, n, 0, 0, start).out = SubSeq(es, 1, start)
  <2>1. 0 \in 0 .. n - 1 /\ 0 * n + 0 + 1 = 1
    OBVIOUS
  <2>2. start \in 0 .. Len(es) /\ es \in Seq(S)
    BY <1>1
  <2> HIDE DEF es, start
  <2>3. Pages(es, n, 0, 0, start).out = SubSeq(es, 0 * n + 0 + 1, start)
    BY <2>1, <2>2, PagesPrinted
  <2> QED  BY <2>1, <2>3
<1>6. ParseTraceFile(f, n) =
        IF hdr > FirstOffset THEN SubSeq(es, start + 1, L) \o SubSeq(es, 1, start)
        ELSE SubSeq(es, start + 1, L)
  BY <1>4, <1>5, Zenon DEF ParseTraceFile
<1>7. Printed(f, n) = ParseTraceFile(f, n)
  BY <1>1 DEF Printed
<1>8. SubSeq(es, 1, L) = es
  BY <1>1, SubSeqFull
<1>9. CASE hdr > FirstOffset
  <2>1. start + 1 = hdr /\ start = hdr - 1 /\ ~(hdr <= FirstOffset)
    BY <1>1, <1>9 DEF FirstOffset
  <2> QED  BY <1>6, <1>7, <1>9, <2>1
<1>10. CASE ~(hdr > FirstOffset)
  <2>1. start + 1 = 1 /\ hdr <= FirstOffset
    BY <1>1, <1>10 DEF FirstOffset
  <2> QED  BY <1>6, <1>7, <1>8, <1>10, <2>1
<1> QED  BY <1>9, <1>10

(* The same entry by entry. *)
LEMMA PrintsAs ==
  ASSUME NEW S, NEW f, f.entries \in Seq(S), f.hdr \in 0 .. Len(f.entries), NEW n \in Nat \ {0},
         NEW out \in Seq(S), Len(out) = Len(f.entries),
         \A i \in 1 .. Len(out) :
           out[i] = f.entries[IF f.hdr <= FirstOffset THEN i
                              ELSE IF i <= Len(out) - f.hdr + 1 THEN f.hdr + i - 1
                              ELSE i - (Len(out) - f.hdr + 1)]
  PROVE  Printed(f, n) = out
<1> DEFINE es == f.entries
           h  == f.hdr
           L  == Len(es)
           a  == SubSeq(es, h, L)
           b  == SubSeq(es, 1, h - 1)
<1>1. es \in Seq(S) /\ L \in Nat /\ h \in 0 .. L /\ Len(out) = L
  OBVIOUS
<1>2. CASE h <= FirstOffset
  <2>1. \A i \in 1 .. Len(out) : out[i] = es[i]
    BY <1>2
  <2> HIDE DEF es, h
  <2>2. out = es
    BY <1>1, <2>1, SeqEqual
  <2> QED  BY <1>2, <2>2, PrintsAll DEF es, h
<1>3. CASE ~(h <= FirstOffset)
  <2>1. \A i \in 1 .. L : out[i] = es[IF i <= L - h + 1 THEN h + i - 1 ELSE i - (L - h + 1)]
    BY <1>3
  <2>2. Printed(f, n) = a \o b
    BY <1>3, PrintsAll
  <2>3. h \in 2 .. L
    BY <1>1, <1>3 DEF FirstOffset
  <2> HIDE DEF es, h
  <2>4. /\ a \in Seq(S) /\ Len(a) = L - h + 1
        /\ \A i \in 1 .. L - h + 1 : a[i] = es[h + i - 1]
    <3>1. \A i \in h .. L : es[i] \in S
      BY <1>1, <2>3
    <3> QED  BY <1>1, <2>3, <3>1, SubSeqProperties
  <2>5. /\ b \in Seq(S) /\ Len(b) = h - 1
        /\ \A i \in 1 .. h - 1 : b[i] = es[i]
    <3>1. \A i \in 1 .. h - 1 : es[i] \in S
      BY <1>1, <2>3
    <3> QED  BY <1>1, <2>3, <3>1, SubSeqProperties
  <2> HIDE DEF a, b, L
  <2>6. /\ a \o b \in Seq(S) /\ Len(a \o b) = L
        /\ \A i \in 1 .. L : (a \o b)[i] = IF i <= Len(a) THEN a[i] ELSE b[i - Len(a)]
    <3>1. a \in Seq(S) /\ b \in Seq(S)
      BY <2>4, <2>5
    <3>2. /\ a \o b \in Seq(S) /\ Len(a \o b) = Len(a) + Len(b)
          /\ \A i \in 1 .. Len(a) + Len(b) :
               (a \o b)[i] = IF i <= Len(a) THEN a[i] ELSE b[i - Len(a)]
      BY <3>1, ConcatProperties
    <3>3. Len(a) + Len(b) = L
      BY <1>1, <2>3, <2>4, <2>5
    <3> QED  BY <3>2, <3>3
  <2>7. ASSUME NEW i \in 1 .. L
        PROVE  (a \o b)[i] = out[i]
    <3>1. i \in Int /\ i >= 1 /\ i <= L /\ L \in Int /\ h \in Int /\ h >= 2 /\ h <= L
      BY <1>1, <2>3
    <3>2. CASE i <= L - h + 1
      <4>1. i \in 1 .. L - h + 1
        BY <3>1, <3>2
      <4>2. (a \o b)[i] = a[i] /\ a[i] = es[h + i - 1] /\ out[i] = es[h + i - 1]
        BY <2>1, <2>4, <2>6, <3>2, <4>1
      <4> QED  BY <4>2
    <3>3. CASE ~(i <= L - h + 1)
      <4>1. i - (L - h + 1) \in 1 .. h - 1
        BY <3>1, <3>3
      <4>2. (a \o b)[i] = b[i - (L - h + 1)] /\ out[i] = es[i - (L - h + 1)]
        BY <2>1, <2>4, <2>6, <3>3
      <4>3. b[i - (L - h + 1)] = es[i - (L - h + 1)]
        BY <2>5, <4>1
      <4> QED  BY <4>2, <4>3
    <3> QED  BY <3>2, <3>3
  <2>8. a \o b = out
    BY <1>1, <2>6, <2>7, SeqEqual
  <2> QED  BY <2>2, <2>8
<1> QED  BY <1>2, <1>3

=============================================================================
