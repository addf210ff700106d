--------------------------- MODULE DocumentProofs ---------------------------
(***************************************************************************)
(* The piece table implements the document: what the operations of the     *)
(* table do to the lines it shows, for every file, every text and every    *)
(* bound. Lines are what the pieces of a list stand for; an operation on   *)
(* the list changes them at one place, and leaves the lines above and      *)
(* below it alone. The searches walk the pieces and answer for the lines   *)
(* of the document.                                                        *)
(***************************************************************************)
EXTENDS PieceTableProofs, Search

DocLine == Text \cup Nat

(* The lines a piece stands for, over a buffer of typed lines.             *)
LinesIn(p, buf) == IF IsOriginal(p) THEN [k \in 1 .. p.count |-> p.start + k - 1]
                   ELSE SubSeq(buf, p.start + 1, End(p))
Shown(ps, buf) == [i \in 1 .. Len(ps) |-> LinesIn(ps[i], buf)]

(* The lines of the pieces before the i-th, and from the i-th on.          *)
Above(ps, buf, i) == FlattenSeq(UpTo(Shown(ps, buf), i - 1))
Below(ps, buf, i) == FlattenSeq(Behind(Shown(ps, buf), i - 1))

(* A list of pieces whose typed lines are in the buffer.                   *)
Good(p, buf) == IsOriginal(p) \/ End(p) <= Len(buf)
Over(ps, buf) == ps \in Seq(Pieces) /\ \A i \in 1 .. Len(ps) : Good(ps[i], buf)

-----------------------------------------------------------------------------
(* Counting.                                                               *)

(* LinesBefore adds the counts of the pieces.                              *)
LEMMA LinesBeforeStep ==
  ASSUME NEW ps \in Seq(Pieces), NEW i \in 1 .. Len(ps) + 1
  PROVE  /\ LinesBefore(ps, i) \in Nat
         /\ LinesBefore(ps, 1) = 0
         /\ i <= Len(ps) => LinesBefore(ps, i + 1) = LinesBefore(ps, i) + ps[i].count
<1> DEFINE h == [k \in DOMAIN ps |-> ps[k].count]
<1>1. Len(ps) \in Nat /\ DOMAIN ps = 1 .. Len(ps) /\ i - 1 \in Nat /\ i \in Nat
  BY SMT
<1>2. \A k \in 1 .. Len(ps) : h[k] = ps[k].count /\ h[k] \in Nat
  BY <1>1, ElementOfList, PieceFields
<1>3. \A j \in Nat : LinesBefore(ps, j) = SumFunctionOnSet(h, 1 .. j - 1)
  BY DEF LinesBefore
<1> HIDE DEF h
<1>4. \A k \in 1 .. i - 1 : h[k] \in Nat
  BY <1>1, <1>2, SMT
<1>5. LinesBefore(ps, i) \in Nat
  BY <1>1, <1>3, <1>4, SumOfFirst
<1>6. LinesBefore(ps, 1) = 0
  <2>1. 1 .. 1 - 1 = {}
    BY SMT
  <2>2. QED
    BY <1>3, <2>1, SumEmpty
<1>7. ASSUME i <= Len(ps)
      PROVE  LinesBefore(ps, i + 1) = LinesBefore(ps, i) + ps[i].count
  <2>1. i # 0 /\ i + 1 - 1 = i /\ i + 1 \in Nat /\ i \in 1 .. Len(ps)
        /\ \A k \in 1 .. i : h[k] \in Nat
    BY <1>1, <1>2, <1>7, SMT
  <2>2. SumFunctionOnSet(h, 1 .. i) = SumFunctionOnSet(h, 1 .. i - 1) + h[i]
    BY <1>1, <2>1, SumOfFirst
  <2>3. QED
    BY <1>1, <1>2, <1>3, <2>1, <2>2
<1>8. QED
  BY <1>5, <1>6, <1>7

(* ... and sees no more of the list than those before the place.           *)
LEMMA LinesBeforeAgrees ==
  ASSUME NEW ps \in Seq(Pieces), NEW qs \in Seq(Pieces),
         NEW i \in 1 .. Len(ps) + 1, i <= Len(qs) + 1,
         \A k \in 1 .. i - 1 : ps[k] = qs[k]
  PROVE  LinesBefore(ps, i) = LinesBefore(qs, i)
<1> DEFINE h == [k \in DOMAIN ps |-> ps[k].count]
           g == [k \in DOMAIN qs |-> qs[k].count]
<1>1. \A k \in 1 .. i - 1 : k \in DOMAIN ps /\ k \in DOMAIN qs
  BY SMT
<1>2. Agree(h, g, 1 .. i - 1)
  BY <1>1 DEF Agree
<1>3. IsFiniteSet(1 .. i - 1)
  BY FS_Interval, SMT
<1> HIDE DEF h, g
<1>4. SumFunctionOnSet(h, 1 .. i - 1) = SumFunctionOnSet(g, 1 .. i - 1)
  BY <1>2, <1>3, SumAgrees
<1>5. QED
  BY <1>4 DEF LinesBefore, h, g

-----------------------------------------------------------------------------
(* The lines of a list of pieces.                                          *)

(* A piece stands for as many lines as it counts.                          *)
LEMMA LinesInType ==
  ASSUME NEW p \in Pieces, NEW buf \in Seq(Text), Good(p, buf)
  PROVE  LinesIn(p, buf) \in Seq(DocLine) /\ Len(LinesIn(p, buf)) = p.count
<1>1. p.start \in Nat /\ p.count \in Nat /\ End(p) = p.start + p.count
  BY PieceFields DEF End
<1>2. CASE IsOriginal(p)
  <2> DEFINE f == [k \in 1 .. p.count |-> p.start + k - 1]
  <2>1. \A k \in 1 .. p.count : p.start + k - 1 \in DocLine
    BY <1>1, SMT DEF DocLine
  <2>2. f \in Seq(DocLine) /\ Len(f) = p.count
    <3> HIDE DEF DocLine
    <3>1. QED
      BY <1>1, <2>1, SMT
  <2>3. QED
    BY <1>2, <2>2 DEF LinesIn
<1>3. CASE ~IsOriginal(p)
  <2>1. p.start + p.count <= Len(buf)
    BY <1>1, <1>3 DEF Good
  <2>2. buf \in Seq(DocLine)
    BY SMT DEF DocLine
  <2>3. /\ SubSeq(buf, p.start + 1, p.start + p.count) \in Seq(DocLine)
        /\ Len(SubSeq(buf, p.start + 1, p.start + p.count)) = p.count
    BY <1>1, <2>1, <2>2, SliceElements
  <2>4. QED
    BY <1>1, <1>3, <2>3 DEF LinesIn
<1>4. QED
  BY <1>2, <1>3

(* Each piece stands for a list of lines of its own. *)
LEMMA ShownType ==
  ASSUME NEW buf \in Seq(Text), NEW ps, Over(ps, buf)
  PROVE  /\ Shown(ps, buf) \in Seq(Seq(DocLine)) /\ Len(Shown(ps, buf)) = Len(ps)
         /\ Len(ps) \in Nat /\ ps \in Seq(Pieces)
         /\ \A i \in 1 .. Len(ps) : /\ Shown(ps, buf)[i] = LinesIn(ps[i], buf)
                                    /\ ps[i] \in Pieces /\ ps[i].count \in Nat
                                    /\ LinesIn(ps[i], buf) \in Seq(DocLine)
                                    /\ Len(LinesIn(ps[i], buf)) = ps[i].count
<1>1. ps \in Seq(Pieces) /\ Len(ps) \in Nat
  BY SMT DEF Over
<1>2. ASSUME NEW i \in 1 .. Len(ps)
      PROVE  /\ ps[i] \in Pieces /\ ps[i].count \in Nat
             /\ LinesIn(ps[i], buf) \in Seq(DocLine) /\ Len(LinesIn(ps[i], buf)) = ps[i].count
  <2>1. ps[i] \in Pieces /\ Good(ps[i], buf)
    BY <1>1, ElementOfList DEF Over
  <2>2. QED
    BY <2>1, PieceFields, LinesInType
<1>3. Shown(ps, buf) \in Seq(Seq(DocLine)) /\ Len(Shown(ps, buf)) = Len(ps)
  <2> DEFINE f == [i \in 1 .. Len(ps) |-> LinesIn(ps[i], buf)]
  <2>1. f \in [1 .. Len(ps) -> Seq(DocLine)]
    BY <1>2
  <2> HIDE DEF f
  <2>2. f \in Seq(Seq(DocLine)) /\ Len(f) = Len(ps)
    BY <1>1, <2>1, SMT
  <2>3. QED
    BY <2>2 DEF f, Shown
<1>4. \A i \in 1 .. Len(ps) : Shown(ps, buf)[i] = LinesIn(ps[i], buf)
  BY DEF Shown
<1>5. QED
  BY <1>1, <1>2, <1>3, <1>4

(* Above grows and Below shrinks by the lines of one piece.                *)
LEMMA Places ==
  ASSUME NEW buf \in Seq(Text), NEW ps, Over(ps, buf), NEW i \in 1 .. Len(ps) + 1
  PROVE  /\ Above(ps, buf, i) \in Seq(DocLine) /\ Below(ps, buf, i) \in Seq(DocLine)
         /\ FlattenSeq(Shown(ps, buf)) = Above(ps, buf, i) \o Below(ps, buf, i)
         /\ i <= Len(ps) => Below(ps, buf, i) = LinesIn(ps[i], buf) \o Below(ps, buf, i + 1)
         /\ i = Len(ps) + 1 => Below(ps, buf, i) = << >>
         /\ Above(ps, buf, 1) = << >> /\ Below(ps, buf, 1) = FlattenSeq(Shown(ps, buf))
<1> DEFINE ss == Shown(ps, buf)
<1>1. ss \in Seq(Seq(DocLine)) /\ Len(ss) = Len(ps) /\ Len(ps) \in Nat
      /\ \A k \in 1 .. Len(ps) : ss[k] = LinesIn(ps[k], buf)
  BY ShownType
<1> HIDE DEF ss
<1>2. i - 1 \in 0 .. Len(ss) /\ i - 1 + 1 = i /\ i + 1 - 1 = i /\ i - 1 \in Nat
  BY <1>1, SMT
<1>3. /\ FlattenSeq(ss) = FlattenSeq(UpTo(ss, i - 1)) \o FlattenSeq(Behind(ss, i - 1))
      /\ FlattenSeq(UpTo(ss, i - 1)) \in Seq(DocLine)
      /\ FlattenSeq(Behind(ss, i - 1)) \in Seq(DocLine)
  BY <1>1, <1>2, FlattenParts
<1>4. i <= Len(ps) =>
        FlattenSeq(Behind(ss, i - 1)) = LinesIn(ps[i], buf) \o FlattenSeq(Behind(ss, i))
  <2> SUFFICES ASSUME i <= Len(ps)
               PROVE  FlattenSeq(Behind(ss, i - 1)) = LinesIn(ps[i], buf) \o FlattenSeq(Behind(ss, i))
    OBVIOUS
  <2>1. i - 1 < Len(ss) /\ ss[i] = LinesIn(ps[i], buf)
    BY <1>1, <1>2, SMT
  <2> DEFINE n == i - 1
  <2>2. n \in 0 .. Len(ss) /\ n < Len(ss) /\ n + 1 = i
    BY <1>2, <2>1
  <2> HIDE DEF n
  <2>3. FlattenSeq(Behind(ss, n)) = ss[n + 1] \o FlattenSeq(Behind(ss, n + 1))
    BY <1>1, <2>2, FlattenParts
  <2>4. QED
    BY <2>1, <2>2, <2>3 DEF n
<1>5. i = Len(ps) + 1 => FlattenSeq(Behind(ss, i - 1)) = << >>
  <2>1. i = Len(ps) + 1 => Behind(ss, i - 1) = << >>
    <3>1. i = Len(ps) + 1 => i - 1 >= Len(ss)
      BY <1>1
    <3>2. QED
      BY <1>1, <1>2, <3>1, BehindConcat
  <2>2. QED
    BY <2>1, FlattenEmpty
<1>6. UpTo(ss, 1 - 1) = << >> /\ Behind(ss, 1 - 1) = ss
  BY <1>1, SMT DEF UpTo, Behind
<1>7. QED
  BY <1>2, <1>3, <1>4, <1>5, <1>6, FlattenEmpty DEF Above, Below, ss

(* One piece further down, its lines are above as well. *)
LEMMA AboveStep ==
  ASSUME NEW buf \in Seq(Text), NEW ps, Over(ps, buf), NEW i \in 1 .. Len(ps)
  PROVE  Above(ps, buf, i + 1) = Above(ps, buf, i) \o LinesIn(ps[i], buf)
<1> DEFINE ss == Shown(ps, buf)
           n == i - 1
<1>1. ss \in Seq(Seq(DocLine)) /\ Len(ss) = Len(ps) /\ Len(ps) \in Nat
      /\ ss[i] = LinesIn(ps[i], buf) /\ LinesIn(ps[i], buf) \in Seq(DocLine)
  BY ShownType
<1> HIDE DEF ss
<1>2. UpTo(ss, n + 1) = Append(UpTo(ss, n), ss[i]) /\ UpTo(ss, n) \in Seq(Seq(DocLine))
  BY <1>1, SMT DEF UpTo
<1> HIDE DEF n
<1>3. FlattenSeq(UpTo(ss, n + 1)) = FlattenSeq(UpTo(ss, n)) \o ss[i]
  BY <1>1, <1>2, FlattenAppend
<1>4. n = i - 1 /\ n + 1 = i /\ i + 1 - 1 = i
  BY SMT DEF n
<1>5. QED
  BY <1>1, <1>3, <1>4 DEF Above, ss

(* The lines above the i-th piece are those that LinesBefore counts.       *)
LEMMA LenAbove ==
  ASSUME NEW buf \in Seq(Text), NEW ps, Over(ps, buf), NEW i \in 1 .. Len(ps) + 1
  PROVE  Len(Above(ps, buf, i)) = LinesBefore(ps, i)
<1> DEFINE ss == Shown(ps, buf)
           n == i - 1
           tt == UpTo(ss, n)
           g == [k \in 1 .. Len(tt) |-> Len(tt[k])]
           h == [k \in DOMAIN ps |-> ps[k].count]
<1>1. /\ ss \in Seq(Seq(DocLine)) /\ Len(ss) = Len(ps) /\ Len(ps) \in Nat /\ ps \in Seq(Pieces)
      /\ \A k \in 1 .. Len(ps) : ss[k] = LinesIn(ps[k], buf) /\ Len(ss[k]) = ps[k].count
  BY ShownType
<1> HIDE DEF ss
<1>2. n \in 0 .. Len(ss) /\ n \in Nat
  BY <1>1, SMT
<1> HIDE DEF n
<1>3. tt \in Seq(Seq(DocLine)) /\ Len(tt) = n
  BY <1>1, <1>2, CutList
<1>4. \A k \in 1 .. n : tt[k] = ss[k] /\ k \in 1 .. Len(ps)
  BY <1>1, <1>2, SMT DEF UpTo
<1> HIDE DEF tt
<1>5. Len(FlattenSeq(tt)) = Total(g)
  BY <1>3, FlattenLen
<1>6. Len(g) = n
  BY <1>2, <1>3, SMT
<1>7. Agree(g, h, 1 .. n)
  <2>1. ASSUME NEW k \in 1 .. n PROVE g[k] = h[k]
    <3>1. k \in DOMAIN ps
      BY <1>1, <1>4, SMT
    <3>2. QED
      BY <1>1, <1>3, <1>4, <3>1
  <2> HIDE DEF g, h
  <2>2. QED
    BY <2>1 DEF Agree
<1>8. IsFiniteSet(1 .. n)
  BY <1>2, FS_Interval
<1> HIDE DEF g, h
<1>9. Total(g) = SumFunctionOnSet(h, 1 .. n)
  BY <1>6, <1>7, <1>8, SumAgrees DEF Total
<1>10. QED
  BY <1>5, <1>9 DEF Above, LinesBefore, h, tt, n, ss

(* What is above or below a place depends on the pieces there alone.       *)
LEMMA AboveAgrees ==
  ASSUME NEW buf \in Seq(Text), NEW ps, Over(ps, buf), NEW qs, Over(qs, buf),
         NEW i \in 1 .. Len(ps) + 1, i <= Len(qs) + 1,
         \A k \in 1 .. i - 1 : ps[k] = qs[k]
  PROVE  Above(ps, buf, i) = Above(qs, buf, i)
<1> DEFINE a == UpTo(Shown(ps, buf), i - 1)
           b == UpTo(Shown(qs, buf), i - 1)
<1>1. /\ Shown(ps, buf) \in Seq(Seq(DocLine)) /\ Len(Shown(ps, buf)) = Len(ps) /\ Len(ps) \in Nat
      /\ \A k \in 1 .. Len(ps) : Shown(ps, buf)[k] = LinesIn(ps[k], buf)
  BY ShownType
<1>2. /\ Shown(qs, buf) \in Seq(Seq(DocLine)) /\ Len(Shown(qs, buf)) = Len(qs) /\ Len(qs) \in Nat
      /\ \A k \in 1 .. Len(qs) : Shown(qs, buf)[k] = LinesIn(qs[k], buf)
  BY ShownType
<1>3. /\ a \in Seq(Seq(DocLine)) /\ Len(a) = i - 1
      /\ \A k \in 1 .. i - 1 : a[k] = Shown(ps, buf)[k] /\ k \in 1 .. Len(ps)
  BY <1>1, SMT DEF UpTo
<1>4. /\ b \in Seq(Seq(DocLine)) /\ Len(b) = i - 1
      /\ \A k \in 1 .. i - 1 : b[k] = Shown(qs, buf)[k] /\ k \in 1 .. Len(qs)
  BY <1>2, SMT DEF UpTo
<1> HIDE DEF a, b
<1>5. \A k \in 1 .. Len(a) : a[k] = b[k]
  BY <1>1, <1>2, <1>3, <1>4
<1>6. a = b
  BY <1>3, <1>4, <1>5, SameList
<1>7. QED
  BY <1>6 DEF a, b, Above

SameFrom(ps, i, qs, j) ==
  Len(ps) - i = Len(qs) - j /\ \A k \in 0 .. Len(ps) - i : ps[i + k] = qs[j + k]

(* Two tables with the same pieces from some place on show the same lines from there. *)
LEMMA BelowAgrees ==
  ASSUME NEW buf \in Seq(Text), NEW ps, Over(ps, buf), NEW qs, Over(qs, buf),
         NEW i \in 1 .. Len(ps) + 1, NEW j \in 1 .. Len(qs) + 1, SameFrom(ps, i, qs, j)
  PROVE  Below(ps, buf, i) = Below(qs, buf, j)
<1> DEFINE a == Behind(Shown(ps, buf), i - 1)
           b == Behind(Shown(qs, buf), j - 1)
           n == Len(ps) - i + 1
<1>1. /\ Shown(ps, buf) \in Seq(Seq(DocLine)) /\ Len(Shown(ps, buf)) = Len(ps) /\ Len(ps) \in Nat
      /\ \A k \in 1 .. Len(ps) : Shown(ps, buf)[k] = LinesIn(ps[k], buf)
  BY ShownType
<1>2. /\ Shown(qs, buf) \in Seq(Seq(DocLine)) /\ Len(Shown(qs, buf)) = Len(qs) /\ Len(qs) \in Nat
      /\ \A k \in 1 .. Len(qs) : Shown(qs, buf)[k] = LinesIn(qs[k], buf)
  BY ShownType
<1>3. /\ a \in Seq(Seq(DocLine)) /\ Len(a) = n
      /\ \A k \in 1 .. n : a[k] = Shown(ps, buf)[i + (k - 1)] /\ i + (k - 1) \in 1 .. Len(ps)
  BY <1>1, SMT DEF Behind, SameFrom
<1>4. /\ b \in Seq(Seq(DocLine)) /\ Len(b) = n
      /\ \A k \in 1 .. n : b[k] = Shown(qs, buf)[j + (k - 1)] /\ j + (k - 1) \in 1 .. Len(qs)
  BY <1>2, SMT DEF Behind, SameFrom
<1>5. \A k \in 1 .. n : k - 1 \in 0 .. Len(ps) - i
  BY <1>1, SMT
<1> HIDE DEF a, b, n
<1>6. ASSUME NEW k \in 1 .. Len(a) PROVE a[k] = b[k]
  <2>1. ps[i + (k - 1)] = qs[j + (k - 1)]
    BY <1>3, <1>5 DEF SameFrom
  <2>2. QED
    BY <1>1, <1>2, <1>3, <1>4, <2>1
<1>7. a = b
  BY <1>3, <1>4, <1>6, SameList
<1>8. QED
  BY <1>7 DEF a, b, Below

-----------------------------------------------------------------------------
(* What the operations of the table do to the lines.                       *)

(* A piece that is removed takes its lines with it.                        *)
LEMMA RemoveShows ==
  ASSUME NEW buf \in Seq(Text), NEW ps, Over(ps, buf), NEW i \in 1 .. Len(ps)
  PROVE  /\ Over(RemoveAt(ps, i), buf) /\ Len(RemoveAt(ps, i)) = Len(ps) - 1
         /\ Above(RemoveAt(ps, i), buf, i) = Above(ps, buf, i)
         /\ Below(RemoveAt(ps, i), buf, i) = Below(ps, buf, i + 1)
<1> DEFINE t == RemoveAt(ps, i)
<1>1. ps \in Seq(Pieces) /\ Len(ps) \in Nat /\ \A k \in 1 .. Len(ps) : Good(ps[k], buf)
  BY SMT DEF Over
<1>2. /\ t \in Seq(Pieces) /\ Len(t) = Len(ps) - 1
      /\ \A k \in 1 .. Len(ps) - 1 : t[k] = IF k < i THEN ps[k] ELSE ps[k + 1]
  BY <1>1, RemoveAtElements
<1> HIDE DEF t
<1>3. Over(t, buf)
  <2>1. ASSUME NEW k \in 1 .. Len(t) PROVE Good(t[k], buf)
    <3>1. k \in 1 .. Len(ps) - 1 /\ k \in 1 .. Len(ps) /\ k + 1 \in 1 .. Len(ps)
      BY <1>1, <1>2, SMT
    <3>2. t[k] = ps[k] \/ t[k] = ps[k + 1]
      BY <1>2, <3>1
    <3>3. QED
      BY <1>1, <3>1, <3>2
  <2>2. QED
    BY <1>2, <2>1 DEF Over
<1>4. Above(t, buf, i) = Above(ps, buf, i)
  <2>1. i \in 1 .. Len(t) + 1 /\ i <= Len(ps) + 1
        /\ \A k \in 1 .. i - 1 : k \in 1 .. Len(ps) - 1 /\ k < i
    BY <1>1, <1>2, SMT
  <2>2. \A k \in 1 .. i - 1 : t[k] = ps[k]
    BY <1>2, <2>1
  <2>3. QED
    BY <1>3, <2>1, <2>2, AboveAgrees
<1>5. Below(t, buf, i) = Below(ps, buf, i + 1)
  <2>1. /\ i \in 1 .. Len(t) + 1 /\ i + 1 \in 1 .. Len(ps) + 1
        /\ Len(t) - i = Len(ps) - (i + 1)
        /\ \A k \in 0 .. Len(t) - i : /\ i + k \in 1 .. Len(ps) - 1 /\ ~(i + k < i)
                                      /\ i + 1 + k = i + k + 1
    BY <1>1, <1>2, SMT
  <2>2. \A k \in 0 .. Len(t) - i : t[i + k] = ps[i + 1 + k]
    BY <1>2, <2>1
  <2> DEFINE j == i + 1
  <2>3. j \in 1 .. Len(ps) + 1 /\ SameFrom(t, i, ps, j)
    BY <2>1, <2>2 DEF SameFrom
  <2> HIDE DEF j
  <2>4. Below(t, buf, i) = Below(ps, buf, j)
    BY <1>3, <2>1, <2>3, BelowAgrees
  <2>5. QED
    BY <2>4 DEF j
<1>6. QED
  BY <1>2, <1>3, <1>4, <1>5 DEF t

(* A piece that is inserted shows its lines between those above and below. *)
LEMMA InsertShows ==
  ASSUME NEW buf \in Seq(Text), NEW ps, Over(ps, buf), NEW i \in 1 .. Len(ps) + 1,
         NEW e \in Pieces, Good(e, buf)
  PROVE  /\ Over(InsertAt(ps, i, e), buf) /\ Len(InsertAt(ps, i, e)) = Len(ps) + 1
         /\ Above(InsertAt(ps, i, e), buf, i) = Above(ps, buf, i)
         /\ Below(InsertAt(ps, i, e), buf, i) = LinesIn(e, buf) \o Below(ps, buf, i)
<1> DEFINE t == InsertAt(ps, i, e)
<1>1. ps \in Seq(Pieces) /\ Len(ps) \in Nat /\ \A k \in 1 .. Len(ps) : Good(ps[k], buf)
  BY SMT DEF Over
<1>2. /\ t \in Seq(Pieces) /\ Len(t) = Len(ps) + 1
      /\ \A k \in 1 .. Len(ps) + 1 : t[k] = IF k < i THEN ps[k] ELSE IF k = i THEN e ELSE ps[k - 1]
  BY <1>1, InsertAtElements
<1> HIDE DEF t
<1>3. Over(t, buf)
  <2>1. ASSUME NEW k \in 1 .. Len(t) PROVE Good(t[k], buf)
    <3>1. k \in 1 .. Len(ps) + 1 /\ (k < i => k \in 1 .. Len(ps))
          /\ (k > i => k - 1 \in 1 .. Len(ps)) /\ (k < i \/ k = i \/ k > i)
      BY <1>1, <1>2, SMT
    <3>2. (k < i /\ t[k] = ps[k]) \/ t[k] = e \/ (k > i /\ t[k] = ps[k - 1])
      BY <1>2, <3>1
    <3>3. QED
      BY <1>1, <3>1, <3>2
  <2>2. QED
    BY <1>2, <2>1 DEF Over
<1>4. Above(t, buf, i) = Above(ps, buf, i)
  <2>1. i \in 1 .. Len(t) + 1 /\ i <= Len(ps) + 1
        /\ \A k \in 1 .. i - 1 : k \in 1 .. Len(ps) + 1 /\ k < i
    BY <1>1, <1>2, SMT
  <2>2. \A k \in 1 .. i - 1 : t[k] = ps[k]
    BY <1>2, <2>1
  <2>3. QED
    BY <1>3, <2>1, <2>2, AboveAgrees
<1>5. Below(t, buf, i + 1) = Below(ps, buf, i)
  <2> DEFINE j == i + 1
  <2>1. /\ j \in 1 .. Len(t) + 1 /\ Len(t) - j = Len(ps) - i
        /\ \A k \in 0 .. Len(t) - j : /\ j + k \in 1 .. Len(ps) + 1 /\ ~(j + k < i) /\ j + k # i
                                      /\ j + k - 1 = i + k
    BY <1>1, <1>2, SMT
  <2> HIDE DEF j
  <2>2. SameFrom(t, j, ps, i)
    <3>1. ASSUME NEW k \in 0 .. Len(t) - j PROVE t[j + k] = ps[i + k]
      <4>1. t[j + k] = ps[j + k - 1]
        BY <1>2, <2>1
      <4>2. QED
        BY <2>1, <4>1
    <3>2. QED
      BY <2>1, <3>1 DEF SameFrom
  <2>3. Below(t, buf, j) = Below(ps, buf, i)
    BY <1>3, <2>1, <2>2, BelowAgrees
  <2>4. QED
    BY <2>3 DEF j
<1>6. Below(t, buf, i) = LinesIn(e, buf) \o Below(t, buf, i + 1)
  <2>1. i \in 1 .. Len(t) + 1 /\ i <= Len(t) /\ t[i] = e
    BY <1>1, <1>2, SMT
  <2>2. QED
    BY <1>3, <2>1, Places
<1>7. QED
  BY <1>2, <1>3, <1>4, <1>5, <1>6 DEF t

(* A piece that is cut shows the same lines in two parts.                  *)
LEMMA CutShows ==
  ASSUME NEW buf \in Seq(Text), NEW p \in Pieces, Good(p, buf), NEW off \in Nat, off < p.count
  PROVE  /\ Good(Resized(p, off), buf) /\ Good(Rest(p, off), buf)
         /\ LinesIn(Resized(p, off), buf) = UpTo(LinesIn(p, buf), off)
         /\ LinesIn(Rest(p, off), buf) = Behind(LinesIn(p, buf), off)
<1>1. p.start \in Nat /\ p.count \in Nat /\ End(p) = p.start + p.count
  BY PieceFields DEF End
<1>2. /\ Resized(p, off).kind = p.kind /\ Resized(p, off).start = p.start
      /\ Resized(p, off).count = off
  BY SMT DEF Resized, Pieces
<1>3. /\ Rest(p, off).kind = p.kind /\ Rest(p, off).start = p.start + off
      /\ Rest(p, off).count = p.count - off
  BY SMT DEF Rest
<1>4. Good(Resized(p, off), buf) /\ Good(Rest(p, off), buf)
  <2>1. End(p) <= Len(buf) => p.start + off <= Len(buf) /\ p.start + off + (p.count - off) <= Len(buf)
    BY <1>1, SMT
  <2>2. QED
    BY <1>2, <1>3, <2>1 DEF Good, IsOriginal, End
<1>5. CASE IsOriginal(p)
  <2> DEFINE f == [k \in 1 .. p.count |-> p.start + k - 1]
  <2>1. f \in Seq(Nat) /\ Len(f) = p.count
    BY <1>1, SMT
  <2>2. UpTo(f, off) = [k \in 1 .. off |-> p.start + k - 1]
    BY <1>1, <2>1, SMT DEF UpTo
  <2>3. Behind(f, off) = [k \in 1 .. p.count - off |-> p.start + off + k - 1]
    BY <1>1, <2>1, SMT DEF Behind
  <2>4. QED
    BY <1>2, <1>3, <1>4, <1>5, <2>2, <2>3 DEF LinesIn, IsOriginal
<1>6. CASE ~IsOriginal(p)
  <2>1. p.start + p.count <= Len(buf)
    BY <1>1, <1>6 DEF Good
  <2> DEFINE a == p.start
             n == p.count
  <2>2. a \in Nat /\ n \in Nat /\ a + n <= Len(buf) /\ off <= n
    BY <1>1, <2>1, SMT
  <2> HIDE DEF a, n
  <2>3. UpTo(Slice(buf, a, n), off) = Slice(buf, a, off)
        /\ Behind(Slice(buf, a, n), off) = Slice(buf, a + off, n - off)
    BY <2>2, SliceOfSlice
  <2>4. QED
    BY <1>1, <1>2, <1>3, <1>4, <1>6, <2>3 DEF LinesIn, IsOriginal, End, Slice, a, n
<1>7. QED
  BY <1>4, <1>5, <1>6

(* split_piece_at: the lines before the cut go above the new place, the    *)
(* others stay below it.                                                   *)
LEMMA SplitShows ==
  ASSUME NEW buf \in Seq(Text), NEW ps, Over(ps, buf), NEW i \in 1 .. Len(ps),
         NEW off \in Nat, 0 < off, off < ps[i].count
  PROVE  /\ Over(Split(ps, i, off), buf) /\ Len(Split(ps, i, off)) = Len(ps) + 1
         /\ Above(Split(ps, i, off), buf, i + 1)
              = Above(ps, buf, i) \o UpTo(LinesIn(ps[i], buf), off)
         /\ Below(Split(ps, i, off), buf, i + 1)
              = Behind(LinesIn(ps[i], buf), off) \o Below(ps, buf, i + 1)
<1> DEFINE p == ps[i]
           u == [ps EXCEPT ![i] = Resized(@, off)]
           j == i + 1
           t == Split(ps, i, off)
<1>1. ps \in Seq(Pieces) /\ Len(ps) \in Nat /\ (\A k \in 1 .. Len(ps) : Good(ps[k], buf))
      /\ p \in Pieces /\ Good(p, buf)
  BY ElementOfList, SMT DEF Over
<1>2. /\ Resized(p, off) \in Pieces /\ Rest(p, off) \in Pieces
      /\ Good(Resized(p, off), buf) /\ Good(Rest(p, off), buf)
      /\ LinesIn(Resized(p, off), buf) = UpTo(LinesIn(p, buf), off)
      /\ LinesIn(Rest(p, off), buf) = Behind(LinesIn(p, buf), off)
  <2> HIDE DEF p
  <2>1. off < p.count
    BY DEF p
  <2>2. QED
    BY <1>1, <2>1, CutFields, CutShows
<1>3. t = InsertAt(u, j, Rest(p, off))
  <2>1. ~(off = 0 \/ i > Len(ps)) /\ ~(off >= p.count)
    BY <1>1, PieceFields, SMT
  <2>2. QED
    BY <2>1 DEF Split
<1>4. /\ u \in Seq(Pieces) /\ Len(u) = Len(ps)
      /\ \A k \in 1 .. Len(ps) : u[k] = IF k = i THEN Resized(p, off) ELSE ps[k]
  <2>1. Resized(p, off) \in Pieces
    BY <1>2
  <2>2. QED
    BY <1>1, <2>1, SMT
<1> HIDE DEF u, t, j, p
<1>5. Over(u, buf)
  BY <1>1, <1>2, <1>4 DEF Over
<1>6. j \in 1 .. Len(u) + 1 /\ j = i + 1 /\ i \in 1 .. Len(u) + 1 /\ i <= Len(u)
  BY <1>1, <1>4, SMT DEF j
<1>7. /\ Over(t, buf) /\ Len(t) = Len(u) + 1
      /\ Above(t, buf, j) = Above(u, buf, j)
      /\ Below(t, buf, j) = LinesIn(Rest(p, off), buf) \o Below(u, buf, j)
  BY <1>2, <1>3, <1>5, <1>6, InsertShows
<1>8. Below(u, buf, j) = Below(ps, buf, j)
  <2>1. j \in 1 .. Len(ps) + 1 /\ \A k \in 0 .. Len(u) - j : j + k \in 1 .. Len(ps) /\ j + k # i
    BY <1>1, <1>4, <1>6, SMT
  <2>2. \A k \in 0 .. Len(u) - j : u[j + k] = ps[j + k]
    BY <1>4, <2>1
  <2>3. SameFrom(u, j, ps, j)
    BY <1>4, <2>2 DEF SameFrom
  <2>4. QED
    BY <1>5, <1>6, <2>1, <2>3, BelowAgrees
<1>9. Above(u, buf, j) = Above(ps, buf, i) \o UpTo(LinesIn(p, buf), off)
  <2>1. Above(u, buf, j) = Above(u, buf, i) \o LinesIn(u[i], buf)
    BY <1>5, <1>6, AboveStep
  <2>2. u[i] = Resized(p, off)
    BY <1>4
  <2>3. Above(u, buf, i) = Above(ps, buf, i)
    <3>1. i <= Len(ps) + 1 /\ \A k \in 1 .. i - 1 : k \in 1 .. Len(ps) /\ k # i
      BY <1>1, SMT
    <3>2. \A k \in 1 .. i - 1 : u[k] = ps[k]
      BY <1>4, <3>1
    <3>3. QED
      BY <1>5, <1>6, <3>1, <3>2, AboveAgrees
  <2>4. QED
    BY <1>2, <2>1, <2>2, <2>3
<1>10. QED
  BY <1>2, <1>4, <1>7, <1>8, <1>9 DEF t, j, p

(* sync_pieces puts the new lines of the file below all others.            *)
LEMMA SyncShows ==
  ASSUME NEW buf \in Seq(Text), Over(pieces, buf),
         indexed_lines_added \in Nat, original_total_lines \in Nat,
         indexed_lines_added <= original_total_lines
  PROVE  /\ Over(SyncedPieces, buf)
         /\ FlattenSeq(Shown(SyncedPieces, buf))
              = FlattenSeq(Shown(pieces, buf))
                  \o Doc!FileRange(indexed_lines_added, original_total_lines)
<1> DEFINE n == indexed_lines_added
           diff == original_total_lines - n
           last == Len(pieces)
           t == SyncedPieces
           new == Doc!FileRange(n, original_total_lines)
<1>1. diff \in Nat /\ last \in Nat /\ n \in Nat
  BY SMT DEF Over
<1>2. /\ pieces \in Seq(Pieces)
      /\ \A k \in 1 .. last : pieces[k] \in Pieces /\ Good(pieces[k], buf)
  BY ElementOfList DEF Over
<1>3. new = [k \in 1 .. diff |-> n + k - 1] /\ new \in Seq(DocLine)
  <2>1. new = [k \in 1 .. diff |-> n + k - 1]
    BY DEF Doc!FileRange
  <2>2. new \in Seq(Nat)
    BY <1>1, <2>1, SMT
  <2> HIDE DEF new
  <2>3. QED
    BY <2>1, <2>2, SMT DEF DocLine
<1> DEFINE ss == Shown(pieces, buf)
<1>4. /\ ss \in Seq(Seq(DocLine)) /\ Len(ss) = last
      /\ \A k \in 1 .. last : ss[k] = LinesIn(pieces[k], buf) /\ LinesIn(pieces[k], buf) \in Seq(DocLine)
  BY ShownType
<1>5. CASE diff = 0
  <2>1. t = pieces
    BY <1>5 DEF SyncedPieces
  <2>2. new = << >>
    BY <1>3, <1>5, SMT
  <2>3. FlattenSeq(ss) \in Seq(DocLine)
    BY <1>4, FlattenType
  <2> HIDE DEF t, new, ss
  <2>4. FlattenSeq(ss) \o << >> = FlattenSeq(ss)
    BY <2>3, ConcatLaws
  <2>5. QED
    BY <2>1, <2>2, <2>4 DEF t, new, ss
<1>6. CASE diff # 0 /\ CanExtend(pieces)
  <2> DEFINE p == pieces[last]
             e == [kind |-> p.kind, start |-> p.start, count |-> p.count + diff]
             m == last - 1
  <2>1. /\ last \in 1 .. last /\ p \in Pieces /\ p.start \in Nat /\ p.count \in Nat /\ IsOriginal(p)
        /\ p.start + p.count = n
    BY <1>1, <1>2, <1>6, PieceFields, SMT DEF CanExtend, Last, End
  <2>2. Resized(p, p.count + diff) = e /\ e \in Pieces /\ IsOriginal(e) /\ Good(e, buf)
    BY <1>1, <2>1, SMT DEF Resized, Pieces, Good, IsOriginal
  <2>3. t = [pieces EXCEPT ![last] = e]
    BY <1>6, <2>2 DEF SyncedPieces
  <2>4. LinesIn(e, buf) = LinesIn(p, buf) \o new
    <3> DEFINE f == [k \in 1 .. p.count |-> p.start + k - 1]
               g == [k \in 1 .. p.count + diff |-> p.start + k - 1]
    <3>1. f \in Seq(Nat) /\ Len(f) = p.count
      BY <2>1, SMT
    <3>2. g \in Seq(Nat) /\ Len(g) = p.count + diff
      <4> DEFINE a == p.start
                 c == p.count + diff
      <4>1. a \in Nat /\ c \in Nat
        BY <1>1, <2>1, SMT
      <4>2. g = [k \in 1 .. c |-> a + k - 1]
        OBVIOUS
      <4> HIDE DEF a, c, g
      <4>3. g \in Seq(Nat) /\ Len(g) = c
        BY <4>1, <4>2, SMT
      <4>4. QED
        BY <4>3 DEF c
    <3>3. new \in Seq(Nat) /\ Len(new) = diff
      <4> HIDE DEF new
      <4>1. QED
        BY <1>1, <1>3, SMT
    <3> HIDE DEF new
    <3>4. /\ f \o new \in Seq(Nat) /\ Len(f \o new) = p.count + diff
          /\ \A k \in 1 .. p.count + diff :
               (f \o new)[k] = IF k <= p.count THEN f[k] ELSE new[k - p.count]
      <4> HIDE DEF f, p, diff
      <4>1. f \in Seq(Nat) /\ new \in Seq(Nat)
        BY <3>1, <3>3
      <4>2. /\ f \o new \in Seq(Nat) /\ Len(f \o new) = Len(f) + Len(new)
            /\ \A k \in 1 .. Len(f) + Len(new) :
                 (f \o new)[k] = IF k <= Len(f) THEN f[k] ELSE new[k - Len(f)]
        BY <4>1, ConcatElements
      <4>3. QED
        BY <3>1, <3>3, <4>2, Zenon
    <3>5. ASSUME NEW k \in 1 .. p.count + diff PROVE g[k] = (f \o new)[k]
      <4>1. CASE k <= p.count
        BY <1>1, <2>1, <3>4, <4>1, SMT
      <4>2. CASE ~(k <= p.count)
        <5>1. k - p.count \in 1 .. diff /\ n + (k - p.count) - 1 = p.start + k - 1
          <6> HIDE DEF p, diff
          <6>1. k \in Nat /\ k <= p.count + diff
            BY <1>1, <2>1, SMT
          <6>2. QED
            BY <1>1, <2>1, <4>2, <6>1, SMT
        <5>2. new[k - p.count] = n + (k - p.count) - 1
          BY <1>3, <5>1
        <5>3. QED
          BY <3>4, <4>2, <5>1, <5>2
      <4>3. QED
        BY <4>1, <4>2
    <3>6. g = f \o new
      <4> HIDE DEF f, g, p, diff
      <4>1. QED
        BY <3>2, <3>4, <3>5, SameList
    <3>7. QED
      BY <2>1, <2>2, <3>6 DEF LinesIn
  <2> HIDE DEF e, p, new, diff
  <2>5. /\ t \in Seq(Pieces) /\ Len(t) = last
        /\ \A k \in 1 .. last : t[k] = IF k = last THEN e ELSE pieces[k]
    <3> HIDE DEF t
    <3>1. QED
      BY <1>2, <2>1, <2>2, <2>3, SMT
  <2> HIDE DEF t
  <2>6. Over(t, buf)
    BY <1>2, <2>2, <2>5 DEF Over
  <2> DEFINE a == Above(pieces, buf, last)
  <2>7. /\ a \in Seq(DocLine)
        /\ FlattenSeq(ss) = a \o (LinesIn(p, buf) \o << >>)
        /\ LinesIn(p, buf) \in Seq(DocLine)
    <3>1. last \in 1 .. last + 1 /\ last + 1 \in 1 .. last + 1 /\ last <= last
      BY <2>1, SMT
    <3>2. /\ a \in Seq(DocLine) /\ FlattenSeq(ss) = a \o Below(pieces, buf, last)
          /\ Below(pieces, buf, last) = LinesIn(p, buf) \o Below(pieces, buf, last + 1)
      BY <3>1, Places DEF p
    <3>3. Below(pieces, buf, last + 1) = << >>
      BY <3>1, Places
    <3>4. QED
      BY <1>4, <2>1, <3>2, <3>3 DEF p
  <2>8. FlattenSeq(Shown(t, buf)) = a \o (LinesIn(e, buf) \o << >>)
    <3>1. last \in 1 .. Len(t) + 1 /\ last + 1 \in 1 .. Len(t) + 1 /\ last <= Len(t) /\ t[last] = e
      BY <2>1, <2>5, SMT
    <3>2. /\ FlattenSeq(Shown(t, buf)) = Above(t, buf, last) \o Below(t, buf, last)
          /\ Below(t, buf, last) = LinesIn(e, buf) \o Below(t, buf, last + 1)
      BY <2>6, <3>1, Places
    <3>3. Below(t, buf, last + 1) = << >>
      BY <2>5, <2>6, <3>1, Places
    <3>4. Above(t, buf, last) = a
      <4>1. last <= last + 1 /\ \A k \in 1 .. last - 1 : k \in 1 .. last /\ k # last
        BY <1>1, SMT
      <4>2. \A k \in 1 .. last - 1 : t[k] = pieces[k]
        BY <2>5, <4>1
      <4> DEFINE i == last
      <4>3. i \in 1 .. Len(t) + 1 /\ i <= Len(pieces) + 1 /\ \A k \in 1 .. i - 1 : t[k] = pieces[k]
        BY <3>1, <4>1, <4>2
      <4> HIDE DEF i
      <4>4. Above(t, buf, i) = Above(pieces, buf, i)
        BY <2>6, <4>3, AboveAgrees
      <4>5. QED
        BY <4>4 DEF i, a
    <3>5. QED
      BY <3>2, <3>3, <3>4
  <2> HIDE DEF a, ss
  <2> DEFINE x == LinesIn(p, buf)
  <2>9. a \o ((x \o new) \o << >>) = (a \o (x \o << >>)) \o new
    <3>1. a \in Seq(DocLine) /\ x \in Seq(DocLine) /\ new \in Seq(DocLine) /\ x \o new \in Seq(DocLine)
      BY <1>3, <2>7, ConcatLaws
    <3> HIDE DEF x
    <3>2. (x \o new) \o << >> = x \o new /\ x \o << >> = x
      BY <3>1, ConcatLaws
    <3>3. a \o (x \o new) = (a \o x) \o new
      BY <3>1, ConcatLaws
    <3>4. QED
      BY <3>2, <3>3
  <2>10. QED
    BY <2>4, <2>6, <2>7, <2>8, <2>9 DEF t, new, ss
<1>7. CASE diff # 0 /\ ~CanExtend(pieces)
  <2> DEFINE e == Original(n, diff)
  <2>1. e \in Pieces /\ IsOriginal(e) /\ Good(e, buf) /\ LinesIn(e, buf) = new
    <3>1. e.kind = "original" /\ e.start = n /\ e.count = diff
      BY DEF Original
    <3>2. e \in Pieces
      BY <1>1, SMT DEF Original, Pieces
    <3>3. IsOriginal(e)
      BY <3>1 DEF IsOriginal
    <3> HIDE DEF e, new
    <3>4. QED
      BY <1>3, <3>1, <3>2, <3>3 DEF LinesIn, Good
  <2>2. t = Append(pieces, e)
    BY <1>7 DEF SyncedPieces
  <2> HIDE DEF e, t, diff, new
  <2>3. /\ t \in Seq(Pieces) /\ Len(t) = last + 1
        /\ \A k \in 1 .. last + 1 : t[k] = IF k = last + 1 THEN e ELSE pieces[k]
    BY <1>2, <2>1, <2>2, SMT
  <2>4. Over(t, buf)
    <3>1. \A k \in 1 .. last + 1 : k \in 1 .. last \/ k = last + 1
      BY <1>1, SMT
    <3>2. QED
      BY <1>2, <2>1, <2>3, <3>1 DEF Over
  <2>5. Shown(t, buf) = Append(ss, new)
    <3>1. Shown(t, buf) = [k \in 1 .. last + 1 |-> LinesIn(t[k], buf)]
      BY <2>3 DEF Shown
    <3>2. Append(ss, new) = [k \in 1 .. last + 1 |-> IF k = last + 1 THEN new ELSE ss[k]]
      <4> HIDE DEF ss
      <4>1. QED
        BY <1>1, <1>3, <1>4, SMT
    <3>3. ASSUME NEW k \in 1 .. last + 1
          PROVE  LinesIn(t[k], buf) = IF k = last + 1 THEN new ELSE ss[k]
      <4>1. CASE k = last + 1
        BY <2>1, <2>3, <4>1
      <4>2. CASE k # last + 1
        <5>1. k \in 1 .. last
          BY <1>1, <4>2, SMT
        <5>2. QED
          BY <1>4, <2>3, <4>2, <5>1
      <4>3. QED
        BY <4>1, <4>2
    <3> HIDE DEF ss
    <3>4. QED
      BY <3>1, <3>2, <3>3, Zenon
  <2>6. FlattenSeq(Append(ss, new)) = FlattenSeq(ss) \o new
    BY <1>3, <1>4, FlattenAppend
  <2>7. QED
    BY <2>4, <2>5, <2>6 DEF t, new
<1>8. QED
  BY <1>5, <1>6, <1>7

-----------------------------------------------------------------------------
(* The document the table stands for.                                      *)

docOf == IF pc \in {"delete", "insert"} THEN Pending ELSE Contents
requestOf == IF pc \in {"sync", "locate", "sync_split", "split"} THEN edit
             ELSE [start |-> 0, deleted |-> 0, lines |-> << >>, none |-> TRUE]

(* The same in terms of the lines above and below the place of the edit.   *)
View ==
  IF pc \in {"delete", "insert"}
    THEN (Above(pieces, memory_buffer, piece_idx) \o edit.lines)
           \o Behind(Below(pieces, memory_buffer, piece_idx), remaining_delete)
    ELSE FlattenSeq(Shown(pieces, memory_buffer))

(* An edit splits where its line is, with everything still to be deleted;  *)
(* it inserts when nothing is, or nothing is left to delete.               *)
Placed == pc \in {"sync_split", "split"} =>
            remaining_delete = edit.deleted /\ Holds(piece_idx, offset, edit.start)
DeletedAll == pc = "insert" => remaining_delete = 0 \/ piece_idx > Len(pieces)

DocInv == IInv /\ Placed /\ DeletedAll

(* Before a compaction, and all the time without one, every piece lies     *)
(* over memory_buffer.                                                     *)
LEMMA PiecesOver ==
  ASSUME IInv, pc # "compact" \/ cursor = 1
  PROVE  /\ Over(pieces, memory_buffer) /\ memory_buffer \in Seq(Text)
         /\ pieces \in Seq(Pieces) /\ Len(pieces) \in Nat
         /\ \A i \in 1 .. Len(pieces) : PieceLines(i) = LinesIn(pieces[i], memory_buffer)
<1>1. pieces \in Seq(Pieces) /\ memory_buffer \in Seq(Text) /\ Len(pieces) \in Nat
  BY SMT DEF IInv, TypeOK
<1>2. ASSUME NEW i \in 1 .. Len(pieces) PROVE Buffer(i) = memory_buffer
  BY SMT DEF Compacted, Buffer
<1>3. Over(pieces, memory_buffer)
  BY <1>1, <1>2 DEF Over, Good, IInv, PiecesInBounds
<1>4. \A i \in 1 .. Len(pieces) : PieceLines(i) = LinesIn(pieces[i], memory_buffer)
  BY <1>2 DEF PieceLines, LinesIn
<1>5. QED
  BY <1>1, <1>3, <1>4

OverBuffer == IInv /\ (pc # "compact" \/ cursor = 1) => Over(pieces, memory_buffer)

(* The pieces lie over the memory buffer, so that they stand for lines. *)
LEMMA PiecesOverBuffer == OverBuffer
BY PiecesOver DEF OverBuffer

(* They do so after a step, too, when it does not stop halfway through a compaction. *)
LEMMA PiecesOverNext ==
  IInv' /\ (pc' # "compact" \/ cursor' = 1) => Over(pieces', memory_buffer')
<1>1. OverBuffer'
  BY PiecesOverBuffer, PTL
<1>2. QED
  BY <1>1 DEF OverBuffer

(* What LinesOf reads is what the pieces show.                             *)
LEMMA LinesOfShown ==
  ASSUME IInv, pc # "compact" \/ cursor = 1, NEW i \in 1 .. Len(pieces) + 1
  PROVE  /\ LinesOf(1, i - 1) = Above(pieces, memory_buffer, i)
         /\ LinesOf(i, Len(pieces)) = Below(pieces, memory_buffer, i)
<1> DEFINE ss == Shown(pieces, memory_buffer)
           n == Len(pieces)
           PL(k) == PieceLines(k)
<1>1. /\ Over(pieces, memory_buffer) /\ memory_buffer \in Seq(Text)
      /\ \A k \in 1 .. n : PL(k) = LinesIn(pieces[k], memory_buffer)
  BY PiecesOver
<1>2. /\ ss \in Seq(Seq(DocLine)) /\ Len(ss) = n /\ n \in Nat
      /\ \A k \in 1 .. n : ss[k] = PL(k)
  <2>1. /\ ss \in Seq(Seq(DocLine)) /\ Len(ss) = n /\ n \in Nat
        /\ \A k \in 1 .. n : ss[k] = LinesIn(pieces[k], memory_buffer)
    BY <1>1, ShownType
  <2> HIDE DEF ss, n, PL
  <2>2. QED
    BY <1>1, <2>1
<1> HIDE DEF ss, PL
<1>3. UpTo(ss, i - 1) = [k \in 1 .. (i - 1 - 1 + 1) |-> PL(1 + k - 1)]
  <2> DEFINE f == [k \in 1 .. (i - 1 - 1 + 1) |-> PL(1 + k - 1)]
  <2>1. i - 1 - 1 + 1 = i - 1 /\ i - 1 \in Nat
        /\ \A k \in 1 .. i - 1 : k \in 1 .. n /\ 1 + k - 1 = k
    BY <1>2, SMT
  <2>2. f = [k \in 1 .. i - 1 |-> ss[k]]
    BY <1>2, <2>1
  <2>3. UpTo(ss, i - 1) = [k \in 1 .. i - 1 |-> ss[k]]
    BY <1>2, <2>1, SMT DEF UpTo
  <2>4. QED
    BY <2>2, <2>3
<1>4. Behind(ss, i - 1) = [k \in 1 .. (n - i + 1) |-> PL(i + k - 1)]
  <2> DEFINE f == [k \in 1 .. (n - i + 1) |-> PL(i + k - 1)]
  <2>1. n - i + 1 \in Nat /\ \A k \in 1 .. n - i + 1 : i + k - 1 \in 1 .. n
    BY <1>2, SMT
  <2>2. f = [k \in 1 .. n - i + 1 |-> ss[i + k - 1]]
    BY <1>2, <2>1
  <2>3. Behind(ss, i - 1) = [k \in 1 .. n - i + 1 |-> ss[i + k - 1]]
    BY <1>2, <2>1, SMT DEF Behind
  <2>4. QED
    BY <2>2, <2>3
<1>5. QED
  BY <1>3, <1>4 DEF LinesOf, Above, Below, PL, ss

(* So the view is the document.                                            *)
ViewCorrect == IInv /\ (pc # "compact" \/ cursor = 1) => docOf = View

(* Outside of an edit the document is what the table shows. *)
LEMMA ViewIsDoc == ViewCorrect
<1> SUFFICES ASSUME IInv, pc # "compact" \/ cursor = 1 PROVE docOf = View
  BY DEF ViewCorrect
<1>1. Over(pieces, memory_buffer) /\ memory_buffer \in Seq(Text) /\ Len(pieces) \in Nat
  BY PiecesOver
<1>2. CASE pc \in {"delete", "insert"}
  <2>1. piece_idx \in 1 .. Len(pieces) + 1
    BY DEF IInv, TypeOK
  <2>2. /\ LinesOf(1, piece_idx - 1) = Above(pieces, memory_buffer, piece_idx)
        /\ LinesOf(piece_idx, Len(pieces)) = Below(pieces, memory_buffer, piece_idx)
    BY <2>1, LinesOfShown
  <2>3. QED
    BY <1>2, <2>2 DEF docOf, View, Pending, Behind
<1>3. CASE pc \notin {"delete", "insert"}
  <2>1. 1 \in 1 .. Len(pieces) + 1
    BY <1>1, SMT
  <2>2. LinesOf(1, Len(pieces)) = Below(pieces, memory_buffer, 1)
    BY <2>1, LinesOfShown
  <2>3. Below(pieces, memory_buffer, 1) = FlattenSeq(Shown(pieces, memory_buffer))
    BY <1>1, <2>1, Places
  <2>4. QED
    BY <1>3, <2>2, <2>3 DEF docOf, View, Contents
<1>4. QED
  BY <1>2, <1>3

(* The same after a step. *)
LEMMA ViewIsDocNext == IInv' /\ (pc' # "compact" \/ cursor' = 1) => docOf' = View'
<1>1. ViewCorrect'
  BY ViewIsDoc, PTL
<1>2. QED
  BY <1>1 DEF ViewCorrect

-----------------------------------------------------------------------------
(* The stronger invariant.                                                 *)

(* The fields the arguments rely on.                                       *)
LEMMA Fields ==
  ASSUME IInv
  PROVE  /\ pieces \in Seq(Pieces) /\ Len(pieces) \in Nat /\ memory_buffer \in Seq(Text)
         /\ indexed_lines_added \in Nat /\ original_total_lines \in Nat
         /\ indexed_lines_added <= original_total_lines /\ original_total_lines <= FileLines
         /\ piece_idx \in 1 .. Len(pieces) + 1 /\ offset \in Nat
         /\ remaining_delete \in Nat /\ edit.deleted \in Nat /\ edit.start \in Nat
         /\ edit.lines \in Seq(Text) /\ edit.lines \in Seq(DocLine)
         /\ edit \in [start : Nat, deleted : Nat, lines : Seq(Text)]
<1>1. edit.lines \in Seq(Text) /\ edit.deleted \in Nat /\ edit.start \in Nat
  BY SMT DEF IInv, TypeOK
<1>2. edit.lines \in Seq(DocLine)
  BY <1>1, SMT DEF DocLine
<1>3. QED
  BY <1>1, <1>2, SMT DEF IInv, TypeOK

(* sync_pieces moves no piece and makes none shorter: a place stays right. *)
LEMMA SyncPlaced ==
  ASSUME IInv, Placed, EditSyncSplit
  PROVE  Placed'
<1>1. /\ pc = "sync_split" /\ pieces' = SyncedPieces
      /\ UNCHANGED <<original_total_lines, edit, piece_idx, offset, remaining_delete>>
  BY DEF EditSyncSplit, sync_pieces, locals
<1>2. /\ remaining_delete = edit.deleted
      /\ edit.start = LinesBefore(pieces, piece_idx) + offset
      /\ offset < pieces[piece_idx].count
  BY <1>1 DEF Placed, Holds
<1>3. piece_idx \in 1 .. Len(pieces) /\ piece_idx \in 1 .. Len(pieces) + 1
  BY <1>1, SMT DEF IInv, TypeOK, Position
<1>4. /\ SyncedPieces \in Seq(Pieces) /\ Len(pieces) <= Len(SyncedPieces)
      /\ \A k \in 1 .. Len(pieces) :
           /\ k < Len(pieces) => SyncedPieces[k] = pieces[k]
           /\ pieces[k].count <= SyncedPieces[k].count
  BY Fields, SyncKeepsPieces
<1>5. LinesBefore(pieces, piece_idx) = LinesBefore(SyncedPieces, piece_idx)
  <2>1. pieces \in Seq(Pieces) /\ piece_idx <= Len(SyncedPieces) + 1
        /\ \A k \in 1 .. piece_idx - 1 : k \in 1 .. Len(pieces) /\ k < Len(pieces)
    BY <1>3, <1>4, Fields, SMT
  <2>2. \A k \in 1 .. piece_idx - 1 : pieces[k] = SyncedPieces[k]
    BY <1>4, <2>1
  <2>3. QED
    BY <1>3, <1>4, <2>1, <2>2, LinesBeforeAgrees
<1>6. offset < SyncedPieces[piece_idx].count
  <2>1. pieces[piece_idx].count <= SyncedPieces[piece_idx].count
    BY <1>3, <1>4
  <2>2. pieces[piece_idx].count \in Nat /\ SyncedPieces[piece_idx].count \in Nat /\ offset \in Nat
    <3>1. piece_idx \in 1 .. Len(SyncedPieces)
      BY <1>3, <1>4, Fields, SMT
    <3>2. QED
      BY <1>3, <1>4, <3>1, Fields, ElementOfList, PieceFields
  <2>3. QED
    BY <1>2, <2>1, <2>2
<1>7. QED
  BY <1>1, <1>2, <1>5, <1>6 DEF Placed, Holds

(* Every step keeps what the refinement needs: the place of the edit and what is left to delete. *)
LEMMA DocInvHolds == DocInv /\ [Next]_vars => DocInv'
<1> SUFFICES ASSUME DocInv, [Next]_vars PROVE DocInv'
  OBVIOUS
<1>1. IInv /\ IInv'
  BY NextKeeps DEF DocInv
<1>2. Placed' /\ DeletedAll'
  <2> USE DEF Placed, DeletedAll
  <2>1. CASE IndexGrows
    BY <2>1 DEF IndexGrows, table, memory, locals, compaction, DocInv, Holds, LinesBefore
  <2>2. CASE Read
    BY <2>2 DEF Read
  <2>3. ASSUME NEW start, NEW deleted, NEW parts, EditCall(start, deleted, parts)
        PROVE  Placed' /\ DeletedAll'
    BY <2>3 DEF EditCall
  <2>4. CASE EditSync
    BY <2>4 DEF EditSync
  <2>5. CASE EditLocate
    <3>1. UNCHANGED <<pieces, edit>> /\ remaining_delete' = edit.deleted /\ pc' # "insert"
      BY <2>5 DEF EditLocate, table
    <3>2. CASE pc' = "sync_split"
      <4>1. Holds(piece_idx', offset', edit.start)
        BY <2>5, <3>2 DEF EditLocate
      <4>2. QED
        BY <3>1, <4>1 DEF Holds
    <3>3. CASE pc' = "delete"
      BY <3>3
    <3>4. QED
      BY <2>5, <3>2, <3>3 DEF EditLocate
  <2>6. CASE EditSyncSplit
    <3>1. Placed'
      <4> HIDE DEF Placed, DeletedAll
      <4>1. QED
        BY <1>1, <2>6, SyncPlaced DEF DocInv
    <3>2. QED
      BY <2>6, <3>1 DEF EditSyncSplit
  <2>7. CASE EditSplit
    BY <2>7 DEF EditSplit
  <2>8. CASE DeleteWhole \/ DeletePart
    BY <2>8 DEF DeleteWhole, DeletePart, Deleting
  <2>9. CASE DeleteDone
    <3>1. ~(remaining_delete > 0 /\ piece_idx <= Len(pieces))
          /\ UNCHANGED <<pieces, remaining_delete, piece_idx>> /\ pc' = "insert"
      BY <2>9 DEF DeleteDone, Deleting, table, locals
    <3>2. remaining_delete \in Nat /\ piece_idx \in 1 .. Len(pieces) + 1 /\ Len(pieces) \in Nat
      BY <1>1, Fields
    <3>3. remaining_delete = 0 \/ piece_idx > Len(pieces)
      BY <3>1, <3>2
    <3>4. QED
      BY <3>1, <3>3
  <2>10. CASE EditInsert
    BY <2>10 DEF EditInsert, Return
  <2>11. CASE CompactPiece
    BY <2>11 DEF CompactPiece
  <2>12. CASE CompactDone
    BY <2>12 DEF CompactDone, Return
  <2>13. CASE UNCHANGED vars
    BY <2>13 DEF vars, table, locals, DocInv, Holds, LinesBefore
  <2> HIDE DEF Placed, DeletedAll
  <2>14. QED
    BY <2>1, <2>2, <2>3, <2>4, <2>5, <2>6, <2>7, <2>8, <2>9, <2>10, <2>11, <2>12, <2>13
       DEF Next, EditStep
<1>3. QED
  BY <1>1, <1>2 DEF DocInv

(* The stronger invariant holds in every reachable state.                  *)
LEMMA DocInvariant == Spec => []DocInv
<1>1. Init => DocInv
  BY InitEstablishes DEF Init, DocInv, Placed, DeletedAll
<1>2. DocInv /\ [Next]_vars => DocInv'
  BY DocInvHolds
<1>3. QED
  BY <1>1, <1>2, PTL DEF Spec

-----------------------------------------------------------------------------
(* Every step of the table is a step of the document, or none.             *)

Stutter == UNCHANGED <<docOf, indexed_lines_added, requestOf>>

(* The lines of the file that arrive are a list of lines.                  *)
LEMMA NewLines ==
  ASSUME NEW n \in Nat, NEW m \in Nat, n <= m
  PROVE  /\ Doc!FileRange(n, m) \in Seq(DocLine)
         /\ n = m => Doc!FileRange(n, m) = << >>
<1> DEFINE new == Doc!FileRange(n, m)
<1>1. new = [k \in 1 .. m - n |-> n + k - 1] /\ m - n \in Nat
  BY SMT DEF Doc!FileRange
<1> HIDE DEF new
<1>2. new \in Seq(Nat) /\ (n = m => new = << >>)
  BY <1>1, SMT
<1>3. QED
  BY <1>2, SMT DEF new, DocLine

(* If new lines get below all others the document has seen lines arrive.   *)
LEMMA ArriveStep ==
  ASSUME IInv,
         docOf \in Seq(DocLine),
         docOf' = docOf \o Doc!FileRange(indexed_lines_added, original_total_lines),
         indexed_lines_added' = original_total_lines,
         requestOf' = requestOf
  PROVE  Doc!Next \/ Stutter
<1>1. /\ indexed_lines_added \in Nat /\ original_total_lines \in Nat /\ FileLines \in Nat
      /\ indexed_lines_added <= original_total_lines /\ original_total_lines <= FileLines
  BY Fields, ConstantsAssumption
<1>2. CASE indexed_lines_added = original_total_lines
  <2>1. Doc!FileRange(indexed_lines_added, original_total_lines) = << >>
    BY <1>1, <1>2, NewLines
  <2>2. docOf' = docOf
    BY <2>1, ConcatLaws
  <2>3. QED
    BY <1>2, <2>2 DEF Stutter
<1>3. CASE indexed_lines_added # original_total_lines
  <2>1. indexed_lines_added' \in indexed_lines_added + 1 .. FileLines
    BY <1>1, <1>3, SMT
  <2>2. Doc!Arrive
    BY <2>1 DEF Doc!Arrive, docOf, requestOf
  <2>3. QED
    BY <2>2 DEF Doc!Next
<1>4. QED
  BY <1>2, <1>3

(* The document outside the making of an edit.                             *)
LEMMA WholeView ==
  ASSUME IInv, pc \notin {"delete", "insert"}, pc # "compact" \/ cursor = 1
  PROVE  /\ docOf = FlattenSeq(Shown(pieces, memory_buffer))
         /\ docOf \in Seq(DocLine)
         /\ Len(docOf) = total_lines
<1>1. Over(pieces, memory_buffer) /\ memory_buffer \in Seq(Text) /\ Len(pieces) \in Nat
  BY PiecesOver
<1>2. docOf = FlattenSeq(Shown(pieces, memory_buffer))
  BY ViewIsDoc DEF View, ViewCorrect
<1> DEFINE n == Len(pieces) + 1
<1>3. n \in 1 .. Len(pieces) + 1 /\ n = Len(pieces) + 1
  BY <1>1, SMT
<1> HIDE DEF n
<1>4. /\ Above(pieces, memory_buffer, n) \in Seq(DocLine)
      /\ docOf = Above(pieces, memory_buffer, n) \o << >>
  BY <1>1, <1>2, <1>3, Places
<1>5. Len(Above(pieces, memory_buffer, n)) = LinesBefore(pieces, n)
  BY <1>1, <1>3, LenAbove
<1>6. docOf = Above(pieces, memory_buffer, n)
  BY <1>4, ConcatLaws
<1>7. QED
  BY <1>2, <1>3, <1>4, <1>5, <1>6 DEF total_lines

(* A read, or an edit before its place is fixed, lets lines arrive.        *)
LEMMA SyncIsArrive ==
  ASSUME DocInv, DocInv', Read \/ EditSync \/ EditSyncSplit
  PROVE  Doc!Next \/ Stutter
<1>1. /\ pc \in {"idle", "sync", "sync_split"} /\ pc' \in {"idle", "locate", "split"}
      /\ pc = "idle" <=> pc' = "idle"
      /\ pieces' = SyncedPieces /\ indexed_lines_added' = original_total_lines
      /\ UNCHANGED <<memory_buffer, edit>>
  BY DEF Read, EditSync, EditSyncSplit, sync_pieces, memory
<1>2. IInv /\ IInv'
  BY DEF DocInv
<1>3. docOf = FlattenSeq(Shown(pieces, memory_buffer)) /\ docOf \in Seq(DocLine)
  BY <1>1, <1>2, WholeView
<1>4. docOf' = FlattenSeq(Shown(SyncedPieces, memory_buffer))
  <2>1. docOf' = View'
    BY <1>1, <1>2, ViewIsDocNext
  <2>2. View' = FlattenSeq(Shown(pieces', memory_buffer'))
    BY <1>1 DEF View
  <2>3. QED
    BY <1>1, <2>1, <2>2
<1>5. Over(pieces, memory_buffer) /\ memory_buffer \in Seq(Text)
  BY <1>1, <1>2, PiecesOver
<1>6. docOf' = docOf \o Doc!FileRange(indexed_lines_added, original_total_lines)
  BY <1>2, <1>3, <1>4, <1>5, Fields, SyncShows
<1>7. requestOf' = requestOf
  BY <1>1 DEF requestOf
<1>8. QED
  BY <1>1, <1>2, <1>3, <1>6, <1>7, ArriveStep

(* A call of apply_edit submits the edit.                                  *)
LEMMA CallIsSubmit ==
  ASSUME DocInv, DocInv', NEW start, NEW deleted, NEW parts, EditCall(start, deleted, parts)
  PROVE  Doc!Next
<1>1. /\ pc = "idle" /\ pc' = "sync"
      /\ UNCHANGED <<pieces, indexed_lines_added, memory_buffer>>
  BY DEF EditCall, table, memory
<1>2. docOf' = docOf
  <2>1. docOf = View /\ docOf' = View'
    BY <1>1, ViewIsDoc, ViewIsDocNext DEF ViewCorrect, DocInv
  <2>2. View' = View
    BY <1>1 DEF View
  <2>3. QED
    BY <2>1, <2>2
<1>3. requestOf = Doc!None
  BY <1>1 DEF requestOf, Doc!None
<1>4. requestOf' \in Doc!Edits
  <2>1. edit' \in [start : Nat, deleted : Nat, lines : Seq(Text)]
    BY DEF DocInv, IInv, TypeOK
  <2>2. requestOf' = edit'
    BY <1>1 DEF requestOf
  <2>3. QED
    BY <2>1, <2>2 DEF Doc!Edits
<1>5. Doc!Submit
  BY <1>1, <1>2, <1>3, <1>4 DEF Doc!Submit, docOf, requestOf
<1>6. QED
  BY <1>5 DEF Doc!Next

(* An edit is not the record that says that there is none.                 *)
LEMMA EditIsRequest ==
  ASSUME IInv
  PROVE  edit # Doc!None
<1>1. "none" \notin DOMAIN edit
  <2>1. edit \in [start : Nat, deleted : Nat, lines : Seq(Text)]
    BY Fields
  <2>2. DOMAIN edit = {"start", "deleted", "lines"}
    BY <2>1
  <2>3. QED
    BY <2>2
<1>2. "none" \in DOMAIN Doc!None
  BY DEF Doc!None
<1>3. QED
  BY <1>1, <1>2

(* The lines x end, and the lines y begin, where an edit at line n goes.   *)
Meets(x, y, n) ==
  \/ n = Len(x) /\ y # << >>
  \/ n >= Len(x) /\ y = << >>

(* The document that Doc!Apply makes of the lines d.                       *)
Made(d, r) ==
  LET at == IF r.start < Len(d) THEN r.start ELSE Len(d)
  IN  SubSeq(d, 1, at) \o r.lines \o SubSeq(d, at + r.deleted + 1, Len(d))

(* It is changed at once, where x ends and y begins.                       *)
LEMMA MadeBetween ==
  ASSUME NEW r, r.start \in Nat, r.deleted \in Nat,
         NEW x \in Seq(DocLine), NEW y \in Seq(DocLine), Meets(x, y, r.start)
  PROVE  Made(x \o y, r) = (x \o r.lines) \o Behind(y, r.deleted)
<1> DEFINE d == x \o y
           at == IF r.start < Len(d) THEN r.start ELSE Len(d)
           n == r.deleted
<1>1. /\ Len(d) = Len(x) + Len(y) /\ Len(x) \in Nat /\ Len(y) \in Nat
      /\ y # << >> => Len(y) > 0
      /\ y = << >> => Len(y) = 0
  BY SMT
<1>2. at = Len(x)
  BY <1>1, SMT DEF Meets
<1>3. n \in Nat
  OBVIOUS
<1> HIDE DEF n
<1>4. UpTo(x \o y, Len(x)) = x /\ Behind(x \o y, Len(x) + n) = Behind(y, n)
  BY <1>3, BehindConcat
<1>5. SubSeq(d, 1, at) = x /\ SubSeq(d, at + n + 1, Len(d)) = Behind(y, n)
  BY <1>2, <1>4 DEF UpTo, Behind
<1> HIDE DEF d, at
<1>6. Made(d, r) = SubSeq(d, 1, at) \o r.lines \o SubSeq(d, at + n + 1, Len(d))
  BY DEF Made, at, n
<1>7. QED
  BY <1>5, <1>6 DEF d, n

(* The step that finds the place of the edit is the one that makes the edit of Document: lines before x
   stay, those of the edit come, deleted ones of y go. *)
LEMMA ApplyStep ==
  ASSUME IInv,
         pc \in {"sync", "locate", "sync_split", "split"}, pc' \in {"delete", "insert"},
         UNCHANGED <<indexed_lines_added, edit>>,
         NEW x \in Seq(DocLine), NEW y \in Seq(DocLine), docOf = x \o y, Meets(x, y, edit.start),
         docOf' = (x \o edit.lines) \o Behind(y, edit.deleted)
  PROVE  Doc!Next
<1>1. requestOf = edit /\ requestOf' = Doc!None /\ requestOf # Doc!None
  BY EditIsRequest DEF requestOf, Doc!None
<1>2. docOf' = Made(docOf, edit)
  BY Fields, MadeBetween
<1>3. Doc!Apply
  BY <1>1, <1>2 DEF Doc!Apply, Made, docOf, requestOf
<1>4. QED
  BY <1>3 DEF Doc!Next

(* An edit past the end is made when that is found out.                    *)
LEMMA LocateIsApply ==
  ASSUME DocInv, DocInv', EditLocate
  PROVE  Doc!Next \/ Stutter
<1>1. /\ pc = "locate" /\ UNCHANGED <<pieces, indexed_lines_added, memory_buffer, edit>>
      /\ remaining_delete' = edit.deleted /\ IInv /\ IInv'
  BY DEF EditLocate, table, memory, DocInv
<1>2. /\ docOf = FlattenSeq(Shown(pieces, memory_buffer)) /\ docOf \in Seq(DocLine)
      /\ Len(docOf) = total_lines
  BY <1>1, WholeView
<1>3. CASE pc' = "sync_split"
  <2>1. docOf' = View' /\ View' = FlattenSeq(Shown(pieces, memory_buffer))
    BY <1>1, <1>3, ViewIsDocNext DEF View
  <2>2. requestOf' = requestOf
    BY <1>1, <1>3 DEF requestOf
  <2>3. QED
    BY <1>1, <1>2, <2>1, <2>2 DEF Stutter
<1>4. CASE pc' # "sync_split"
  <2>1. edit.start >= total_lines /\ piece_idx' = Len(pieces) + 1 /\ pc' = "delete"
    BY <1>4 DEF EditLocate
  <2> DEFINE i == Len(pieces) + 1
             e == << >>
  <2>2. i \in 1 .. Len(pieces) + 1 /\ Over(pieces, memory_buffer) /\ memory_buffer \in Seq(Text)
    BY <1>1, PiecesOver, SMT
  <2>3. /\ docOf = Above(pieces, memory_buffer, i) \o Below(pieces, memory_buffer, i)
        /\ Below(pieces, memory_buffer, i) = << >>
        /\ Above(pieces, memory_buffer, i) \in Seq(DocLine)
    <3>1. i = Len(pieces) + 1
      OBVIOUS
    <3> HIDE DEF i
    <3>2. QED
      BY <1>2, <2>2, <3>1, Places
  <2>4. docOf = Above(pieces, memory_buffer, i)
    <3> HIDE DEF i
    <3>1. QED
      BY <2>3, ConcatLaws
  <2>5. docOf' = (Above(pieces, memory_buffer, i) \o edit.lines)
                   \o Behind(Below(pieces, memory_buffer, i), edit.deleted)
    <3>1. docOf' = View'
      BY <1>1, <2>1, ViewIsDocNext
    <3>2. View' = (Above(pieces', memory_buffer', piece_idx') \o edit'.lines)
                    \o Behind(Below(pieces', memory_buffer', piece_idx'), remaining_delete')
      BY <2>1 DEF View
    <3>3. QED
      BY <1>1, <2>1, <3>1, <3>2
  <2>6. << >> \in Seq(DocLine) /\ Meets(docOf, << >>, edit.start)
    BY <1>2, <2>1, SMT DEF Meets
  <2> HIDE DEF i, DocInv
  <2>7. docOf = docOf \o << >> /\ docOf' = (docOf \o edit.lines) \o Behind(<< >>, edit.deleted)
    BY <2>3, <2>4, <2>5
  <2>8. QED
    BY <1>1, <1>2, <2>1, <2>6, <2>7, ApplyStep
<1>5. QED
  BY <1>3, <1>4

(* An edit inside the text is made when its place is cut.                  *)
LEMMA SplitIsApply ==
  ASSUME DocInv, DocInv', EditSplit
  PROVE  Doc!Next
<1> DEFINE i == piece_idx
           buf == memory_buffer
           p == pieces[piece_idx]
           here == LinesIn(p, buf)
<1>1. /\ pc = "split" /\ pc' = "delete" /\ IInv /\ IInv'
      /\ UNCHANGED <<indexed_lines_added, memory_buffer, edit, remaining_delete>>
      /\ pieces' = Split(pieces, i, offset)
      /\ piece_idx' = IF offset > 0 THEN i + 1 ELSE i
  BY DEF EditSplit, memory, DocInv
<1>2. /\ remaining_delete = edit.deleted /\ offset < p.count
      /\ edit.start = LinesBefore(pieces, i) + offset
  BY <1>1 DEF DocInv, Placed, Holds
<1>3. /\ i \in 1 .. Len(pieces) /\ i \in 1 .. Len(pieces) + 1 /\ i <= Len(pieces)
      /\ offset \in Nat /\ edit.lines \in Seq(DocLine) /\ edit.deleted \in Nat /\ i \in Nat \ {0}
  BY <1>1, Fields, SMT DEF Position, IInv
<1>4. /\ Over(pieces, buf) /\ buf \in Seq(Text) /\ Over(pieces', buf)
  <2>1. Over(pieces, memory_buffer) /\ memory_buffer \in Seq(Text)
    BY <1>1, PiecesOver
  <2>2. Over(pieces', memory_buffer')
    BY <1>1, PiecesOverNext
  <2>3. QED
    BY <1>1, <2>1, <2>2
<1>5. /\ p \in Pieces /\ p.count \in Nat /\ here \in Seq(DocLine) /\ Len(here) = p.count
  BY <1>3, <1>4, ShownType
<1>6. docOf = FlattenSeq(Shown(pieces, buf))
  BY <1>1, WholeView
<1>7. /\ Above(pieces, buf, i) \in Seq(DocLine) /\ Below(pieces, buf, i) \in Seq(DocLine)
      /\ docOf = Above(pieces, buf, i) \o Below(pieces, buf, i)
      /\ Below(pieces, buf, i) = here \o Below(pieces, buf, i + 1)
  BY <1>3, <1>4, <1>6, Places
<1>8. Len(Above(pieces, buf, i)) = LinesBefore(pieces, i) /\ LinesBefore(pieces, i) \in Nat
  BY <1>3, <1>4, LenAbove, LinesBeforeStep, Fields, <1>1
<1>9. docOf' = (Above(pieces', buf, piece_idx') \o edit.lines)
                 \o Behind(Below(pieces', buf, piece_idx'), edit.deleted)
  <2>1. docOf' = View'
    BY <1>1, ViewIsDocNext
  <2>2. View' = (Above(pieces', memory_buffer', piece_idx') \o edit'.lines)
                  \o Behind(Below(pieces', memory_buffer', piece_idx'), remaining_delete')
    BY <1>1 DEF View
  <2>3. QED
    BY <1>1, <1>2, <2>1, <2>2
<1> DEFINE below == Below(pieces, buf, i + 1)
<1>10. below \in Seq(DocLine)
  <2> DEFINE j == i + 1
  <2>1. j \in 1 .. Len(pieces) + 1
    BY <1>1, <1>3, Fields, SMT
  <2> HIDE DEF j
  <2>2. Below(pieces, buf, j) \in Seq(DocLine)
    BY <1>4, <2>1, Places
  <2>3. QED
    BY <2>2 DEF j
<1>11. CASE offset = 0
  <2>1. pieces' = pieces /\ piece_idx' = i
    BY <1>1, <1>11 DEF Split
  <2>2. edit.start = Len(Above(pieces, buf, i))
    BY <1>2, <1>8, <1>11
  <2>3. Below(pieces, buf, i) # << >>
    <3> HIDE DEF here, below, p, i
    <3>1. Len(here \o below) = Len(here) + Len(below) /\ Len(below) \in Nat
      BY <1>5, <1>10, SMT
    <3>2. Len(here) > 0
      BY <1>2, <1>3, <1>5
    <3>3. Len(here \o below) # 0
      BY <1>5, <3>1, <3>2
    <3>4. QED
      BY <1>7, <3>3, SMT DEF below
  <2>4. docOf' = (Above(pieces, buf, i) \o edit.lines) \o Behind(Below(pieces, buf, i), edit.deleted)
    BY <1>9, <2>1
  <2> HIDE DEF i
  <2>5. Meets(Above(pieces, buf, i), Below(pieces, buf, i), edit.start)
    BY <2>2, <2>3 DEF Meets
  <2>6. QED
    BY <1>1, <1>7, <2>4, <2>5, ApplyStep
<1>12. CASE offset > 0
  <2> DEFINE x == Above(pieces, buf, i) \o UpTo(here, offset)
             y == Behind(here, offset) \o below
  <2>1. offset \in 0 .. Len(here)
    BY <1>2, <1>3, <1>5
  <2>2. /\ UpTo(here, offset) \in Seq(DocLine) /\ Len(UpTo(here, offset)) = offset
        /\ Behind(here, offset) \in Seq(DocLine)
        /\ Len(Behind(here, offset)) = Len(here) - offset
        /\ UpTo(here, offset) \o Behind(here, offset) = here
    <3> HIDE DEF here
    <3>1. QED
      BY <1>5, <2>1, CutList
  <2>3. /\ Above(Split(pieces, i, offset), buf, i + 1) = x
        /\ Below(Split(pieces, i, offset), buf, i + 1) = y
    <3>1. 0 < offset /\ offset < pieces[i].count
      BY <1>2, <1>12
    <3> HIDE DEF i
    <3>2. /\ Above(Split(pieces, i, offset), buf, i + 1)
               = Above(pieces, buf, i) \o UpTo(LinesIn(pieces[i], buf), offset)
          /\ Below(Split(pieces, i, offset), buf, i + 1)
               = Behind(LinesIn(pieces[i], buf), offset) \o Below(pieces, buf, i + 1)
      BY <1>3, <1>4, <3>1, SplitShows
    <3>3. QED
      BY <3>2 DEF i
  <2>4. docOf' = (x \o edit.lines) \o Behind(y, edit.deleted)
    <3>1. piece_idx' = i + 1
      BY <1>1, <1>12
    <3> HIDE DEF x, y
    <3>2. QED
      BY <1>1, <1>9, <2>3, <3>1
  <2> DEFINE a == Above(pieces, buf, i)
             u == UpTo(here, offset)
             v == Behind(here, offset)
  <2>5. /\ a \in Seq(DocLine) /\ u \in Seq(DocLine) /\ v \in Seq(DocLine) /\ below \in Seq(DocLine)
        /\ docOf = a \o ((u \o v) \o below) /\ x = a \o u /\ y = v \o below
        /\ Len(a) + Len(u) = edit.start /\ Len(v) > 0
    <3>1. Len(a) + Len(u) = edit.start
      BY <1>2, <1>8, <2>2
    <3>2. Len(v) > 0
      BY <1>2, <1>3, <1>5, <2>2
    <3>3. QED
      BY <1>7, <1>10, <2>2, <3>1, <3>2
  <2> HIDE DEF x, y, a, u, v, below, here, p, i
  <2>6. /\ x \in Seq(DocLine) /\ y \in Seq(DocLine)
        /\ Len(x) = Len(a) + Len(u) /\ Len(y) = Len(v) + Len(below) /\ Len(below) \in Nat
    BY <2>5, ConcatElements, LenInNat
  <2>7. y # << >>
    <3>1. Len(y) # 0
      BY <2>5, <2>6, LenInNat
    <3>2. QED
      BY <3>1, SMT
  <2>8. docOf = x \o y
    <3>1. u \o v \in Seq(DocLine) /\ v \o below \in Seq(DocLine)
      BY <2>5, ConcatLaws
    <3>2. (u \o v) \o below = u \o (v \o below)
      BY <2>5, ConcatLaws
    <3>3. a \o (u \o (v \o below)) = (a \o u) \o (v \o below)
      BY <2>5, <3>1, ConcatLaws
    <3>4. QED
      BY <2>5, <3>2, <3>3
  <2>9. Meets(x, y, edit.start)
    BY <2>5, <2>6, <2>7 DEF Meets
  <2>10. QED
    BY <1>1, <2>4, <2>6, <2>8, <2>9, ApplyStep
<1>13. QED
  BY <1>3, <1>11, <1>12

(* The document in the middle of an edit.                                  *)
LEMMA PendingView ==
  ASSUME IInv, pc \in {"delete", "insert"}
  PROVE  docOf = (Above(pieces, memory_buffer, piece_idx) \o edit.lines)
                   \o Behind(Below(pieces, memory_buffer, piece_idx), remaining_delete)
BY ViewIsDoc DEF View, ViewCorrect

(* While an edit is under way, the document is what it will be when the rest is deleted and the lines
   are in. *)
LEMMA PendingViewNext ==
  ASSUME IInv', pc' \in {"delete", "insert"}
  PROVE  docOf' = (Above(pieces', memory_buffer', piece_idx') \o edit'.lines)
                    \o Behind(Below(pieces', memory_buffer', piece_idx'), remaining_delete')
BY ViewIsDocNext DEF View

(* Deleting a whole piece takes from the table what the document has       *)
(* already lost.                                                           *)
LEMMA DeleteWholeStutters ==
  ASSUME DocInv, DocInv', DeleteWhole
  PROVE  Stutter
<1> DEFINE i == piece_idx
           buf == memory_buffer
           p == pieces[piece_idx]
           here == LinesIn(p, buf)
           c == p.count
           n == remaining_delete - p.count
<1>1. /\ pc = "delete" /\ pc' = "delete" /\ IInv /\ IInv' /\ c <= remaining_delete
      /\ UNCHANGED <<indexed_lines_added, memory_buffer, edit, piece_idx>>
      /\ pieces' = RemoveAt(pieces, i) /\ remaining_delete' = n /\ i <= Len(pieces)
  BY DEF DeleteWhole, Deleting, WhollyDeleted, DocInv
<1>2. /\ i \in 1 .. Len(pieces) /\ i \in 1 .. Len(pieces) + 1 /\ remaining_delete \in Nat
  BY <1>1, Fields, SMT
<1>3. Over(pieces, buf) /\ buf \in Seq(Text)
  BY <1>1, PiecesOver
<1>4. c \in Nat /\ here \in Seq(DocLine) /\ Len(here) = c
  BY <1>2, <1>3, ShownType
<1>5. n \in Nat /\ remaining_delete = Len(here) + n
  BY <1>1, <1>2, <1>4, SMT
<1> DEFINE rest == Below(pieces, buf, i + 1)
<1>6. rest \in Seq(DocLine)
  <2> DEFINE j == i + 1
  <2>1. j \in 1 .. Len(pieces) + 1
    BY <1>1, <1>2, Fields, SMT
  <2> HIDE DEF j
  <2>2. Below(pieces, buf, j) \in Seq(DocLine)
    BY <1>3, <2>1, Places
  <2>3. QED
    BY <2>2 DEF j
<1>7. Below(pieces, buf, i) = here \o rest
  BY <1>1, <1>2, <1>3, Places
<1>8. Above(pieces', buf, i) = Above(pieces, buf, i) /\ Below(pieces', buf, i) = rest
  BY <1>1, <1>2, <1>3, RemoveShows
<1>9. Behind(here \o rest, remaining_delete) = Behind(rest, n)
  <2> HIDE DEF here, rest, n
  <2>1. Behind(here \o rest, Len(here) + n) = Behind(rest, n)
    BY <1>4, <1>5, <1>6, BehindConcat
  <2>2. QED
    BY <1>5, <2>1
<1>10. docOf = (Above(pieces, buf, i) \o edit.lines) \o Behind(rest, n)
  BY <1>1, <1>7, <1>9, PendingView
<1>11. docOf' = (Above(pieces, buf, i) \o edit.lines) \o Behind(rest, n)
  BY <1>1, <1>8, PendingViewNext
<1>12. requestOf' = requestOf
  BY <1>1 DEF requestOf
<1>13. QED
  BY <1>1, <1>10, <1>11, <1>12 DEF Stutter

(* That nothing is left to delete changes no document. *)
LEMMA DeleteDoneStutters ==
  ASSUME DocInv, DocInv', DeleteDone
  PROVE  Stutter
<1>1. /\ pc = "delete" /\ pc' = "insert" /\ IInv /\ IInv'
      /\ UNCHANGED <<pieces, indexed_lines_added, memory_buffer, edit, piece_idx, remaining_delete>>
  BY DEF DeleteDone, table, memory, locals, DocInv
<1>2. docOf' = docOf
  BY <1>1, PendingView, PendingViewNext
<1>3. requestOf' = requestOf
  BY <1>1 DEF requestOf
<1>4. QED
  BY <1>1, <1>2, <1>3 DEF Stutter

(* split_piece_at changes nothing before the piece it cuts.                *)
LEMMA SplitAbove ==
  ASSUME NEW buf \in Seq(Text), NEW ps, Over(ps, buf), NEW i \in 1 .. Len(ps),
         NEW off \in Nat, 0 < off, off < ps[i].count
  PROVE  Above(Split(ps, i, off), buf, i) = Above(ps, buf, i)
<1> DEFINE p == ps[i]
           u == [ps EXCEPT ![i] = Resized(@, off)]
           j == i + 1
           t == Split(ps, i, off)
           e == Rest(p, off)
<1>1. ps \in Seq(Pieces) /\ Len(ps) \in Nat /\ p \in Pieces /\ i <= Len(ps)
  BY ElementOfList, SMT DEF Over
<1>2. Resized(p, off) \in Pieces /\ e \in Pieces
  <2> HIDE DEF p
  <2>1. off < p.count
    BY DEF p
  <2>2. QED
    BY <1>1, <2>1, CutFields
<1>3. t = InsertAt(u, j, e)
  <2>1. ~(off = 0 \/ i > Len(ps)) /\ ~(off >= p.count)
    BY <1>1, PieceFields, SMT
  <2>2. QED
    BY <2>1 DEF Split
<1>4. /\ u \in Seq(Pieces) /\ Len(u) = Len(ps)
      /\ \A k \in 1 .. Len(ps) : k # i => u[k] = ps[k]
  <2>1. Resized(p, off) \in Pieces
    BY <1>2
  <2>2. QED
    BY <1>1, <2>1, SMT
<1>5. Over(t, buf) /\ Len(t) = Len(ps) + 1
  BY SplitShows
<1> HIDE DEF u, t, p, e
<1>6. j \in 1 .. Len(u) + 1
  BY <1>1, <1>4, SMT
<1> HIDE DEF j
<1>7. \A k \in 1 .. Len(u) + 1 :
        t[k] = IF k < j THEN u[k] ELSE IF k = j THEN e ELSE u[k - 1]
  <2>1. u \in Seq(Pieces) /\ e \in Pieces /\ j \in 1 .. Len(u) + 1
    BY <1>2, <1>4, <1>6
  <2>2. \A k \in 1 .. Len(u) + 1 :
          InsertAt(u, j, e)[k] = IF k < j THEN u[k] ELSE IF k = j THEN e ELSE u[k - 1]
    BY <2>1, InsertAtElements
  <2>3. QED
    BY <1>3, <2>2
<1>8. \A k \in 1 .. i - 1 : t[k] = ps[k]
  <2>1. \A k \in 1 .. i - 1 : k \in 1 .. Len(u) + 1 /\ k < j /\ k \in 1 .. Len(ps) /\ k # i
    BY <1>1, <1>4, SMT DEF j
  <2>2. QED
    BY <1>4, <1>7, <2>1
<1>9. i \in 1 .. Len(t) + 1 /\ i <= Len(ps) + 1
  BY <1>1, <1>5, SMT
<1>10. Above(t, buf, i) = Above(ps, buf, i)
  BY <1>5, <1>8, <1>9, AboveAgrees
<1>11. QED
  BY <1>10 DEF t

(* The front of the piece at a place is dropped: of the lines below the    *)
(* place so many are gone.                                                 *)
LEMMA DropShows ==
  ASSUME NEW buf \in Seq(Text), NEW ps, Over(ps, buf), NEW i \in 1 .. Len(ps),
         NEW off \in Nat, 0 < off, off < ps[i].count
  PROVE  /\ Above(RemoveAt(Split(ps, i, off), i), buf, i) = Above(ps, buf, i)
         /\ Below(RemoveAt(Split(ps, i, off), i), buf, i) = Behind(Below(ps, buf, i), off)
<1> DEFINE t == Split(ps, i, off)
           here == LinesIn(ps[i], buf)
           j == i + 1
           rest == Below(ps, buf, j)
<1>1. /\ Over(t, buf) /\ Len(t) = Len(ps) + 1 /\ Above(t, buf, i) = Above(ps, buf, i)
      /\ Below(t, buf, j) = Behind(here, off) \o rest
  BY SplitShows, SplitAbove
<1>2. /\ here \in Seq(DocLine) /\ Len(here) = ps[i].count /\ Len(ps) \in Nat
      /\ i \in 1 .. Len(ps) + 1 /\ i <= Len(ps)
  BY ShownType, SMT
<1>3. Below(ps, buf, i) = here \o rest
  BY <1>2, Places
<1>4. j \in 1 .. Len(ps) + 1 /\ i \in 1 .. Len(t)
  BY <1>1, <1>2, SMT
<1> HIDE DEF t
<1>5. /\ Above(RemoveAt(t, i), buf, i) = Above(t, buf, i)
      /\ Below(RemoveAt(t, i), buf, i) = Below(t, buf, j)
  BY <1>1, <1>4, RemoveShows
<1>6. rest \in Seq(DocLine)
  <2> HIDE DEF j
  <2>1. QED
    BY <1>4, Places
<1>7. off <= Len(here)
  BY <1>2
<1> HIDE DEF here, rest, j
<1>8. Behind(here \o rest, off) = Behind(here, off) \o rest
  <2>1. here \in Seq(DocLine) /\ rest \in Seq(DocLine) /\ off \in Nat /\ off <= Len(here)
    BY <1>2, <1>6, <1>7
  <2>2. QED
    BY <2>1, BehindFirst
<1>9. QED
  BY <1>1, <1>3, <1>5, <1>8 DEF t

(* sync_pieces leaves the lines above a place as they are and adds to      *)
(* those below it.                                                         *)
LEMMA SyncBelow ==
  ASSUME NEW buf \in Seq(Text), Over(pieces, buf), NEW i \in 1 .. Len(pieces),
         indexed_lines_added \in Nat, original_total_lines \in Nat,
         indexed_lines_added <= original_total_lines
  PROVE  /\ Over(SyncedPieces, buf) /\ i \in 1 .. Len(SyncedPieces)
         /\ pieces[i].count <= SyncedPieces[i].count
         /\ Above(SyncedPieces, buf, i) = Above(pieces, buf, i)
         /\ Below(SyncedPieces, buf, i)
              = Below(pieces, buf, i) \o Doc!FileRange(indexed_lines_added, original_total_lines)
<1> DEFINE t == SyncedPieces
           new == Doc!FileRange(indexed_lines_added, original_total_lines)
           a == Above(pieces, buf, i)
           b == Below(pieces, buf, i)
           c == Below(t, buf, i)
<1>1. /\ pieces \in Seq(Pieces) /\ Len(pieces) \in Nat /\ i \in 1 .. Len(pieces) + 1
  BY SMT DEF Over
<1>2. /\ t \in Seq(Pieces) /\ Len(pieces) <= Len(t)
      /\ \A k \in 1 .. Len(pieces) :
           /\ k < Len(pieces) => t[k] = pieces[k]
           /\ pieces[k].count <= t[k].count
  BY <1>1, SyncKeepsPieces
<1>3. /\ Over(t, buf)
      /\ FlattenSeq(Shown(t, buf)) = FlattenSeq(Shown(pieces, buf)) \o new
  BY SyncShows
<1>4. /\ i \in 1 .. Len(t) /\ i \in 1 .. Len(t) + 1 /\ i <= Len(t) + 1
      /\ \A k \in 1 .. i - 1 : k \in 1 .. Len(pieces) /\ k < Len(pieces)
  BY <1>1, <1>2, SMT
<1>5. Above(t, buf, i) = a
  <2>1. \A k \in 1 .. i - 1 : pieces[k] = t[k]
    BY <1>2, <1>4
  <2> HIDE DEF t
  <2>2. QED
    BY <1>1, <1>3, <1>4, <2>1, AboveAgrees
<1>6. /\ a \in Seq(DocLine) /\ b \in Seq(DocLine) /\ FlattenSeq(Shown(pieces, buf)) = a \o b
  BY <1>1, Places
<1>7. c \in Seq(DocLine) /\ FlattenSeq(Shown(t, buf)) = Above(t, buf, i) \o c
  <2> HIDE DEF t
  <2>1. QED
    BY <1>3, <1>4, Places
<1>8. new \in Seq(DocLine)
  BY NewLines
<1> HIDE DEF a, b, c, new, t
<1>9. b \o new \in Seq(DocLine) /\ a \o c = a \o (b \o new)
  <2>1. (a \o b) \o new = a \o (b \o new) /\ b \o new \in Seq(DocLine)
    BY <1>6, <1>8, ConcatLaws
  <2>2. QED
    BY <1>3, <1>5, <1>6, <1>7, <2>1
<1>10. c = b \o new
  BY <1>6, <1>7, <1>9, CancelFront
<1>11. QED
  BY <1>2, <1>3, <1>4, <1>5, <1>10 DEF a, b, c, new, t

(* Deleting the front of a piece first lets the lines that arrived since   *)
(* get below the deleted ones: the document sees them arrive.              *)
LEMMA DeletePartIsArrive ==
  ASSUME DocInv, DocInv', DeletePart
  PROVE  Doc!Next \/ Stutter
<1> DEFINE i == piece_idx
           buf == memory_buffer
           t == SyncedPieces
           n == remaining_delete
           a == Above(pieces, buf, i) \o edit.lines
           b == Below(pieces, buf, i)
           new == Doc!FileRange(indexed_lines_added, original_total_lines)
<1>1. /\ pc = "delete" /\ pc' = "delete" /\ IInv /\ IInv'
      /\ ~(pieces[i].count <= n) /\ n > 0 /\ i <= Len(pieces)
      /\ UNCHANGED <<memory_buffer, edit, piece_idx>>
      /\ pieces' = RemoveAt(Split(t, i, n), i) /\ remaining_delete' = 0
      /\ indexed_lines_added' = original_total_lines
  BY DEF DeletePart, Deleting, WhollyDeleted, DocInv
<1>2. /\ i \in 1 .. Len(pieces) /\ i \in 1 .. Len(pieces) + 1 /\ n \in Nat /\ 0 < n
  BY <1>1, Fields, SMT
<1>3. Over(pieces, buf) /\ buf \in Seq(Text)
  BY <1>1, PiecesOver
<1>4. /\ Over(t, buf) /\ i \in 1 .. Len(t) /\ pieces[i].count <= t[i].count
      /\ Above(t, buf, i) = Above(pieces, buf, i) /\ Below(t, buf, i) = b \o new
  BY <1>1, <1>2, <1>3, Fields, SyncBelow
<1>5. n < pieces[i].count /\ n < t[i].count /\ pieces[i].count \in Nat
  <2>1. pieces[i].count \in Nat
    BY <1>2, <1>3, ShownType
  <2>2. t[i].count \in Nat
    BY <1>3, <1>4, ShownType
  <2>3. QED
    BY <1>1, <1>2, <1>4, <2>1, <2>2
<1>6. a \in Seq(DocLine) /\ b \in Seq(DocLine) /\ new \in Seq(DocLine)
  <2>1. Above(pieces, buf, i) \in Seq(DocLine) /\ b \in Seq(DocLine)
    BY <1>2, <1>3, Places
  <2>2. a \in Seq(DocLine)
    BY <1>1, <2>1, Fields, ConcatLaws
  <2>3. QED
    BY <1>1, <2>1, <2>2, Fields, NewLines
<1>7. n <= Len(b)
  <2> DEFINE here == LinesIn(pieces[i], buf)
             j == i + 1
             rest == Below(pieces, buf, j)
  <2>1. b = here \o rest
    BY <1>1, <1>2, <1>3, Places
  <2>2. here \in Seq(DocLine) /\ Len(here) = pieces[i].count
    BY <1>2, <1>3, ShownType
  <2>3. j \in 1 .. Len(pieces) + 1
    BY <1>1, <1>2, Fields, SMT
  <2> HIDE DEF j
  <2>4. rest \in Seq(DocLine)
    BY <1>3, <2>3, Places
  <2> HIDE DEF b, here, rest
  <2>5. Len(b) = Len(here) + Len(rest) /\ Len(rest) \in Nat
    BY <2>1, <2>2, <2>4, ConcatElements, LenInNat
  <2>6. QED
    BY <1>2, <1>5, <2>2, <2>5
<1> HIDE DEF i, n, t
<1>8. Above(pieces', buf, i) = Above(pieces, buf, i)
      /\ Below(pieces', buf, i) = Behind(b \o new, n)
  <2> HIDE DEF b, new
  <2>1. /\ Above(RemoveAt(Split(t, i, n), i), buf, i) = Above(t, buf, i)
        /\ Below(RemoveAt(Split(t, i, n), i), buf, i) = Behind(Below(t, buf, i), n)
    BY <1>2, <1>3, <1>4, <1>5, DropShows
  <2>2. QED
    BY <1>1, <1>4, <2>1
<1>9. docOf = a \o Behind(b, n)
  BY <1>1, PendingView DEF i, n
<1>10. docOf' = a \o Behind(Behind(b \o new, n), 0)
  <2>1. docOf' = (Above(pieces', buf, i) \o edit.lines)
                   \o Behind(Below(pieces', buf, i), 0)
    BY <1>1, PendingViewNext DEF i
  <2>2. QED
    BY <1>8, <2>1
<1> HIDE DEF a, b, new
<1>11. Behind(b \o new, n) = Behind(b, n) \o new /\ Behind(b, n) \in Seq(DocLine)
  <2>1. Behind(b \o new, n) = Behind(b, n) \o new
    BY <1>2, <1>6, <1>7, BehindFirst
  <2>2. n \in 0 .. Len(b)
    BY <1>2, <1>6, <1>7, LenInNat
  <2>3. Behind(b, n) \in Seq(DocLine)
    BY <1>6, <2>2, CutList
  <2>4. QED
    BY <2>1, <2>3
<1> DEFINE v == Behind(b, n)
<1>12. v \in Seq(DocLine)
  BY <1>11
<1> HIDE DEF v
<1>13. docOf = a \o v /\ docOf' = a \o Behind(v \o new, 0)
  BY <1>9, <1>10, <1>11 DEF v
<1>14. Behind(v \o new, 0) = v \o new /\ docOf \in Seq(DocLine) /\ (a \o v) \o new = a \o (v \o new)
  <2>1. v \o new \in Seq(DocLine) /\ a \o v \in Seq(DocLine) /\ (a \o v) \o new = a \o (v \o new)
    BY <1>6, <1>12, ConcatLaws
  <2>2. Behind(v \o new, 0) = v \o new
    BY <2>1, BehindNone
  <2>3. QED
    BY <1>13, <2>1, <2>2
<1>15. docOf' = docOf \o new
  BY <1>13, <1>14
<1>16. requestOf' = requestOf
  BY <1>1 DEF requestOf
<1>17. QED
  BY <1>1, <1>14, <1>15, <1>16, ArriveStep DEF new

(* Lines typed at the end of the buffer change no piece that was there.    *)
LEMMA LongerBuffer ==
  ASSUME NEW buf \in Seq(Text), NEW new \in Seq(Text), NEW ps, Over(ps, buf)
  PROVE  Over(ps, buf \o new) /\ Shown(ps, buf \o new) = Shown(ps, buf)
<1> DEFINE more == buf \o new
<1>1. more \in Seq(Text) /\ Len(more) = Len(buf) + Len(new) /\ Len(buf) \in Nat /\ Len(new) \in Nat
  BY SMT
<1>2. ps \in Seq(Pieces) /\ Len(ps) \in Nat /\ \A k \in 1 .. Len(ps) : Good(ps[k], buf)
  BY SMT DEF Over
<1>3. ASSUME NEW k \in 1 .. Len(ps)
      PROVE  Good(ps[k], more) /\ LinesIn(ps[k], more) = LinesIn(ps[k], buf)
  <2> DEFINE p == ps[k]
  <2>1. p \in Pieces /\ Good(p, buf)
    BY <1>2, ElementOfList
  <2>2. p.start \in Nat /\ p.count \in Nat /\ End(p) = p.start + p.count
    BY <2>1, PieceFields DEF End
  <2> HIDE DEF p
  <2>3. CASE IsOriginal(p)
    BY <2>3 DEF Good, LinesIn, p
  <2>4. CASE ~IsOriginal(p)
    <3>1. p.start + p.count <= Len(buf)
      BY <2>1, <2>2, <2>4 DEF Good
    <3>2. SubSeq(more, p.start + 1, p.start + p.count) = SubSeq(buf, p.start + 1, p.start + p.count)
      BY <2>2, <3>1, SameSlice
    <3>3. p.start + p.count <= Len(more)
      BY <1>1, <2>2, <3>1
    <3>4. QED
      BY <2>2, <2>4, <3>2, <3>3 DEF Good, LinesIn, p
  <2>5. QED
    BY <2>3, <2>4
<1> HIDE DEF more
<1>4. Over(ps, more)
  BY <1>2, <1>3 DEF Over
<1>5. Shown(ps, more) = Shown(ps, buf)
  BY <1>3, Zenon DEF Shown
<1>6. QED
  BY <1>4, <1>5 DEF more

(* The insertion puts the typed lines where the document has them.         *)
LEMMA InsertStutters ==
  ASSUME DocInv, DocInv', EditInsert
  PROVE  Stutter
<1> DEFINE i == piece_idx
           buf == memory_buffer
           new == edit.lines
           a == Above(pieces, buf, i)
           b == Below(pieces, buf, i)
<1>1. /\ pc = "insert" /\ pc' \in {"idle", "compact"} /\ cursor' = cursor /\ IInv /\ IInv'
      /\ cursor = 1 /\ indexed_lines_added' = indexed_lines_added
      /\ remaining_delete = 0 \/ i > Len(pieces)
  BY DEF EditInsert, Return, compaction, DocInv, DeletedAll, IInv, NotCompacting
<1>2. /\ new = << >> => pieces' = pieces /\ memory_buffer' = buf
      /\ new # << >> => /\ memory_buffer' = buf \o new
                        /\ pieces' = InsertAt(pieces, i, Memory(Len(buf), Len(new)))
  BY DEF EditInsert
<1>3. /\ i \in 1 .. Len(pieces) + 1 /\ Len(pieces) \in Nat /\ remaining_delete \in Nat
      /\ new \in Seq(Text) /\ new \in Seq(DocLine)
  BY <1>1, Fields
<1>4. Over(pieces, buf) /\ buf \in Seq(Text)
  BY <1>1, PiecesOver
<1>5. a \in Seq(DocLine) /\ b \in Seq(DocLine) /\ (i = Len(pieces) + 1 => b = << >>)
      /\ FlattenSeq(Shown(pieces, buf)) = a \o b
  BY <1>3, <1>4, Places
<1>6. docOf = (a \o new) \o b
  <2>1. docOf = (a \o new) \o Behind(b, remaining_delete)
    BY <1>1, PendingView
  <2>2. remaining_delete = 0 \/ b = << >>
    <3>1. i > Len(pieces) => i = Len(pieces) + 1
      BY <1>3
    <3>2. QED
      BY <1>1, <1>5, <3>1
  <2> HIDE DEF a, b, new
  <2>3. Behind(b, remaining_delete) = b
    BY <1>3, <1>5, <2>2, BehindNone
  <2>4. QED
    BY <2>1, <2>3
<1>7. docOf' = FlattenSeq(Shown(pieces', memory_buffer'))
  <2>1. pc' \notin {"delete", "insert"} /\ cursor' = 1
    BY <1>1
  <2>2. docOf' = View'
    BY <1>1, <2>1, ViewIsDocNext
  <2>3. QED
    BY <2>1, <2>2 DEF View
<1>8. ASSUME new = << >> PROVE docOf' = docOf
  <2>1. docOf' = a \o b
    BY <1>2, <1>5, <1>7, <1>8
  <2>2. docOf = (a \o << >>) \o b
    BY <1>6, <1>8
  <2> HIDE DEF a, b
  <2>3. a \o << >> = a
    BY <1>5, ConcatLaws
  <2>4. QED
    BY <2>1, <2>2, <2>3
<1>9. ASSUME new # << >> PROVE docOf' = docOf
  <2> DEFINE more == buf \o new
             e == Memory(Len(buf), Len(new))
             t == InsertAt(pieces, i, e)
  <2>1. memory_buffer' = more /\ pieces' = t
    BY <1>2, <1>9
  <2>2. more \in Seq(Text) /\ Len(buf) \in Nat /\ Len(new) \in Nat /\ Len(more) = Len(buf) + Len(new)
    BY <1>3, <1>4, ConcatElements, LenInNat
  <2>3. Over(pieces, more) /\ Shown(pieces, more) = Shown(pieces, buf)
    BY <1>3, <1>4, LongerBuffer
  <2>4. /\ e.kind = "memory" /\ e.start = Len(buf) /\ e.count = Len(new)
    BY DEF Memory
  <2>5. /\ e \in Pieces /\ ~IsOriginal(e) /\ End(e) = Len(buf) + Len(new)
    BY <2>2, <2>4, SMT DEF Memory, Pieces, IsOriginal, End
  <2>6. Good(e, more) /\ LinesIn(e, more) = SubSeq(more, Len(buf) + 1, Len(buf) + Len(new))
    BY <2>2, <2>4, <2>5 DEF Good, LinesIn
  <2>7. SubSeq(more, Len(buf) + 1, Len(buf) + Len(new)) = new
    BY <1>3, <1>4, SecondOfTwo
  <2>8. Above(pieces, more, i) = a /\ Below(pieces, more, i) = b
    BY <2>3 DEF Above, Below
  <2> HIDE DEF more, e
  <2>9. /\ Over(t, more) /\ Len(t) = Len(pieces) + 1
        /\ Above(t, more, i) = Above(pieces, more, i)
        /\ Below(t, more, i) = LinesIn(e, more) \o Below(pieces, more, i)
    BY <1>3, <2>2, <2>3, <2>5, <2>6, InsertShows
  <2> HIDE DEF t
  <2>10. FlattenSeq(Shown(t, more)) = Above(t, more, i) \o Below(t, more, i)
    <3>1. i \in 1 .. Len(t) + 1
      BY <1>3, <2>9
    <3>2. QED
      BY <2>2, <2>9, <3>1, Places
  <2> HIDE DEF a, b, new
  <2>11. FlattenSeq(Shown(t, more)) = a \o (new \o b)
    BY <2>6, <2>7, <2>8, <2>9, <2>10
  <2>12. (a \o new) \o b = a \o (new \o b)
    BY <1>3, <1>5, ConcatLaws
  <2>13. QED
    BY <1>6, <1>7, <2>1, <2>11, <2>12
<1>10. docOf' = docOf
  BY <1>8, <1>9
<1>11. requestOf' = requestOf
  BY <1>1 DEF requestOf
<1>12. QED
  BY <1>1, <1>10, <1>11 DEF Stutter

(* The whole table shows the same lines when each piece does.              *)
LEMMA SameContents ==
  ASSUME Len(pieces') = Len(pieces), Len(pieces) \in Nat,
         \A k \in 1 .. Len(pieces) : PieceLines(k)' = PieceLines(k)
  PROVE  Contents' = Contents
<1> DEFINE n == Len(pieces)
           lines == [k \in 1 .. (n - 1 + 1) |-> PieceLines(1 + k - 1)]
           after == [k \in 1 .. (n - 1 + 1) |-> PieceLines(1 + k - 1)']
<1>1. n - 1 + 1 = n /\ \A k \in 1 .. n : 1 + k - 1 = k
  BY SMT
<1>2. Contents = FlattenSeq(lines)
  BY DEF Contents, LinesOf
<1>3. Contents' = FlattenSeq(after)
  BY DEF Contents, LinesOf
<1>4. \A k \in 1 .. (n - 1 + 1) : PieceLines(1 + k - 1)' = PieceLines(1 + k - 1)
  <2> SUFFICES ASSUME NEW k \in 1 .. (n - 1 + 1)
               PROVE  PieceLines(1 + k - 1)' = PieceLines(1 + k - 1)
    OBVIOUS
  <2>1. 1 + k - 1 \in 1 .. Len(pieces)
    BY SMT
  <2>2. QED
    BY <2>1
<1>5. lines = after
  BY <1>4, Zenon
<1>6. QED
  BY <1>2, <1>3, <1>5

(* Compacting redirects the pieces to copies of the same lines, one after  *)
(* the other.                                                              *)
LEMMA CompactPieceStutters ==
  ASSUME DocInv, CompactPiece
  PROVE  Stutter
<1> DEFINE new == PieceLines(cursor)
           old == new_memory_buffer
<1>1. /\ pc = "compact" /\ pc' = "compact" /\ TypeOK /\ PiecesInBounds
      /\ cursor <= Len(pieces) /\ cursor' = cursor + 1
      /\ UNCHANGED <<memory_buffer, indexed_lines_added, edit>>
  BY DEF CompactPiece, memory, DocInv, IInv
<1>2. /\ pieces \in Seq(Pieces) /\ Len(pieces) \in Nat /\ cursor \in 1 .. Len(pieces)
      /\ cursor \in Nat /\ memory_buffer \in Seq(Text) /\ old \in Seq(Text) /\ Len(old) \in Nat
  BY <1>1, SMT DEF TypeOK
<1>3. CASE IsMemory(pieces[cursor])
  <2> DEFINE p == pieces[cursor]
             q == [kind |-> p.kind, start |-> Len(old), count |-> p.count]
  <2>1. p \in Pieces /\ p.start \in Nat /\ p.count \in Nat /\ End(p) = p.start + p.count
    BY <1>2, ElementOfList, PieceFields DEF End
  <2>2. Buffer(cursor) = memory_buffer
    BY <1>1, <1>2, SMT DEF Buffer, Compacted
  <2>3. ~IsOriginal(p) /\ p.kind = "memory"
    BY <1>3 DEF IsMemory, IsOriginal
  <2>4. p.start + p.count <= Len(memory_buffer)
    BY <1>1, <1>2, <2>1, <2>2, <2>3 DEF PiecesInBounds
  <2>5. new = SubSeq(memory_buffer, p.start + 1, p.start + p.count)
    BY <2>1, <2>2, <2>3 DEF PieceLines
  <2>6. new \in Seq(Text) /\ Len(new) = p.count
    <3> HIDE DEF new, p
    <3>1. QED
      BY <1>2, <2>1, <2>4, <2>5, SliceElements
  <2>7. new_memory_buffer' = old \o new /\ pieces' = [pieces EXCEPT ![cursor].start = Len(old)]
    BY <1>3 DEF CompactPiece
  <2>8. q \in Pieces /\ [p EXCEPT !.start = Len(old)] = q
    <3> DEFINE n == Len(old)
    <3>1. n \in Nat /\ p \in Pieces
      BY <1>2, <2>1
    <3> HIDE DEF p, n
    <3>2. [p EXCEPT !.start = n] = [kind |-> p.kind, start |-> n, count |-> p.count]
          /\ [kind |-> p.kind, start |-> n, count |-> p.count] \in Pieces
      BY <3>1, SMT DEF Pieces
    <3>3. QED
      BY <3>2 DEF n
  <2>9. pieces' = [pieces EXCEPT ![cursor] = q]
    BY <2>7, <2>8
  <2> HIDE DEF q
  <2>10. /\ Len(pieces') = Len(pieces)
         /\ \A k \in 1 .. Len(pieces) : pieces'[k] = IF k = cursor THEN q ELSE pieces[k]
    BY <1>2, <2>8, <2>9, SMT
  <2> HIDE DEF new, old
  <2>11. ASSUME NEW k \in 1 .. Len(pieces) PROVE PieceLines(k)' = PieceLines(k)
    <3>1. k < cursor \/ k = cursor \/ (k > cursor /\ ~(k < cursor + 1))
      BY <1>2
    <3>2. CASE k < cursor
      <4>1. /\ Buffer(k) = old /\ Buffer(k)' = old \o new
        <5>1. k < cursor + 1
          BY <1>2, <3>2
        <5>2. QED
          BY <1>1, <2>7, <3>2, <5>1 DEF Buffer, Compacted, old
      <4>2. pieces'[k] = pieces[k] /\ k # cursor
        BY <1>2, <2>10, <3>2
      <4>3. CASE IsOriginal(pieces[k])
        BY <4>2, <4>3 DEF PieceLines
      <4>4. CASE ~IsOriginal(pieces[k])
        <5> DEFINE r == pieces[k]
        <5>1. r.start \in Nat /\ r.count \in Nat /\ End(r) = r.start + r.count
          BY <1>2, ElementOfList, PieceFields DEF End
        <5>2. r.start + r.count <= Len(old)
          BY <1>1, <4>1, <4>4, <5>1 DEF PiecesInBounds
        <5>3. PieceLines(k) = SubSeq(old, r.start + 1, r.start + r.count)
              /\ PieceLines(k)' = SubSeq(old \o new, r.start + 1, r.start + r.count)
          BY <4>1, <4>2, <4>4, <5>1 DEF PieceLines
        <5> HIDE DEF r
        <5>4. old \in Seq(Text)
          BY <1>2 DEF old
        <5>5. SubSeq(old \o new, r.start + 1, r.start + r.count)
                = SubSeq(old, r.start + 1, r.start + r.count)
          BY <2>6, <5>1, <5>2, <5>4, SameSlice
        <5>6. QED
          BY <5>3, <5>5
      <4>5. QED
        BY <4>3, <4>4
    <3>3. CASE k = cursor
      <4>1. Buffer(k)' = old \o new
        <5>1. k < cursor + 1
          BY <1>2, <3>3
        <5>2. QED
          BY <1>1, <2>7, <5>1 DEF Buffer, Compacted, old
      <4>2. pieces'[k] = q /\ ~IsOriginal(q) /\ End(q) = Len(old) + Len(new) /\ q.start = Len(old)
        BY <2>3, <2>6, <2>10, <3>3 DEF q, IsOriginal, End
      <4>3. PieceLines(k)' = SubSeq(old \o new, Len(old) + 1, Len(old) + Len(new))
        BY <4>1, <4>2 DEF PieceLines
      <4>4. old \in Seq(Text)
        BY <1>2 DEF old
      <4>5. PieceLines(k)' = new
        BY <2>6, <4>3, <4>4, SecondOfTwo
      <4>6. QED
        BY <3>3, <4>5 DEF new
    <3>4. CASE k > cursor /\ ~(k < cursor + 1)
      <4>1. pieces'[k] = pieces[k] /\ ~(k < cursor)
        BY <1>2, <2>10, <3>4
      <4>2. Buffer(k) = memory_buffer /\ Buffer(k)' = memory_buffer
        BY <1>1, <3>4, <4>1 DEF Buffer, Compacted
      <4>3. QED
        BY <4>1, <4>2 DEF PieceLines
    <3>5. QED
      BY <3>1, <3>2, <3>3, <3>4
  <2>12. Contents' = Contents
    BY <1>2, <2>10, <2>11, SameContents
  <2>13. QED
    BY <1>1, <2>12 DEF Stutter, docOf, requestOf
<1>4. CASE ~IsMemory(pieces[cursor])
  <2>1. UNCHANGED <<new_memory_buffer, pieces>>
    BY <1>4 DEF CompactPiece
  <2>2. ASSUME NEW k \in 1 .. Len(pieces) PROVE PieceLines(k)' = PieceLines(k)
    <3>1. CASE k = cursor
      <4>1. pieces[k] \in Pieces
        BY <1>2, ElementOfList
      <4>2. IsOriginal(pieces[k])
        BY <1>4, <3>1, <4>1, SMT DEF IsMemory, IsOriginal, Pieces
      <4>3. QED
        BY <2>1, <4>2 DEF PieceLines
    <3>2. CASE k # cursor
      <4>1. k < cursor + 1 <=> k < cursor
        BY <1>2, <3>2
      <4>2. Buffer(k)' = Buffer(k)
        BY <1>1, <2>1, <4>1 DEF Buffer, Compacted
      <4>3. QED
        BY <2>1, <4>2 DEF PieceLines
    <3>3. QED
      BY <3>1, <3>2
  <2>3. Contents' = Contents
    <3>1. Len(pieces') = Len(pieces)
      BY <2>1
    <3>2. QED
      BY <1>2, <2>2, <3>1, SameContents
  <2>4. QED
    BY <1>1, <2>3 DEF Stutter, docOf, requestOf
<1>5. QED
  BY <1>3, <1>4

(* When all pieces refer to the second buffer it becomes the first.        *)
LEMMA CompactDoneStutters ==
  ASSUME DocInv, CompactDone
  PROVE  Stutter
<1>1. /\ pc = "compact" /\ pc' = "idle" /\ TypeOK /\ cursor > Len(pieces)
      /\ UNCHANGED <<pieces, indexed_lines_added>> /\ memory_buffer' = new_memory_buffer
  BY DEF CompactDone, Return, table, DocInv, IInv
<1>2. Len(pieces) \in Nat /\ Len(pieces') = Len(pieces) /\ cursor \in Nat
  BY <1>1, SMT DEF TypeOK
<1>3. ASSUME NEW k \in 1 .. Len(pieces) PROVE PieceLines(k)' = PieceLines(k)
  <2>1. k < cursor
    BY <1>1, <1>2
  <2>2. Buffer(k) = new_memory_buffer /\ Buffer(k)' = new_memory_buffer
    BY <1>1, <2>1 DEF Buffer, Compacted
  <2>3. QED
    BY <1>1, <2>2 DEF PieceLines
<1>4. Contents' = Contents
  BY <1>2, <1>3, SameContents
<1>5. QED
  BY <1>1, <1>4 DEF Stutter, docOf, requestOf

(* What the indexer publishes is not yet in the document.                  *)
LEMMA OthersStutter ==
  ASSUME IndexGrows \/ UNCHANGED vars
  PROVE  Stutter
<1>1. UNCHANGED <<pieces, indexed_lines_added, memory_buffer, pc, edit, piece_idx, offset,
                  remaining_delete, new_memory_buffer, cursor>>
  BY DEF IndexGrows, vars, table, memory, locals, compaction
<1>2. docOf' = docOf
  BY <1>1 DEF docOf, Pending, Contents, LinesOf, PieceLines, Buffer, Compacted
<1>3. requestOf' = requestOf
  BY <1>1 DEF requestOf
<1>4. QED
  BY <1>1, <1>2, <1>3 DEF Stutter

(* The first table shows the file as far as it is indexed.                 *)
LEMMA InitIsInit == Init => Doc!Init
<1> SUFFICES ASSUME Init PROVE Doc!Init
  OBVIOUS
<1> DEFINE n == original_total_lines
           p == Original(0, n)
           ls == LinesIn(p, memory_buffer)
<1>1. /\ n \in {0, FileLines} /\ n \in Nat /\ indexed_lines_added = n /\ pc = "idle"
      /\ pieces = << p >> /\ IInv
  BY InitEstablishes, ConstantsAssumption DEF Init
<1>2. docOf = FlattenSeq(Shown(pieces, memory_buffer))
  BY <1>1, WholeView
<1>3. ls = Doc!FileRange(0, n)
  <2>1. IsOriginal(p) /\ p.start = 0 /\ p.count = n
    BY DEF Original, IsOriginal
  <2>2. ls = [k \in 1 .. n |-> 0 + k - 1]
    BY <2>1 DEF LinesIn
  <2>3. Doc!FileRange(0, n) = [k \in 1 .. (n - 0) |-> 0 + k - 1] /\ n - 0 = n
    BY <1>1, SMT DEF Doc!FileRange
  <2>4. QED
    BY <2>2, <2>3
<1>4. ls \in Seq(DocLine)
  BY <1>1, <1>3, NewLines
<1>5. Shown(pieces, memory_buffer) = Append(<< >>, ls)
  <2>1. Len(pieces) = 1 /\ \A k \in 1 .. 1 : pieces[k] = p
    BY <1>1, SMT
  <2>2. Shown(pieces, memory_buffer) = [k \in 1 .. 1 |-> ls]
    BY <2>1 DEF Shown
  <2> HIDE DEF ls
  <2>3. [k \in 1 .. 1 |-> ls] = Append(<< >>, ls)
    BY <1>4, SMT
  <2>4. QED
    BY <2>2, <2>3
<1>6. docOf = ls
  <2> HIDE DEF ls
  <2>1. << >> \in Seq(Seq(DocLine))
    BY SMT
  <2>2. FlattenSeq(Append(<< >>, ls)) = FlattenSeq(<< >>) \o ls
    BY <1>4, <2>1, FlattenAppend
  <2>3. << >> \o ls = ls
    BY <1>4, ConcatLaws
  <2>4. QED
    BY <1>2, <1>5, <2>2, <2>3, FlattenEmpty
<1>7. requestOf = Doc!None
  BY <1>1 DEF requestOf, Doc!None
<1>8. QED
  BY <1>1, <1>3, <1>6, <1>7 DEF Doc!Init, docOf, requestOf

(* Every step.                                                             *)
LEMMA StepIsStep == DocInv /\ DocInv' /\ [Next]_vars => [Doc!Next]_(Doc!docVars)
<1> SUFFICES ASSUME DocInv, DocInv', [Next]_vars PROVE Doc!Next \/ UNCHANGED Doc!docVars
  OBVIOUS
<1>1. Stutter => UNCHANGED Doc!docVars
  BY DEF Stutter, Doc!docVars, docOf, requestOf
<1>2. CASE IndexGrows \/ UNCHANGED vars
  BY <1>1, <1>2, OthersStutter
<1>3. CASE Read \/ EditSync \/ EditSyncSplit
  BY <1>1, <1>3, SyncIsArrive
<1>4. CASE \E start \in 0 .. FileLines + MaxMemory, deleted \in 0 .. MaxDelete :
             \E parts \in UNION {[1 .. n -> Text] : n \in 1 .. MaxInsert} :
               EditCall(start, deleted, parts)
  BY <1>4, CallIsSubmit
<1>5. CASE EditLocate
  BY <1>1, <1>5, LocateIsApply
<1>6. CASE EditSplit
  BY <1>6, SplitIsApply
<1>7. CASE DeleteWhole
  BY <1>1, <1>7, DeleteWholeStutters
<1>8. CASE DeletePart
  BY <1>1, <1>8, DeletePartIsArrive
<1>9. CASE DeleteDone
  BY <1>1, <1>9, DeleteDoneStutters
<1>10. CASE EditInsert
  BY <1>1, <1>10, InsertStutters
<1>11. CASE CompactPiece
  BY <1>1, <1>11, CompactPieceStutters
<1>12. CASE CompactDone
  BY <1>1, <1>12, CompactDoneStutters
<1>13. QED
  BY <1>2, <1>3, <1>4, <1>5, <1>6, <1>7, <1>8, <1>9, <1>10, <1>11, <1>12 DEF Next, EditStep

(* The table does what the document allows: every call of apply_edit       *)
(* changes the lines the caller sees once, as it was asked to, and the     *)
(* lines that arrive during it are added at the end, once and in order.    *)
THEOREM TableIsDocument == Spec => Doc!Init /\ [][Doc!Next]_(Doc!docVars)
<1>1. Init => Doc!Init
  BY InitIsInit
<1>2. DocInv /\ DocInv' /\ [Next]_vars => [Doc!Next]_(Doc!docVars)
  BY StepIsStep
<1>3. QED
  BY <1>1, <1>2, DocInvariant, PTL DEF Spec

-----------------------------------------------------------------------------
(* get_block.                                                              *)

(* One round of its loop: what is taken from the i-th piece, and then from *)
(* the others, which are collected by g.                                   *)
Round(g, i, need, first, off) ==
  IF i > Len(pieces) \/ need = 0 THEN << >>
  ELSE LET from == From(i, first, off)
           n == IF pieces[i].count - from < need THEN pieces[i].count - from ELSE need
       IN  SubSeq(PieceLines(i), from + 1, from + n) \o g[need - n]

Rounds(f, first, off) ==
  [i \in Nat \ {0} |-> [need \in Nat |-> Round(f[i + 1], i, need, first, off)]]

(* What each piece has to give, and what the loop has to find from i on.   *)
Offered(first, off) == [i \in 1 .. Len(pieces) |-> Behind(PieceLines(i), From(i, first, off))]
Found(first, off, i, need) ==
  IF i > Len(pieces) THEN << >>
  ELSE AtMost(FlattenSeq(Behind(Offered(first, off), i - 1)), need)

(* What the pieces from the first on offer to get_block, each a list of lines. *)
LEMMA OfferedType ==
  ASSUME IInv, pc = "idle", NEW first \in 1 .. Len(pieces), NEW off \in Nat,
         off < pieces[first].count
  PROVE  /\ Offered(first, off) \in Seq(Seq(DocLine)) /\ Len(Offered(first, off)) = Len(pieces)
         /\ Len(pieces) \in Nat
         /\ \A i \in 1 .. Len(pieces) :
              /\ Offered(first, off)[i] = Behind(PieceLines(i), From(i, first, off))
              /\ PieceLines(i) \in Seq(DocLine) /\ Len(PieceLines(i)) = pieces[i].count
              /\ pieces[i].count \in Nat
              /\ From(i, first, off) \in 0 .. pieces[i].count
<1>1. /\ Over(pieces, memory_buffer) /\ memory_buffer \in Seq(Text) /\ Len(pieces) \in Nat
      /\ \A i \in 1 .. Len(pieces) : PieceLines(i) = LinesIn(pieces[i], memory_buffer)
  BY PiecesOver
<1>2. \A i \in 1 .. Len(pieces) :
        /\ PieceLines(i) \in Seq(DocLine) /\ Len(PieceLines(i)) = pieces[i].count
        /\ pieces[i].count \in Nat
  BY <1>1, ShownType
<1>3. ASSUME NEW i \in 1 .. Len(pieces)
      PROVE  From(i, first, off) \in 0 .. pieces[i].count
  BY <1>2, SMT DEF From
<1>4. ASSUME NEW i \in 1 .. Len(pieces)
      PROVE  Behind(PieceLines(i), From(i, first, off)) \in Seq(DocLine)
  <2> DEFINE s == PieceLines(i)
             n == From(i, first, off)
  <2>1. s \in Seq(DocLine) /\ n \in 0 .. Len(s)
    BY <1>2, <1>3
  <2> HIDE DEF s, n
  <2>2. Behind(s, n) \in Seq(DocLine)
    BY <2>1, CutList
  <2>3. QED
    BY <2>2 DEF s, n
<1> DEFINE t == Offered(first, off)
<1>5. t \in [1 .. Len(pieces) -> Seq(DocLine)]
  BY <1>4 DEF Offered
<1>6. \A i \in 1 .. Len(pieces) : t[i] = Behind(PieceLines(i), From(i, first, off))
  BY DEF Offered
<1> HIDE DEF t
<1>7. t \in Seq(Seq(DocLine)) /\ Len(t) = Len(pieces)
  BY <1>1, <1>5, SMT
<1>8. QED
  BY <1>1, <1>2, <1>3, <1>6, <1>7 DEF t

(* If the rest of the loop finds what it should, so does the round.        *)
LEMMA RoundFinds ==
  ASSUME IInv, pc = "idle", NEW first \in 1 .. Len(pieces), NEW off \in Nat,
         off < pieces[first].count,
         NEW i \in Nat \ {0}, NEW need \in Nat, NEW g,
         i > Len(pieces) \/ \A x \in Nat : g[x] = Found(first, off, i + 1, x)
  PROVE  Round(g, i, need, first, off) = Found(first, off, i, need)
<1> DEFINE tt == Offered(first, off)
           from == From(i, first, off)
           p == pieces[i]
           here == PieceLines(i)
           a == Behind(here, from)
           c == p.count - from
           n == IF c < need THEN c ELSE need
           rest == FlattenSeq(Behind(tt, i))
<1>1. /\ tt \in Seq(Seq(DocLine)) /\ Len(tt) = Len(pieces) /\ Len(pieces) \in Nat
  BY OfferedType
<1>2. CASE i > Len(pieces)
  BY <1>2 DEF Round, Found
<1>3. CASE ~(i > Len(pieces))
  <2>1. i \in 1 .. Len(pieces) /\ i - 1 \in 0 .. Len(tt) /\ i - 1 < Len(tt)
    BY <1>1, <1>3, SMT
  <2>2. /\ tt[i] = a /\ here \in Seq(DocLine) /\ Len(here) = p.count /\ p.count \in Nat
        /\ from \in 0 .. p.count
    BY <2>1, OfferedType
  <2>3. a \in Seq(DocLine) /\ Len(a) = c /\ c \in Nat
    <3> HIDE DEF from, here
    <3>1. from \in 0 .. Len(here)
      BY <2>2
    <3>2. a \in Seq(DocLine) /\ Len(a) = Len(here) - from
      BY <2>2, <3>1, CutList
    <3>3. QED
      BY <2>2, <3>2
  <2> HIDE DEF tt
  <2>4. /\ FlattenSeq(Behind(tt, i - 1)) = a \o rest
        /\ rest \in Seq(DocLine)
    <3> DEFINE k == i - 1
    <3>1. k \in 0 .. Len(tt) /\ k < Len(tt) /\ k + 1 = i
      BY <2>1
    <3>2. i \in 0 .. Len(tt)
      BY <1>1, <2>1
    <3> HIDE DEF k, a
    <3>3. FlattenSeq(Behind(tt, k)) = tt[k + 1] \o FlattenSeq(Behind(tt, k + 1))
      BY <1>1, <3>1, FlattenParts
    <3>4. FlattenSeq(Behind(tt, i)) \in Seq(DocLine)
      BY <1>1, <3>2, FlattenParts
    <3>5. QED
      BY <2>2, <3>1, <3>3, <3>4 DEF k
  <2>5. Found(first, off, i, need) = AtMost(a \o rest, need)
    BY <1>3, <2>4 DEF Found, tt
  <2>6. \A x \in Nat : g[x] = AtMost(rest, x)
    <3> DEFINE j == i + 1
    <3>1. j - 1 = i
      BY <2>1
    <3>2. \A x \in Nat : g[x] = Found(first, off, j, x)
      BY <1>3
    <3> HIDE DEF j
    <3>3. ASSUME NEW x \in Nat PROVE Found(first, off, j, x) = AtMost(rest, x)
      <4>1. CASE j > Len(pieces)
        <5>1. i = Len(tt)
          BY <1>1, <2>1, <3>1, <4>1, SMT DEF j
        <5>2. Behind(tt, i) = << >>
          BY <1>1, <5>1, SMT DEF Behind
        <5>3. rest = << >>
          BY <5>2, FlattenEmpty
        <5>4. AtMost(<< >>, x) = << >>
          BY <2>4, <5>3, AtMostOfConcat
        <5>5. QED
          BY <4>1, <5>3, <5>4 DEF Found
      <4>2. CASE ~(j > Len(pieces))
        BY <3>1, <4>2 DEF Found, tt
      <4>3. QED
        BY <4>1, <4>2
    <3>4. QED
      BY <3>2, <3>3
  <2>7. CASE need = 0
    <3>1. Round(g, i, need, first, off) = << >>
      BY <2>7 DEF Round
    <3>2. a \o rest \in Seq(DocLine)
      BY <2>3, <2>4, ConcatLaws
    <3> HIDE DEF a, rest
    <3> DEFINE b == a \o rest
    <3>3. b \in Seq(DocLine)
      BY <3>2
    <3> HIDE DEF b
    <3>4. AtMost(b, 0) = << >>
      BY <3>3, AtMostOfConcat
    <3>5. QED
      BY <2>5, <2>7, <3>1, <3>4 DEF b
  <2>8. CASE need # 0
    <3>1. Round(g, i, need, first, off) = SubSeq(here, from + 1, from + n) \o g[need - n]
      BY <1>3, <2>8 DEF Round
    <3>2. n \in Nat /\ need - n \in Nat /\ n <= c
      BY <2>3, SMT
    <3>3. SubSeq(here, from + 1, from + n) = UpTo(a, n)
      <4> DEFINE m == n
      <4>1. m \in Nat /\ from \in Nat /\ from + m <= Len(here)
        BY <2>2, <3>2
      <4> HIDE DEF m, from, here, a
      <4>2. SubSeq(here, from + 1, from + m) = UpTo(Behind(here, from), m)
        BY <2>2, <4>1, SliceBehind
      <4>3. QED
        BY <4>2 DEF m, a
    <3>4. g[need - n] = AtMost(rest, need - n)
      BY <2>6, <3>2
    <3> HIDE DEF a, rest, here, from
    <3>5. CASE c < need
      <4>1. n = Len(a) /\ need > Len(a)
        BY <2>3, <3>5
      <4>2. AtMost(a \o rest, need) = UpTo(a, Len(a)) \o AtMost(rest, need - Len(a))
        BY <2>3, <2>4, <4>1, AtMostOfConcat
      <4>3. QED
        BY <2>5, <3>1, <3>3, <3>4, <4>1, <4>2
    <3>6. CASE ~(c < need)
      <4>1. n = need /\ need <= Len(a) /\ need - n = 0
        BY <2>3, <3>6
      <4>2. AtMost(a \o rest, need) = UpTo(a, need)
        BY <2>3, <2>4, <4>1, AtMostOfConcat
      <4>3. AtMost(rest, 0) = << >>
        BY <2>4, AtMostOfConcat
      <4>4. need \in 0 .. Len(a)
        BY <2>3, <4>1
      <4>5. UpTo(a, need) \in Seq(DocLine)
        BY <2>3, <4>4, CutList
      <4> DEFINE u == UpTo(a, need)
      <4>6. u \in Seq(DocLine)
        BY <4>5
      <4> HIDE DEF u
      <4>7. u \o << >> = u
        BY <4>6, ConcatLaws
      <4>8. QED
        BY <2>5, <3>1, <3>3, <3>4, <4>1, <4>2, <4>3, <4>7 DEF u
    <3>7. QED
      BY <3>5, <3>6
  <2>9. QED
    BY <2>7, <2>8
<1>4. QED
  BY <1>2, <1>3

(* The loop collects what it should: there is a function that does, and    *)
(* every function that satisfies the equation of the loop does.            *)
LEMMA CollectedFound ==
  ASSUME IInv, pc = "idle", NEW first \in 1 .. Len(pieces), NEW off \in Nat,
         off < pieces[first].count, NEW m \in Nat
  PROVE  Collected(first, off, m) = Found(first, off, first, m)
<1> DEFINE P == Nat \ {0}
           IsLoop(f) == f = Rounds(f, first, off)
           loop == CHOOSE f : IsLoop(f)
           g == [i \in P |-> [need \in Nat |-> Found(first, off, i, need)]]
<1>1. Len(pieces) \in Nat /\ first \in P
  BY Fields, SMT
<1>2. IsLoop(g)
  <2>1. ASSUME NEW i \in P, NEW need \in Nat
        PROVE  Round(g[i + 1], i, need, first, off) = Found(first, off, i, need)
    <3>1. i + 1 \in P
      BY SMT
    <3>2. \A x \in Nat : g[i + 1][x] = Found(first, off, i + 1, x)
      BY <3>1
    <3> HIDE DEF g
    <3> DEFINE h == g[i + 1]
    <3>3. \A x \in Nat : h[x] = Found(first, off, i + 1, x)
      BY <3>2
    <3> HIDE DEF h
    <3>4. Round(h, i, need, first, off) = Found(first, off, i, need)
      BY <3>3, RoundFinds
    <3>5. QED
      BY <3>4 DEF h
  <2>2. Rounds(g, first, off)
          = [i \in P |-> [need \in Nat |-> Round(g[i + 1], i, need, first, off)]]
    BY DEF Rounds
  <2>3. ASSUME NEW i \in P
        PROVE  [need \in Nat |-> Round(g[i + 1], i, need, first, off)]
                 = [need \in Nat |-> Found(first, off, i, need)]
    BY <2>1, Zenon
  <2>4. [i \in P |-> [need \in Nat |-> Round(g[i + 1], i, need, first, off)]]
          = [i \in P |-> [need \in Nat |-> Found(first, off, i, need)]]
    BY <2>3, Zenon
  <2>5. QED
    BY <2>2, <2>4, Zenon
<1>3. IsLoop(loop)
  <2> HIDE DEF g, IsLoop
  <2>1. QED
    BY <1>2, Zenon
<1>4. Collected(first, off, m) = loop[first][m]
  BY Zenon DEF Collected, Rounds, Round
<1> HIDE DEF loop
<1>5. \A i \in P, need \in Nat : loop[i][need] = Round(loop[i + 1], i, need, first, off)
  <2> DEFINE again == Rounds(loop, first, off)
  <2>1. ASSUME NEW i \in P, NEW need \in Nat
        PROVE  again[i][need] = Round(loop[i + 1], i, need, first, off)
    BY DEF Rounds
  <2>2. loop = again
    BY <1>3
  <2> HIDE DEF again
  <2>3. QED
    BY <2>1, <2>2
<1> DEFINE Right(i) == \A x \in Nat : loop[i][x] = Found(first, off, i, x)
           N == {d \in Nat : \A i \in P : Len(pieces) < i + d => Right(i)}
<1>6. 0 \in N
  <2>1. ASSUME NEW i \in P, Len(pieces) < i + 0, NEW x \in Nat
        PROVE  loop[i][x] = Found(first, off, i, x)
    <3>1. i > Len(pieces)
      BY <1>1, <2>1, SMT
    <3>2. Round(loop[i + 1], i, x, first, off) = << >> /\ Found(first, off, i, x) = << >>
      BY <3>1 DEF Round, Found
    <3>3. QED
      BY <1>5, <3>2
  <2>2. QED
    BY <2>1, SMT
<1>7. ASSUME NEW d \in Nat, d \in N PROVE d + 1 \in N
  <2>1. ASSUME NEW i \in P, Len(pieces) < i + (d + 1) PROVE Right(i)
    <3>1. i + 1 \in P /\ Len(pieces) < (i + 1) + d
      BY <1>1, <2>1, SMT
    <3>2. Right(i + 1)
      <4> HIDE DEF Right
      <4>1. QED
        BY <1>7, <3>1
    <3> DEFINE h == loop[i + 1]
    <3>3. \A x \in Nat : h[x] = Found(first, off, i + 1, x)
      BY <3>2
    <3>4. \A x \in Nat : loop[i][x] = Round(h, i, x, first, off)
      BY <1>5
    <3> HIDE DEF h
    <3>5. ASSUME NEW x \in Nat PROVE Round(h, i, x, first, off) = Found(first, off, i, x)
      BY <3>3, RoundFinds
    <3>6. QED
      BY <3>4, <3>5
  <2> HIDE DEF Right
  <2>2. QED
    BY <2>1, SMT
<1>8. Len(pieces) \in N
  <2> HIDE DEF N
  <2>1. QED
    BY <1>1, <1>6, <1>7, SetInduction
<1>9. Right(first)
  <2>1. Len(pieces) < first + Len(pieces)
    BY <1>1, SMT
  <2> HIDE DEF Right
  <2>2. QED
    BY <1>1, <1>8, <2>1
<1>10. QED
  BY <1>4, <1>9

(* A line of the table is in one of the pieces.                            *)
LEMMA LineHasPiece ==
  ASSUME pieces \in Seq(Pieces), NEW start \in Nat, start < total_lines
  PROVE  \E k \in DOMAIN pieces : LinesBefore(pieces, k) <= start
                                  /\ start < LinesBefore(pieces, k + 1)
<1> SUFFICES ASSUME ~\E k \in DOMAIN pieces : LinesBefore(pieces, k) <= start
                                              /\ start < LinesBefore(pieces, k + 1)
             PROVE  FALSE
  OBVIOUS
<1> DEFINE L(k) == LinesBefore(pieces, k)
           N == {n \in Nat : n <= Len(pieces) => L(n + 1) <= start}
<1>1. Len(pieces) \in Nat /\ DOMAIN pieces = 1 .. Len(pieces)
  BY SMT
<1>2. \A k \in 1 .. Len(pieces) + 1 : L(k) \in Nat
  BY LinesBeforeStep
<1>3. L(1) = 0
  <2>1. 1 \in 1 .. Len(pieces) + 1
    BY <1>1, SMT
  <2>2. QED
    BY <2>1, LinesBeforeStep
<1>4. \A k \in 1 .. Len(pieces) : L(k) <= start => ~(start < L(k + 1))
  BY <1>1
<1> HIDE DEF L
<1>5. 0 \in N
  BY <1>3, SMT
<1>6. ASSUME NEW n \in Nat, n \in N PROVE n + 1 \in N
  <2>1. ASSUME n + 1 <= Len(pieces) PROVE L(n + 1 + 1) <= start
    <3>1. n <= Len(pieces) /\ n + 1 \in 1 .. Len(pieces) /\ n + 1 + 1 \in 1 .. Len(pieces) + 1
      BY <1>1, <2>1, SMT
    <3>2. L(n + 1) <= start
      BY <1>6, <3>1
    <3>3. ~(start < L(n + 1 + 1)) /\ L(n + 1 + 1) \in Nat
      BY <1>2, <1>4, <3>1, <3>2
    <3>4. QED
      BY <3>3, SMT
  <2>2. QED
    BY <2>1
<1>7. Len(pieces) \in N
  <2> HIDE DEF N
  <2>1. QED
    BY <1>1, <1>5, <1>6, SetInduction
<1>8. L(Len(pieces) + 1) <= start
  BY <1>1, <1>7
<1>9. L(Len(pieces) + 1) = total_lines /\ L(Len(pieces) + 1) \in Nat
  <2>1. Len(pieces) + 1 \in 1 .. Len(pieces) + 1
    BY <1>1, SMT
  <2>2. QED
    BY <1>2, <2>1 DEF L, total_lines
<1>10. QED
  BY <1>8, <1>9, SMT

(* What remains from a line of the piece at the place on.                  *)
LEMMA FoundFromPlace ==
  ASSUME IInv, pc = "idle", NEW first \in 1 .. Len(pieces), NEW off \in Nat,
         off < pieces[first].count, NEW m \in Nat
  PROVE  Found(first, off, first, m)
           = AtMost(Behind(Below(pieces, memory_buffer, first), off), m)
<1> DEFINE tt == Offered(first, off)
           buf == memory_buffer
           ss == Shown(pieces, buf)
           here == LinesIn(pieces[first], buf)
           k == first - 1
           j == first + 1
           rest == Below(pieces, buf, j)
<1>1. /\ Over(pieces, buf) /\ buf \in Seq(Text) /\ Len(pieces) \in Nat
      /\ \A i \in 1 .. Len(pieces) : PieceLines(i) = LinesIn(pieces[i], buf)
  BY PiecesOver
<1>2. /\ tt \in Seq(Seq(DocLine)) /\ Len(tt) = Len(pieces)
      /\ \A i \in 1 .. Len(pieces) : tt[i] = Behind(PieceLines(i), From(i, first, off))
  BY OfferedType
<1>3. /\ ss \in Seq(Seq(DocLine)) /\ Len(ss) = Len(pieces)
      /\ \A i \in 1 .. Len(pieces) : ss[i] = LinesIn(pieces[i], buf) /\ ss[i] \in Seq(DocLine)
  BY <1>1, ShownType
<1>4. here \in Seq(DocLine) /\ Len(here) = pieces[first].count /\ pieces[first].count \in Nat
  BY <1>1, ShownType
<1>5. /\ ~(first > Len(pieces)) /\ k \in 0 .. Len(tt) /\ k < Len(tt) /\ k + 1 = first
      /\ j \in 1 .. Len(pieces) + 1 /\ j - 1 = first /\ first \in 1 .. Len(pieces) + 1
      /\ first <= Len(pieces) /\ first \in Nat
  BY <1>1, <1>2, SMT
<1> HIDE DEF tt, ss
<1>6. FlattenSeq(Behind(tt, k)) = tt[first] \o FlattenSeq(Behind(tt, first))
  <2> HIDE DEF k
  <2>1. FlattenSeq(Behind(tt, k)) = tt[k + 1] \o FlattenSeq(Behind(tt, k + 1))
    BY <1>2, <1>5, FlattenParts
  <2>2. QED
    BY <1>5, <2>1
<1>7. tt[first] = Behind(here, off)
  BY <1>1, <1>2 DEF From
<1>8. Behind(tt, first) = Behind(ss, first)
  <2> DEFINE a == Behind(tt, first)
             b == Behind(ss, first)
             n == Len(pieces) - first
  <2>1. /\ a \in Seq(Seq(DocLine)) /\ Len(a) = n
        /\ \A i \in 1 .. n : a[i] = tt[first + i] /\ first + i \in 1 .. Len(pieces) /\ first + i # first
    BY <1>1, <1>2, <1>5, SMT DEF Behind
  <2>2. /\ b \in Seq(Seq(DocLine)) /\ Len(b) = n
        /\ \A i \in 1 .. n : b[i] = ss[first + i]
    BY <1>1, <1>3, <1>5, SMT DEF Behind
  <2>3. \A i \in 1 .. Len(pieces) : i # first => tt[i] = ss[i]
    <3>1. ASSUME NEW i \in 1 .. Len(pieces), i # first PROVE tt[i] = ss[i]
      <4>1. tt[i] = Behind(ss[i], 0)
        BY <1>1, <1>2, <1>3, <3>1 DEF From
      <4> DEFINE s == ss[i]
      <4>2. s \in Seq(DocLine)
        BY <1>3
      <4> HIDE DEF s
      <4>3. Behind(s, 0) = s
        BY <4>2, BehindNone
      <4>4. QED
        BY <4>1, <4>3 DEF s
    <3>2. QED
      BY <3>1
  <2> HIDE DEF a, b, n
  <2>4. \A i \in 1 .. Len(a) : a[i] = b[i]
    BY <2>1, <2>2, <2>3
  <2>5. a = b
    BY <2>1, <2>2, <2>4, SameList
  <2>6. QED
    BY <2>5 DEF a, b
<1>9. FlattenSeq(Behind(ss, first)) = rest
  BY <1>5 DEF Below, ss
<1>10. rest \in Seq(DocLine)
  <2> HIDE DEF j
  <2>1. QED
    BY <1>1, <1>5, Places
<1>11. Below(pieces, buf, first) = here \o rest
  BY <1>1, <1>5, Places
<1>12. Behind(here \o rest, off) = Behind(here, off) \o rest
  <2>1. off <= Len(here)
    BY <1>4
  <2> HIDE DEF here, rest
  <2>2. QED
    BY <1>4, <1>10, <2>1, BehindFirst
<1>13. QED
  BY <1>5, <1>6, <1>7, <1>8, <1>9, <1>11, <1>12 DEF Found, tt

(* The answer of get_block for any first line and number of lines.        *)
LEMMA GetBlockCorrect ==
  ASSUME IInv, pc = "idle", NEW start \in Nat, NEW n \in Nat
  PROVE  GetBlock(start, n) = SubSeq(Contents, start + 1,
                                     IF start + n < total_lines THEN start + n ELSE total_lines)
<1> DEFINE buf == memory_buffer
           last == IF start + n < total_lines THEN start + n ELSE total_lines
<1>1. /\ pieces \in Seq(Pieces) /\ Len(pieces) \in Nat /\ DOMAIN pieces = 1 .. Len(pieces)
      /\ Over(pieces, buf) /\ buf \in Seq(Text)
  BY PiecesOver, SMT
<1>2. docOf = Contents /\ docOf = FlattenSeq(Shown(pieces, buf)) /\ docOf \in Seq(DocLine)
      /\ Len(docOf) = total_lines /\ total_lines \in Nat
  <2>1. docOf = FlattenSeq(Shown(pieces, buf)) /\ docOf \in Seq(DocLine) /\ Len(docOf) = total_lines
    BY WholeView
  <2>2. Len(docOf) \in Nat
    BY <2>1, LenInNat
  <2>3. QED
    BY <2>1, <2>2 DEF docOf
<1>3. CASE n = 0 \/ start >= total_lines
  <2>1. GetBlock(start, n) = << >>
    BY <1>3 DEF GetBlock
  <2>2. last <= start /\ last \in Nat
    BY <1>2, <1>3, SMT
  <2> DEFINE d == docOf
  <2>3. d \in Seq(DocLine) /\ Contents = d
    BY <1>2
  <2> HIDE DEF d, last
  <2>4. SubSeq(d, start + 1, last) = << >>
    BY <2>2, <2>3, SMT
  <2>5. QED
    BY <2>1, <2>3, <2>4 DEF last
<1>4. CASE ~(n = 0 \/ start >= total_lines)
  <2> DEFINE InPiece(k) == LinesBefore(pieces, k) <= start /\ start < LinesBefore(pieces, k + 1)
             i == CHOOSE k \in DOMAIN pieces : InPiece(k)
             off == start - LinesBefore(pieces, i)
  <2>1. GetBlock(start, n) = Collected(i, off, n)
    BY <1>4 DEF GetBlock
  <2>2. \E k \in DOMAIN pieces : InPiece(k)
    BY <1>1, <1>2, <1>4, LineHasPiece
  <2>3. i \in DOMAIN pieces /\ InPiece(i)
    <3> HIDE DEF InPiece
    <3>1. QED
      BY <2>2, Zenon
  <2> HIDE DEF i
  <2>4. i \in 1 .. Len(pieces) /\ i \in 1 .. Len(pieces) + 1 /\ i <= Len(pieces)
    BY <1>1, <2>3, SMT
  <2>5. /\ LinesBefore(pieces, i) \in Nat
        /\ LinesBefore(pieces, i + 1) = LinesBefore(pieces, i) + pieces[i].count
    BY <1>1, <2>4, LinesBeforeStep
  <2>6. pieces[i].count \in Nat
    BY <1>1, <2>4, ElementOfList, PieceFields
  <2>7. off \in Nat /\ off < pieces[i].count /\ LinesBefore(pieces, i) + off = start
    BY <2>3, <2>5, <2>6
  <2> HIDE DEF off, InPiece
  <2>8. Collected(i, off, n) = Found(i, off, i, n)
    BY <2>4, <2>7, CollectedFound
  <2>9. Found(i, off, i, n) = AtMost(Behind(Below(pieces, buf, i), off), n)
    BY <2>4, <2>7, FoundFromPlace
  <2> DEFINE a == Above(pieces, buf, i)
             b == Below(pieces, buf, i)
  <2>10. a \in Seq(DocLine) /\ b \in Seq(DocLine) /\ docOf = a \o b
    BY <1>1, <1>2, <2>4, Places
  <2>11. Len(a) = LinesBefore(pieces, i)
    BY <1>1, <2>4, LenAbove
  <2> HIDE DEF a, b
  <2>12. AtMost(Behind(b, off), n) = SubSeq(a \o b, Len(a) + off + 1,
           IF Len(a) + off + n < Len(a \o b) THEN Len(a) + off + n ELSE Len(a \o b))
    BY <2>7, <2>10, PartOfSecond
  <2>13. Len(a) + off = start
    BY <2>7, <2>11
  <2>14. AtMost(Behind(b, off), n) = SubSeq(docOf, start + 1, last)
    BY <1>2, <2>10, <2>12, <2>13
  <2>15. QED
    BY <1>2, <2>1, <2>8, <2>9, <2>14 DEF b
<1>5. QED
  BY <1>3, <1>4

(* get_block answers with the lines asked for, wherever pieces end.        *)
THEOREM BlocksCorrect == Spec => []BlockCorrect
<1>1. IInv => BlockCorrect
  <2> SUFFICES ASSUME IInv, pc = "idle",
                      NEW start \in 0 .. total_lines, NEW n \in 0 .. total_lines + 1
               PROVE  GetBlock(start, n) = SubSeq(Contents, start + 1,
                        IF start + n < total_lines THEN start + n ELSE total_lines)
    BY DEF BlockCorrect
  <2>1. total_lines \in Nat
    <3>1. docOf \in Seq(DocLine) /\ Len(docOf) = total_lines
      BY WholeView
    <3>2. QED
      BY <3>1, LenInNat
  <2>2. start \in Nat /\ n \in Nat
    BY <2>1, SMT
  <2>3. QED
    BY <2>2, GetBlockCorrect
<1>2. QED
  BY <1>1, InductiveInvariant, PTL

-----------------------------------------------------------------------------
(* The lines of the document and of its pieces, for the searches.           *)

(* The lines of the document are those of the pieces, one behind the other. *)
LEMMA DocumentAt ==
  ASSUME IInv, pc = "idle", NEW i \in 1 .. Len(pieces), NEW k \in Nat, k < pieces[i].count
  PROVE  /\ LinesBefore(pieces, i) + k < total_lines
         /\ Contents[LinesBefore(pieces, i) + k + 1] = Line(i, k)
<1> DEFINE buf == memory_buffer
           a == Above(pieces, buf, i)
           j == i + 1
           b == Below(pieces, buf, j)
           here == LinesIn(pieces[i], buf)
<1>1. /\ Over(pieces, buf) /\ buf \in Seq(Text) /\ pieces \in Seq(Pieces) /\ Len(pieces) \in Nat
  BY PiecesOver
<1>2. docOf = FlattenSeq(Shown(pieces, buf)) /\ docOf = Contents /\ Len(docOf) = total_lines
  BY WholeView DEF docOf
<1>3. i \in 1 .. Len(pieces) + 1 /\ i <= Len(pieces) /\ j \in 1 .. Len(pieces) + 1 /\ j = i + 1
  BY <1>1, SMT
<1>4. a \in Seq(DocLine) /\ Len(a) = LinesBefore(pieces, i)
      /\ docOf = a \o Below(pieces, buf, i) /\ Below(pieces, buf, i) = here \o b
  BY <1>1, <1>2, <1>3, Places, LenAbove
<1> HIDE DEF j
<1>5. b \in Seq(DocLine)
  BY <1>1, <1>3, Places
<1>6. here \in Seq(DocLine) /\ Len(here) = pieces[i].count /\ pieces[i].count \in Nat
      /\ pieces[i] \in Pieces
  BY <1>1, ShownType, ElementOfList
<1>7. here[k + 1] = Line(i, k)
  <2>1. pieces[i].start \in Nat /\ pieces[i].count \in Nat /\ End(pieces[i]) = pieces[i].start + pieces[i].count
    BY <1>6, PieceFields DEF End
  <2>2. CASE IsOriginal(pieces[i])
    <3>1. k + 1 \in 1 .. pieces[i].count
      BY <2>1, SMT
    <3>2. [q \in 1 .. pieces[i].count |-> pieces[i].start + q - 1][k + 1] = pieces[i].start + k
      BY <2>1, <3>1, SMT
    <3>3. QED
      BY <2>2, <3>2 DEF LinesIn, Line
  <2>3. CASE ~IsOriginal(pieces[i])
    <3>1. End(pieces[i]) <= Len(buf)
      BY <1>1, <2>3 DEF Over, Good
    <3>2. Buffer(i) = buf
      BY DEF Buffer, Compacted
    <3>3. SubSeq(buf, pieces[i].start + 1, pieces[i].start + pieces[i].count)[k + 1]
            = buf[pieces[i].start + (k + 1)]
      BY <1>1, <2>1, <3>1, SliceElements
    <3>4. pieces[i].start + (k + 1) = pieces[i].start + k + 1
      BY <2>1
    <3>5. QED
      BY <2>1, <2>3, <3>2, <3>3, <3>4 DEF LinesIn, Line
  <2>4. QED
    BY <2>2, <2>3
<1> HIDE DEF a, b, here
<1>8. docOf = a \o (here \o b)
  BY <1>4
<1>9. /\ Len(a) + k < Len(a \o (here \o b))
      /\ (a \o (here \o b))[Len(a) + k + 1] = here[k + 1]
  <2> DEFINE c == here \o b
  <2>1. /\ c \in Seq(DocLine) /\ Len(c) = Len(here) + Len(b)
        /\ \A m \in 1 .. Len(here) + Len(b) : c[m] = IF m <= Len(here) THEN here[m] ELSE b[m - Len(here)]
    BY <1>5, <1>6, ConcatElements, Zenon
  <2> HIDE DEF c
  <2>2. a \in Seq(DocLine) /\ c \in Seq(DocLine)
    BY <1>4, <2>1
  <2>3. /\ Len(a \o c) = Len(a) + Len(c)
        /\ \A m \in 1 .. Len(a) + Len(c) : (a \o c)[m] = IF m <= Len(a) THEN a[m] ELSE c[m - Len(a)]
    BY <2>2, ConcatElements, Zenon
  <2>4. Len(a) \in Nat /\ Len(b) \in Nat /\ Len(here) \in Nat
    BY <1>4, <1>5, <1>6, LenInNat
  <2> DEFINE q == Len(a) + k + 1
  <2>5. /\ q \in 1 .. Len(a) + Len(c) /\ ~(q <= Len(a)) /\ q - Len(a) = k + 1
        /\ k + 1 \in 1 .. Len(here) + Len(b) /\ k + 1 <= Len(here)
        /\ Len(a) + k < Len(a) + Len(c)
    BY <1>6, <2>1, <2>4, SMT
  <2> HIDE DEF q
  <2>6. (a \o c)[q] = c[k + 1] /\ c[k + 1] = here[k + 1]
    BY <2>1, <2>3, <2>5
  <2>7. QED
    BY <2>3, <2>5, <2>6 DEF c, q
<1>10. QED
  BY <1>2, <1>4, <1>7, <1>8, <1>9

(* Adding up: where a piece begins and where the document ends.            *)
LEMMA PiecePlaces ==
  ASSUME pieces \in Seq(Pieces), NEW i \in 1 .. Len(pieces) + 1
  PROVE  /\ LinesBefore(pieces, i) \in Nat /\ LinesBefore(pieces, 1) = 0
         /\ LinesBefore(pieces, i) <= total_lines
         /\ LinesBefore(pieces, Len(pieces) + 1) = total_lines
         /\ i <= Len(pieces) =>
              /\ LinesBefore(pieces, i + 1) = LinesBefore(pieces, i) + pieces[i].count
              /\ pieces[i].count \in Nat /\ pieces[i].start \in Nat
<1> DEFINE n == Len(pieces)
           L(k) == LinesBefore(pieces, k)
           C(k) == pieces[k].count
           S == {d \in Nat : \A j \in 1 .. n + 1 : j + d = n + 1 => L(j) <= L(n + 1)}
<1>1. n \in Nat
  BY SMT
<1>2. ASSUME NEW j \in 1 .. n + 1
      PROVE  L(j) \in Nat /\ L(1) = 0 /\ (j <= n => L(j + 1) = L(j) + C(j))
  BY LinesBeforeStep
<1>3. ASSUME NEW j \in 1 .. n
      PROVE  C(j) \in Nat /\ pieces[j].start \in Nat
  BY ElementOfList, PieceFields
<1>0. total_lines = L(n + 1)
  BY DEF total_lines
<1> SUFFICES /\ L(i) \in Nat /\ L(1) = 0
             /\ L(i) <= L(n + 1)
             /\ i <= n => L(i + 1) = L(i) + C(i) /\ C(i) \in Nat /\ pieces[i].start \in Nat
  BY <1>0
<1>10. i \in 1 .. n + 1
  OBVIOUS
<1> HIDE DEF L, C, n
<1>4. 0 \in S
  BY <1>1, <1>2, SMT
<1>5. ASSUME NEW d \in Nat, d \in S PROVE d + 1 \in S
  <2>1. ASSUME NEW j \in 1 .. n + 1, j + (d + 1) = n + 1 PROVE L(j) <= L(n + 1)
    <3>1. j \in 1 .. n /\ j + 1 \in 1 .. n + 1 /\ (j + 1) + d = n + 1 /\ n + 1 \in 1 .. n + 1 /\ j <= n
      BY <1>1, <2>1, SMT
    <3>2. L(j + 1) <= L(n + 1)
      BY <1>5, <3>1
    <3>3. L(j + 1) = L(j) + C(j) /\ L(j) \in Nat /\ C(j) \in Nat /\ L(n + 1) \in Nat
      BY <1>2, <1>3, <3>1
    <3>4. QED
      BY <3>2, <3>3, SMT
  <2>2. QED
    BY <2>1
<1> HIDE DEF S
<1>6. \A d \in Nat : d \in S
  BY <1>4, <1>5, SetInduction
<1>7. (n + 1) - i \in Nat /\ i + ((n + 1) - i) = n + 1 /\ (i <= n => i \in 1 .. n)
  BY <1>1, <1>10, SMT
<1>8. L(i) <= L(n + 1)
  BY <1>6, <1>7, <1>10 DEF S
<1>9. QED
  BY <1>2, <1>3, <1>7, <1>8, <1>10

(* A piece begins where the pieces before it end. *)
LEMMA PlacesGrow ==
  ASSUME pieces \in Seq(Pieces), NEW i \in 1 .. Len(pieces) + 1, NEW j \in 1 .. Len(pieces) + 1,
         i <= j
  PROVE  LinesBefore(pieces, i) <= LinesBefore(pieces, j)
<1> DEFINE n == Len(pieces)
           L(k) == LinesBefore(pieces, k)
           S == {d \in Nat : \A k \in 1 .. n + 1 : k + d \in 1 .. n + 1 => L(k) <= L(k + d)}
<1>1. n \in Nat
  BY SMT
<1>2. ASSUME NEW k \in 1 .. n + 1
      PROVE  L(k) \in Nat /\ (k <= n => L(k) <= L(k + 1))
  <2>1. /\ L(k) \in Nat
        /\ k <= n => L(k + 1) = L(k) + pieces[k].count /\ pieces[k].count \in Nat
    BY PiecePlaces
  <2> HIDE DEF L
  <2>2. QED
    BY <2>1
<1>3. i \in 1 .. n + 1 /\ j \in 1 .. n + 1 /\ i <= j
  OBVIOUS
<1> SUFFICES L(i) <= L(j)
  OBVIOUS
<1> HIDE DEF L, n
<1>4. 0 \in S
  BY <1>2
<1>5. ASSUME NEW d \in Nat, d \in S PROVE d + 1 \in S
  <2>1. ASSUME NEW k \in 1 .. n + 1, k + (d + 1) \in 1 .. n + 1 PROVE L(k) <= L(k + (d + 1))
    <3> DEFINE m == k + d
    <3>1. m \in 1 .. n + 1 /\ m <= n /\ m + 1 = k + (d + 1) /\ m + 1 \in 1 .. n + 1
      BY <1>1, <2>1
    <3>2. L(k) <= L(m)
      BY <1>5, <3>1
    <3> HIDE DEF m
    <3>3. L(m) <= L(m + 1) /\ L(k) \in Nat /\ L(m) \in Nat /\ L(m + 1) \in Nat
      BY <1>2, <3>1
    <3>4. QED
      BY <3>1, <3>2, <3>3
  <2>2. QED
    BY <2>1
<1> HIDE DEF S
<1>6. \A d \in Nat : d \in S
  BY <1>4, <1>5, SetInduction
<1>7. j - i \in Nat /\ i + (j - i) = j
  BY <1>1, <1>3
<1>8. QED
  BY <1>3, <1>6, <1>7 DEF S

(* A line and the next are of one piece, unless the next begins a piece or *)
(* there is none.                                                          *)
LEMMA JoinedInPiece ==
  ASSUME pieces \in Seq(Pieces), NEW i \in 1 .. Len(pieces)
  PROVE  /\ ~Joined(LinesBefore(pieces, i) - 1)
         /\ \A k \in Nat : k < pieces[i].count =>
              (Joined(LinesBefore(pieces, i) + k) <=> k + 1 < pieces[i].count)
<1> DEFINE n == Len(pieces)
           L(k) == LinesBefore(pieces, k)
           C == pieces[i].count
<1>1. n \in Nat /\ DOMAIN pieces = 1 .. n
  BY SMT
<1>2. /\ i \in 1 .. n + 1 /\ i + 1 \in 1 .. n + 1
      /\ L(i) \in Nat /\ C \in Nat /\ L(i + 1) = L(i) + C
  <2>1. i \in 1 .. n + 1 /\ i <= n /\ i + 1 \in 1 .. n + 1
    BY <1>1
  <2>2. QED
    BY <2>1, PiecePlaces
<1>3. ASSUME NEW b \in 1 .. n + 1 PROVE ~Joined(L(b) - 1)
  <2> SUFFICES ASSUME NEW j \in 1 .. n, L(j) <= L(b) - 1, (L(b) - 1) + 1 < L(j + 1)
               PROVE  FALSE
    BY <1>1, Zenon DEF Joined
  <2>1. j \in 1 .. n + 1 /\ j + 1 \in 1 .. n + 1 /\ j \in Int /\ b \in Int
    BY <1>1
  <2>2. L(b) \in Nat /\ L(j) \in Nat
    BY <2>1, PiecePlaces
  <2> DEFINE next == j + 1
  <2>3. next \in 1 .. n + 1
    BY <2>1
  <2> HIDE DEF next
  <2>4. L(next) \in Nat
    BY <2>3, PiecePlaces
  <2>5. b <= j => L(b) <= L(j)
    BY <2>1, PlacesGrow
  <2>6. next <= b => L(next) <= L(b)
    BY <2>3, PlacesGrow
  <2> HIDE DEF L, n
  <2>7. L(j) <= L(b) - 1 /\ (L(b) - 1) + 1 < L(next) /\ next = j + 1
    BY DEF next
  <2>8. QED
    BY <2>1, <2>2, <2>4, <2>5, <2>6, <2>7
<1>4. ~Joined(L(i) - 1) /\ ~Joined(L(i + 1) - 1)
  BY <1>2, <1>3
<1>5. ASSUME NEW k \in Nat, k + 1 < C PROVE Joined(L(i) + k)
  <2>1. L(i) <= L(i) + k /\ (L(i) + k) + 1 < L(i + 1)
    <3> HIDE DEF L, C
    <3>1. QED
      BY <1>2, <1>5
  <2>2. QED
    BY <1>1, <2>1, Zenon DEF Joined
<1>6. ASSUME NEW k \in Nat, k < C, ~(k + 1 < C) PROVE ~Joined(L(i) + k)
  <2>1. L(i) + k = L(i + 1) - 1
    <3> HIDE DEF L, C
    <3>1. QED
      BY <1>2, <1>6
  <2>2. QED
    BY <1>4, <2>1
<1>7. QED
  BY <1>4, <1>5, <1>6, Zenon

-----------------------------------------------------------------------------
(* What is looked at.                                                      *)

(* A search sees positions of lines, and there is a last one.              *)
LEMMA HitsAreNumbers ==
  ASSUME IInv, NEW query, NEW i \in 1 .. Len(pieces), NEW from \in Nat, NEW n \in Int,
         NEW extra \in Nat
  PROVE  /\ \E last \in Nat : Hits(query, i, from, n, extra) \subseteq 0 .. last
         /\ Hits(query, i, from, n, extra) # {} =>
              /\ Min(Hits(query, i, from, n, extra)) \in Nat
              /\ Max(Hits(query, i, from, n, extra)) \in Nat
<1> DEFINE hits == Hits(query, i, from, n, extra)
<1>1. /\ pieces[i].start \in Nat /\ pieces[i].count \in Nat /\ original_total_lines \in Nat
  <2>1. pieces \in Seq(Pieces) /\ original_total_lines \in Nat
    BY ConstantsAssumption, SMT DEF IInv, TypeOK
  <2>2. QED
    BY <2>1, ElementOfList, PieceFields
<1>2. \E e \in Int : Seen(i, from, n, extra) = from .. e
  <2>1. from + n - 1 \in Int
    OBVIOUS
  <2> DEFINE end == pieces[i].start + from + n
             seen == IF end >= original_total_lines THEN original_total_lines + extra ELSE end
             e == seen - pieces[i].start - 1
  <2>2. e \in Int
    BY <1>1
  <2>3. Seen(i, from, n, extra) = IF IsMemory(pieces[i]) THEN from .. from + n - 1 ELSE from .. e
    BY DEF Seen
  <2> HIDE DEF e
  <2>4. QED
    BY <2>1, <2>2, <2>3
<1>3. PICK e \in Int : Seen(i, from, n, extra) = from .. e
  BY <1>2
<1>4. hits \subseteq from .. e
  BY <1>3 DEF Hits
<1> HIDE DEF hits
<1>5. \E last \in Nat : hits \subseteq 0 .. last
  <2>1. CASE e \in Nat
    BY <1>4, <2>1
  <2>2. CASE e \notin Nat
    <3>1. hits \subseteq 0 .. 0
      BY <1>4, <2>2
    <3>2. QED
      BY <3>1
  <2>3. QED
    BY <2>1, <2>2
<1>6. PICK last \in Nat : hits \subseteq 0 .. last
  BY <1>5
<1>7. hits \in SUBSET Nat /\ hits \in SUBSET (0 .. last)
  BY <1>6
<1>8. hits # {} => Min(hits) \in hits /\ Max(hits) \in hits
  BY <1>7, LeastExists, GreatestExists
<1>9. QED
  BY <1>5, <1>7, <1>8 DEF hits

(* A line of a piece is matched, by what lies in the first n from `from`.  *)
Matched(query, i, from, n, k) ==
  \/ Line(i, k) \in query.lines
  \/ Line(i, k) \in query.over /\ k + 1 \in from .. from + n - 1

(* Of the lines that are wanted of a piece none is missed; what is seen    *)
(* beyond them ends behind the last published line.                        *)
LEMMA HitsInPiece ==
  ASSUME IInv, Searchable, NEW query, NEW i \in 1 .. Len(pieces), NEW from \in Nat, NEW n \in Nat,
         from + n <= pieces[i].count, NEW extra \in Nat
  PROVE  /\ \A k \in from .. from + n - 1 :
              Matched(query, i, from, n, k) => k \in Hits(query, i, from, n, extra)
         /\ \A k \in Hits(query, i, from, n, extra) :
              /\ k \in Nat /\ from <= k
              /\ \/ k \in from .. from + n - 1 /\ Matched(query, i, from, n, k)
                 \/ /\ extra > 0 /\ k + 1 >= pieces[i].count
                    /\ LinesBefore(pieces, i + 1) - 1 \in LastPublished
<1> DEFINE s == pieces[i].start
           c == pieces[i].count
           otl == original_total_lines
           R == from .. from + n - 1
           S == Seen(i, from, n, extra)
           PastEnd == extra > 0 /\ IsOriginal(pieces[i]) /\ s + c = otl
<1>1. /\ pieces[i] \in Pieces /\ s \in Nat /\ c \in Nat /\ otl \in Nat
      /\ End(pieces[i]) = s + c /\ DOMAIN pieces = 1 .. Len(pieces)
  <2>1. pieces \in Seq(Pieces) /\ original_total_lines \in Nat /\ DOMAIN pieces = 1 .. Len(pieces)
    BY ConstantsAssumption, SMT DEF IInv, TypeOK
  <2>2. QED
    BY <2>1, ElementOfList, PieceFields DEF End
<1>2. IsOriginal(pieces[i]) => s + c <= otl
  BY <1>1 DEF IInv, PiecesInBounds, Searchable
<1>3. IsOriginal(pieces[i]) \/ IsMemory(pieces[i])
  BY <1>1, SMT DEF Pieces, IsOriginal, IsMemory
<1>4. \/ S = R
      \/ S = from .. c + extra - 1 /\ from + n = c /\ IsOriginal(pieces[i]) /\ s + c = otl
  <2>1. CASE IsMemory(pieces[i])
    BY <2>1 DEF Seen
  <2>2. CASE ~IsMemory(pieces[i])
    <3> DEFINE end == s + from + n
               seen == IF end >= otl THEN otl + extra ELSE end
    <3>1. S = from .. seen - s - 1
      BY <2>2 DEF Seen
    <3>2. IsOriginal(pieces[i]) /\ s + c <= otl
      BY <1>2, <1>3, <2>2
    <3>3. CASE end >= otl
      <4>1. seen = otl + extra /\ s + c = otl /\ from + n = c
        BY <1>1, <3>2, <3>3
      <4> HIDE DEF seen, s, c, otl
      <4>2. seen - s - 1 = c + extra - 1
        BY <1>1, <4>1
      <4>3. QED
        BY <3>1, <3>2, <4>1, <4>2
    <3>4. CASE ~(end >= otl)
      <4>1. seen - s - 1 = from + n - 1
        BY <1>1, <3>4
      <4>2. QED
        BY <3>1, <4>1
    <3>5. QED
      BY <3>3, <3>4
  <2>3. QED
    BY <2>1, <2>2
<1> HIDE DEF S, R, PastEnd, s, c, otl
<1>5. /\ R \subseteq S
      /\ \A k \in S : /\ k \in Nat /\ from <= k
                      /\ k \in R \/ (PastEnd /\ k + 1 >= c)
                      /\ k + 1 \in S => k + 1 \in R \/ (PastEnd /\ k + 1 >= c)
  <2>1. CASE S = R
    BY <2>1 DEF R
  <2>2. CASE S = from .. c + extra - 1 /\ from + n = c /\ IsOriginal(pieces[i]) /\ s + c = otl
    <3>1. R \subseteq S
      BY <1>1, <2>2 DEF R
    <3>2. ASSUME NEW k \in S
          PROVE  /\ k \in Nat /\ from <= k
                 /\ k \in R \/ (extra > 0 /\ k + 1 >= c)
                 /\ k + 1 \in S => k + 1 \in R \/ (extra > 0 /\ k + 1 >= c)
      BY <1>1, <2>2, <3>2 DEF R
    <3>3. QED
      BY <2>2, <3>1, <3>2, Zenon DEF PastEnd
  <2>3. QED
    BY <1>4, <2>1, <2>2
<1>6. PastEnd => extra > 0 /\ LinesBefore(pieces, i + 1) - 1 \in LastPublished
  BY <1>1, Zenon DEF LastPublished, PastEnd, s, c, otl
<1>7. \A k : k \in Hits(query, i, from, n, extra) <=>
         k \in S /\ (Line(i, k) \in query.lines \/ (Line(i, k) \in query.over /\ k + 1 \in S))
  BY Zenon DEF Hits, S
<1>8. \A k : Matched(query, i, from, n, k) <=>
         Line(i, k) \in query.lines \/ (Line(i, k) \in query.over /\ k + 1 \in R)
  BY Zenon DEF Matched, R
<1>9. ASSUME NEW k \in R, Matched(query, i, from, n, k) PROVE k \in Hits(query, i, from, n, extra)
  BY <1>5, <1>7, <1>8, <1>9, Zenon
<1>10. ASSUME NEW k \in Hits(query, i, from, n, extra)
       PROVE  /\ k \in Nat /\ from <= k
              /\ \/ k \in R /\ Matched(query, i, from, n, k)
                 \/ /\ extra > 0 /\ k + 1 >= c
                    /\ LinesBefore(pieces, i + 1) - 1 \in LastPublished
  BY <1>5, <1>6, <1>7, <1>8, <1>10, Zenon
<1>11. QED
  BY <1>9, <1>10, Zenon DEF R, c

(* How far a match is said to be from the first line that was read. *)
LEMMA ReportedIs ==
  ASSUME NEW i, NEW x \in Nat, NEW slip \in -1 .. 1
  PROVE  /\ Reported(i, x, slip) \in Nat
         /\ Reported(i, x, slip) = x \/ Reported(i, x, slip) = x + slip
         /\ slip >= 0 => Reported(i, x, slip) >= x
<1>1. CASE IsMemory(pieces[i])
  BY <1>1 DEF Reported
<1>2. CASE ~IsMemory(pieces[i])
  BY <1>2 DEF Reported, More
<1>3. QED
  BY <1>1, <1>2

-----------------------------------------------------------------------------
(* The walk forward.                                                       *)

(* One round of the walk at piece i, where g is the walk from the next     *)
(* piece on; and what walks are.                                           *)
ForwardFrom(g, i, off, line, query, end, extra, slip) ==
  IF i > Len(pieces) \/ line > end THEN -1
  ELSE LET available == pieces[i].count - off
           hits == Hits(query, i, off, Wanted(available, line, end), extra)
       IN  IF hits # {} THEN line + Reported(i, Min(hits) - off, slip)
           ELSE g[0][line + available]

ForwardAll(g, i, query, end, extra, slip) ==
  [off \in Nat |-> [line \in Int |-> ForwardFrom(g, i, off, line, query, end, extra, slip)]]

IsForward(f, query, end, extra, slip) ==
  f = [i \in 1 .. Len(pieces) + 1 |-> ForwardAll(f[i + 1], i, query, end, extra, slip)]

(* There is such a walk. *)
LEMMA ForwardExists ==
  ASSUME IInv, NEW query, NEW end \in Nat, NEW extra \in Nat, NEW slip \in Int
  PROVE  \E f : IsForward(f, query, end, extra, slip)
<1> DEFINE D == [Nat -> [Int -> Int]]
           n == Len(pieces)
           nothing == [off \in Nat |-> [line \in Int |-> -1]]
           All(g, i) == ForwardAll(g, i, query, end, extra, slip)
           G == [j \in 1 .. n |-> [g \in D |-> All(g, n + 1 - j)]]
<1>1. n \in Nat /\ pieces \in Seq(Pieces)
  BY SMT DEF IInv, TypeOK
<1>2. nothing \in D
  OBVIOUS
<1> HIDE DEF D
<1>3. ASSUME NEW i \in 1 .. n, NEW g \in D PROVE All(g, i) \in D
  <2>1. ASSUME NEW off \in Nat, NEW line \in Int
        PROVE  ForwardFrom(g, i, off, line, query, end, extra, slip) \in Int
    <3> DEFINE available == pieces[i].count - off
               wanted == Wanted(available, line, end)
               hits == Hits(query, i, off, wanted, extra)
    <3>1. available \in Int
      <4>1. pieces[i].count \in Nat
        BY <1>1, ElementOfList, PieceFields
      <4>2. QED
        BY <4>1
    <3> HIDE DEF available
    <3>2. wanted \in Int
      BY <3>1 DEF Wanted, Monus, More, Less
    <3> HIDE DEF wanted
    <3>3. hits # {} => Min(hits) \in Nat
      BY <3>2, HitsAreNumbers
    <3> HIDE DEF hits
    <3> DEFINE least == Min(hits)
    <3>4. hits # {} => line + Reported(i, least - off, slip) \in Int
      <4>1. hits # {} => least \in Nat
        BY <3>3
      <4> HIDE DEF least
      <4>2. hits # {} => Reported(i, least - off, slip) \in Int
        BY <4>1 DEF Reported, More
      <4>3. QED
        BY <4>2
    <3>5. g[0][line + available] \in Int
      BY <3>1 DEF D
    <3>6. QED
      BY <3>4, <3>5 DEF ForwardFrom, hits, available, wanted
  <2>2. QED
    BY <2>1, Zenon DEF ForwardAll, D
<1> HIDE DEF nothing, All
<1>4. G \in [1 .. n -> [D -> D]]
  <2>1. ASSUME NEW j \in 1 .. n PROVE n + 1 - j \in 1 .. n
    BY <1>1
  <2>2. ASSUME NEW j \in 1 .. n PROVE [g \in D |-> All(g, n + 1 - j)] \in [D -> D]
    BY <1>3, <2>1
  <2> HIDE DEF n
  <2>3. QED
    BY <2>2
<1>5. \A j \in 1 .. n : \A g \in D : G[j][g] = All(g, n + 1 - j)
  OBVIOUS
<1> HIDE DEF G, n
<1>6. PICK F \in [0 .. n -> D] : F[0] = nothing /\ \A j \in 1 .. n : F[j] = G[j][F[j - 1]]
  BY <1>1, <1>2, <1>4, Chain
<1> DEFINE f == [i \in 1 .. n + 1 |-> F[n + 1 - i]]
<1>7. ASSUME NEW i \in 1 .. n + 1 PROVE f[i] = All(f[i + 1], i)
  <2>1. CASE i \in 1 .. n
    <3>1. /\ n + 1 - i \in 1 .. n /\ (n + 1 - i) - 1 = n + 1 - (i + 1) /\ i + 1 \in 1 .. n + 1
          /\ n + 1 - (n + 1 - i) = i /\ (n + 1 - i) - 1 \in 0 .. n
      BY <1>1, <2>1
    <3>2. F[n + 1 - i] = G[n + 1 - i][F[(n + 1 - i) - 1]]
      BY <1>6, <3>1
    <3>3. F[(n + 1 - i) - 1] \in D
      BY <1>6, <3>1
    <3>4. F[n + 1 - i] = All(F[(n + 1 - i) - 1], n + 1 - (n + 1 - i))
      BY <1>5, <3>1, <3>2, <3>3
    <3>5. QED
      BY <3>1, <3>4
  <2>2. CASE i = n + 1
    <3>1. n + 1 - i = 0 /\ f[i] = nothing
      BY <1>1, <1>6, <2>2
    <3>2. \A off \in Nat, line \in Int : ForwardFrom(f[i + 1], i, off, line, query, end, extra, slip) = -1
      BY <1>1, <2>2 DEF ForwardFrom, n
    <3> HIDE DEF f
    <3>3. All(f[i + 1], i) = nothing
      BY <3>2, Zenon DEF All, ForwardAll, nothing
    <3>4. QED
      BY <3>1, <3>3
  <2>3. QED
    BY <1>1, <2>1, <2>2
<1>8. f = [i \in 1 .. n + 1 |-> f[i]]
  OBVIOUS
<1> HIDE DEF f
<1>9. f = [i \in 1 .. n + 1 |-> All(f[i + 1], i)]
  BY <1>7, <1>8, Zenon
<1>10. IsForward(f, query, end, extra, slip)
  BY <1>9, Zenon DEF IsForward, All, n
<1>11. QED
  BY <1>10

(* f is the walk of this search, round by round. *)
ForwardRounds(f, query, start, end, extra, slip) ==
  /\ Forward(query, start, end, extra, slip) = f[Find(start)[1]][Find(start)[2]][start]
  /\ \A i \in 1 .. Len(pieces) + 1, off \in Nat, line \in Int :
       f[i][off][line] = ForwardFrom(f[i + 1], i, off, line, query, end, extra, slip)

(* The search is one, and so what its rounds say of it.                    *)
LEMMA ForwardWalks ==
  ASSUME IInv, NEW query, NEW start, NEW end \in Nat, NEW extra \in Nat, NEW slip \in Int
  PROVE  \E f : ForwardRounds(f, query, start, end, extra, slip)
<1> DEFINE Is(f) == IsForward(f, query, end, extra, slip)
           walk == CHOOSE f : Is(f)
<1>1. \E f : Is(f)
  BY ForwardExists
<1>2. Forward(query, start, end, extra, slip) = walk[Find(start)[1]][Find(start)[2]][start]
  BY Zenon DEF Forward, IsForward, ForwardAll, ForwardFrom
<1>3. Is(walk)
  <2> HIDE DEF Is
  <2>1. QED
    BY <1>1, Zenon
<1> HIDE DEF walk
<1>4. ASSUME NEW i \in 1 .. Len(pieces) + 1, NEW off \in Nat, NEW line \in Int
      PROVE  walk[i][off][line] = ForwardFrom(walk[i + 1], i, off, line, query, end, extra, slip)
  <2> DEFINE again == [j \in 1 .. Len(pieces) + 1 |-> ForwardAll(walk[j + 1], j, query, end, extra, slip)]
  <2>1. walk = again
    BY <1>3, Zenon DEF IsForward
  <2>2. again[i] = ForwardAll(walk[i + 1], i, query, end, extra, slip)
    OBVIOUS
  <2>3. ForwardAll(walk[i + 1], i, query, end, extra, slip)[off][line]
          = ForwardFrom(walk[i + 1], i, off, line, query, end, extra, slip)
    BY DEF ForwardAll
  <2> HIDE DEF again
  <2>4. QED
    BY <2>1, <2>2, <2>3, Zenon
<1>5. QED
  BY <1>2, <1>4, Zenon DEF ForwardRounds

(* The document has as many lines as its pieces. *)
LEMMA DocumentLength ==
  ASSUME IInv, pc = "idle"
  PROVE  /\ Len(Contents) = total_lines /\ total_lines \in Nat
         /\ pieces \in Seq(Pieces) /\ Len(pieces) \in Nat /\ DOMAIN pieces = 1 .. Len(pieces)
<1>1. docOf \in Seq(DocLine) /\ Len(docOf) = total_lines /\ docOf = Contents
  BY WholeView DEF docOf
<1>2. Len(docOf) \in Nat
  BY <1>1, LenInNat
<1>3. pieces \in Seq(Pieces)
  BY DEF IInv, TypeOK
<1>4. Len(pieces) \in Nat /\ DOMAIN pieces = 1 .. Len(pieces)
  BY <1>3, SMT
<1>5. QED
  BY <1>1, <1>2, <1>3, <1>4

(* A line in which a match begins that ends at the line `to` or before. *)
BeginsMatch(query, m, to) ==
  \/ Contents[m + 1] \in query.lines
  \/ Contents[m + 1] \in query.over /\ m + 1 <= to /\ m + 1 < total_lines /\ Joined(m)

(* What a match is. *)
LEMMA MatchIn ==
  ASSUME IInv, pc = "idle", NEW query, NEW from \in Nat, NEW to \in Int
  PROVE  /\ Matches(Contents, query, from, to) \in SUBSET Nat
         /\ Matches(Contents, query, from, to) \in SUBSET (0 .. to)
         /\ \A m \in Int : m \in Matches(Contents, query, from, to) <=>
              from <= m /\ m <= to /\ m < total_lines /\ BeginsMatch(query, m, to)
<1> DEFINE len == Len(Contents)
           last == Less(to, len - 1)
<1>1. len = total_lines /\ total_lines \in Nat
  BY DocumentLength
<1>2. /\ last \in Int
      /\ \A m \in Int : /\ m <= last <=> m <= to /\ m < total_lines
                        /\ m < last <=> m + 1 <= to /\ m + 1 < total_lines
  BY <1>1 DEF Less
<1> HIDE DEF last
<1>3. Matches(Contents, query, from, to)
        = {m \in from .. last : \/ Contents[m + 1] \in query.lines
                                \/ Contents[m + 1] \in query.over /\ m < last /\ Joined(m)}
  BY DEF Matches, last
<1>4. ASSUME NEW m \in Int
      PROVE  m \in Matches(Contents, query, from, to) <=>
               from <= m /\ m <= to /\ m < total_lines /\ BeginsMatch(query, m, to)
  <2>1. m \in Matches(Contents, query, from, to) <=>
          m \in from .. last /\ (\/ Contents[m + 1] \in query.lines
                                 \/ Contents[m + 1] \in query.over /\ m < last /\ Joined(m))
    BY <1>3
  <2>2. m \in from .. last <=> from <= m /\ m <= to /\ m < total_lines
    BY <1>2
  <2>3. m < last <=> m + 1 <= to /\ m + 1 < total_lines
    BY <1>2
  <2>4. QED
    BY <2>1, <2>2, <2>3, Zenon DEF BeginsMatch
<1>5. /\ Matches(Contents, query, from, to) \in SUBSET Nat
      /\ Matches(Contents, query, from, to) \in SUBSET (0 .. to)
  BY <1>2, <1>3
<1>6. QED
  BY <1>4, <1>5

(* The lines that are wanted of a piece with C lines of which the first is L. *)
LEMMA WantedLines ==
  ASSUME NEW L \in Nat, NEW C \in Nat, NEW off \in Nat, off <= C, NEW line \in Nat,
         line = L + off, NEW end \in Nat, line <= end
  PROVE  /\ Wanted(C - off, line, end) \in Nat /\ off + Wanted(C - off, line, end) <= C
         /\ \A k \in Nat : k \in off .. off + Wanted(C - off, line, end) - 1
                            <=> off <= k /\ k < C /\ L + k <= end
<1> DEFINE w == Wanted(C - off, line, end)
           a == C - off
           b == end - line
<1>1. a \in Nat /\ b \in Nat /\ off + a = C /\ line + b = end
  OBVIOUS
<1>2. w = IF a < b + 1 THEN a ELSE b + 1
  BY DEF Wanted, Less, Monus, More
<1> HIDE DEF w, a, b
<1>3. w \in Nat /\ off + w <= C
  BY <1>1, <1>2
<1>4. ASSUME NEW k \in Nat PROVE k \in off .. off + w - 1 <=> off <= k /\ k < C /\ L + k <= end
  BY <1>1, <1>2, <1>3
<1>5. QED
  BY <1>3, <1>4 DEF w

(* The numbers under which the first of the matches between two lines may  *)
(* be reported, and the last.                                              *)
FirstMatch(query, from, to, slip) ==
  IF Matches(Contents, query, from, to) = {} THEN {-1}
  ELSE Numbers(Min(Matches(Contents, query, from, to)), slip, from)

LastMatch(query, from, to, slip) ==
  IF Matches(Contents, query, from, to) = {} THEN {-1}
  ELSE Numbers(Max(Matches(Contents, query, from, to)), slip, from)

(* The matches of a piece are those of its lines in the document.          *)
LEMMA MatchedInDocument ==
  ASSUME IInv, Searchable, NEW query, NEW i \in 1 .. Len(pieces), NEW from \in Nat, NEW n \in Nat,
         NEW to \in Nat, NEW k \in from .. from + n - 1, k < pieces[i].count,
         k + 1 < pieces[i].count =>
           (k + 1 \in from .. from + n - 1 <=> LinesBefore(pieces, i) + k + 1 <= to),
         k + 1 \in from .. from + n - 1 => k + 1 < pieces[i].count
  PROVE  Matched(query, i, from, n, k) <=> BeginsMatch(query, LinesBefore(pieces, i) + k, to)
<1> DEFINE L == LinesBefore(pieces, i)
           C == pieces[i].count
           m == L + k
           inside == k + 1 \in from .. from + n - 1
<1>1. pc = "idle" /\ pieces \in Seq(Pieces) /\ k \in Nat
  BY DocumentLength DEF Searchable
<1>2. Contents[m + 1] = Line(i, k)
  BY <1>1, DocumentAt
<1>3. Joined(m) <=> k + 1 < C
  BY <1>1, JoinedInPiece
<1>4. k + 1 < C => m + 1 < total_lines
  <2> DEFINE q == k + 1
  <2>1. q \in Nat
    BY <1>1
  <2> HIDE DEF q
  <2>2. q < C => L + q < total_lines
    BY <1>1, <2>1, DocumentAt
  <2>3. L \in Nat
    <3>1. i \in 1 .. Len(pieces) + 1
      BY <1>1
    <3>2. QED
      BY <1>1, <3>1, PiecePlaces
  <2> HIDE DEF L, C
  <2>4. L + q = m + 1
    BY <1>1, <2>3 DEF q
  <2>5. QED
    BY <2>2, <2>4 DEF q
<1>5. (k + 1 < C => (inside <=> m + 1 <= to)) /\ (inside => k + 1 < C)
  OBVIOUS
<1>6. Matched(query, i, from, n, k) <=>
        Line(i, k) \in query.lines \/ (Line(i, k) \in query.over /\ inside)
  BY DEF Matched
<1>7. BeginsMatch(query, m, to) <=>
        \/ Contents[m + 1] \in query.lines
        \/ Contents[m + 1] \in query.over /\ m + 1 <= to /\ m + 1 < total_lines /\ Joined(m)
  BY DEF BeginsMatch
<1> HIDE DEF m, inside, C
<1>8. Matched(query, i, from, n, k) <=> BeginsMatch(query, m, to)
  BY <1>2, <1>3, <1>4, <1>5, <1>6, <1>7
<1>9. QED
  BY <1>8 DEF m

(* A round of the walk answers as it should, if the rest of it does.       *)
LEMMA ForwardRound ==
  ASSUME IInv, Searchable, NEW query, NEW end \in Nat, NEW extra \in Nat,
         NEW slip \in -1 .. 1, extra > 0 => slip >= 0,
         NEW i \in 1 .. Len(pieces), NEW off \in Nat, off <= pieces[i].count,
         NEW line \in Nat, line = LinesBefore(pieces, i) + off,
         NEW g, Answers(g[0][LinesBefore(pieces, i + 1)],
                        FirstMatch(query, LinesBefore(pieces, i + 1), end, slip), extra)
  PROVE  Answers(ForwardFrom(g, i, off, line, query, end, extra, slip),
                 FirstMatch(query, line, end, slip), extra)
<1> DEFINE L == LinesBefore(pieces, i)
           N == LinesBefore(pieces, i + 1)
           C == pieces[i].count
           available == C - off
           wanted == Wanted(available, line, end)
           hits == Hits(query, i, off, wanted, extra)
           M(from) == Matches(Contents, query, from, end)
           R == off .. off + wanted - 1
           Is(k) == Matched(query, i, off, wanted, k)
<1>0. end \in Int
  OBVIOUS
<1>1. pc = "idle" /\ pieces \in Seq(Pieces) /\ Len(pieces) \in Nat /\ total_lines \in Nat
  BY DocumentLength DEF Searchable
<1>2. L \in Nat /\ C \in Nat /\ N = L + C /\ N <= total_lines
  <2>1. i \in 1 .. Len(pieces) + 1 /\ i + 1 \in 1 .. Len(pieces) + 1 /\ i <= Len(pieces)
    BY <1>1, SMT
  <2>2. L \in Nat /\ C \in Nat /\ N = L + C
    BY <1>1, <2>1, PiecePlaces
  <2> DEFINE j == i + 1
  <2>3. j \in 1 .. Len(pieces) + 1
    BY <2>1
  <2> HIDE DEF j
  <2>4. LinesBefore(pieces, j) <= total_lines
    BY <1>1, <2>3, PiecePlaces
  <2>5. QED
    BY <2>2, <2>4 DEF j
<1>4. CASE line > end
  <2>1. ForwardFrom(g, i, off, line, query, end, extra, slip) = -1
    BY <1>4 DEF ForwardFrom
  <2>2. M(line) = {}
    <3>1. M(line) \in SUBSET Nat /\ \A m \in Int : m \in M(line) => line <= m /\ m <= end
      BY <1>0, <1>1, MatchIn
    <3> HIDE DEF M
    <3>2. QED
      BY <1>4, <3>1
  <2>3. QED
    BY <2>1, <2>2 DEF Answers, FirstMatch
<1>5. CASE ~(line > end)
  <2>1. /\ wanted \in Nat /\ off + wanted <= C
        /\ \A k \in Nat : k \in R <=> off <= k /\ k < C /\ L + k <= end
    <3>1. line <= end /\ line = L + off /\ off <= C
      BY <1>5
    <3> HIDE DEF L, C
    <3>2. /\ Wanted(C - off, line, end) \in Nat /\ off + Wanted(C - off, line, end) <= C
          /\ \A k \in Nat : k \in off .. off + Wanted(C - off, line, end) - 1
                             <=> off <= k /\ k < C /\ L + k <= end
      BY <1>2, <3>1, WantedLines
    <3>3. QED
      BY <3>2, Zenon
  <2>2. ForwardFrom(g, i, off, line, query, end, extra, slip)
          = IF hits # {} THEN line + Reported(i, Min(hits) - off, slip) ELSE g[0][N]
    <3>1. line + available = N /\ ~(i > Len(pieces))
      BY <1>1, <1>2
    <3> HIDE DEF hits, available
    <3>2. QED
      BY <1>5, <3>1 DEF ForwardFrom, hits, available
  <2> HIDE DEF wanted
  <2>3. /\ \A k \in R : Is(k) => k \in hits
        /\ \A k \in hits : /\ k \in Nat /\ off <= k
                           /\ (k \in R /\ Is(k)) \/ (extra > 0 /\ k + 1 >= C /\ N - 1 \in LastPublished)
    <3>1. /\ \A k \in off .. off + wanted - 1 :
                 Matched(query, i, off, wanted, k) => k \in Hits(query, i, off, wanted, extra)
          /\ \A k \in Hits(query, i, off, wanted, extra) :
                 /\ k \in Nat /\ off <= k
                 /\ \/ k \in off .. off + wanted - 1 /\ Matched(query, i, off, wanted, k)
                    \/ /\ extra > 0 /\ k + 1 >= pieces[i].count
                       /\ LinesBefore(pieces, i + 1) - 1 \in LastPublished
      BY <2>1, HitsInPiece
    <3>2. QED
      BY <3>1, Zenon
  <2>4. /\ M(line) \in SUBSET Nat /\ M(N) \in SUBSET Nat
        /\ \A m \in Int : m \in M(line) <=>
             line <= m /\ m <= end /\ m < total_lines /\ BeginsMatch(query, m, end)
        /\ \A m \in Int : m \in M(N) <=>
             N <= m /\ m <= end /\ m < total_lines /\ BeginsMatch(query, m, end)
    <3>1. N \in Nat
      BY <1>2
    <3> HIDE DEF N
    <3>2. QED
      BY <1>1, <3>1, MatchIn
  <2>5. \A k \in R : Is(k) <=> L + k \in M(line)
    <3>1. ASSUME NEW k \in R PROVE Is(k) <=> L + k \in M(line)
      <4>1. k \in Nat /\ off <= k /\ k < C /\ L + k <= end /\ L + k \in Int /\ line <= L + k
            /\ k + 1 \in Nat
        <5>1. k \in Nat
          BY <2>1, <3>1
        <5>2. off <= k /\ k < C /\ L + k <= end
          <6> HIDE DEF R, L, C
          <6>1. QED
            BY <2>1, <3>1, <5>1
        <5>3. L \in Nat /\ line = L + off
          BY <1>2
        <5> HIDE DEF R, L, C
        <5>4. QED
          BY <5>1, <5>2, <5>3
      <4>2. L + k < total_lines
        BY <1>1, <4>1, DocumentAt
      <4>3. k + 1 < C => (k + 1 \in R <=> L + (k + 1) <= end)
        BY <2>1, <4>1
      <4>4. k + 1 \in R => k + 1 < C
        BY <2>1, <4>1
      <4>5. L + (k + 1) = L + k + 1
        BY <1>2, <4>1
      <4>6. Is(k) <=> BeginsMatch(query, L + k, end)
        <5>1. k + 1 < pieces[i].count =>
                (k + 1 \in off .. off + wanted - 1 <=> LinesBefore(pieces, i) + k + 1 <= end)
          BY <4>3, <4>5
        <5>2. k + 1 \in off .. off + wanted - 1 => k + 1 < pieces[i].count
          BY <4>4
        <5>3. k \in off .. off + wanted - 1 /\ k < pieces[i].count
          BY <3>1, <4>1
        <5>4. QED
          BY <2>1, <5>1, <5>2, <5>3, MatchedInDocument
      <4> HIDE DEF hits, M, R, Is
      <4>7. QED
        BY <2>4, <4>1, <4>2, <4>6
    <3>2. QED
      BY <3>1
  <2>6. \A m \in M(line) : m \in M(N) \/ (m - L \in R /\ m = L + (m - L))
    <3>1. ASSUME NEW m \in M(line) PROVE m \in M(N) \/ (m - L \in R /\ m = L + (m - L))
      <4>1. m \in Nat /\ line <= m /\ m <= end /\ m < total_lines /\ BeginsMatch(query, m, end)
        BY <2>4, <3>1
      <4>2. m >= N => m \in M(N)
        BY <2>4, <4>1
      <4> HIDE DEF M, R
      <4>3. m < N => m - L \in Nat /\ off <= m - L /\ m - L < C /\ L + (m - L) = m
        BY <1>2, <4>1
      <4>4. QED
        BY <1>2, <2>1, <4>1, <4>2, <4>3
    <3>2. QED
      BY <3>1
  <2>7. \A m \in M(N) : m \in M(line) /\ m >= N
    BY <1>2, <2>4
  <2>8. hits \in SUBSET Nat
    BY <2>3
  <2>12. N >= line /\ N \in Nat
    BY <1>2
  <2> HIDE DEF hits, M, R, Is
  <2>9. CASE hits = {}
    <3>1. M(line) = M(N)
      BY <2>3, <2>5, <2>6, <2>7, <2>9
    <3>2. \A x \in FirstMatch(query, N, end, slip) : x \in FirstMatch(query, line, end, slip)
      <4>1. CASE M(N) = {}
        BY <3>1, <4>1 DEF FirstMatch, M
      <4>2. CASE M(N) # {}
        <5>1. Min(M(N)) \in Nat
          BY <2>4, <4>2, LeastExists
        <5> DEFINE least == Min(M(N))
        <5>2. /\ FirstMatch(query, N, end, slip) = Numbers(least, slip, N)
              /\ FirstMatch(query, line, end, slip) = Numbers(least, slip, line)
          BY <3>1, <4>2 DEF FirstMatch, M
        <5>3. least \in Nat
          BY <5>1
        <5> HIDE DEF least, N
        <5>4. \A x \in Numbers(least, slip, N) : x \in Numbers(least, slip, line)
          BY <2>12, <5>3 DEF Numbers
        <5>5. QED
          BY <5>2, <5>4
      <4>3. QED
        BY <4>1, <4>2
    <3>3. Answers(g[0][N], FirstMatch(query, N, end, slip), extra)
      OBVIOUS
    <3>4. Answers(g[0][N], FirstMatch(query, line, end, slip), extra)
      BY <3>2, <3>3, Zenon DEF Answers
    <3>5. QED
      BY <2>2, <2>9, <3>4
  <2>10. CASE hits # {}
    <3> DEFINE x == Min(hits)
    <3>1. x \in hits /\ x \in Nat /\ \A y \in hits : x <= y
      BY <2>8, <2>10, LeastExists
    <3>2. ForwardFrom(g, i, off, line, query, end, extra, slip) = line + Reported(i, x - off, slip)
      BY <2>2, <2>10
    <3> HIDE DEF x
    <3> DEFINE r == Reported(i, x - off, slip)
               found == line + r
    <3>3. /\ r \in Nat /\ r \in {x - off, x - off + slip} /\ (slip >= 0 => r >= x - off)
          /\ x - off \in Nat
      <4>1. x - off \in Nat
        BY <2>3, <3>1
      <4>2. QED
        BY <4>1, ReportedIs
    <3> HIDE DEF r
    <3>4. /\ found \in Nat /\ found >= line /\ found \in {L + x, L + x + slip}
          /\ slip >= 0 => found >= L + x
      <4>1. line = L + off
        OBVIOUS
      <4> HIDE DEF L
      <4>2. QED
        BY <1>2, <3>1, <3>3, <4>1
    <3> HIDE DEF found
    <3>5. CASE x \in R /\ Is(x)
      <4>1. x < C /\ L + x \in M(line) /\ L + x \in Nat
        BY <1>2, <2>1, <2>5, <3>1, <3>5
      <4>2. ASSUME NEW m \in M(line) PROVE L + x <= m
        <5>1. CASE m \in M(N)
          <6>1. m >= N /\ m \in Nat
            BY <2>4, <2>7, <5>1
          <6>2. QED
            BY <1>2, <3>1, <4>1, <6>1
        <5>2. CASE m - L \in R /\ m = L + (m - L)
          <6>1. m - L \in hits /\ m \in Nat
            BY <2>3, <2>4, <2>5, <4>2, <5>2
          <6>2. QED
            BY <1>2, <3>1, <6>1
        <5>3. QED
          BY <2>6, <4>2, <5>1, <5>2
      <4>3. Min(M(line)) = L + x
        BY <2>4, <4>1, <4>2, LeastIs
      <4>4. FirstMatch(query, line, end, slip) = Numbers(L + x, slip, line)
        BY <4>1, <4>3 DEF FirstMatch, M
      <4>5. found \in Numbers(L + x, slip, line)
        BY <3>4 DEF Numbers
      <4>6. QED
        BY <3>2, <4>4, <4>5 DEF Answers, found, r
    <3>6. CASE ~(x \in R /\ Is(x))
      <4>1. extra > 0 /\ x + 1 >= C /\ N - 1 \in LastPublished
        BY <2>3, <3>1, <3>6
      <4>2. found >= N - 1
        BY <1>2, <3>1, <3>4, <4>1
      <4> HIDE DEF N
      <4>3. QED
        BY <3>2, <4>1, <4>2 DEF Answers, found, r
    <3>7. QED
      BY <3>5, <3>6
  <2>11. QED
    BY <2>9, <2>10
<1>6. QED
  BY <1>4, <1>5

(* The search forward finds the first match, or one that was seen behind   *)
(* the published lines.                                                    *)
LEMMA ForwardRight ==
  ASSUME IInv, Searchable, NEW query, NEW start \in Nat, NEW end \in Nat, NEW extra \in Nat,
         NEW slip \in -1 .. 1, extra > 0 => slip >= 0
  PROVE  Answers(Forward(query, start, end, extra, slip), FirstMatch(query, start, end, slip), extra)
<1> DEFINE n == Len(pieces)
           L(i) == LinesBefore(pieces, i)
           C(i) == pieces[i].count
           Right(x, line) == Answers(x, FirstMatch(query, line, end, slip), extra)
<1>0. end \in Int /\ slip \in Int
  OBVIOUS
<1>1. pc = "idle" /\ pieces \in Seq(Pieces) /\ n \in Nat /\ DOMAIN pieces = 1 .. n /\ total_lines \in Nat
  BY DocumentLength DEF Searchable
<1>2. PICK f : /\ Forward(query, start, end, extra, slip) = f[Find(start)[1]][Find(start)[2]][start]
               /\ \A i \in 1 .. n + 1, off \in Nat, line \in Int :
                    f[i][off][line] = ForwardFrom(f[i + 1], i, off, line, query, end, extra, slip)
  <2>1. \E f : ForwardRounds(f, query, start, end, extra, slip)
    BY <1>0, ForwardWalks
  <2>2. QED
    BY <2>1, Zenon DEF ForwardRounds
<1>3. ASSUME NEW i \in 1 .. n
      PROVE  L(i) \in Nat /\ C(i) \in Nat /\ L(i + 1) = L(i) + C(i) /\ i \in 1 .. n + 1 /\ i + 1 \in 1 .. n + 1
  <2>1. i \in 1 .. n + 1 /\ i <= n /\ i + 1 \in 1 .. n + 1
    BY <1>1
  <2>2. QED
    BY <1>1, <2>1, PiecePlaces
<1>4. L(n + 1) = total_lines
  BY DEF total_lines
<1>5. ASSUME NEW line \in Nat, line >= total_lines PROVE Right(f[n + 1][0][line], line)
  <2>1. n + 1 \in 1 .. n + 1 /\ n + 1 > n
    BY <1>1
  <2>2. ForwardFrom(f[n + 1 + 1], n + 1, 0, line, query, end, extra, slip) = -1
    BY <2>1 DEF ForwardFrom
  <2>3. f[n + 1][0][line] = -1
    BY <1>2, <2>1, <2>2
  <2>4. Matches(Contents, query, line, end) = {}
    <3> DEFINE M == Matches(Contents, query, line, end)
    <3>1. M \in SUBSET Nat /\ \A m \in Int : m \in M => line <= m /\ m < total_lines
      BY <1>0, <1>1, MatchIn
    <3> HIDE DEF M
    <3>2. M = {}
      BY <1>1, <1>5, <3>1
    <3>3. QED
      BY <3>2 DEF M
  <2>5. QED
    BY <2>3, <2>4 DEF Answers, FirstMatch
<1> DEFINE At(i) == \A off \in Nat, line \in Nat :
                      (i <= n /\ off <= C(i) /\ line = L(i) + off) => Right(f[i][off][line], line)
           S == {d \in Nat : \A i \in 1 .. n : i + d = n => At(i)}
<1>6. ASSUME NEW i \in 1 .. n, Right(f[i + 1][0][L(i + 1)], L(i + 1)) PROVE At(i)
  <2>1. ASSUME NEW off \in Nat, NEW line \in Nat, off <= C(i), line = L(i) + off
        PROVE  Right(f[i][off][line], line)
    <3> DEFINE g == f[i + 1]
    <3>1. f[i][off][line] = ForwardFrom(g, i, off, line, query, end, extra, slip)
      BY <1>2, <1>3
    <3>2. Answers(g[0][LinesBefore(pieces, i + 1)],
                  FirstMatch(query, LinesBefore(pieces, i + 1), end, slip), extra)
      BY <1>6
    <3> HIDE DEF g
    <3>3. Answers(ForwardFrom(g, i, off, line, query, end, extra, slip), FirstMatch(query, line, end, slip), extra)
      BY <2>1, <3>2, ForwardRound
    <3>4. QED
      BY <3>1, <3>3
  <2> HIDE DEF Right
  <2>2. QED
    BY <2>1
<1> HIDE DEF Right, L, C, n
<1>7. 0 \in S
  <2>1. ASSUME NEW i \in 1 .. n, i + 0 = n PROVE At(i)
    <3>1. i = n /\ L(i + 1) = total_lines /\ L(i + 1) >= total_lines /\ L(i + 1) \in Nat
      BY <1>1, <1>4, <2>1
    <3>2. Right(f[i + 1][0][L(i + 1)], L(i + 1))
      BY <1>5, <3>1
    <3> HIDE DEF At
    <3>3. QED
      BY <1>6, <3>2
  <2> HIDE DEF At
  <2>2. QED
    BY <2>1
<1>8. ASSUME NEW d \in Nat, d \in S PROVE d + 1 \in S
  <2>1. ASSUME NEW i \in 1 .. n, i + (d + 1) = n PROVE At(i)
    <3>1. i + 1 \in 1 .. n /\ (i + 1) + d = n /\ i + 1 <= n
      BY <1>1, <2>1
    <3>2. At(i + 1)
      BY <1>8, <3>1
    <3>3. L(i + 1) \in Nat /\ L(i + 1) = L(i + 1) + 0 /\ 0 <= C(i + 1)
      BY <1>3, <3>1
    <3>4. Right(f[i + 1][0][L(i + 1)], L(i + 1))
      BY <3>1, <3>2, <3>3
    <3> HIDE DEF At
    <3>5. QED
      BY <1>6, <3>4
  <2> HIDE DEF At
  <2>2. QED
    BY <2>1
<1> HIDE DEF S
<1>9. \A d \in Nat : d \in S
  BY <1>7, <1>8, SetInduction
<1>10. \A i \in 1 .. n : At(i)
  <2>1. ASSUME NEW i \in 1 .. n PROVE At(i)
    <3>1. n - i \in Nat /\ i + (n - i) = n
      BY <1>1
    <3> HIDE DEF At
    <3>2. QED
      BY <1>9, <3>1 DEF S
  <2> HIDE DEF At
  <2>2. QED
    BY <2>1
<1>11. CASE start >= total_lines
  <2>1. Find(start) = <<n + 1, 0>>
    BY <1>11 DEF Find, n
  <2>2. Right(f[n + 1][0][start], start)
    BY <1>5, <1>11
  <2>3. QED
    BY <1>2, <2>1, <2>2 DEF Right
<1>12. CASE ~(start >= total_lines)
  <2> DEFINE InPiece(k) == LinesBefore(pieces, k) <= start /\ start < LinesBefore(pieces, k + 1)
             i == CHOOSE k \in DOMAIN pieces : InPiece(k)
             off == start - LinesBefore(pieces, i)
  <2>1. Find(start) = <<i, off>>
    BY <1>12 DEF Find
  <2>2. \E k \in DOMAIN pieces : InPiece(k)
    <3>1. start < total_lines
      BY <1>1, <1>12
    <3>2. QED
      BY <1>1, <3>1, LineHasPiece
  <2>3. i \in DOMAIN pieces /\ InPiece(i)
    <3> HIDE DEF InPiece
    <3>1. QED
      BY <2>2, Zenon
  <2> HIDE DEF i
  <2>4. i \in 1 .. n /\ L(i) <= start /\ start < L(i + 1) /\ off = start - L(i)
    BY <1>1, <2>3 DEF L
  <2> HIDE DEF off
  <2>5. off \in Nat /\ off <= C(i) /\ start = L(i) + off /\ i <= n
    BY <1>1, <1>3, <2>4
  <2>6. Right(f[i][off][start], start)
    BY <1>10, <2>4, <2>5
  <2>7. QED
    BY <1>2, <2>1, <2>6 DEF Right
<1>13. QED
  BY <1>11, <1>12

(* log_engine_search reports the first match between the two lines, under  *)
(* the number of its line or of the next one off.                          *)
THEOREM FirstMatchIsFound == Spec => []ForwardFirst
<1>1. IInv => ForwardFirst
  <2> SUFFICES ASSUME IInv, Searchable, NEW query \in Queries,
                      NEW start \in 0 .. Len(Contents), NEW end \in 0 .. Len(Contents),
                      NEW extra \in 0 .. FileLines - original_total_lines, NEW slip \in Slips(extra)
               PROVE  Answers(Forward(query, start, end, extra, slip), FirstMatch(query, start, end, slip), extra)
    BY DEF ForwardFirst, FirstMatch
  <2>1. Len(Contents) \in Nat
    BY DocumentLength DEF Searchable
  <2>2. /\ start \in Nat /\ end \in Nat /\ extra \in Nat
        /\ slip \in -1 .. 1 /\ (extra > 0 => slip >= 0)
    BY <2>1 DEF Slips
  <2>3. QED
    BY <2>2, ForwardRight
<1>2. QED
  BY <1>1, InductiveInvariant, PTL

-----------------------------------------------------------------------------
(* The walk backward.                                                      *)

(* One round at piece i, where g is the walk from the piece before.        *)
BackwardFrom(g, i, off, line, query, end, extra, slip) ==
  LET first == Monus(line, off)
      skip == Floor(first, end)
      hits == Hits(query, i, skip, off + 1 - skip, extra)
  IN  IF line < end THEN -1
      ELSE IF hits # {} THEN first + skip + Reported(i, Max(hits) - skip, slip)
      ELSE IF i = 1 THEN -1
      ELSE g[Monus(pieces[i - 1].count, 1)][Monus(first, 1)]

BackwardAll(g, i, query, end, extra, slip) ==
  [off \in Nat |-> [line \in Nat |-> BackwardFrom(g, i, off, line, query, end, extra, slip)]]

IsBackward(f, query, end, extra, slip) ==
  f = [i \in 1 .. Len(pieces) |-> BackwardAll(f[i - 1], i, query, end, extra, slip)]

(* There is such a walk. *)
LEMMA BackwardExists ==
  ASSUME IInv, NEW query, NEW end \in Nat, NEW extra \in Nat, NEW slip \in Int
  PROVE  \E f : IsBackward(f, query, end, extra, slip)
<1> DEFINE D == [Nat -> [Nat -> Int]]
           n == Len(pieces)
           nothing == [off \in Nat |-> [line \in Nat |-> -1]]
           All(g, i) == BackwardAll(g, i, query, end, extra, slip)
           G == [i \in 1 .. n |-> [g \in D |-> All(g, i)]]
<1>1. n \in Nat /\ pieces \in Seq(Pieces)
  BY SMT DEF IInv, TypeOK
<1>2. nothing \in D
  OBVIOUS
<1> HIDE DEF D
<1>3. ASSUME NEW i \in 1 .. n, NEW g \in D PROVE All(g, i) \in D
  <2>1. ASSUME NEW off \in Nat, NEW line \in Nat
        PROVE  BackwardFrom(g, i, off, line, query, end, extra, slip) \in Int
    <3> DEFINE first == Monus(line, off)
               skip == Floor(first, end)
               wanted == off + 1 - skip
               hits == Hits(query, i, skip, wanted, extra)
               back == Monus(pieces[i - 1].count, 1)
               up == Monus(first, 1)
               most == Max(hits)
    <3>1. first \in Nat
      BY DEF Monus, More
    <3> HIDE DEF first
    <3>2. up \in Nat /\ skip \in Nat
      BY <3>1 DEF Monus, More, Floor
    <3> HIDE DEF up, skip
    <3>3. i # 1 => back \in Nat
      <4>1. i # 1 => i - 1 \in 1 .. Len(pieces)
        BY <1>1
      <4>2. i # 1 => pieces[i - 1].count \in Nat
        BY <1>1, <4>1, ElementOfList, PieceFields
      <4>3. QED
        BY <4>2 DEF Monus, More
    <3> HIDE DEF back
    <3>4. wanted \in Int
      BY <3>2
    <3> HIDE DEF wanted
    <3>5. hits # {} => most \in Nat
      BY <3>2, <3>4, HitsAreNumbers
    <3> HIDE DEF most
    <3>6. hits # {} => first + skip + Reported(i, most - skip, slip) \in Int
      <4>1. hits # {} => Reported(i, most - skip, slip) \in Int
        BY <3>2, <3>5 DEF Reported, More
      <4>2. QED
        BY <3>1, <3>2, <4>1
    <3>7. i # 1 => g[back][up] \in Int
      BY <3>2, <3>3 DEF D
    <3> HIDE DEF hits
    <3>8. -1 \in Int
      OBVIOUS
    <3>9. QED
      BY <3>6, <3>7, <3>8, Zenon DEF BackwardFrom, hits, wanted, skip, first, back, up, most
  <2>2. QED
    BY <2>1, Zenon DEF BackwardAll, D
<1>4. \A x, y : All(x, 1) = All(y, 1)
  BY Zenon DEF BackwardAll, BackwardFrom
<1> HIDE DEF nothing, All
<1>5. G \in [1 .. n -> [D -> D]]
  <2>1. ASSUME NEW i \in 1 .. n PROVE [g \in D |-> All(g, i)] \in [D -> D]
    BY <1>3
  <2> HIDE DEF n
  <2>2. QED
    BY <2>1
<1>6. \A i \in 1 .. n : \A g \in D : G[i][g] = All(g, i)
  OBVIOUS
<1> HIDE DEF G, n
<1>7. PICK F \in [0 .. n -> D] : F[0] = nothing /\ \A i \in 1 .. n : F[i] = G[i][F[i - 1]]
  BY <1>1, <1>2, <1>5, Chain
<1> DEFINE f == [i \in 1 .. n |-> F[i]]
<1>8. ASSUME NEW i \in 1 .. n PROVE f[i] = All(f[i - 1], i)
  <2>1. i - 1 \in 0 .. n /\ (i # 1 => i - 1 \in 1 .. n)
    BY <1>1
  <2>2. F[i] = All(F[i - 1], i)
    BY <1>6, <1>7, <2>1
  <2>3. i # 1 => f[i - 1] = F[i - 1]
    BY <2>1
  <2>4. f[i] = F[i]
    OBVIOUS
  <2> HIDE DEF f
  <2>5. CASE i = 1
    BY <1>4, <2>2, <2>4, <2>5
  <2>6. CASE i # 1
    BY <2>2, <2>3, <2>4, <2>6
  <2>7. QED
    BY <2>5, <2>6
<1>9. f = [i \in 1 .. n |-> f[i]]
  OBVIOUS
<1> HIDE DEF f
<1>10. f = [i \in 1 .. n |-> All(f[i - 1], i)]
  BY <1>8, <1>9, Zenon
<1>11. IsBackward(f, query, end, extra, slip)
  BY <1>10, Zenon DEF IsBackward, All, n
<1>12. QED
  BY <1>11

(* f is the walk of this search, round by round. *)
BackwardRounds(f, query, start, end, extra, slip) ==
  /\ Backward(query, start, end, extra, slip) = f[Find(start)[1]][Find(start)[2]][start]
  /\ \A i \in 1 .. Len(pieces), off \in Nat, line \in Nat :
       f[i][off][line] = BackwardFrom(f[i - 1], i, off, line, query, end, extra, slip)

(* The search is one, from a line of the document.                         *)
LEMMA BackwardWalks ==
  ASSUME IInv, NEW query, NEW start, start < total_lines, NEW end \in Nat, NEW extra \in Nat,
         NEW slip \in Int
  PROVE  \E f : BackwardRounds(f, query, start, end, extra, slip)
<1> DEFINE Is(f) == IsBackward(f, query, end, extra, slip)
           walk == CHOOSE f : Is(f)
<1>1. \E f : Is(f)
  BY BackwardExists
<1>2. Backward(query, start, end, extra, slip) = walk[Find(start)[1]][Find(start)[2]][start]
  BY Zenon DEF Backward, IsBackward, BackwardAll, BackwardFrom
<1>3. Is(walk)
  <2> HIDE DEF Is
  <2>1. QED
    BY <1>1, Zenon
<1> HIDE DEF walk
<1>4. ASSUME NEW i \in 1 .. Len(pieces), NEW off \in Nat, NEW line \in Nat
      PROVE  walk[i][off][line] = BackwardFrom(walk[i - 1], i, off, line, query, end, extra, slip)
  <2> DEFINE again == [j \in 1 .. Len(pieces) |-> BackwardAll(walk[j - 1], j, query, end, extra, slip)]
  <2>1. walk = again
    BY <1>3, Zenon DEF IsBackward
  <2>2. again[i] = BackwardAll(walk[i - 1], i, query, end, extra, slip)
    OBVIOUS
  <2>3. BackwardAll(walk[i - 1], i, query, end, extra, slip)[off][line]
          = BackwardFrom(walk[i - 1], i, off, line, query, end, extra, slip)
    BY DEF BackwardAll
  <2> HIDE DEF again
  <2>4. QED
    BY <2>1, <2>2, <2>3, Zenon
<1>5. QED
  BY <1>2, <1>4, Zenon DEF BackwardRounds

(* The lines from `end` on of a piece whose first line is L, up to the     *)
(* position off.                                                           *)
LEMMA WantedAbove ==
  ASSUME NEW L \in Nat, NEW off \in Nat, NEW line \in Nat, line = L + off, NEW end \in Nat,
         end <= line
  PROVE  /\ Monus(line, off) = L
         /\ Floor(L, end) \in Nat /\ off + 1 - Floor(L, end) \in Nat
         /\ Floor(L, end) + (off + 1 - Floor(L, end)) = off + 1
         /\ \A k \in Nat : k \in Floor(L, end) .. Floor(L, end) + (off + 1 - Floor(L, end)) - 1
                            <=> end <= L + k /\ k <= off
<1> DEFINE s == Floor(L, end)
<1>1. Monus(line, off) = L
  BY DEF Monus, More
<1>2. s = IF end - L < 0 THEN 0 ELSE end - L
  BY DEF Floor, Monus, More
<1> HIDE DEF s
<1>3. s \in Nat /\ s <= off /\ off + 1 - s \in Nat /\ s + (off + 1 - s) = off + 1
  BY <1>2
<1>4. ASSUME NEW k \in Nat PROVE k \in s .. s + (off + 1 - s) - 1 <=> end <= L + k /\ k <= off
  BY <1>2, <1>3
<1>5. QED
  BY <1>1, <1>3, <1>4 DEF s

(* A round of the walk answers as it should, if the rest of it does.       *)
LEMMA BackwardRound ==
  ASSUME IInv, Searchable, NEW query, NEW end \in Nat, NEW extra \in Nat,
         NEW slip \in -1 .. 1, extra > 0 => slip >= 0,
         NEW i \in 1 .. Len(pieces), NEW off \in Nat, off < pieces[i].count,
         NEW line \in Nat, line = LinesBefore(pieces, i) + off,
         i # 1 => LinesBefore(pieces, i) > 0,
         NEW g, i # 1 => Answers(g[Monus(pieces[i - 1].count, 1)][Monus(LinesBefore(pieces, i), 1)],
                                 LastMatch(query, end, Monus(LinesBefore(pieces, i), 1), slip), extra)
  PROVE  Answers(BackwardFrom(g, i, off, line, query, end, extra, slip),
                 LastMatch(query, end, line, slip), extra)
<1> DEFINE L == LinesBefore(pieces, i)
           N == LinesBefore(pieces, i + 1)
           C == pieces[i].count
           skip == Floor(L, end)
           wanted == off + 1 - skip
           hits == Hits(query, i, skip, wanted, extra)
           up == Monus(L, 1)
           rest == g[Monus(pieces[i - 1].count, 1)][up]
           M(to) == Matches(Contents, query, end, to)
           R == skip .. skip + wanted - 1
           Is(k) == Matched(query, i, skip, wanted, k)
<1>0. line \in Int
  OBVIOUS
<1>1. pc = "idle" /\ pieces \in Seq(Pieces) /\ Len(pieces) \in Nat /\ total_lines \in Nat
  BY DocumentLength DEF Searchable
<1>2. L \in Nat /\ C \in Nat /\ N = L + C /\ (i = 1 => L = 0)
  <2>1. i \in 1 .. Len(pieces) + 1 /\ i <= Len(pieces)
    BY <1>1, SMT
  <2>2. QED
    BY <1>1, <2>1, PiecePlaces
<1>4. line = L + off /\ off < C
  OBVIOUS
<1>5. up \in Nat /\ (i # 1 => up = L - 1)
  BY <1>2 DEF Monus, More
<1>6. CASE line < end
  <2>1. BackwardFrom(g, i, off, line, query, end, extra, slip) = -1
    BY <1>6 DEF BackwardFrom
  <2>2. M(line) = {}
    <3>1. M(line) \in SUBSET Nat /\ \A m \in Int : m \in M(line) => end <= m /\ m <= line
      BY <1>0, <1>1, MatchIn
    <3> HIDE DEF M
    <3>2. QED
      BY <1>6, <3>1
  <2>3. QED
    BY <2>1, <2>2 DEF Answers, LastMatch
<1>7. CASE ~(line < end)
  <2>1. /\ Monus(line, off) = L /\ skip \in Nat /\ wanted \in Nat /\ skip + wanted = off + 1
        /\ \A k \in Nat : k \in R <=> end <= L + k /\ k <= off
    <3>1. end <= line /\ line = L + off
      BY <1>4, <1>7
    <3> HIDE DEF L
    <3>2. /\ Monus(line, off) = L
          /\ Floor(L, end) \in Nat /\ off + 1 - Floor(L, end) \in Nat
          /\ Floor(L, end) + (off + 1 - Floor(L, end)) = off + 1
          /\ \A k \in Nat : k \in Floor(L, end) .. Floor(L, end) + (off + 1 - Floor(L, end)) - 1
                             <=> end <= L + k /\ k <= off
      BY <1>2, <3>1, WantedAbove
    <3>3. QED
      BY <3>2, Zenon
  <2>13. L + skip >= end
    <3> HIDE DEF L
    <3>1. QED
      BY <1>2 DEF Floor, Monus, More
  <2>2. BackwardFrom(g, i, off, line, query, end, extra, slip)
          = IF hits # {} THEN L + skip + Reported(i, Max(hits) - skip, slip)
            ELSE IF i = 1 THEN -1 ELSE rest
    BY <1>7, <2>1, Zenon DEF BackwardFrom
  <2> HIDE DEF wanted, skip
  <2>3. /\ \A k \in R : Is(k) => k \in hits
        /\ \A k \in hits : /\ k \in Nat /\ skip <= k
                           /\ (k \in R /\ Is(k)) \/ (extra > 0 /\ k + 1 >= C /\ N - 1 \in LastPublished)
    <3>1. skip + wanted <= pieces[i].count
      BY <1>2, <1>4, <2>1
    <3>2. /\ \A k \in skip .. skip + wanted - 1 :
                 Matched(query, i, skip, wanted, k) => k \in Hits(query, i, skip, wanted, extra)
          /\ \A k \in Hits(query, i, skip, wanted, extra) :
                 /\ k \in Nat /\ skip <= k
                 /\ \/ k \in skip .. skip + wanted - 1 /\ Matched(query, i, skip, wanted, k)
                    \/ /\ extra > 0 /\ k + 1 >= pieces[i].count
                       /\ LinesBefore(pieces, i + 1) - 1 \in LastPublished
      BY <2>1, <3>1, HitsInPiece
    <3>3. QED
      BY <3>2, Zenon
  <2>4. /\ M(line) \in SUBSET (0 .. line) /\ M(up) \in SUBSET (0 .. up)
        /\ \A m \in Int : m \in M(line) <=>
             end <= m /\ m <= line /\ m < total_lines /\ BeginsMatch(query, m, line)
        /\ \A m \in Int : m \in M(up) <=>
             end <= m /\ m <= up /\ m < total_lines /\ BeginsMatch(query, m, up)
    <3> HIDE DEF up
    <3>0. up \in Int /\ line \in Int
      BY <1>5
    <3>1. QED
      BY <1>1, <3>0, MatchIn
  <2>5. \A k \in R : Is(k) <=> L + k \in M(line)
    <3>1. ASSUME NEW k \in R PROVE Is(k) <=> L + k \in M(line)
      <4>1. k \in Nat /\ end <= L + k /\ k <= off /\ k + 1 \in Nat
        BY <2>1, <3>1
      <4>2. L + k \in Int /\ L + k <= line /\ k < C
        <5> HIDE DEF hits, M, R, L, C, Is
        <5>1. QED
          BY <1>2, <1>4, <4>1
      <4>3. L + k < total_lines
        BY <1>1, <4>1, <4>2, DocumentAt
      <4>4. k + 1 \in R <=> L + k + 1 <= line
        <5>1. k + 1 \in R <=> end <= L + (k + 1) /\ k + 1 <= off
          BY <2>1, <4>1
        <5> HIDE DEF hits, M, R, L, C, Is
        <5>2. QED
          BY <1>2, <1>4, <4>1, <5>1
      <4>5. k + 1 \in R => k + 1 < C
        <5>1. k + 1 \in R => k + 1 <= off
          BY <2>1, <4>1
        <5> HIDE DEF hits, M, R, L, C, Is
        <5>2. QED
          BY <1>2, <1>4, <4>1, <5>1
      <4>6. Is(k) <=> BeginsMatch(query, L + k, line)
        <5>1. k + 1 < pieces[i].count =>
                (k + 1 \in skip .. skip + wanted - 1 <=> LinesBefore(pieces, i) + k + 1 <= line)
          BY <4>4
        <5>2. k + 1 \in skip .. skip + wanted - 1 => k + 1 < pieces[i].count
          BY <4>5
        <5>3. k \in skip .. skip + wanted - 1 /\ k < pieces[i].count
          BY <3>1, <4>2
        <5>4. QED
          BY <2>1, <5>1, <5>2, <5>3, MatchedInDocument
      <4> HIDE DEF hits, M, R, L, C, Is
      <4>7. QED
        BY <2>4, <4>1, <4>2, <4>3, <4>6
    <3>2. QED
      BY <3>1
  <2>14. \A m \in Nat : m < L => (BeginsMatch(query, m, line) <=> BeginsMatch(query, m, up))
    <3>1. ASSUME NEW m \in Nat, m < L
          PROVE  BeginsMatch(query, m, line) <=> BeginsMatch(query, m, up)
      <4>1. ~Joined(L - 1)
        BY <1>1, JoinedInPiece
      <4>2. i # 1 /\ (m = L - 1 \/ (m + 1 <= line /\ m + 1 <= up))
        <5> HIDE DEF L, up
        <5>1. QED
          BY <1>2, <1>4, <1>5, <3>1
      <4> HIDE DEF L, up
      <4>3. QED
        BY <4>1, <4>2 DEF BeginsMatch
    <3>2. QED
      BY <3>1
  <2>6. \A m \in M(line) : (i # 1 /\ m \in M(up)) \/ (m - L \in R /\ m = L + (m - L))
    <3>1. ASSUME NEW m \in M(line)
          PROVE  (i # 1 /\ m \in M(up)) \/ (m - L \in R /\ m = L + (m - L))
      <4>1. m \in Nat /\ end <= m /\ m <= line /\ m < total_lines /\ BeginsMatch(query, m, line)
        BY <2>4, <3>1
      <4> HIDE DEF M, R, L, up
      <4>2. m < L => i # 1 /\ m <= up
        BY <1>2, <1>5, <4>1
      <4>3. m < L => i # 1 /\ m \in M(up)
        BY <2>4, <2>14, <4>1, <4>2
      <4>4. m >= L => m - L \in Nat /\ end <= L + (m - L) /\ m - L <= off /\ L + (m - L) = m
        BY <1>2, <1>4, <4>1
      <4>5. QED
        BY <1>2, <2>1, <4>1, <4>3, <4>4
    <3>2. QED
      BY <3>1
  <2>7. i # 1 => \A m \in M(up) : m \in M(line) /\ m < L
    <3> SUFFICES ASSUME i # 1, NEW m \in M(up) PROVE m \in M(line) /\ m < L
      OBVIOUS
    <3>1. m \in Nat /\ end <= m /\ m <= up /\ m < total_lines /\ BeginsMatch(query, m, up)
      BY <2>4
    <3> HIDE DEF L, up, M
    <3>2. m < L /\ m <= line
      BY <1>2, <1>4, <1>5, <3>1
    <3>3. QED
      BY <2>4, <2>14, <3>1, <3>2
  <2>8. PICK last \in Nat : hits \in SUBSET (0 .. last)
    <3>1. wanted \in Int
      BY <2>1
    <3>2. QED
      BY <2>1, <3>1, HitsAreNumbers
  <2> HIDE DEF hits, M, R, L, C, N, up, rest, Is
  <2>9. CASE hits = {} /\ i # 1
    <3>1. M(line) = M(up)
      BY <2>3, <2>5, <2>6, <2>7, <2>9
    <3>2. LastMatch(query, end, line, slip) = LastMatch(query, end, up, slip)
      BY <3>1 DEF LastMatch, M
    <3>3. Answers(rest, LastMatch(query, end, up, slip), extra)
      BY <2>9 DEF rest, up, L
    <3>4. QED
      BY <2>2, <2>9, <3>2, <3>3
  <2>10. CASE hits = {} /\ i = 1
    <3>1. M(line) = {}
      BY <2>3, <2>5, <2>6, <2>10
    <3>2. LastMatch(query, end, line, slip) = {-1}
      BY <3>1 DEF LastMatch, M
    <3>3. QED
      BY <2>2, <2>10, <3>2 DEF Answers
  <2>11. CASE hits # {}
    <3> DEFINE x == Max(hits)
    <3>1. x \in hits /\ \A y \in hits : x >= y
      BY <2>8, <2>11, GreatestExists
    <3>2. BackwardFrom(g, i, off, line, query, end, extra, slip) = L + skip + Reported(i, x - skip, slip)
      BY <2>2, <2>11
    <3> HIDE DEF x
    <3>3. x \in Nat
      BY <2>8, <3>1
    <3> DEFINE r == Reported(i, x - skip, slip)
               found == L + skip + r
    <3>4. /\ r \in Nat /\ r \in {x - skip, x - skip + slip} /\ (slip >= 0 => r >= x - skip)
          /\ x - skip \in Nat
      <4>1. x - skip \in Nat
        BY <2>1, <2>3, <3>1
      <4>2. QED
        BY <4>1, ReportedIs
    <3> HIDE DEF r
    <3>5. /\ found \in Nat /\ found >= end /\ found \in {L + x, L + x + slip}
          /\ slip >= 0 => found >= L + x
      BY <1>2, <2>1, <2>13, <3>3, <3>4
    <3> HIDE DEF found
    <3>6. CASE x \in R /\ Is(x)
      <4>1. L + x \in M(line) /\ L + x \in Nat
        BY <1>2, <2>5, <3>1, <3>3, <3>6
      <4>2. ASSUME NEW m \in M(line) PROVE L + x >= m
        <5>1. CASE i # 1 /\ m \in M(up)
          <6>1. m < L /\ m \in Nat
            BY <2>4, <2>7, <5>1
          <6>2. QED
            BY <1>2, <3>3, <6>1
        <5>2. CASE m - L \in R /\ m = L + (m - L)
          <6>1. m - L \in hits /\ m \in Nat
            BY <2>3, <2>4, <2>5, <4>2, <5>2
          <6>2. QED
            BY <1>2, <3>1, <3>3, <6>1
        <5>3. QED
          BY <2>6, <4>2, <5>1, <5>2
      <4>3. Max(M(line)) = L + x
        BY <2>4, <4>1, <4>2, GreatestIs
      <4>4. LastMatch(query, end, line, slip) = Numbers(L + x, slip, end)
        BY <4>1, <4>3 DEF LastMatch, M
      <4>5. found \in Numbers(L + x, slip, end)
        BY <3>5 DEF Numbers
      <4>6. QED
        BY <3>2, <4>4, <4>5 DEF Answers, found, r
    <3>7. CASE ~(x \in R /\ Is(x))
      <4>1. extra > 0 /\ x + 1 >= C /\ N - 1 \in LastPublished
        BY <2>3, <3>1, <3>7
      <4>2. found >= N - 1
        BY <1>2, <3>3, <3>5, <4>1
      <4>3. QED
        BY <3>2, <4>1, <4>2 DEF Answers, found, r
    <3>8. QED
      BY <3>6, <3>7
  <2>12. QED
    BY <2>9, <2>10, <2>11
<1>8. QED
  BY <1>6, <1>7

(* The search backward finds the last match, or one that was seen behind   *)
(* the published lines.                                                    *)
LEMMA BackwardRight ==
  ASSUME IInv, Searchable, NoEmptyPiece, NEW query, NEW start \in Nat, start < total_lines,
         NEW end \in Nat, NEW extra \in Nat, NEW slip \in -1 .. 1, extra > 0 => slip >= 0
  PROVE  Answers(Backward(query, start, end, extra, slip), LastMatch(query, end, start, slip), extra)
<1> DEFINE n == Len(pieces)
           L(i) == LinesBefore(pieces, i)
           C(i) == pieces[i].count
           Right(x, line) == Answers(x, LastMatch(query, end, line, slip), extra)
<1>0. end \in Int /\ slip \in Int
  OBVIOUS
<1>1. pc = "idle" /\ pieces \in Seq(Pieces) /\ n \in Nat /\ DOMAIN pieces = 1 .. n
  BY DocumentLength DEF Searchable
<1>2. PICK f : /\ Backward(query, start, end, extra, slip) = f[Find(start)[1]][Find(start)[2]][start]
               /\ \A i \in 1 .. n, off \in Nat, line \in Nat :
                    f[i][off][line] = BackwardFrom(f[i - 1], i, off, line, query, end, extra, slip)
  <2>1. \E f : BackwardRounds(f, query, start, end, extra, slip)
    BY <1>0, BackwardWalks
  <2>2. QED
    BY <2>1, Zenon DEF BackwardRounds
<1>3. ASSUME NEW i \in 1 .. n
      PROVE  L(i) \in Nat /\ C(i) \in Nat /\ L(i + 1) = L(i) + C(i) /\ C(i) > 0
  <2>1. i \in 1 .. n + 1 /\ i <= n
    BY <1>1
  <2>2. C(i) > 0
    BY <1>1 DEF NoEmptyPiece
  <2>3. QED
    BY <1>1, <2>1, <2>2, PiecePlaces
<1> DEFINE At(i) == \A off \in Nat, line \in Nat :
                      (off < C(i) /\ line = L(i) + off) => Right(f[i][off][line], line)
           S == {i \in Nat : i \in 1 .. n => At(i)}
<1>4. ASSUME NEW i \in 1 .. n,
             i # 1 => L(i) > 0 /\ Right(f[i - 1][Monus(C(i - 1), 1)][Monus(L(i), 1)], Monus(L(i), 1))
      PROVE  At(i)
  <2>1. ASSUME NEW off \in Nat, NEW line \in Nat, off < C(i), line = L(i) + off
        PROVE  Right(f[i][off][line], line)
    <3> DEFINE g == f[i - 1]
    <3>1. f[i][off][line] = BackwardFrom(g, i, off, line, query, end, extra, slip)
      BY <1>2
    <3>2. i # 1 => Answers(g[Monus(pieces[i - 1].count, 1)][Monus(LinesBefore(pieces, i), 1)],
                           LastMatch(query, end, Monus(LinesBefore(pieces, i), 1), slip), extra)
      BY <1>4, Zenon
    <3>3. i # 1 => LinesBefore(pieces, i) > 0
      BY <1>4, Zenon
    <3> HIDE DEF g
    <3>4. Answers(BackwardFrom(g, i, off, line, query, end, extra, slip), LastMatch(query, end, line, slip), extra)
      BY <2>1, <3>2, <3>3, BackwardRound
    <3>5. QED
      BY <3>1, <3>4
  <2> HIDE DEF Right
  <2>2. QED
    BY <2>1
<1>5. \A i \in Nat : i # 0 => (i + 1) - 1 = i
  OBVIOUS
<1> HIDE DEF Right, L, C, n
<1>6. 0 \in S
  BY <1>1
<1>7. ASSUME NEW i \in Nat, i \in S PROVE i + 1 \in S
  <2> DEFINE j == i + 1
  <2> SUFFICES ASSUME j \in 1 .. n PROVE At(j)
    OBVIOUS
  <2>1. CASE i = 0
    <3>1. j = 1
      BY <2>1
    <3> HIDE DEF j, At
    <3>2. QED
      BY <1>4, <3>1
  <2>2. CASE i # 0
    <3>1. i \in 1 .. n /\ j - 1 = i /\ j = i + 1
      BY <1>1, <2>2
    <3>2. At(i)
      BY <1>7, <3>1
    <3>3. L(i) \in Nat /\ C(i) \in Nat /\ L(j) = L(i) + C(i) /\ C(i) > 0
      BY <1>3, <3>1
    <3> HIDE DEF j
    <3>4. /\ Monus(C(i), 1) \in Nat /\ Monus(C(i), 1) < C(i) /\ Monus(L(j), 1) \in Nat
          /\ Monus(L(j), 1) = L(i) + Monus(C(i), 1) /\ L(j) > 0
      BY <3>3 DEF Monus, More
    <3>5. Right(f[i][Monus(C(i), 1)][Monus(L(j), 1)], Monus(L(j), 1))
      BY <3>2, <3>4
    <3> HIDE DEF At
    <3>6. QED
      BY <1>4, <3>1, <3>4, <3>5
  <2>3. QED
    BY <2>1, <2>2
<1> HIDE DEF S
<1>8. \A i \in Nat : i \in S
  BY <1>6, <1>7, SetInduction
<1> DEFINE InPiece(k) == LinesBefore(pieces, k) <= start /\ start < LinesBefore(pieces, k + 1)
           i == CHOOSE k \in DOMAIN pieces : InPiece(k)
           off == start - LinesBefore(pieces, i)
<1>9. Find(start) = <<i, off>>
  <2>1. total_lines \in Nat
    BY DocumentLength, <1>1
  <2>2. ~(start >= total_lines)
    BY <2>1
  <2>3. QED
    BY <2>2 DEF Find
<1>10. \E k \in DOMAIN pieces : InPiece(k)
  BY <1>1, LineHasPiece
<1>11. i \in DOMAIN pieces /\ InPiece(i)
  <2> HIDE DEF InPiece
  <2>1. QED
    BY <1>10, Zenon
<1> HIDE DEF i
<1>12. i \in 1 .. n /\ L(i) <= start /\ start < L(i + 1) /\ off = start - L(i)
  BY <1>1, <1>11 DEF L
<1> HIDE DEF off
<1>13. off \in Nat /\ off < C(i) /\ start = L(i) + off
  BY <1>3, <1>12
<1>14. At(i)
  <2>1. i \in Nat
    BY <1>1, <1>12
  <2> HIDE DEF At
  <2>2. QED
    BY <1>8, <1>12, <2>1 DEF S
<1>15. Right(f[i][off][start], start)
  BY <1>13, <1>14
<1>16. QED
  BY <1>2, <1>9, <1>15 DEF Right

(* log_engine_search_backward reports the last match between the two       *)
(* lines, under the number of its line or of the next one off.             *)
THEOREM LastMatchIsFound == Spec => []BackwardLast
<1>1. IInv => BackwardLast
  <2> SUFFICES ASSUME IInv, Searchable, NoEmptyPiece, NEW query \in Queries,
                      NEW start \in 0 .. Len(Contents) - 1, NEW end \in 0 .. Len(Contents),
                      NEW extra \in 0 .. FileLines - original_total_lines, NEW slip \in Slips(extra)
               PROVE  Answers(Backward(query, start, end, extra, slip), LastMatch(query, end, start, slip), extra)
    BY DEF BackwardLast, LastMatch
  <2>1. Len(Contents) = total_lines /\ total_lines \in Nat
    BY DocumentLength DEF Searchable
  <2>2. /\ start \in Nat /\ start < total_lines /\ end \in Nat /\ extra \in Nat
        /\ slip \in -1 .. 1 /\ (extra > 0 => slip >= 0)
    BY <2>1 DEF Slips
  <2>3. QED
    BY <2>2, BackwardRight
<1>2. QED
  BY <1>1, InductiveInvariant, PTL

-----------------------------------------------------------------------------
(* The nearer of the two.                                                 *)

(* do_search answers with a match above the line of the cursor or below    *)
(* it, the nearest up to the two slips, if the searches forward and        *)
(* backward are right.                                                     *)
LEMMA NearestOfBoth ==
  ASSUME IInv, Searchable, NoEmptyPiece, NEW query, NEW line \in Nat, line < total_lines,
         NEW from \in Nat, NEW to \in Nat, to <= total_lines,
         NEW slip, slip.down \in -1 .. 1, slip.up \in -1 .. 1
  PROVE  LET above == Matches(Contents, query, from, Less(line - 1, to))
             below == Matches(Contents, query, More(line + 1, from), to)
             found == DoSearch(query, line, from, to, 0, slip)
             d == IF slip.down = 0 /\ slip.up = 0 THEN 0 ELSE 2
             Distance(m) == More(m - line, line - m)
             Nearest(m, slack) == \A other \in above \union below :
                                    \/ Distance(m) < Distance(other) + slack
                                    \/ Distance(m) = Distance(other) + slack /\ m >= other
         IN  \/ found = -1 /\ above \union below = {}
             \/ \E m \in above : Nearest(m, d) /\ found \in Numbers(m, slip.up, from)
             \/ \E m \in below : Nearest(m, d) /\ found \in Numbers(m, slip.down, from)
<1> DEFINE start_down == More(line + 1, from)
           start_up == Less(Monus(line, 1), to)
           upper == Less(line - 1, to)
           below == Matches(Contents, query, start_down, to)
           above == Matches(Contents, query, from, upper)
           down == IF start_down > to THEN -1 ELSE Forward(query, start_down, to, 0, slip.down)
           up == IF start_up < from \/ line = 0 THEN -1 ELSE Backward(query, start_up, from, 0, slip.up)
           found == DoSearch(query, line, from, to, 0, slip)
           sd == slip.down
           su == slip.up
           d == IF slip.down = 0 /\ slip.up = 0 THEN 0 ELSE 2
           Distance(m) == More(m - line, line - m)
           Nearest(m, slack) == \A other \in above \union below :
                                  \/ Distance(m) < Distance(other) + slack
                                  \/ Distance(m) = Distance(other) + slack /\ m >= other
<1>1. pc = "idle" /\ total_lines \in Nat
  BY DocumentLength DEF Searchable
<1>2. /\ start_down \in Nat /\ start_down > line /\ start_down >= from
      /\ start_up \in Nat /\ start_up < total_lines
      /\ upper \in Int /\ upper < line /\ (line # 0 => upper = start_up) /\ (line = 0 => upper = -1)
  BY <1>1 DEF More, Less, Monus
<1>3. /\ below \in SUBSET Nat
      /\ \A m \in below : m > line /\ start_down <= m /\ m <= to
  <2>1. /\ below \in SUBSET Nat
        /\ \A m \in Int : m \in below => start_down <= m /\ m <= to
    <3> HIDE DEF start_down
    <3>1. QED
      BY <1>1, <1>2, MatchIn
  <2> HIDE DEF below, start_down
  <2>2. QED
    BY <1>2, <2>1
<1>4. /\ above \in SUBSET (0 .. upper) /\ above \in SUBSET Nat
      /\ \A m \in above : m < line /\ from <= m /\ m <= upper
  <2>1. /\ above \in SUBSET (0 .. upper) /\ above \in SUBSET Nat
        /\ \A m \in Int : m \in above => from <= m /\ m <= upper
    <3> HIDE DEF upper
    <3>1. QED
      BY <1>1, <1>2, MatchIn
  <2> HIDE DEF above, upper
  <2>2. QED
    BY <1>2, <2>1
<1>5. \/ below = {} /\ down = -1
      \/ below # {} /\ down \in Numbers(Min(below), sd, start_down)
  <2> HIDE DEF start_down
  <2>1. CASE start_down > to
    <3>1. \A m \in below : FALSE
      BY <1>2, <1>3, <2>1
    <3> HIDE DEF below
    <3>2. QED
      BY <2>1, <3>1
  <2>2. CASE ~(start_down > to)
    <3>1. Answers(Forward(query, start_down, to, 0, sd), FirstMatch(query, start_down, to, sd), 0)
      BY <1>2, ForwardRight
    <3>2. Forward(query, start_down, to, 0, sd) \in FirstMatch(query, start_down, to, sd)
      BY <3>1 DEF Answers
    <3>3. QED
      BY <2>2, <3>2 DEF FirstMatch
  <2>3. QED
    BY <2>1, <2>2
<1>6. \/ above = {} /\ up = -1
      \/ above # {} /\ up \in Numbers(Max(above), su, from)
  <2>1. CASE line = 0
    <3>1. \A m \in above : FALSE
      BY <1>2, <1>4, <2>1
    <3> HIDE DEF above
    <3>2. QED
      BY <2>1, <3>1
  <2>2. CASE line # 0
    <3>1. above = Matches(Contents, query, from, start_up)
      BY <1>2, <2>2
    <3> HIDE DEF start_up
    <3>2. CASE start_up < from
      <4>1. \A m \in above : FALSE
        BY <1>2, <1>4, <2>2, <3>2
      <4> HIDE DEF above
      <4>2. QED
        BY <3>2, <4>1
    <3>3. CASE ~(start_up < from)
      <4>1. Answers(Backward(query, start_up, from, 0, su), LastMatch(query, from, start_up, su), 0)
        BY <1>2, BackwardRight
      <4>2. Backward(query, start_up, from, 0, su) \in LastMatch(query, from, start_up, su)
        BY <4>1 DEF Answers
      <4>3. QED
        BY <2>2, <3>1, <3>3, <4>2 DEF LastMatch
    <3>4. QED
      BY <3>2, <3>3
  <2>3. QED
    BY <2>1, <2>2
<1>7. found = IF down >= 0 /\ up >= 0 THEN Nearer(down, up, line) ELSE More(down, up)
  BY DEF DoSearch
<1>8. sd \in -1 .. 1 /\ su \in -1 .. 1 /\ d \in {0, 2} /\ (d = 0 => sd = 0 /\ su = 0)
  OBVIOUS
<1> DEFINE b == Min(below)
           a == Max(above)
<1>9. below # {} => /\ b \in below /\ b \in Nat /\ b > line /\ \A m \in below : b <= m
                    /\ down \in {b, b + sd} /\ down >= start_down
  <2> SUFFICES ASSUME below # {}
               PROVE  /\ b \in below /\ b \in Nat /\ b > line /\ \A m \in below : b <= m
                      /\ down \in {b, b + sd} /\ down >= start_down
    OBVIOUS
  <2>1. b \in below /\ \A m \in below : b <= m
    BY <1>3, LeastExists
  <2>2. down \in Numbers(b, sd, start_down)
    BY <1>5
  <2> HIDE DEF below, b, down
  <2>3. QED
    BY <1>3, <2>1, <2>2 DEF Numbers
<1>10. above # {} => /\ a \in above /\ a \in Nat /\ a < line /\ \A m \in above : m <= a
                     /\ up \in {a, a + su} /\ up >= from
  <2> SUFFICES ASSUME above # {}
               PROVE  /\ a \in above /\ a \in Nat /\ a < line /\ \A m \in above : m <= a
                      /\ up \in {a, a + su} /\ up >= from
    OBVIOUS
  <2>0. upper \in Nat
    <3> HIDE DEF upper
    <3>1. QED
      BY <1>2, <1>4
  <2>1. a \in above /\ \A m \in above : a >= m
    BY <1>4, <2>0, GreatestExists
  <2>2. up \in Numbers(a, su, from)
    BY <1>6
  <2> HIDE DEF above, a, up, upper
  <2>3. QED
    BY <1>4, <2>1, <2>2 DEF Numbers
<1>11. start_down \in Nat /\ start_down >= from /\ line \in Nat /\ from \in Nat
  BY <1>2
<1>12. \A m \in Nat : Distance(m) = IF m < line THEN line - m ELSE m - line
  BY DEF More
<1> HIDE DEF above, below, a, b, down, up, found, sd, su, d, start_down, start_up, upper, Distance
<1>13. CASE above = {} /\ below = {}
  <2>1. found = -1
    BY <1>5, <1>6, <1>7, <1>13 DEF More
  <2>2. QED
    BY <1>13, <2>1 DEF above, below, found, start_down, upper
<1>14. CASE above = {} /\ below # {}
  <2>1. found = down /\ up = -1
    <3>1. up = -1 /\ down \in Int /\ down >= 0
      BY <1>6, <1>8, <1>9, <1>11, <1>14
    <3>2. QED
      BY <1>7, <3>1 DEF More
  <2>2. found \in Numbers(b, sd, from)
    BY <1>8, <1>9, <1>11, <1>14, <2>1 DEF Numbers
  <2>3. Nearest(b, d)
    <3>1. ASSUME NEW m \in below
          PROVE  Distance(b) < Distance(m) + d \/ (Distance(b) = Distance(m) + d /\ b >= m)
      <4>1. m \in Nat /\ m > line /\ b <= m /\ b \in Nat /\ b > line
        BY <1>3, <1>9, <1>14, <3>1
      <4>2. Distance(m) = m - line /\ Distance(b) = b - line
        BY <1>11, <1>12, <4>1
      <4>3. QED
        BY <1>8, <1>11, <4>1, <4>2
    <3>2. QED
      BY <1>14, <3>1
  <2>4. QED
    BY <1>9, <1>14, <2>2, <2>3 DEF above, below, found, sd, d, Distance, start_down, upper
<1>15. CASE above # {} /\ below = {}
  <2>1. found = up
    <3>1. down = -1 /\ up \in Int /\ up >= 0
      BY <1>5, <1>8, <1>10, <1>11, <1>15
    <3>2. QED
      BY <1>7, <3>1 DEF More
  <2>2. found \in Numbers(a, su, from)
    BY <1>8, <1>10, <1>11, <1>15, <2>1 DEF Numbers
  <2>3. Nearest(a, d)
    BY <1>8, <1>10, <1>11, <1>12, <1>15, <1>4
  <2>4. QED
    BY <1>10, <1>15, <2>2, <2>3 DEF above, below, found, su, d, Distance, start_down, upper
<1>16. CASE above # {} /\ below # {}
  <2>1. /\ down \in Int /\ down >= 0 /\ up \in Int /\ up >= 0
        /\ found = IF line - up < down - line THEN up ELSE down
    <3>1. down \in Int /\ down >= 0 /\ up \in Int /\ up >= 0
      BY <1>8, <1>9, <1>10, <1>11, <1>16
    <3>2. QED
      BY <1>7, <3>1 DEF Nearer
  <2>2. Distance(a) = line - a /\ Distance(b) = b - line
    BY <1>9, <1>10, <1>11, <1>12, <1>16
  <2>3. ASSUME NEW m \in above PROVE Distance(m) \in Nat /\ m \in Nat /\ Distance(m) >= line - a /\ m <= a
    BY <1>4, <1>10, <1>11, <1>12, <1>16, <2>3
  <2>4. ASSUME NEW m \in below
        PROVE  Distance(m) \in Nat /\ m \in Nat /\ Distance(m) = m - line /\ m >= b
    BY <1>3, <1>9, <1>11, <1>12, <1>16, <2>4
  <2>5. CASE line - up < down - line
    <3>1. found \in Numbers(a, su, from)
      BY <1>8, <1>10, <1>11, <1>16, <2>1, <2>5 DEF Numbers
    <3>2. line - a < b - line + d
      BY <1>8, <1>9, <1>10, <1>11, <1>16, <2>1, <2>5
    <3>3. ASSUME NEW m \in above
          PROVE  Distance(a) < Distance(m) + d \/ (Distance(a) = Distance(m) + d /\ a >= m)
      BY <1>8, <1>10, <1>11, <1>16, <2>2, <2>3
    <3>4. ASSUME NEW m \in below PROVE Distance(a) < Distance(m) + d
      BY <1>8, <1>9, <1>10, <1>11, <1>16, <2>2, <2>4, <3>2
    <3>5. Nearest(a, d)
      BY <3>3, <3>4
    <3>6. QED
      BY <1>10, <1>16, <3>1, <3>5 DEF above, below, found, su, d, Distance, start_down, upper
  <2>6. CASE ~(line - up < down - line)
    <3>1. found \in Numbers(b, sd, from)
      BY <1>8, <1>9, <1>11, <1>16, <2>1, <2>6 DEF Numbers
    <3>2. b - line <= line - a + d
      BY <1>8, <1>9, <1>10, <1>11, <1>16, <2>1, <2>6
    <3>3. ASSUME NEW m \in above
          PROVE  Distance(b) < Distance(m) + d \/ (Distance(b) = Distance(m) + d /\ b >= m)
      BY <1>8, <1>9, <1>10, <1>11, <1>16, <2>2, <2>3, <3>2
    <3>4. ASSUME NEW m \in below
          PROVE  Distance(b) < Distance(m) + d \/ (Distance(b) = Distance(m) + d /\ b >= m)
      BY <1>8, <1>9, <1>11, <1>16, <2>2, <2>4
    <3>5. Nearest(b, d)
      BY <3>3, <3>4
    <3>6. QED
      BY <1>9, <1>16, <3>1, <3>5 DEF above, below, found, sd, d, Distance, start_down, upper
  <2>7. QED
    BY <2>5, <2>6
<1>17. QED
  BY <1>13, <1>14, <1>15, <1>16

(* A search of the editor ends at the nearest match inside its limits, up  *)
(* to what the numbers of lines slip by.                                   *)
THEOREM NearestMatchIsFound == Spec => []NearestMatch
<1>1. IInv => NearestMatch
  <2> SUFFICES ASSUME IInv, Searchable, NoEmptyPiece, original_total_lines = FileLines,
                        NEW query \in Queries, NEW line \in 0 .. Len(Contents) - 1,
                        NEW from \in 0 .. Len(Contents), NEW to \in 0 .. Len(Contents),
                        NEW slip \in [down : Slips(0), up : Slips(0)]
                 PROVE  LET above == Matches(Contents, query, from, Less(line - 1, to))
                            below == Matches(Contents, query, More(line + 1, from), to)
                            found == DoSearch(query, line, from, to, 0, slip)
                            d == IF slip.down = 0 /\ slip.up = 0 THEN 0 ELSE 2
                            Distance(m) == More(m - line, line - m)
                            Nearest(m, slack) == \A other \in above \union below :
                                  \/ Distance(m) < Distance(other) + slack
                                  \/ Distance(m) = Distance(other) + slack /\ m >= other
                        IN  \/ found = -1 /\ above \union below = {}
                            \/ \E m \in above : Nearest(m, d) /\ found \in Numbers(m, slip.up, from)
                            \/ \E m \in below : Nearest(m, d) /\ found \in Numbers(m, slip.down, from)
    BY Zenon DEF NearestMatch
  <2>2. Len(Contents) = total_lines /\ total_lines \in Nat
    BY DocumentLength DEF Searchable
  <2>3. line \in Nat /\ line < total_lines /\ from \in Nat /\ to \in Nat /\ to <= total_lines
    BY <2>2
  <2>4. slip.down \in -1 .. 1 /\ slip.up \in -1 .. 1
    BY SMT DEF Slips
  <2>5. QED
    BY <2>3, <2>4, NearestOfBoth, Zenon
<1>2. QED
  BY <1>1, InductiveInvariant, PTL
=============================================================================
