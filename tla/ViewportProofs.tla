--------------------------- MODULE ViewportProofs ---------------------------
(***************************************************************************)
(* Proofs about the window on the document: for files, documents and       *)
(* windows of any size, for any number of edits of any length, the buffer  *)
(* shows the lines of the document or differs from them in a listed way.   *)
(***************************************************************************)
EXTENDS Viewport, ListLemmas, SequenceTheorems, TLAPS

(* Lines of the document, and of the buffer.                               *)
Lines == Nat \union Text
ShownLines == Lines \union {Cut}

(* The document and the buffer are lists of lines.                         *)
Listed == doc \in Seq(Lines) /\ buf \in Seq(ShownLines)

(* What WindowShows says of a window that has not drifted.                 *)
ShowsLines ==
  /\ offset >= 0 /\ offset + Len(buf) <= Len(doc)
  /\ \A i \in DOMAIN buf : buf[i] \in {doc[offset + i], Cut}

(* Together with the types this is inductive.                              *)
ViewInv == Listed /\ TypeOK /\ (drift = {} /\ ~is_eof_mode => ShowsLines)

-----------------------------------------------------------------------------
(* The helpers.                                                            *)

(* The smaller and the greater of two numbers.                             *)
LEMMA LessAndMore ==
  ASSUME NEW a \in Int, NEW b \in Int
  PROVE  /\ Less(a, b) \in Int /\ Less(a, b) <= a /\ Less(a, b) <= b
         /\ Less(a, b) = a \/ Less(a, b) = b
         /\ a <= b => Less(a, b) = a
         /\ More(a, b) \in Int /\ a <= More(a, b) /\ b <= More(a, b)
         /\ More(a, b) = a \/ More(a, b) = b
BY SMT DEF Less, More

(* A margin fits twice into a window, which has two lines at least.        *)
LEMMA Sizes ==
  /\ chunk_size \in Nat /\ half_chunk \in Nat /\ margin \in Nat
  /\ 1 <= margin /\ margin <= half_chunk /\ half_chunk + half_chunk <= chunk_size
<1>1. chunk_size \in Nat /\ margin \in 1 .. chunk_size \div 2
  BY ViewAssumption
<1>2. half_chunk \in Nat /\ half_chunk + half_chunk <= chunk_size
  BY <1>1, SMT DEF half_chunk
<1>3. QED
  BY <1>1, <1>2 DEF half_chunk

(* Lines of the file are a list.                                           *)
LEMMA RangeListed ==
  ASSUME NEW from \in Nat, NEW to \in Nat, from <= to
  PROVE  Range0(from, to) \in Seq(Lines) /\ Len(Range0(from, to)) = to - from
<1> DEFINE n == to - from
           s == Range0(from, to)
<1>1. n \in Nat
  BY SMT
<1>2. s = [i \in 1 .. n |-> from + i - 1]
  BY DEF Range0
<1>3. \A i \in 1 .. n : from + i - 1 \in Lines
  BY <1>1, SMT DEF Lines
<1> HIDE DEF s, n
<1>4. s \in [1 .. n -> Lines]
  BY <1>2, <1>3
<1>5. s \in Seq(Lines) /\ DOMAIN s = 1 .. n
  BY <1>1, <1>4, SeqDef
<1>6. s \in Seq(Lines) /\ Len(s) = n
  BY <1>1, <1>5, LenProperties
<1>7. QED
  BY <1>6 DEF s, n

(* What fetch_lines answers is of the document, and something where the    *)
(* document has a line; how long lines are does not matter.                *)
LEMMA Fetched ==
  ASSUME doc \in Seq(Lines), NEW start \in Int
  PROVE  LET lines == fetch_lines(start, chunk_size)
         IN  /\ lines \in Seq(ShownLines) /\ Len(lines) <= chunk_size
             /\ lines # << >> => start >= 0 /\ start + Len(lines) <= Len(doc)
             /\ \A i \in 1 .. Len(lines) : lines[i] \in {doc[start + i], Cut}
             /\ start >= 0 /\ start < Len(doc) => lines # << >>
<1> DEFINE N == Len(doc)
           e == Less(start + chunk_size, N)
           block == IF start < 0 THEN << >> ELSE SubSeq(doc, start + 1, e)
           counts == {n \in 0 .. Len(block) : Begun(block, n)}
           k == Max(counts)
           lines == SubSeq(block, 1, k)
           answer == IF Length(lines) > MaxLen THEN [lines EXCEPT ![k] = Cut] ELSE lines
<1>1. fetch_lines(start, chunk_size) = answer
  BY DEF fetch_lines
<1>2. N \in Nat /\ chunk_size \in Nat /\ chunk_size > 0 /\ e \in Int /\ e <= start + chunk_size
      /\ e <= N /\ (e = start + chunk_size \/ e = N)
  <2>1. N \in Nat /\ chunk_size \in Nat
    BY Sizes, LenProperties
  <2>2. start + chunk_size \in Int /\ N \in Int
    BY <2>1, SMT
  <2>3. chunk_size > 0
    BY Sizes, SMT
  <2>4. QED
    BY <2>1, <2>2, <2>3, LessAndMore
<1> HIDE DEF N, e
<1>3. /\ block \in Seq(Lines) /\ Len(block) \in Nat /\ Len(block) <= chunk_size
      /\ Len(block) > 0 => start >= 0 /\ start + Len(block) <= N
      /\ \A i \in 1 .. Len(block) : block[i] = doc[start + i]
      /\ start >= 0 /\ start < N => Len(block) > 0
  <2>1. CASE start < 0
    <3>1. block = << >>
      BY <2>1
    <3> HIDE DEF block
    <3>2. Len(block) = 0 /\ block \in Seq(Lines) /\ \A i \in 1 .. Len(block) : block[i] = doc[start + i]
      BY <3>1, SMT
    <3>3. QED
      BY <1>2, <2>1, <3>2, SMT
  <2>2. CASE ~(start < 0) /\ start < e
    <3> DEFINE m == e - start
    <3>1. m \in Nat /\ start \in Nat /\ start + m = e /\ m > 0 /\ m <= chunk_size
      BY <1>2, <2>2, SMT
    <3> HIDE DEF m
    <3>2. block = SubSeq(doc, start + 1, start + m)
      BY <2>2, <3>1
    <3>3. start + m <= Len(doc)
      BY <1>2, <3>1 DEF N
    <3>4. /\ SubSeq(doc, start + 1, start + m) \in Seq(Lines)
          /\ Len(SubSeq(doc, start + 1, start + m)) = m
          /\ \A j \in 1 .. m : SubSeq(doc, start + 1, start + m)[j] = doc[start + j]
      BY <3>1, <3>3, SliceElements
    <3>5. block \in Seq(Lines) /\ Len(block) = m /\ \A j \in 1 .. m : block[j] = doc[start + j]
      BY <3>2, <3>4
    <3> HIDE DEF block
    <3>6. start >= 0 /\ start + m <= N
      BY <1>2, <3>1, SMT
    <3>7. QED
      BY <3>1, <3>5, <3>6
  <2>3. CASE ~(start < 0) /\ ~(start < e)
    <3>1. block = SubSeq(doc, start + 1, e) /\ start + 1 > e /\ start + 1 \in Int
      BY <1>2, <2>3, SMT
    <3>2. block \in Seq(Lines) /\ Len(block) = 0
      BY <1>2, <3>1, SMT
    <3> HIDE DEF block
    <3>3. ~(start < N)
      BY <1>2, <2>3, SMT
    <3>4. QED
      BY <1>2, <3>2, <3>3, SMT
  <2>4. QED
    BY <2>1, <2>2, <2>3
<1> HIDE DEF block
<1>4. k \in 0 .. Len(block) /\ (Len(block) > 0 => k > 0)
  <2>1. counts \in SUBSET (0 .. Len(block))
    OBVIOUS
  <2>2. 0 \in counts
    <3>1. 0 \in 0 .. Len(block)
      BY <1>3, SMT
    <3>2. Begun(block, 0)
      BY SMT DEF Begun
    <3>3. QED
      BY <3>1, <3>2
  <2>3. Len(block) > 0 => 1 \in counts
    <3>1. Len(block) > 0 => 1 \in 0 .. Len(block)
      BY <1>3, SMT
    <3>2. Begun(block, 1)
      BY SMT DEF Begun
    <3>3. QED
      BY <3>1, <3>2
  <2> HIDE DEF counts
  <2>4. k \in counts /\ \A y \in counts : k >= y
    BY <1>3, <2>1, <2>2, GreatestExists
  <2> HIDE DEF k
  <2>5. k \in 0 .. Len(block)
    BY <2>1, <2>4
  <2>6. Len(block) > 0 => k >= 1
    BY <2>3, <2>4
  <2>7. QED
    BY <1>3, <2>5, <2>6, SMT
<1> HIDE DEF k
<1>5. lines \in Seq(Lines) /\ Len(lines) = k /\ \A i \in 1 .. k : lines[i] = block[i]
  BY <1>3, <1>4, SMT
<1> HIDE DEF lines
<1>6. answer \in Seq(ShownLines) /\ Len(answer) = k
      /\ \A i \in 1 .. k : answer[i] \in {block[i], Cut}
  <2>1. lines \in Seq(ShownLines)
    BY <1>5, SMT DEF ShownLines
  <2>2. CASE ~(Length(lines) > MaxLen)
    <3>1. answer = lines
      BY <2>2
    <3>2. QED
      BY <1>5, <2>1, <3>1
  <2>3. CASE Length(lines) > MaxLen
    <3> DEFINE z == [lines EXCEPT ![k] = Cut]
    <3>1. z \in Seq(ShownLines) /\ Len(z) = Len(lines)
          /\ \A i \in 1 .. Len(lines) : z[i] = lines[i] \/ z[i] = Cut
      <4>1. Cut \in ShownLines
        BY DEF ShownLines
      <4>2. Len(lines) \in Nat /\ lines \in [1 .. Len(lines) -> ShownLines]
        BY <2>1, LenProperties, SeqDef
      <4> DEFINE n == Len(lines)
      <4>3. /\ z \in [1 .. n -> ShownLines]
            /\ \A i \in 1 .. n : z[i] = lines[i] \/ z[i] = Cut
        BY <4>1, <4>2
      <4> HIDE DEF z, n
      <4>4. n \in Nat
        BY <4>2 DEF n
      <4>5. z \in Seq(ShownLines) /\ DOMAIN z = 1 .. n
        BY <4>3, <4>4, SeqDef
      <4>6. z \in Seq(ShownLines) /\ Len(z) = n
        BY <4>4, <4>5, LenProperties
      <4>7. QED
        BY <4>3, <4>6 DEF n
    <3>2. answer = z
      BY <2>3
    <3> HIDE DEF z, answer
    <3>3. QED
      BY <1>5, <3>1, <3>2
  <2>4. QED
    BY <2>2, <2>3
<1> HIDE DEF answer
<1>7. \A i \in 1 .. k : answer[i] \in {doc[start + i], Cut}
  <2>1. \A i \in 1 .. k : i \in 1 .. Len(block)
    BY <1>3, <1>4, SMT
  <2>2. QED
    BY <1>3, <1>6, <2>1
<1>8. answer # << >> => k > 0
  <2>1. k = 0 => answer = << >>
    BY <1>6, EmptySeq
  <2>2. QED
    BY <1>3, <1>4, <2>1, SMT
<1>9. answer # << >> => start >= 0 /\ start + k <= N
  BY <1>2, <1>3, <1>4, <1>8, SMT
<1>10. start >= 0 /\ start < N => answer # << >>
  <2>1. Len(<< >>) = 0
    BY SMT
  <2>2. answer = << >> => k = 0
    BY <1>6, <2>1
  <2>3. QED
    BY <1>3, <1>4, <2>2, SMT
<1>11. k <= chunk_size
  BY <1>2, <1>3, <1>4, SMT
<1>12. QED
  BY <1>1, <1>6, <1>7, <1>9, <1>10, <1>11 DEF N

(* The buffer is never without a line.                                     *)
LEMMA ShownListed ==
  ASSUME NEW lines \in Seq(ShownLines)
  PROVE  /\ Shown(lines) \in Seq(ShownLines) /\ Len(Shown(lines)) \in Nat /\ Len(Shown(lines)) >= 1
         /\ Len(lines) \in Nat /\ Len(lines) <= Len(Shown(lines))
         /\ lines # << >> => Shown(lines) = lines /\ Len(lines) >= 1
         /\ PhantomOf(lines) \subseteq Drifts /\ (PhantomOf(lines) = {} => lines # << >>)
<1>1. EmptyLine \in ShownLines
  BY ViewAssumption DEF ShownLines, Lines
<1>2. CASE lines = << >>
  <2>1. Shown(lines) = <<EmptyLine>> /\ PhantomOf(lines) = {"phantom"}
    BY <1>2 DEF Shown, PhantomOf
  <2>2. <<EmptyLine>> \in Seq(ShownLines) /\ Len(<<EmptyLine>>) = 1 /\ Len(<< >>) = 0
    BY <1>1, SMT
  <2>3. Shown(lines) \in Seq(ShownLines) /\ Len(Shown(lines)) = 1 /\ Len(lines) = 0
    BY <1>2, <2>1, <2>2
  <2>4. PhantomOf(lines) \subseteq Drifts /\ PhantomOf(lines) # {}
    BY <2>1 DEF Drifts
  <2>5. 0 \in Nat /\ 1 \in Nat /\ 1 >= 1 /\ 0 <= 1
    OBVIOUS
  <2>6. QED
    BY <1>2, <2>3, <2>4, <2>5
<1>3. CASE lines # << >>
  <2>1. Shown(lines) = lines /\ PhantomOf(lines) = {}
    BY <1>3 DEF Shown, PhantomOf
  <2>2. Len(lines) \in Nat /\ Len(lines) # 0
    BY <1>3, SMT
  <2>3. Len(lines) >= 1
    BY <2>2
  <2>4. QED
    BY <1>3, <2>1, <2>2, <2>3 DEF Drifts
<1>4. QED
  BY <1>2, <1>3

-----------------------------------------------------------------------------
(* The actions.                                                            *)

(* A window that is filled shows what it says.                             *)
LEMMA FillShows ==
  ASSUME Listed, doc' = doc, NEW new_offset \in Int, NEW line \in Int, Fill(new_offset, line)
  PROVE  /\ Listed' /\ Len(buf') \in Nat /\ Len(buf') >= 1 /\ row' \in 0 .. Len(buf')
         /\ offset' = new_offset /\ drift' \subseteq Drifts /\ (drift' = {} => ShowsLines')
<1> DEFINE lines == fetch_lines(new_offset, chunk_size)
           aim == RowOf(line, new_offset)
           n == Len(lines)
<1>1. /\ buf' = Shown(lines) /\ row' = More(1, Less(aim, n)) /\ offset' = new_offset
      /\ drift' = PhantomOf(lines)
  BY DEF Fill
<1>2. /\ lines \in Seq(ShownLines)
      /\ lines # << >> => new_offset >= 0 /\ new_offset + n <= Len(doc)
      /\ \A i \in 1 .. n : lines[i] \in {doc[new_offset + i], Cut}
  BY Fetched DEF Listed
<1> HIDE DEF lines
<1>3. /\ Shown(lines) \in Seq(ShownLines) /\ Len(Shown(lines)) \in Nat /\ Len(Shown(lines)) >= 1
      /\ n \in Nat /\ n <= Len(Shown(lines))
      /\ lines # << >> => Shown(lines) = lines /\ n >= 1
      /\ PhantomOf(lines) \subseteq Drifts /\ (PhantomOf(lines) = {} => lines # << >>)
  BY <1>2, ShownListed
<1>4. Listed'
  BY <1>1, <1>3 DEF Listed
<1>5. row' \in 0 .. Len(buf')
  <2>1. aim \in Int
    BY SMT DEF RowOf
  <2> HIDE DEF aim
  <2> DEFINE m == n
  <2>0. m \in Int
    BY <1>3
  <2> HIDE DEF m
  <2>2a. Less(aim, m) \in Int /\ Less(aim, m) <= m
    BY <2>0, <2>1, LessAndMore
  <2>2. Less(aim, n) \in Int /\ Less(aim, n) <= n
    BY <2>2a DEF m
  <2> DEFINE a == Less(aim, n)
  <2> HIDE DEF a
  <2>3a. a \in Int /\ 1 \in Int
    BY <2>2 DEF a
  <2>3. More(1, a) \in Int /\ 1 <= More(1, a) /\ (More(1, a) = 1 \/ More(1, a) = a)
    BY <2>3a, LessAndMore
  <2> USE DEF a
  <2> DEFINE b == More(1, a)
             c == Len(Shown(lines))
  <2>4. b \in Int /\ 1 <= b /\ (b = 1 \/ b = a) /\ a <= n /\ n <= c /\ c >= 1 /\ n \in Nat /\ c \in Nat
        /\ a \in Int
    BY <1>3, <2>2, <2>3
  <2> HIDE DEF a, b, c, n
  <2>5. b \in 0 .. c
    BY <2>4, SMT
  <2>6. QED
    BY <1>1, <2>5 DEF a, b, c
<1>6. ASSUME drift' = {} PROVE ShowsLines'
  <2>1. lines # << >> /\ Shown(lines) = lines
    BY <1>1, <1>3, <1>6
  <2>2. buf' = lines /\ DOMAIN buf' = 1 .. n
    BY <1>1, <1>2, <2>1, LenProperties
  <2>3. offset' >= 0 /\ offset' + Len(buf') <= Len(doc')
    BY <1>1, <1>2, <2>1, <2>2
  <2>4. \A i \in DOMAIN buf' : buf'[i] \in {doc'[offset' + i], Cut'}
    BY <1>1, <1>2, <2>2
  <2>5. QED
    BY <2>3, <2>4 DEF ShowsLines
<1>7. QED
  BY <1>1, <1>3, <1>4, <1>5, <1>6

(* Where a jump puts the window.                                           *)
JumpOffset(line, known) ==
  LET new_offset == More(0, line - half_chunk)
  IN  IF complete' /\ new_offset + chunk_size > known
      THEN More(0, known - chunk_size) ELSE new_offset

(* That is in the document, and the line is in the window.                 *)
LEMMA JumpOffsetIs ==
  ASSUME NEW line \in Nat, NEW known \in Nat
  PROVE  /\ JumpOffset(line, known) \in Nat
         /\ JumpOffset(line, known) <= line
         /\ line < known => line < JumpOffset(line, known) + chunk_size
<1> DEFINE a == More(0, line - half_chunk)
           b == More(0, known - chunk_size)
           j == JumpOffset(line, known)
<1>1. /\ chunk_size \in Nat /\ half_chunk \in Nat /\ half_chunk >= 1
      /\ half_chunk + half_chunk <= chunk_size
  BY Sizes, SMT
<1>2. line - half_chunk \in Int /\ known - chunk_size \in Int
  BY <1>1, SMT
<1>3. a \in Int /\ a >= 0 /\ a >= line - half_chunk /\ (a = 0 \/ a = line - half_chunk)
  BY <1>2, SMT DEF More
<1>4. b \in Int /\ b >= 0 /\ b >= known - chunk_size /\ (b = 0 \/ b = known - chunk_size)
  BY <1>2, SMT DEF More
<1>5. j = a \/ (j = b /\ a + chunk_size > known)
  BY DEF JumpOffset
<1> HIDE DEF a, b, j
<1>6. CASE j = a
  <2>1. a \in Nat /\ a <= line /\ line < a + chunk_size
    BY <1>1, <1>3, SMT
  <2>2. QED
    BY <1>6, <2>1 DEF j
<1>7. CASE j = b /\ a + chunk_size > known
  <2>1. b \in Nat /\ b <= line /\ (line < known => line < b + chunk_size)
    BY <1>1, <1>3, <1>4, <1>7, SMT
  <2>2. QED
    BY <1>7, <2>1 DEF j
<1>8. QED
  BY <1>5, <1>6, <1>7

(* A jump shows lines of the document.                                     *)
LEMMA JumpShows ==
  ASSUME Listed, doc' = doc, NEW line \in Nat, line <= Len(doc), NEW known \in Nat,
         Jump(line, known)
  PROVE  /\ Listed' /\ Len(buf') \in Nat /\ Len(buf') >= 1 /\ row' \in 0 .. Len(buf')
         /\ offset' \in -chunk_size .. Len(doc) /\ drift' \subseteq Drifts
         /\ is_eof_mode' \in BOOLEAN /\ (drift' = {} => ShowsLines')
<1> DEFINE j == JumpOffset(line, known)
<1>1. Fill(j, line) /\ is_eof_mode' = FALSE
  BY DEF Jump, JumpOffset
<1>2. j \in Nat /\ j <= line
  BY JumpOffsetIs
<1> HIDE DEF j
<1>3. /\ Listed' /\ Len(buf') \in Nat /\ Len(buf') >= 1 /\ row' \in 0 .. Len(buf')
      /\ offset' = j /\ drift' \subseteq Drifts /\ (drift' = {} => ShowsLines')
  <2>1. j \in Int /\ line \in Int
    BY <1>2, SMT
  <2>2. QED
    BY <1>1, <2>1, FillShows
<1>4. j \in -chunk_size .. Len(doc)
  <2>1. Len(doc) \in Nat /\ chunk_size \in Nat
    BY Sizes, LenProperties DEF Listed
  <2>2. QED
    BY <1>2, <2>1, SMT
<1>5. QED
  BY <1>1, <1>3, <1>4

(* Before anything is done.                                                *)
LEMMA InitView == Init => ViewInv
<1> SUFFICES ASSUME Init PROVE ViewInv
  OBVIOUS
<1>1. /\ arrived \in 0 .. FileLines /\ doc = Range0(0, arrived) /\ complete \in BOOLEAN
      /\ total \in 0 .. arrived /\ offset = 0 /\ is_eof_mode = FALSE /\ initial_render_done = FALSE
      /\ buf = Shown(fetch_lines(0, chunk_size)) /\ row = 1 /\ timer = FALSE /\ asked = "nothing"
      /\ edits = 0
      /\ drift = PhantomOf(fetch_lines(0, chunk_size))
  BY DEF Init
<1>2. arrived \in Nat /\ 0 <= arrived
  BY <1>1, ViewAssumption, SMT
<1>3. doc \in Seq(Lines) /\ Len(doc) \in Nat /\ total \in 0 .. Len(doc)
  <2>1. doc \in Seq(Lines) /\ Len(doc) = arrived - 0
    BY <1>1, <1>2, RangeListed
  <2>2. QED
    BY <1>1, <1>2, <2>1, SMT
<1> DEFINE lines == fetch_lines(0, chunk_size)
<1>4. /\ lines \in Seq(ShownLines)
      /\ lines # << >> => 0 + Len(lines) <= Len(doc)
      /\ \A i \in 1 .. Len(lines) : lines[i] \in {doc[0 + i], Cut}
  <2> DEFINE start == 0
  <2>1. start \in Int
    OBVIOUS
  <2> HIDE DEF start
  <2>2. /\ fetch_lines(start, chunk_size) \in Seq(ShownLines)
        /\ fetch_lines(start, chunk_size) # << >> =>
             start + Len(fetch_lines(start, chunk_size)) <= Len(doc)
        /\ \A i \in 1 .. Len(fetch_lines(start, chunk_size)) :
             fetch_lines(start, chunk_size)[i] \in {doc[start + i], Cut}
    BY <1>3, <2>1, Fetched
  <2>3. QED
    BY <2>2 DEF start
<1>5. buf = Shown(lines) /\ drift = PhantomOf(lines)
  BY <1>1
<1> HIDE DEF lines
<1>6. /\ Shown(lines) \in Seq(ShownLines) /\ Len(Shown(lines)) \in Nat /\ Len(Shown(lines)) >= 1
      /\ lines # << >> => Shown(lines) = lines
      /\ PhantomOf(lines) \subseteq Drifts /\ (PhantomOf(lines) = {} => lines # << >>)
  BY <1>4, ShownListed
<1>7. Listed
  BY <1>3, <1>5, <1>6 DEF Listed
<1>8. TypeOK
  <2>1. offset \in -chunk_size .. Len(doc) /\ total \in 0 .. Len(doc)
    BY <1>1, <1>3, Sizes, SMT
  <2>2. Len(buf) >= 1 /\ row \in 0 .. Len(buf)
    BY <1>1, <1>5, <1>6, SMT
  <2>3. edits \in 0 .. MaxEdits
    BY <1>1, ViewAssumption, SMT
  <2>4. QED
    BY <1>1, <1>5, <1>6, <2>1, <2>2, <2>3 DEF TypeOK
<1>9. ASSUME drift = {} PROVE ShowsLines
  <2>1. buf = lines /\ lines # << >>
    BY <1>5, <1>6, <1>9
  <2>2. DOMAIN buf = 1 .. Len(lines)
    BY <1>4, <2>1, LenProperties
  <2>3. offset >= 0 /\ offset + Len(buf) <= Len(doc)
    BY <1>1, <1>4, <2>1
  <2>4. QED
    BY <1>1, <1>4, <2>1, <2>2, <2>3 DEF ShowsLines
<1>10. QED
  BY <1>7, <1>8, <1>9 DEF ViewInv

(* What ViewInv says of numbers.                                           *)
LEMMA ViewNumbers ==
  ASSUME ViewInv
  PROVE  /\ Listed /\ TypeOK /\ Len(doc) \in Nat /\ Len(buf) \in Nat /\ total \in Nat
         /\ total <= Len(doc) /\ offset \in Int /\ offset <= Len(doc) /\ -chunk_size <= offset
         /\ FileLines \in Nat /\ arrived \in Nat /\ arrived <= FileLines
<1>1. Listed /\ TypeOK
  BY DEF ViewInv
<1>2. Len(doc) \in Nat /\ Len(buf) \in Nat /\ chunk_size \in Nat /\ FileLines \in Nat
  BY <1>1, Sizes, ViewAssumption, LenProperties DEF Listed
<1>3. total \in 0 .. Len(doc) /\ offset \in -chunk_size .. Len(doc) /\ arrived \in 0 .. FileLines
  BY <1>1 DEF TypeOK
<1>4. QED
  BY <1>1, <1>2, <1>3, SMT

(* A window that lies in the document lies in a longer one.                *)
LEMMA GrowsView == ASSUME ViewInv, IndexGrows PROVE ViewInv'
<1> DEFINE more == Range0(arrived, arrived')
           N == Len(doc)
<1>1. /\ arrived' \in arrived + 1 .. FileLines /\ doc' = doc \o more
      /\ UNCHANGED <<complete, total, offset, is_eof_mode, initial_render_done>>
      /\ UNCHANGED <<buf, row, timer, asked, edits, drift>>
  BY DEF IndexGrows, state
<1>2. /\ Listed /\ TypeOK /\ N \in Nat /\ total \in Nat /\ total <= N /\ offset \in Int
      /\ offset <= N /\ -chunk_size <= offset /\ FileLines \in Nat /\ arrived \in Nat
      /\ Len(buf) \in Nat
  BY ViewNumbers
<1>3. arrived' \in Nat /\ arrived <= arrived' /\ arrived' <= FileLines
  BY <1>1, <1>2, SMT
<1>4. more \in Seq(Lines) /\ Len(more) \in Nat /\ doc \in Seq(Lines)
  BY <1>2, <1>3, RangeListed, LenProperties DEF Listed
<1> HIDE DEF more
<1>5. /\ doc' \in Seq(Lines) /\ Len(doc') = N + Len(more)
      /\ \A j \in 1 .. N + Len(more) : doc'[j] = IF j <= N THEN doc[j] ELSE more[j - N]
  BY <1>1, <1>4, ConcatElements, Zenon
<1>6. Listed'
  BY <1>1, <1>2, <1>5 DEF Listed
<1>7. TypeOK'
  <2>1. /\ arrived' \in 0 .. FileLines /\ total' \in 0 .. Len(doc')
        /\ offset' \in -chunk_size .. Len(doc')
    BY <1>1, <1>2, <1>3, <1>4, <1>5, Sizes, SMT
  <2>2. QED
    BY <1>1, <1>2, <2>1 DEF TypeOK
<1>8. ASSUME drift' = {}, ~is_eof_mode' PROVE ShowsLines'
  <2>1. ShowsLines
    BY <1>1, <1>8 DEF ViewInv
  <2>2. offset >= 0 /\ offset + Len(buf) <= N /\ DOMAIN buf = 1 .. Len(buf)
    BY <1>2, <2>1, LenProperties DEF ShowsLines, Listed
  <2>3. offset' >= 0 /\ offset' + Len(buf') <= Len(doc')
    BY <1>1, <1>2, <1>4, <1>5, <2>2, SMT
  <2>4. ASSUME NEW i \in 1 .. Len(buf) PROVE doc'[offset + i] = doc[offset + i]
    <3>1. offset + i \in 1 .. N + Len(more) /\ offset + i <= N
      BY <1>2, <1>4, <2>2, SMT
    <3>2. QED
      BY <1>5, <3>1
  <2>5. \A i \in DOMAIN buf' : buf'[i] \in {doc'[offset' + i], Cut'}
    BY <1>1, <2>1, <2>2, <2>4 DEF ShowsLines
  <2>6. QED
    BY <2>3, <2>5 DEF ShowsLines
<1>9. QED
  BY <1>6, <1>7, <1>8 DEF ViewInv

(* Every jump keeps the invariant, whatever total it works with.           *)
LEMMA JumpView ==
  ASSUME ViewInv, NEW line \in Nat, line <= Len(doc), NEW known \in Nat, Jump(line, known),
         UNCHANGED <<engine, timer, edits>>, complete' \in BOOLEAN, total' \in 0 .. Len(doc),
         initial_render_done' \in BOOLEAN, asked' \in {"nothing", "progress", "total"}
  PROVE  ViewInv'
<1>1. doc' = doc /\ arrived' = arrived /\ timer' = timer /\ edits' = edits
  BY DEF engine
<1>2. Listed /\ TypeOK
  BY ViewNumbers
<1>3. /\ Listed' /\ Len(buf') \in Nat /\ Len(buf') >= 1 /\ row' \in 0 .. Len(buf')
      /\ offset' \in -chunk_size .. Len(doc) /\ drift' \subseteq Drifts
      /\ is_eof_mode' \in BOOLEAN /\ (drift' = {} => ShowsLines')
  BY <1>1, <1>2, JumpShows
<1>4. TypeOK'
  BY <1>1, <1>2, <1>3 DEF TypeOK
<1>5. QED
  BY <1>3, <1>4 DEF ViewInv

(* A jump to a line of the document.                                       *)
LEMMA JumpToLineView ==
  ASSUME ViewInv, NEW line \in 0 .. Len(doc), JumpToLine(line) PROVE ViewInv'
<1>1. /\ complete' = complete /\ Jump(line, total) /\ asked' = asked
      /\ UNCHANGED <<engine, total, initial_render_done, timer, edits>>
  BY DEF JumpToLine, Callback
<1>2. Len(doc) \in Nat /\ total \in Nat /\ TypeOK
  BY ViewNumbers
<1>3. line \in Nat /\ line <= Len(doc)
  BY <1>2, SMT
<1>4. /\ complete' \in BOOLEAN /\ total' \in 0 .. Len(doc) /\ initial_render_done' \in BOOLEAN
      /\ asked' \in {"nothing", "progress", "total"}
  BY <1>1, <1>2 DEF TypeOK
<1>5. QED
  BY <1>1, <1>2, <1>3, <1>4, JumpView

(* The end of the document, or that of the file while it is indexed.       *)
LEMMA JumpToEofView == ASSUME ViewInv, JumpToEof PROVE ViewInv'
<1>1. /\ complete' = complete /\ asked' = asked
      /\ UNCHANGED <<engine, total, initial_render_done, timer, edits>>
  BY DEF JumpToEof, Callback
<1>2. /\ Len(doc) \in Nat /\ total \in Nat /\ TypeOK /\ total <= Len(doc) /\ FileLines \in Nat
      /\ Listed
  BY ViewNumbers
<1>3. CASE complete
  <2> DEFINE line == More(0, total - 1)
  <2>1. Jump(line, total)
    BY <1>3 DEF JumpToEof
  <2>2. line \in Nat /\ line <= Len(doc)
    BY <1>2, SMT DEF More
  <2>3. /\ complete' \in BOOLEAN /\ total' \in 0 .. Len(doc) /\ initial_render_done' \in BOOLEAN
        /\ asked' \in {"nothing", "progress", "total"}
    BY <1>1, <1>2 DEF TypeOK
  <2> HIDE DEF line
  <2>4. QED
    BY <1>1, <1>2, <2>1, <2>2, <2>3, JumpView
<1>4. CASE ~complete
  <2> DEFINE from == More(0, FileLines - chunk_size)
             lines == Range0(from, FileLines)
  <2>1. /\ is_eof_mode' = TRUE /\ buf' = Shown(lines) /\ row' = More(1, Len(lines))
        /\ offset' = offset /\ drift' = drift
    BY <1>4 DEF JumpToEof
  <2>2. from \in Nat /\ from <= FileLines
    BY <1>2, Sizes, SMT DEF More
  <2>3. lines \in Seq(Lines)
    BY <1>2, <2>2, RangeListed
  <2> HIDE DEF lines
  <2>4. lines \in Seq(ShownLines)
    BY <2>3, SMT DEF ShownLines
  <2>5. /\ Shown(lines) \in Seq(ShownLines) /\ Len(Shown(lines)) \in Nat /\ Len(Shown(lines)) >= 1
        /\ Len(lines) \in Nat /\ Len(lines) <= Len(Shown(lines))
    BY <2>4, ShownListed
  <2>6. row' \in 0 .. Len(buf') /\ Len(buf') >= 1
    <3> DEFINE n == Len(lines)
               m == Len(Shown(lines))
    <3>1. n \in Nat /\ m \in Nat /\ m >= 1 /\ n <= m
      BY <2>5
    <3> HIDE DEF n, m
    <3>2. More(1, n) \in 0 .. m
      BY <3>1, SMT DEF More
    <3>3. QED
      BY <2>1, <2>5, <3>2 DEF n, m
  <2>7. doc' = doc /\ arrived' = arrived
    BY <1>1 DEF engine
  <2>8. Listed' /\ TypeOK'
    BY <1>1, <1>2, <2>1, <2>5, <2>6, <2>7 DEF Listed, TypeOK
  <2>9. QED
    BY <2>1, <2>8 DEF ViewInv
<1>5. QED
  BY <1>3, <1>4

(* The cursor moves, the text stays.                                       *)
LEMMA CursorView == ASSUME ViewInv, CursorMoved PROVE ViewInv'
<1>1. /\ row' = 0 /\ timer' = (timer \/ ~is_eof_mode)
      /\ UNCHANGED <<doc, arrived, complete, total, offset, is_eof_mode, initial_render_done>>
      /\ UNCHANGED <<buf, asked, edits, drift>>
  BY DEF CursorMoved, Callback, engine, state
<1>2. Listed /\ TypeOK /\ Len(buf) \in Nat
  BY ViewNumbers
<1>3. 0 \in 0 .. Len(buf)
  BY <1>2, SMT
<1>4. Listed' /\ TypeOK'
  BY <1>1, <1>2, <1>3 DEF Listed, TypeOK
<1>5. drift' = {} /\ ~is_eof_mode' => ShowsLines'
  BY <1>1 DEF ViewInv, ShowsLines
<1>6. QED
  BY <1>4, <1>5 DEF ViewInv

(* What the poll asks first leaves the window alone.                       *)
LEMMA PollAskView == ASSUME ViewInv, PollProgress \/ PollTotal PROVE ViewInv'
<1>1. /\ Len(doc) \in Nat /\ TypeOK /\ Listed
  BY ViewNumbers
<1>2. /\ UNCHANGED <<doc, arrived, offset, is_eof_mode, initial_render_done>>
      /\ UNCHANGED <<buf, row, timer, edits, drift>>
      /\ asked' \in {"progress", "total"}
  BY DEF PollProgress, PollTotal, engine
<1>3. complete' \in BOOLEAN /\ total' \in 0 .. Len(doc)
  <2>1. CASE PollProgress
    BY <1>1, <2>1 DEF PollProgress, TypeOK
  <2>2. CASE PollTotal
    <3>1. total' = Len(doc) /\ complete' = complete
      BY <2>2 DEF PollTotal
    <3>2. Len(doc) \in 0 .. Len(doc)
      BY <1>1, SMT
    <3>3. QED
      BY <1>1, <3>1, <3>2 DEF TypeOK
  <2>3. QED
    BY <2>1, <2>2
<1>4. Listed' /\ TypeOK'
  BY <1>1, <1>2, <1>3 DEF Listed, TypeOK
<1>5. drift' = {} /\ ~is_eof_mode' => ShowsLines'
  BY <1>2 DEF ViewInv, ShowsLines
<1>6. QED
  BY <1>4, <1>5 DEF ViewInv

(* The poll shows the first lines once, or renumbers a view of the end.    *)
LEMMA PollView == ASSUME ViewInv, PollShow PROVE ViewInv'
<1>1. /\ complete' = complete /\ total' = total /\ asked' = "nothing"
      /\ initial_render_done' = (initial_render_done \/ total > 0)
      /\ UNCHANGED <<engine, timer, edits>>
  BY DEF PollShow
<1>2. /\ Len(doc) \in Nat /\ TypeOK /\ Listed /\ Len(buf) \in Nat
      /\ total \in Nat /\ total <= Len(doc)
  BY ViewNumbers
<1>3. doc' = doc /\ arrived' = arrived
  BY <1>1 DEF engine
<1>4. /\ total' \in 0 .. Len(doc) /\ complete' \in BOOLEAN /\ initial_render_done' \in BOOLEAN
      /\ asked' \in {"nothing", "progress", "total"}
  BY <1>1, <1>2 DEF TypeOK
<1>5. CASE complete /\ is_eof_mode
  <2> DEFINE line == More(0, total - 1)
  <2>1. Jump(line, total)
    BY <1>5 DEF PollShow
  <2>2. line \in Nat /\ line <= Len(doc)
    BY <1>2, SMT DEF More
  <2> HIDE DEF line
  <2>3. QED
    BY <1>1, <1>2, <1>4, <2>1, <2>2, JumpView
<1>6. CASE ~(complete /\ is_eof_mode) /\ ~initial_render_done /\ total > 0
  <2> DEFINE start == 0
             lines == fetch_lines(start, chunk_size)
  <2>1. /\ buf' = Shown(lines) /\ row' = 1 /\ offset' = offset /\ is_eof_mode' = is_eof_mode
        /\ drift' = IF offset = 0 THEN {} ELSE {"rerender"}
    BY <1>6 DEF PollShow
  <2>2. start \in Int /\ start = 0
    OBVIOUS
  <2> HIDE DEF start
  <2>3. /\ lines \in Seq(ShownLines)
        /\ lines # << >> => start + Len(lines) <= Len(doc)
        /\ \A i \in 1 .. Len(lines) : lines[i] \in {doc[start + i], Cut}
        /\ start >= 0 /\ start < Len(doc) => lines # << >>
    BY <1>2, <2>2, Fetched DEF Listed
  <2>4. start >= 0 /\ start < Len(doc)
    BY <1>1, <1>2, <1>6, <2>2, SMT
  <2> HIDE DEF lines
  <2>5. /\ Shown(lines) = lines /\ Len(lines) \in Nat /\ Len(lines) >= 1
        /\ DOMAIN lines = 1 .. Len(lines)
    BY <2>3, <2>4, ShownListed, LenProperties
  <2>6. Listed' /\ Len(buf') >= 1 /\ row' \in 0 .. Len(buf')
    <3>1. 1 \in 0 .. Len(lines)
      BY <2>5, SMT
    <3>2. QED
      BY <1>2, <1>3, <2>1, <2>3, <2>5, <3>1 DEF Listed
  <2>7. TypeOK'
    BY <1>1, <1>2, <1>3, <1>4, <2>1, <2>6 DEF TypeOK, Drifts
  <2>8. ASSUME drift' = {} PROVE ShowsLines'
    <3>1. offset' = start
      BY <2>1, <2>2, <2>8
    <3>2. offset' >= 0 /\ offset' + Len(buf') <= Len(doc')
      BY <1>3, <2>1, <2>3, <2>4, <2>5, <3>1
    <3>3. \A i \in DOMAIN buf' : buf'[i] \in {doc'[offset' + i], Cut'}
      BY <1>3, <2>1, <2>3, <2>5, <3>1
    <3>4. QED
      BY <3>2, <3>3 DEF ShowsLines
  <2>9. QED
    BY <2>6, <2>7, <2>8 DEF ViewInv
<1>7. CASE ~(complete /\ is_eof_mode) /\ ~(~initial_render_done /\ total > 0)
  <2>1. UNCHANGED <<buf, row, drift>> /\ UNCHANGED <<offset, is_eof_mode>>
    BY <1>7 DEF PollShow
  <2>2. Listed' /\ TypeOK'
    BY <1>1, <1>2, <1>3, <1>4, <2>1 DEF Listed, TypeOK
  <2>3. drift' = {} /\ ~is_eof_mode' => ShowsLines'
    BY <1>3, <2>1 DEF ViewInv, ShowsLines
  <2>4. QED
    BY <2>2, <2>3 DEF ViewInv
<1>8. QED
  BY <1>5, <1>6, <1>7

(* Where a shift puts the window.                                          *)
LEMMA NewOffsetIs ==
  ASSUME ViewInv, NEW r \in Nat
  PROVE  /\ NewOffset(r) \in Int /\ -chunk_size <= NewOffset(r) /\ NewOffset(r) <= Len(doc)
         /\ LineAt(r) \in Int
<1>1. /\ Len(doc) \in Nat /\ Len(buf) \in Nat /\ total \in Nat /\ total <= Len(doc)
      /\ offset \in Int /\ offset <= Len(doc) /\ -chunk_size <= offset
  BY ViewNumbers
<1>2. chunk_size \in Nat /\ half_chunk \in Nat
  BY Sizes
<1>3. BottomOffset \in Int /\ -chunk_size <= BottomOffset /\ BottomOffset <= Len(doc)
  BY <1>1, <1>2, SMT DEF BottomOffset
<1>4. offset > 0 =>
        /\ More(0, offset - half_chunk) \in Int /\ -chunk_size <= More(0, offset - half_chunk)
        /\ More(0, offset - half_chunk) <= Len(doc)
  BY <1>1, <1>2, SMT DEF More
<1>5. LineAt(r) \in Int
  BY <1>1, SMT DEF LineAt
<1>6. QED
  BY <1>1, <1>3, <1>4, <1>5 DEF NewOffset, AtTop

(* The window moves, or the timer has fired in vain.                       *)
LEMMA ShiftView == ASSUME ViewInv, NEW r \in Nat, Shift(r) PROVE ViewInv'
<1>1. /\ timer' = FALSE /\ asked' = asked
      /\ UNCHANGED <<engine, complete, total, is_eof_mode, initial_render_done, edits>>
  BY DEF Shift, Callback
<1>2. /\ Len(doc) \in Nat /\ TypeOK /\ Listed /\ Len(buf) \in Nat
  BY ViewNumbers
<1>3. doc' = doc /\ arrived' = arrived
  BY <1>1 DEF engine
<1> DEFINE to == NewOffset(r)
<1>4. CASE to # offset
  <2>1. Fill(to, LineAt(r))
    BY <1>4 DEF Shift
  <2>2. to \in Int /\ -chunk_size <= to /\ to <= Len(doc) /\ LineAt(r) \in Int
    BY NewOffsetIs
  <2> HIDE DEF to
  <2>3. /\ Listed' /\ Len(buf') \in Nat /\ Len(buf') >= 1 /\ row' \in 0 .. Len(buf')
        /\ offset' = to /\ drift' \subseteq Drifts /\ (drift' = {} => ShowsLines')
    BY <1>2, <1>3, <2>1, <2>2, FillShows
  <2>4. to \in -chunk_size .. Len(doc)
    BY <1>2, <2>2, Sizes, SMT
  <2>5. TypeOK'
    BY <1>1, <1>2, <1>3, <2>3, <2>4 DEF TypeOK
  <2>6. QED
    BY <2>3, <2>5 DEF ViewInv
<1>5. CASE ~(to # offset)
  <2>1. UNCHANGED <<buf, row, offset, drift>>
    BY <1>5 DEF Shift
  <2>2. Listed' /\ TypeOK'
    BY <1>1, <1>2, <1>3, <2>1 DEF Listed, TypeOK
  <2>3. drift' = {} /\ ~is_eof_mode' => ShowsLines'
    BY <1>1, <1>3, <2>1 DEF ViewInv, ShowsLines
  <2>4. QED
    BY <2>2, <2>3 DEF ViewInv
<1>6. QED
  BY <1>4, <1>5

(* A list in which d elements behind the first a were replaced by x.       *)
Replaced(s, a, d, x) == SubSeq(s, 1, a) \o x \o SubSeq(s, a + d + 1, Len(s))

(* How many elements are left behind the replaced ones.                    *)
Rest(s, a, d) == IF a + d <= Len(s) THEN Len(s) - (a + d) ELSE 0

(* w is the first a of s, then x, then the k that follow d more of s.      *)
Spliced(w, s, a, d, x, k, S) ==
  /\ w \in Seq(S) /\ Len(w) = a + Len(x) + k /\ k \in Nat
  /\ \A i \in 1 .. a : w[i] = s[i]
  /\ \A i \in 1 .. Len(x) : w[a + i] = x[i]
  /\ \A i \in 1 .. k : w[a + Len(x) + i] = s[a + d + i]

(* What is where in it.                                                    *)
LEMMA ReplacedIs ==
  ASSUME NEW S, NEW s \in Seq(S), NEW a \in Nat, NEW d \in Nat, a <= Len(s), NEW x \in Seq(S)
  PROVE  Spliced(Replaced(s, a, d, x), s, a, d, x, Rest(s, a, d), S)
<1> DEFINE u == SubSeq(s, 1, a)
           v == SubSeq(s, a + d + 1, Len(s))
           k == Rest(s, a, d)
           p == u \o x
           w == p \o v
           m == Len(x)
<1>1. Len(s) \in Nat /\ k \in Nat /\ m \in Nat
  BY LenProperties, SMT DEF Rest
<1>2. u \in Seq(S) /\ Len(u) = a /\ \A i \in 1 .. a : u[i] = s[i]
  BY <1>1, SMT
<1>3. v \in Seq(S) /\ Len(v) = k /\ \A i \in 1 .. k : v[i] = s[a + d + i]
  <2>1. CASE a + d <= Len(s)
    <3>1. k = Len(s) - (a + d)
      BY <2>1 DEF Rest
    <3>2. v \in Seq(S) /\ Len(v) = Len(s) - (a + d)
          /\ \A i \in 1 .. Len(s) - (a + d) : v[i] = s[a + d + i]
      BY <1>1, <2>1, SMT
    <3>3. QED
      BY <3>1, <3>2
  <2>2. CASE ~(a + d <= Len(s))
    <3>1. k = 0
      BY <2>2 DEF Rest
    <3>2. v \in Seq(S) /\ Len(v) = 0
      BY <1>1, <2>2, SMT
    <3>3. \A i \in 1 .. 0 : FALSE
      OBVIOUS
    <3>4. QED
      BY <3>1, <3>2, <3>3
  <2>3. QED
    BY <2>1, <2>2
<1>4. Replaced(s, a, d, x) = w
  BY DEF Replaced
<1> HIDE DEF u, v, k, w, p
<1>5. p \in Seq(S) /\ Len(p) = a + m /\ \A i \in 1 .. a + m : p[i] = IF i <= a THEN u[i] ELSE x[i - a]
  <2>1. /\ p \in Seq(S) /\ Len(p) = Len(u) + Len(x)
        /\ \A i \in 1 .. Len(u) + Len(x) : p[i] = IF i <= Len(u) THEN u[i] ELSE x[i - Len(u)]
    BY <1>2, ConcatElements, Zenon DEF p
  <2>2. QED
    BY <1>2, <2>1
<1>6. /\ w \in Seq(S) /\ Len(w) = a + m + k
      /\ \A i \in 1 .. a + m + k : w[i] = IF i <= a + m THEN p[i] ELSE v[i - (a + m)]
  <2>1. /\ w \in Seq(S) /\ Len(w) = Len(p) + Len(v)
        /\ \A i \in 1 .. Len(p) + Len(v) : w[i] = IF i <= Len(p) THEN p[i] ELSE v[i - Len(p)]
    BY <1>3, <1>5, ConcatElements, Zenon DEF w
  <2>2. QED
    BY <1>3, <1>5, <2>1
<1> HIDE DEF m
<1>7. ASSUME NEW i \in 1 .. a PROVE w[i] = s[i]
  <2>1. i \in 1 .. a + m + k /\ i <= a + m /\ i \in 1 .. a + m /\ i <= a
    BY <1>1, SMT
  <2>2. QED
    BY <1>2, <1>5, <1>6, <2>1
<1>8. ASSUME NEW i \in 1 .. m PROVE w[a + i] = x[i]
  <2>1. /\ a + i \in 1 .. a + m + k /\ a + i <= a + m /\ a + i \in 1 .. a + m /\ ~(a + i <= a)
        /\ (a + i) - a = i
    BY <1>1, SMT
  <2>2. QED
    BY <1>5, <1>6, <2>1
<1>9. ASSUME NEW i \in 1 .. k PROVE w[a + m + i] = s[a + d + i]
  <2>1. /\ a + m + i \in 1 .. a + m + k /\ ~(a + m + i <= a + m) /\ (a + m + i) - (a + m) = i
    BY <1>1, SMT
  <2>2. QED
    BY <1>3, <1>6, <2>1
<1>10. Spliced(w, s, a, d, x, k, S)
  BY <1>1, <1>6, <1>7, <1>8, <1>9 DEF Spliced, m
<1>11. QED
  BY <1>4, <1>10 DEF k

(* The text of an edit is a list of typed lines.                           *)
LEMMA TextIs ==
  ASSUME NEW lines \in Seq(Text)
  PROVE  TextLines(lines) \in Seq(Text)
<1>1. lines # << >> => Front(lines) \in Seq(Text)
  BY SMT DEF Front
<1>2. QED
  BY <1>1 DEF TextLines

(* An edit in the window does the same to the document behind the window's *)
(* beginning as to the buffer.                                             *)
LEMMA EditShows ==
  ASSUME Listed, Len(doc) \in Nat, Len(buf) \in Nat, offset \in Int, ShowsLines,
         NEW first \in Nat, NEW deleted \in Nat, first + deleted <= Len(buf),
         NEW lines \in Seq(Text)
  PROVE  LET d == Replaced(doc, offset + first, deleted, lines)
             b == Replaced(buf, first, deleted, lines)
         IN  /\ offset + Len(b) <= Len(d)
             /\ \A i \in DOMAIN b : b[i] \in {d[offset + i], Cut}
<1> DEFINE at == offset + first
           d == Replaced(doc, at, deleted, lines)
           b == Replaced(buf, first, deleted, lines)
           m == Len(lines)
           kd == Rest(doc, at, deleted)
           kb == Rest(buf, first, deleted)
           N == Len(doc)
           n == Len(buf)
<1>1. /\ offset >= 0 /\ offset + n <= N /\ DOMAIN buf = 1 .. n
      /\ \A i \in 1 .. n : buf[i] \in {doc[offset + i], Cut}
  BY LenProperties DEF ShowsLines, Listed
<1>2. lines \in Seq(Lines) /\ lines \in Seq(ShownLines) /\ m \in Nat
  BY SMT DEF Lines, ShownLines
<1>3. /\ doc \in Seq(Lines) /\ buf \in Seq(ShownLines) /\ at \in Nat /\ at <= Len(doc)
      /\ first <= Len(buf) /\ N \in Nat /\ n \in Nat
  BY <1>1, SMT DEF Listed
<1> HIDE DEF at
<1>4. /\ d \in Seq(Lines) /\ Len(d) = at + m + kd /\ kd \in Nat
      /\ \A i \in 1 .. at : d[i] = doc[i]
      /\ \A i \in 1 .. m : d[at + i] = lines[i]
      /\ \A i \in 1 .. kd : d[at + m + i] = doc[at + deleted + i]
  <2>1. doc \in Seq(Lines) /\ at \in Nat /\ at <= Len(doc) /\ lines \in Seq(Lines)
    BY <1>2, <1>3
  <2>2. Spliced(d, doc, at, deleted, lines, kd, Lines)
    BY <2>1, ReplacedIs
  <2> HIDE DEF d, kd
  <2>3. QED
    BY <2>2 DEF Spliced
<1>5. /\ b \in Seq(ShownLines) /\ Len(b) = first + m + kb /\ kb \in Nat
      /\ \A i \in 1 .. first : b[i] = buf[i]
      /\ \A i \in 1 .. m : b[first + i] = lines[i]
      /\ \A i \in 1 .. kb : b[first + m + i] = buf[first + deleted + i]
  <2>1. buf \in Seq(ShownLines) /\ first <= Len(buf) /\ lines \in Seq(ShownLines)
    BY <1>2, <1>3
  <2>2. Spliced(b, buf, first, deleted, lines, kb, ShownLines)
    BY <2>1, ReplacedIs
  <2> HIDE DEF b, kb
  <2>3. QED
    BY <2>2 DEF Spliced
<1>6. at = offset + first
  BY DEF at
<1>7. kb = n - (first + deleted) /\ kd = N - (at + deleted)
  <2>1. at + deleted <= N
    BY <1>1, <1>3, <1>6, SMT
  <2>2. QED
    BY <1>3, <2>1 DEF Rest
<1> HIDE DEF d, b, m, kd, kb, N, n
<1>8. offset + Len(b) <= Len(d)
  <2>1. offset + (first + m + kb) <= at + m + kd
    BY <1>1, <1>2, <1>3, <1>4, <1>5, <1>6, <1>7, SMT
  <2>2. QED
    BY <1>4, <1>5, <2>1
<1>9. DOMAIN b = 1 .. first + m + kb
  BY <1>5, LenProperties
<1>10. ASSUME NEW i \in 1 .. first + m + kb PROVE b[i] \in {d[offset + i], Cut}
  <2>1. CASE i <= first
    <3>1. i \in 1 .. first /\ i \in 1 .. n /\ offset + i \in 1 .. at
      BY <1>1, <1>3, <1>6, <2>1, SMT DEF n
    <3>2. QED
      BY <1>1, <1>4, <1>5, <3>1
  <2>2. CASE ~(i <= first) /\ i <= first + m
    <3> DEFINE j == i - first
    <3>1. j \in 1 .. m /\ first + j = i /\ at + j = offset + i
      BY <1>2, <1>3, <1>6, <2>2, SMT
    <3> HIDE DEF j
    <3>2. b[first + j] = lines[j] /\ d[at + j] = lines[j]
      BY <1>4, <1>5, <3>1
    <3>3. QED
      BY <3>1, <3>2
  <2>3. CASE ~(i <= first) /\ ~(i <= first + m)
    <3> DEFINE j == i - (first + m)
               q == first + deleted + j
    <3>1. /\ j \in 1 .. kb /\ first + m + j = i /\ at + m + j = offset + i
          /\ j \in 1 .. kd /\ q \in 1 .. n /\ offset + q = at + deleted + j
      BY <1>1, <1>2, <1>3, <1>4, <1>5, <1>6, <1>7, <2>3, SMT
    <3> HIDE DEF j
    <3>2. b[first + m + j] = buf[first + deleted + j] /\ d[at + m + j] = doc[at + deleted + j]
      BY <1>4, <1>5, <3>1
    <3>3. buf[q] \in {doc[offset + q], Cut}
      BY <1>1, <3>1
    <3>4. QED
      BY <3>1, <3>2, <3>3
  <2>4. QED
    BY <2>1, <2>2, <2>3
<1>11. QED
  BY <1>8, <1>9, <1>10 DEF d, b, at

(* What an edit leaves of the document is at least what lies before the    *)
(* window, and what was typed is of the document.                          *)
LEMMA EditedIs ==
  ASSUME ViewInv, NEW first \in Nat, NEW deleted \in Nat, NEW text \in Seq(Text)
  PROVE  LET d == Edited(offset + first, deleted, text)
         IN  /\ d \in Seq(Lines) /\ Len(d) \in Nat /\ offset <= Len(d)
             /\ offset >= 0 /\ offset + first <= Len(doc) =>
                  d = Replaced(doc, offset + first, deleted, text)
<1> DEFINE N == Len(doc)
           start == offset + first
           at == IF start \in 0 .. N THEN start ELSE N
           d == Edited(start, deleted, text)
<1>1. N \in Nat /\ offset \in Int /\ offset <= N /\ doc \in Seq(Lines)
  BY ViewNumbers DEF Listed
<1>2. d = Replaced(doc, at, deleted, text)
  BY DEF Edited, Replaced
<1>3. at \in Nat /\ at <= N /\ offset <= at
  BY <1>1, SMT
<1>4. offset >= 0 /\ start <= N => at = start
  BY <1>1, SMT
<1>5. text \in Seq(Lines) /\ Len(text) \in Nat
  BY SMT DEF Lines
<1> HIDE DEF at, d, start
<1> DEFINE k == Rest(doc, at, deleted)
<1>6. Spliced(d, doc, at, deleted, text, k, Lines)
  BY <1>1, <1>2, <1>3, <1>5, ReplacedIs
<1> HIDE DEF k
<1>7. d \in Seq(Lines) /\ Len(d) = at + Len(text) + k /\ k \in Nat
  BY <1>6 DEF Spliced
<1>8. Len(d) \in Nat /\ offset <= Len(d)
  BY <1>1, <1>3, <1>5, <1>7, SMT
<1>9. QED
  BY <1>2, <1>4, <1>7, <1>8 DEF d, start

(* An edit changes the window and the document alike, or leaves a drift.   *)
LEMMA EditView ==
  ASSUME ViewInv, NEW first \in 0 .. Len(buf), NEW deleted \in 0 .. MaxDelete,
         NEW lines \in Inserts, UserEdit(first, deleted, lines)
  PROVE  ViewInv'
<1> DEFINE new_buf == SubSeq(buf, 1, first) \o lines
                      \o SubSeq(buf, first + deleted + 1, Len(buf))
           lost == lines # TextLines(lines) \/ new_buf = << >>
           text == TextLines(lines)
<1>1. /\ edits < MaxEdits /\ edits' = edits + 1 /\ first + deleted <= Len(buf)
      /\ buf' = Shown(new_buf) /\ row' = 0
      /\ complete =>
           /\ doc' = Edited(EditLine(first), deleted, text) /\ total' = Len(doc')
           /\ drift' = drift \union (IF lost THEN {"blank"} ELSE {})
      /\ ~complete => drift' = drift \union {"dropped"} /\ UNCHANGED <<doc, total>>
      /\ UNCHANGED <<arrived, complete, offset, is_eof_mode, initial_render_done, timer, asked>>
  BY DEF UserEdit, Callback
<1>2. /\ Listed /\ TypeOK /\ Len(doc) \in Nat /\ Len(buf) \in Nat /\ offset \in Int
      /\ -chunk_size <= offset /\ offset <= Len(doc)
  BY ViewNumbers
<1>3. first \in Nat /\ deleted \in Nat /\ first <= Len(buf) /\ lines \in Seq(Text)
  BY <1>2, ViewAssumption, SMT
<1>4. new_buf = Replaced(buf, first, deleted, lines)
  BY DEF Replaced
<1>5. text \in Seq(Text)
  BY <1>3, TextIs
<1> HIDE DEF new_buf, text
<1>6. new_buf \in Seq(ShownLines)
  <2>1. buf \in Seq(ShownLines) /\ lines \in Seq(ShownLines)
    BY <1>2, <1>3, SMT DEF Listed, ShownLines, Lines
  <2> DEFINE k == Rest(buf, first, deleted)
  <2>2. Spliced(new_buf, buf, first, deleted, lines, k, ShownLines)
    BY <1>3, <1>4, <2>1, ReplacedIs
  <2> HIDE DEF k
  <2>3. QED
    BY <2>2 DEF Spliced
<1>7. /\ Shown(new_buf) \in Seq(ShownLines) /\ Len(Shown(new_buf)) \in Nat
      /\ Len(Shown(new_buf)) >= 1 /\ (new_buf # << >> => Shown(new_buf) = new_buf)
  BY <1>6, ShownListed
<1>8. complete =>
        /\ doc' \in Seq(Lines) /\ Len(doc') \in Nat /\ offset <= Len(doc')
        /\ offset >= 0 /\ offset + first <= Len(doc) =>
             doc' = Replaced(doc, offset + first, deleted, text)
  BY <1>1, <1>3, <1>5, EditedIs DEF EditLine
<1>9. /\ doc' \in Seq(Lines) /\ Len(doc') \in Nat /\ offset <= Len(doc')
      /\ total' \in 0 .. Len(doc')
  <2>1. CASE complete
    <3>1. Len(doc') \in 0 .. Len(doc')
      BY <1>8, <2>1, SMT
    <3>2. QED
      BY <1>1, <1>8, <2>1, <3>1
  <2>2. CASE ~complete
    BY <1>1, <1>2, <2>2 DEF Listed, TypeOK
  <2>3. QED
    BY <2>1, <2>2
<1>10. Listed'
  BY <1>1, <1>7, <1>9 DEF Listed
<1>11. TypeOK'
  <2>1. offset' \in -chunk_size .. Len(doc')
    BY <1>1, <1>2, <1>9, Sizes, SMT
  <2>2. row' \in 0 .. Len(buf') /\ Len(buf') >= 1
    <3>1. 0 \in 0 .. Len(Shown(new_buf))
      BY <1>7, SMT
    <3>2. QED
      BY <1>1, <1>7, <3>1
  <2>3. edits' \in 0 .. MaxEdits
    <3>1. edits \in 0 .. MaxEdits
      BY <1>2 DEF TypeOK
    <3>2. QED
      BY <1>1, <3>1, ViewAssumption, SMT
  <2>4. drift' \subseteq Drifts
    BY <1>1, <1>2 DEF TypeOK, Drifts
  <2>5. QED
    BY <1>1, <1>2, <1>9, <2>1, <2>2, <2>3, <2>4 DEF TypeOK
<1>12. ASSUME drift' = {}, ~is_eof_mode' PROVE ShowsLines'
  <2>1. complete /\ drift = {} /\ ~lost
    BY <1>1, <1>12
  <2>2. text = lines /\ Shown(new_buf) = new_buf
    BY <1>7, <2>1 DEF text
  <2>3. ShowsLines
    BY <1>1, <1>12, <2>1 DEF ViewInv
  <2>4. offset >= 0 /\ offset + first <= Len(doc)
    BY <1>2, <1>3, <2>3, SMT DEF ShowsLines
  <2>5. doc' = Replaced(doc, offset + first, deleted, lines)
    BY <1>8, <2>1, <2>2, <2>4
  <2> DEFINE d == Replaced(doc, offset + first, deleted, lines)
             b == Replaced(buf, first, deleted, lines)
  <2>6. offset + Len(b) <= Len(d) /\ \A i \in DOMAIN b : b[i] \in {d[offset + i], Cut}
    BY <1>1, <1>2, <1>3, <2>3, EditShows
  <2>7. doc' = d /\ buf' = b /\ offset' = offset
    BY <1>1, <1>4, <2>2, <2>5
  <2> HIDE DEF d, b
  <2>8. QED
    BY <2>4, <2>6, <2>7 DEF ShowsLines
<1>13. QED
  BY <1>10, <1>11, <1>12 DEF ViewInv

(* One step per action.                                                    *)
LEMMA NextView == ViewInv /\ [Next]_vars => ViewInv'
<1> SUFFICES ASSUME ViewInv, [Next]_vars PROVE ViewInv'
  OBVIOUS
<1>1. CASE IndexGrows
  BY <1>1, GrowsView
<1>2. CASE PollProgress \/ PollTotal \/ PollShow
  BY <1>2, PollAskView, PollView
<1>3. CASE \E line \in 0 .. Len(doc) : JumpToLine(line)
  BY <1>3, JumpToLineView
<1>4. CASE JumpToEof
  BY <1>4, JumpToEofView
<1>5. CASE CursorMoved
  BY <1>5, CursorView
<1>6. CASE \E r \in 1 .. More(Len(buf), chunk_size + 1) : Shift(r)
  <2>1. PICK r \in 1 .. More(Len(buf), chunk_size + 1) : Shift(r)
    BY <1>6
  <2>2. r \in Nat
    <3>1. Len(buf) \in Nat /\ chunk_size \in Nat
      BY ViewNumbers, Sizes
    <3>2. QED
      BY <3>1, SMT DEF More
  <2>3. QED
    BY <2>1, <2>2, ShiftView
<1>7. CASE \E first \in 0 .. Len(buf), deleted \in 0 .. MaxDelete, lines \in Inserts :
             UserEdit(first, deleted, lines)
  BY <1>7, EditView
<1>8. CASE UNCHANGED vars
  <2>1. /\ UNCHANGED <<doc, arrived, complete, total, offset, is_eof_mode, initial_render_done>>
        /\ UNCHANGED <<buf, row, timer, asked, edits, drift>>
    BY <1>8 DEF vars, engine, state
  <2>2. QED
    BY <2>1 DEF ViewInv, Listed, TypeOK, ShowsLines
<1>9. QED
  BY <1>1, <1>2, <1>3, <1>4, <1>5, <1>6, <1>7, <1>8 DEF Next

-----------------------------------------------------------------------------
(* The theorems.                                                           *)

(* The inductive invariant: the state is what its types say, and a window  *)
(* that has not drifted shows the document.                                *)
THEOREM ViewInvariant == Spec => []ViewInv
<1>1. QED
  BY InitView, NextView, PTL DEF Spec

(* The plugin's window stays in the bounds that its arithmetic relies on:  *)
(* its total never runs ahead of the document, its offset not behind it.   *)
THEOREM ViewTypes == Spec => []TypeOK
<1>1. ViewInv => TypeOK
  BY DEF ViewInv
<1>2. QED
  BY <1>1, ViewInvariant, PTL

(* Whatever the user types, wherever the window is moved and whatever the  *)
(* indexer publishes meanwhile, the buffer shows the document's lines from *)
(* the offset on, unless one of the listed drifts has occurred since the   *)
(* window was filled.                                                      *)
THEOREM WindowIsRight == Spec => []WindowShows
<1>1. ViewInv => WindowShows
  BY DEF ViewInv, WindowShows, ShowsLines
<1>2. QED
  BY <1>1, ViewInvariant, PTL

(* A window that is as long as it can be and has a line of its own does    *)
(* not begin in front of the document.                                     *)
LEMMA WholeBegins ==
  ASSUME Listed, doc' = doc, NEW to \in Int, NEW line \in Int, Fill(to, line), Whole',
         to < 0 => Len(doc) - to >= chunk_size
  PROVE  to >= 0
<1> DEFINE lines == fetch_lines(to, chunk_size)
           N == Len(doc)
<1>1. buf' = Shown(lines) /\ offset' = to
  BY DEF Fill
<1>2. lines # << >> => to >= 0
  BY Fetched DEF Listed
<1>3. N \in Nat /\ chunk_size \in Nat /\ chunk_size >= 2
  BY Sizes, LenProperties, SMT DEF Listed
<1>4. Len(buf') = Less(chunk_size, N - to)
  BY <1>1 DEF Whole
<1> HIDE DEF lines, N
<1>5. ASSUME to < 0 PROVE FALSE
  <2>1. lines = << >>
    BY <1>2, <1>5
  <2>2. buf' = <<EmptyLine>>
    BY <1>1, <2>1 DEF Shown
  <2>3. Len(buf') = 1
    BY <2>2
  <2>4. N - to >= chunk_size
    BY <1>5 DEF N
  <2>5. Less(chunk_size, N - to) >= 2
    BY <1>3, <2>4, SMT DEF Less
  <2>6. Less(chunk_size, N - to) = 1
    BY <1>4, <2>3
  <2>7. QED
    BY <2>5, <2>6
<1>6. QED
  BY <1>5, SMT

(* The cursor is on the line it was put on, if the window has that line.   *)
LEMMA CursorRow ==
  ASSUME Listed, doc' = doc, NEW to \in Int, NEW line \in Int, Fill(to, line), Whole',
         to >= 0, to <= line, line < Len(doc), line < to + chunk_size
  PROVE  offset' + row' = line + 1
<1> DEFINE lines == fetch_lines(to, chunk_size)
           N == Len(doc)
           n == Len(lines)
           aim == RowOf(line, to)
<1>1. buf' = Shown(lines) /\ offset' = to /\ row' = More(1, Less(aim, n))
  BY DEF Fill
<1>2. lines \in Seq(ShownLines) /\ (to >= 0 /\ to < N => lines # << >>)
  BY Fetched DEF Listed
<1>3. N \in Nat /\ chunk_size \in Nat /\ line < N
  BY Sizes, LenProperties DEF Listed
<1>4. Len(buf') = Less(chunk_size, N - to)
  BY <1>1 DEF Whole
<1>5. aim = line - to + 1
  BY DEF RowOf
<1> HIDE DEF lines, N, aim
<1>6. lines # << >>
  BY <1>2, <1>3, SMT
<1>7. buf' = lines
  BY <1>1, <1>6 DEF Shown
<1>8. n = Less(chunk_size, N - to)
  BY <1>4, <1>7
<1> HIDE DEF n
<1>9. More(1, Less(aim, n)) = aim
  BY <1>3, <1>5, <1>8, SMT DEF More, Less
<1>10. QED
  BY <1>1, <1>3, <1>5, <1>9, SMT

(* The window that is moved keeps the cursor's line.                       *)
LEMMA ShiftLands ==
  ASSUME ViewInv, Whole', NEW r \in 1 .. Len(buf), Shift(r), offset' # offset,
         Len(buf) >= half_chunk + margin, r <= half_chunk + chunk_size, offset + r <= Len(doc)
  PROVE  offset' + row' = offset + r
<1> DEFINE to == NewOffset(r)
           line == LineAt(r)
           N == Len(doc)
           n == Len(buf)
<1>1. /\ Listed /\ N \in Nat /\ n \in Nat /\ total \in Nat /\ total <= N
      /\ offset \in Int /\ offset <= N /\ -chunk_size <= offset
  BY ViewNumbers
<1>2. /\ chunk_size \in Nat /\ half_chunk \in Nat /\ margin \in Nat
      /\ 1 <= margin /\ margin <= half_chunk /\ half_chunk + half_chunk <= chunk_size
  BY Sizes
<1>3. r \in Nat /\ 1 <= r /\ r <= n
  BY <1>1, SMT
<1>4. to # offset /\ Fill(to, line) /\ doc' = doc
  BY DEF Shift, engine
<1>5. to \in Int /\ line \in Int
  BY <1>3, NewOffsetIs
<1>6. line = offset + r - 1
  BY DEF LineAt
<1>7. to = IF AtTop(r) THEN More(0, offset - half_chunk)
           ELSE IF AtBottom(r) THEN BottomOffset ELSE offset
  BY DEF NewOffset
<1>8. n >= half_chunk + margin /\ r <= half_chunk + chunk_size /\ offset + r <= N
  OBVIOUS
<1> HIDE DEF to, line, N, n
<1>9. CASE AtTop(r)
  <2>1. r < margin /\ offset > 0 /\ to = More(0, offset - half_chunk)
    BY <1>7, <1>9 DEF AtTop
  <2>2. to >= 0 /\ to <= line /\ line < N /\ line < to + chunk_size
    BY <1>1, <1>2, <1>3, <1>6, <1>8, <2>1, SMT DEF More
  <2>3. offset' + row' = line + 1
    BY <1>1, <1>4, <1>5, <2>2, CursorRow DEF N
  <2>4. QED
    BY <1>1, <1>3, <1>6, <2>3, SMT
<1>10. CASE ~AtTop(r)
  <2>1. AtBottom(r) /\ to = BottomOffset
    BY <1>4, <1>7, <1>10
  <2>2. r > n - margin /\ offset + n < total
    BY <2>1 DEF AtBottom, n
  <2>3. to = IF offset + half_chunk + chunk_size > total THEN total - chunk_size
             ELSE offset + half_chunk
    BY <2>1 DEF BottomOffset
  <2>4. N - to >= chunk_size /\ to <= line /\ line < N /\ line < to + chunk_size
    BY <1>1, <1>2, <1>3, <1>6, <1>8, <2>2, <2>3, SMT
  <2>5. to >= 0
    <3>1. to < 0 => Len(doc) - to >= chunk_size
      BY <2>4 DEF N
    <3>2. QED
      BY <1>1, <1>4, <1>5, <3>1, WholeBegins
  <2>6. offset' + row' = line + 1
    BY <1>1, <1>4, <1>5, <2>4, <2>5, CursorRow DEF N
  <2>7. QED
    BY <1>1, <1>3, <1>6, <2>6, SMT
<1>11. QED
  BY <1>9, <1>10

(* A jump to a line that the plugin knows ends on that line.               *)
LEMMA JumpLands ==
  ASSUME ViewInv, Whole', NEW line \in 0 .. total - 1, JumpToLine(line)
  PROVE  offset' + row' = line + 1
<1> DEFINE j == JumpOffset(line, total)
<1>1. Listed /\ Len(doc) \in Nat /\ total \in Nat /\ total <= Len(doc)
  BY ViewNumbers
<1>2. line \in Nat /\ line < total /\ line < Len(doc) /\ line \in Int
  BY <1>1, SMT
<1>3. Fill(j, line) /\ doc' = doc
  BY DEF JumpToLine, Jump, JumpOffset, engine
<1>4. j \in Nat /\ j <= line /\ line < j + chunk_size
  BY <1>1, <1>2, JumpOffsetIs
<1> HIDE DEF j
<1>5. j \in Int /\ j >= 0
  BY <1>4, SMT
<1>6. QED
  BY <1>1, <1>2, <1>3, <1>4, <1>5, CursorRow

(* The cursor is where it was meant to be after every shift and every jump *)
(* of the window.                                                          *)
THEOREM CursorIsRight == Spec => CursorLands
<1> DEFINE Lands ==
             Whole' =>
               /\ \A r \in 1 .. Len(buf) :
                      /\ Shift(r) /\ offset' # offset
                      /\ Len(buf) >= half_chunk + margin /\ r <= half_chunk + chunk_size
                      /\ offset + r <= Len(doc)
                    => offset' + row' = offset + r
               /\ \A line \in 0 .. total - 1 :
                    JumpToLine(line) => offset' + row' = line + 1
<1>1. ViewInv => Lands
  BY ShiftLands, JumpLands
<1> HIDE DEF Lands
<1>2. Spec => [][Lands]_vars
  BY <1>1, ViewInvariant, PTL
<1>3. QED
  BY <1>2 DEF CursorLands, Lands
=============================================================================
