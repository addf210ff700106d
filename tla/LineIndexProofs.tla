-------------------------- MODULE LineIndexProofs --------------------------
(***************************************************************************)
(* Proofs about the line index, for files of any bytes and any length and  *)
(* for chunks of any size: the lines that the thread counts chunk by chunk *)
(* add up to those of the file. Where reads are cut short, in a build for  *)
(* 32 bits and a file of several windows, only what is lost by it is       *)
(* bounded; the offsets are those of other files (OneWindow).              *)
(***************************************************************************)
EXTENDS FileBlocks, ListLemmas, FiniteSetTheorems, SequenceTheorems, TLAPS

(* The bytes of a file, as far as the engine tells them apart.             *)
FilesAreBytes == file \in Seq(Bytes)

(* The line feeds behind one position and up to another.                   *)
FeedsIn(from, to) == {i \in 1 .. Len(file) : from < i /\ i <= to /\ file[i] = "nl"}

(* What the indexer thread knows: the line feeds up to where it is. It is  *)
(* the only one to say that it is finished, and then they are all counted. *)
Counted ==
  /\ FilesAreBytes
  /\ offset \in 0 .. Len(file)
  /\ NoTabs /\ OneWindow => current_line = Cardinality(FeedsIn(0, offset))
  /\ pc = "count" => offset < Len(file)
  /\ is_finished => pc = "finished"
  /\ is_fixed_width => pc = "finished"
  /\ is_finished /\ NoTabs /\ OneWindow => original_total_lines = AllLines

(* What a division leaves is less than the divisor.                        *)
LEMMA Division ==
  ASSUME NEW a \in Nat, NEW b \in Nat \ {0}
  PROVE  a \div b \in Nat /\ (a \div b) * b <= a /\ a < (a \div b) * b + b
BY SMT

(* Products grow with their factors.                                       *)
LEMMA TimesGrows ==
  ASSUME NEW a \in Nat, NEW b \in Nat, NEW c \in Nat, a <= b
  PROVE  a * c <= b * c /\ a * c \in Nat /\ b * c \in Nat
BY SMT

(* A usize holds no more than it is given, and a slice lies in its file.   *)
LEMMA ReadsInFile ==
  ASSUME FilesAreBytes
  PROVE  /\ \A n \in Nat : AsUsize(n) \in 0 .. n
         /\ \A from \in 0 .. Len(file), len \in Nat :
              ChunkEnd(from, len) \in from .. Len(file) /\ ChunkEnd(from, len) <= from + len
<1>1. Len(file) \in Nat /\ WINDOW_SIZE \in Nat \ {0} /\ Usize \in Nat \ {0}
  BY PagerAssumption, LenProperties, SMT DEF FilesAreBytes
<1>2. ASSUME NEW n \in Nat PROVE AsUsize(n) \in 0 .. n
  <2>1. n % Usize \in 0 .. n
    BY <1>1, SMT
  <2>2. QED
    BY <2>1 DEF AsUsize
<1>3. ASSUME NEW from \in 0 .. Len(file), NEW len \in Nat
      PROVE  ChunkEnd(from, len) \in from .. Len(file) /\ ChunkEnd(from, len) <= from + len
  <2> DEFINE w == (from \div WINDOW_SIZE + 1) * WINDOW_SIZE
             S == {from + len, Len(file)} \union {window \in {w} : narrow}
  <2>1. from \in Nat /\ w \in Nat /\ from <= w
    BY <1>1, SMT
  <2>2. ChunkEnd(from, len) = Min(S)
    BY DEF ChunkEnd
  <2> HIDE DEF w
  <2>3. S \in SUBSET Nat /\ S # {}
    BY <1>1, <2>1
  <2>4. Min(S) \in S /\ \A x \in S : Min(S) <= x
    BY <2>3, LeastExists
  <2>5. Min(S) \in {from + len, Len(file), w} /\ Min(S) <= from + len /\ Min(S) <= Len(file)
    BY <2>4
  <2> HIDE DEF S
  <2>6. QED
    BY <1>1, <2>1, <2>2, <2>5, SMT
<1>4. QED
  BY <1>2, <1>3

(* In a file of one window nothing is cut short, and nothing wraps around. *)
LEMMA WholeReads ==
  ASSUME FilesAreBytes, OneWindow
  PROVE  /\ \A n \in 0 .. Len(file) : AsUsize(n) = n
         /\ \A from, len \in Nat : from + len <= Len(file) => ChunkEnd(from, len) = from + len
         /\ \A at \in Nat : \A i \in at + 1 .. Len(file) : Seen(at, i)
<1>1. /\ Len(file) \in Nat /\ WINDOW_SIZE \in Nat \ {0} /\ Usize \in Nat
      /\ 2 * WINDOW_SIZE <= Usize /\ SliceSize \in Nat \ {0}
  BY PagerAssumption, LenProperties DEF FilesAreBytes
<1>2. narrow => Len(file) <= WINDOW_SIZE /\ Len(file) < Usize
  BY <1>1, SMT DEF OneWindow
<1>3. ASSUME NEW n \in 0 .. Len(file) PROVE AsUsize(n) = n
  <2>1. narrow => n \in Nat /\ n < Usize
    BY <1>1, <1>2, SMT
  <2>2. narrow => n % Usize = n
    BY <1>1, <2>1, SMT
  <2>3. QED
    BY <2>2 DEF AsUsize
<1>4. ASSUME NEW from \in Nat, NEW len \in Nat
      PROVE  LET end == IF from + len <= Len(file) THEN from + len ELSE Len(file)
             IN  ChunkEnd(from, len) = end
  <2> DEFINE w == (from \div WINDOW_SIZE + 1) * WINDOW_SIZE
             S == {from + len, Len(file)} \union {window \in {w} : narrow}
             end == IF from + len <= Len(file) THEN from + len ELSE Len(file)
  <2>1. w \in Nat /\ WINDOW_SIZE <= w
    <3>1. from \div WINDOW_SIZE \in Nat
      BY <1>1, Division
    <3>2. from \div WINDOW_SIZE + 1 \in Nat /\ 1 <= from \div WINDOW_SIZE + 1
      BY <3>1, SMT
    <3>3. 1 * WINDOW_SIZE <= (from \div WINDOW_SIZE + 1) * WINDOW_SIZE
          /\ (from \div WINDOW_SIZE + 1) * WINDOW_SIZE \in Nat
      BY <1>1, <3>2, TimesGrows
    <3>4. QED
      BY <1>1, <3>3, SMT
  <2>2. ChunkEnd(from, len) = Min(S)
    BY DEF ChunkEnd
  <2> HIDE DEF w
  <2>3. S \in SUBSET Nat /\ S # {}
    BY <1>1, <2>1
  <2>4. Min(S) \in S /\ \A x \in S : Min(S) <= x
    BY <2>3, LeastExists
  <2>5. /\ Min(S) \in {from + len, Len(file)} \/ (narrow /\ Min(S) = w)
        /\ Min(S) <= from + len /\ Min(S) <= Len(file)
    BY <2>4
  <2> HIDE DEF S
  <2>6. Min(S) = end
    BY <1>1, <1>2, <2>1, <2>5, SMT
  <2>7. QED
    BY <2>2, <2>6
<1>5. ASSUME NEW at \in Nat, NEW i \in at + 1 .. Len(file) PROVE Seen(at, i)
  <2> DEFINE N == Len(file)
             before == (i - 1 - at) \div SliceSize
             start == at + before * SliceSize
  <2>1. /\ before \in Nat /\ before * SliceSize \in Nat
        /\ before * SliceSize <= i - 1 - at /\ i - 1 - at \in Nat
    <3>1. i - 1 - at \in Nat
      BY <1>1, SMT
    <3>2. before \in Nat /\ before * SliceSize <= i - 1 - at
      BY <1>1, <3>1, Division
    <3>3. before * SliceSize \in Nat
      BY <1>1, <3>2, SMT
    <3>4. QED
      BY <3>1, <3>2, <3>3
  <2> HIDE DEF before
  <2>2. ASSUME NEW k \in 0 .. before - 1
        PROVE  AsUsize(Len(file) - (at + k * SliceSize)) > SliceSize
    <3>1. k \in Nat /\ k + 1 \in Nat /\ k + 1 <= before
      BY <2>1, SMT
    <3>2. (k + 1) * SliceSize <= before * SliceSize
      BY <1>1, <2>1, <3>1, TimesGrows
    <3>3. (k + 1) * SliceSize = k * SliceSize + SliceSize /\ k * SliceSize \in Nat
      BY <1>1, <3>1, SMT
    <3> DEFINE x == k * SliceSize
               y == before * SliceSize
    <3>4. x \in Nat /\ y \in Nat /\ x + SliceSize <= y /\ y <= i - 1 - at
      BY <2>1, <3>2, <3>3
    <3> HIDE DEF x, y
    <3>5. N - (at + x) \in 0 .. N /\ N - (at + x) > SliceSize
      BY <1>1, <3>4, SMT
    <3>6. AsUsize(N - (at + x)) = N - (at + x)
      BY <1>3, <3>5
    <3>7. QED
      BY <3>5, <3>6 DEF x
  <2>3. i <= ChunkEnd(start, AsUsize(Len(file) - start))
    <3>1. start \in Nat /\ start <= N /\ N - start \in 0 .. N /\ start + (N - start) = N
      BY <1>1, <2>1, SMT
    <3> HIDE DEF start
    <3>2. AsUsize(N - start) = N - start
      BY <1>3, <3>1
    <3>3. N - start \in Nat
      BY <3>1
    <3>4. ChunkEnd(start, N - start) = N
      BY <1>1, <1>4, <3>1, <3>3
    <3>5. QED
      BY <1>1, <3>2, <3>4
  <2>4. QED
    BY <2>2, <2>3 DEF Seen, before, start
<1>6. QED
  BY <1>3, <1>4, <1>5

(* What the thread takes next lies in the file, and is no more than a      *)
(* chunk; in a file of one window it is a chunk, or the rest.              *)
LEMMA TakeInFile ==
  ASSUME FilesAreBytes, NEW at \in 0 .. Len(file)
  PROVE  LET take == Take(Len(file) - at)
         IN  /\ take \in Nat /\ take <= ChunkSize
             /\ at + take \in 0 .. Len(file) /\ at <= at + take
             /\ OneWindow => take = IF Len(file) - at < ChunkSize THEN Len(file) - at ELSE ChunkSize
<1>1. Len(file) \in Nat /\ ChunkSize \in Nat
  BY ChunkAssumption, LenProperties DEF FilesAreBytes
<1>2. Len(file) - at \in Nat /\ Len(file) - at \in 0 .. Len(file)
  BY <1>1, SMT
<1>3. AsUsize(Len(file) - at) \in 0 .. Len(file) - at
  BY <1>2, ReadsInFile
<1>4. OneWindow => AsUsize(Len(file) - at) = Len(file) - at
  BY <1>2, WholeReads
<1>5. QED
  BY <1>1, <1>2, <1>3, <1>4, SMT DEF Take

(* Without vertical tabs no scanner counts anything but line feeds, and    *)
(* the chunks of the parallel builder count what one scan would.           *)
LEMMA ScansAreExact ==
  ASSUME FilesAreBytes, NoTabs
  PROVE  /\ \A from, to : count_newlines(from, to) = Cardinality(FeedsIn(from, to))
         /\ \A to : RayonCount(to) = Cardinality(FeedsIn(0, to))
<1>1. \A i \in 1 .. Len(file) : \A a, b : ~Miscounted(file, avx2, a, b, i)
  BY DEF NoTabs, Miscounted
<1>2. ASSUME NEW from, NEW to
      PROVE  count_newlines(from, to) = Cardinality(FeedsIn(from, to))
  BY <1>1 DEF count_newlines, CountNewlines, FeedsIn
<1>3. ASSUME NEW to
      PROVE  RayonCount(to) = Cardinality(FeedsIn(0, to))
  <2> DEFINE at(i) == ((i - 1) \div RayonChunkSize) * RayonChunkSize
             end(i) == IF at(i) + RayonChunkSize < Len(file) THEN at(i) + RayonChunkSize
                       ELSE Len(file)
             S == {i \in 1 .. Len(file) :
                     i <= to /\ (file[i] = "nl" \/ Miscounted(file, avx2, at(i), end(i), i))}
  <2>1. RayonCount(to) = Cardinality(S)
    BY DEF RayonCount
  <2>2. \A i \in 1 .. Len(file) : ~Miscounted(file, avx2, at(i), end(i), i)
    BY <1>1
  <2> HIDE DEF at, end
  <2>3. S = {i \in 1 .. Len(file) : i <= to /\ file[i] = "nl"}
    BY <2>2
  <2>4. S = FeedsIn(0, to)
    BY <2>3, LenProperties, SMT DEF FeedsIn, FilesAreBytes
  <2>5. QED
    BY <2>1, <2>4
<1>4. QED
  BY <1>2, <1>3

(* The line feeds are finitely many.                                       *)
LEMMA FeedsFinite ==
  ASSUME FilesAreBytes, NEW from, NEW to
  PROVE  IsFiniteSet(FeedsIn(from, to)) /\ Cardinality(FeedsIn(from, to)) \in Nat
<1>1. IsFiniteSet(1 .. Len(file))
  BY FS_Interval, LenProperties DEF FilesAreBytes
<1>2. IsFiniteSet(FeedsIn(from, to))
  BY <1>1, FS_Subset DEF FeedsIn
<1>3. QED
  BY <1>2, FS_CardinalityType

(* Two stretches that meet are counted as one. *)
LEMMA CountAdds ==
  ASSUME FilesAreBytes, NEW a \in Nat, NEW b \in Nat, a <= b
  PROVE  Cardinality(FeedsIn(0, a)) + Cardinality(FeedsIn(a, b)) = Cardinality(FeedsIn(0, b))
<1> DEFINE S == FeedsIn(0, a)
           T == FeedsIn(a, b)
<1>1. Len(file) \in Nat
  BY LenProperties DEF FilesAreBytes
<1>2. S \cup T = FeedsIn(0, b) /\ S \cap T = {}
  BY <1>1, SMT DEF FeedsIn
<1>3. IsFiniteSet(S) /\ IsFiniteSet(T) /\ Cardinality(S) \in Nat /\ Cardinality(T) \in Nat
  BY FeedsFinite
<1> HIDE DEF S, T
<1>4. Cardinality(S \cup T) = Cardinality(S) + Cardinality(T) - Cardinality(S \cap T)
  BY <1>3, FS_Union
<1>5. Cardinality(S \cap T) = 0
  BY <1>2, FS_EmptySet
<1>6. Cardinality(S \cup T) = Cardinality(S) + Cardinality(T)
  BY <1>3, <1>4, <1>5, SMT
<1>7. QED
  BY <1>2, <1>6 DEF S, T

(* No byte, no line feed; up to the last byte, all of them.                *)
LEMMA FeedsAtEnds ==
  ASSUME FilesAreBytes
  PROVE  Cardinality(FeedsIn(0, 0)) = 0 /\ FeedsIn(0, Len(file)) = LineFeeds
<1>1. FeedsIn(0, 0) = {}
  BY LenProperties, SMT DEF FilesAreBytes, FeedsIn
<1>2. FeedsIn(0, Len(file)) = LineFeeds
  BY LenProperties, SMT DEF FilesAreBytes, FeedsIn, LineFeeds
<1>3. QED
  BY <1>1, <1>2, FS_EmptySet

-----------------------------------------------------------------------------
(* No way of opening a file begins with a wrong count.                     *)
LEMMA InitCounts == Init => Counted
<1> SUFFICES ASSUME Init PROVE Counted
  OBVIOUS
<1>1. FilesAreBytes /\ Len(file) \in Nat
  BY ChunkAssumption, LenProperties DEF Init, FilesAreBytes
<1>2. /\ offset = 0 /\ current_line = 0
      /\ offset \in 0 .. Len(file) /\ current_line = Cardinality(FeedsIn(0, offset))
  BY <1>1, FeedsAtEnds, SMT DEF Init
<1>3. CASE FixedWidth
  BY <1>1, <1>2, <1>3 DEF FixedWidth, Counted, AllLines
<1>4. CASE Lazily
  BY <1>1, <1>2, <1>4 DEF Lazily, Counted
<1>5. CASE AtOnce
  <2>1. NoTabs => RayonCount(Len(file)) = Cardinality(LineFeeds)
    BY <1>1, ScansAreExact, FeedsAtEnds
  <2>2. QED
    BY <1>1, <1>2, <1>5, <2>1 DEF AtOnce, Counted, AllLines
<1>6. QED
  BY <1>3, <1>4, <1>5 DEF Init

(* A chunk adds its line feeds to those of the chunks before it.           *)
LEMMA IndexerCounts == Counted /\ Indexer => Counted'
<1> SUFFICES ASSUME Counted, Indexer PROVE Counted'
  OBVIOUS
<1>1. UNCHANGED opened
  BY DEF Indexer, IndexCancelled, IndexCheck, IndexCount, IndexPublish, IndexFinish
<1>2. /\ file' = file /\ narrow' = narrow /\ is_fixed_width' = is_fixed_width
      /\ Len(file) \in Nat /\ FilesAreBytes /\ FilesAreBytes'
  BY <1>1, LenProperties DEF Counted, FilesAreBytes, opened
<1>3. /\ NoTabs' <=> NoTabs
      /\ OneWindow' <=> OneWindow
      /\ AllLines' = AllLines
      /\ \A to : Cardinality(FeedsIn(0, to))' = Cardinality(FeedsIn(0, to))
  BY <1>2 DEF NoTabs, OneWindow, FeedsIn, AllLines, FixedLines, DivUp, FinalLines, LineFeeds
<1>4. CASE IndexCancelled \/ IndexCheck
  BY <1>2, <1>3, <1>4 DEF Counted, IndexCancelled, IndexCheck, AfterCancel, index
<1>5. CASE IndexCount
  <2>1. offset < Len(file) /\ offset \in 0 .. Len(file) /\ ~is_finished /\ ~is_fixed_width
    BY <1>5 DEF Counted, IndexCount
  <2>2. offset' \in 0 .. Len(file) /\ offset <= offset'
    BY <1>2, <1>5, <2>1, TakeInFile DEF IndexCount
  <2>3. ASSUME NoTabs, OneWindow
        PROVE  current_line' = Cardinality(FeedsIn(0, offset'))
    <3>1. ChunkEnd(offset, Take(Len(file) - offset)) = offset'
      BY <1>2, <1>5, <2>1, <2>3, TakeInFile, WholeReads DEF IndexCount
    <3>2. current_line' = Cardinality(FeedsIn(0, offset)) + Cardinality(FeedsIn(offset, offset'))
      BY <1>2, <1>5, <2>3, <3>1, ScansAreExact DEF IndexCount, Counted
    <3>3. QED
      BY <1>2, <2>1, <2>2, <3>2, CountAdds, SMT
  <2>4. pc' = "publish" /\ ~is_finished'
    BY <1>5, <2>1 DEF IndexCount, index
  <2>5. QED
    BY <1>2, <1>3, <2>1, <2>2, <2>3, <2>4 DEF Counted
<1>6. CASE IndexPublish
  BY <1>2, <1>3, <1>6 DEF Counted, IndexPublish
<1>7. CASE IndexFinish
  <2>1. offset = Len(file) /\ ~is_fixed_width
    BY <1>2, <1>7, SMT DEF Counted, IndexFinish
  <2>2. NoTabs /\ OneWindow => current_line = Cardinality(LineFeeds)
    BY <1>2, <2>1, FeedsAtEnds DEF Counted
  <2>3. NoTabs /\ OneWindow => original_total_lines' = AllLines
    BY <1>7, <2>1, <2>2 DEF IndexFinish, AllLines
  <2>4. QED
    BY <1>2, <1>3, <1>7, <2>1, <2>3 DEF Counted, IndexFinish
<1>8. QED
  BY <1>4, <1>5, <1>6, <1>7 DEF Indexer

(* Whoever leaves the file and the index alone leaves the count right.     *)
LEMMA UnreadCounts ==
  ASSUME Counted, UNCHANGED <<opened, index, indexer>>
  PROVE  Counted'
BY DEF Counted, FilesAreBytes, opened, index, indexer, FeedsIn, NoTabs, OneWindow, AllLines,
       FixedLines, DivUp, FinalLines, LineFeeds

(* In every reachable state the thread has counted the line feeds of the   *)
(* chunks it has read, and a finished index has the number of lines of the *)
(* whole file.                                                             *)
THEOREM IndexCounts == Spec => []Counted
<1>1. Init => Counted
  BY InitCounts
<1>2. Counted /\ [Next]_vars => Counted'
  <2> SUFFICES ASSUME Counted, [Next]_vars PROVE Counted'
    OBVIOUS
  <2>1. CASE Indexer
    BY <2>1, IndexerCounts
  <2>2. CASE ~Indexer
    <3>1. UNCHANGED <<opened, index, indexer>>
      BY <2>2, SMT DEF Next, ReadFirst, ReadLast, ReadReturns, Free, vars
    <3>2. QED
      BY <3>1, UnreadCounts
  <2>3. QED
    BY <2>1, <2>2
<1>3. QED
  BY <1>1, <1>2, PTL DEF Spec

(* Both builders count the lines of the file, whatever bytes it has (but   *)
(* for those the scanners miscount) and wherever its chunks end, if no     *)
(* read of it is cut short.                                                *)
THEOREM CountsTheFile == Spec => []CountCorrect
<1>1. Counted => CountCorrect
  <2> SUFFICES ASSUME Counted, is_finished, Plain
               PROVE  original_total_lines =
                        Cardinality(LineFeeds)
                          + (IF file # << >> /\ Last(file) # "nl" THEN 1 ELSE 0)
    BY DEF CountCorrect
  <2>1. FilesAreBytes /\ Len(file) \in Nat
    BY LenProperties DEF Counted, FilesAreBytes
  <2> DEFINE n == Cardinality(LineFeeds)
  <2>2. IsFiniteSet(LineFeeds) /\ n \in Nat
    BY <2>1, FeedsAtEnds, FeedsFinite
  <2>3. original_total_lines = FinalLines(n)
    BY DEF Counted, Plain, AllLines
  <2>4. CASE file = << >>
    BY <2>2, <2>3, <2>4, SMT DEF FinalLines
  <2>5. CASE file # << >>
    <3>1. Len(file) \in 1 .. Len(file) /\ Last(file) = file[Len(file)]
      BY <2>1, <2>5, EmptySeq, SMT DEF FilesAreBytes, Last
    <3>2. Last(file) # "cr"
      BY <2>1, <3>1, SMT DEF Plain, NoBareCR
    <3>3. CASE Last(file) = "nl"
      <4>1. LineFeeds # {}
        BY <3>1, <3>3 DEF LineFeeds
      <4>2. n # 0
        BY <2>2, <4>1, FS_EmptySet
      <4>3. QED
        BY <2>2, <2>3, <2>5, <3>3, <4>2 DEF FinalLines
    <3>4. CASE Last(file) # "nl"
      <4>1. FinalLines(n) = n + 1
        BY <2>2, <2>5, <3>2, <3>4, SMT DEF FinalLines
      <4>2. QED
        BY <2>3, <2>5, <3>4, <4>1
    <3>5. QED
      BY <3>3, <3>4
  <2>6. QED
    BY <2>4, <2>5
<1>2. QED
  BY <1>1, IndexCounts, PTL

-----------------------------------------------------------------------------
(* Skip.                                                                   *)

(* The bytes behind a position that end a line for calc_offset.            *)
Ends(at) == {i \in at + 1 .. Len(file) : file[i] \in {"nl", "cr"} /\ Seen(at, i)}

(* The first end, and where the next line begins.                          *)
LEMMA NextLine ==
  ASSUME FilesAreBytes, NEW at \in Nat, Ends(at) # {}
  PROVE  LET p == Min(Ends(at))
         IN  /\ p \in Ends(at) /\ p \in at + 1 .. Len(file) /\ \A q \in Ends(at) : p <= q
             /\ AfterTerminator(p) \in {p, p + 1} /\ AfterTerminator(p) <= Len(file)
             /\ AfterTerminator(p) = p + 1 =>
                  file[p] = "cr" /\ p + 1 \in 1 .. Len(file) /\ file[p + 1] = "nl"
             /\ file[p] = "cr" /\ AfterTerminator(p) = p =>
                  p = Len(file) \/ file[p + 1] # "nl"
<1> DEFINE p == Min(Ends(at))
<1>1. Len(file) \in Nat
  BY LenProperties DEF FilesAreBytes
<1>2. Ends(at) \in SUBSET Nat
  BY <1>1, SMT DEF Ends
<1>3. p \in Ends(at) /\ \A q \in Ends(at) : p <= q
  BY <1>2, LeastExists
<1>4. p \in at + 1 .. Len(file)
  BY <1>3 DEF Ends
<1> HIDE DEF p
<1>5. /\ AfterTerminator(p) \in {p, p + 1} /\ AfterTerminator(p) <= Len(file)
      /\ AfterTerminator(p) = p + 1 =>
           file[p] = "cr" /\ p + 1 \in 1 .. Len(file) /\ file[p + 1] = "nl"
      /\ file[p] = "cr" /\ AfterTerminator(p) = p =>
           p = Len(file) \/ file[p + 1] # "nl"
  BY <1>1, <1>4, SMT DEF AfterTerminator
<1>6. QED
  BY <1>3, <1>4, <1>5 DEF p

(* The loop of calc_offset as a step from what it does for fewer lines.    *)
SkipsOnce(f, n) ==
  [at \in Nat |-> IF n = 0 THEN at
                  ELSE IF Ends(at) = {} THEN Len(file)
                  ELSE f[n - 1][AfterTerminator(Min(Ends(at)))]]

(* The loop ends: it is a function of the number of lines.                 *)
LEMMA SkipSteps ==
  ASSUME FilesAreBytes
  PROVE  /\ \A from \in Nat : Skip(from, 0) = from
         /\ \A from \in Nat, n \in Nat :
              Skip(from, n + 1) = IF Ends(from) = {} THEN Len(file)
                                  ELSE Skip(AfterTerminator(Min(Ends(from))), n)
         /\ \A from \in Nat, n \in Nat : Skip(from, n) \in Nat
<1> DEFINE D == [Nat -> Nat]
           H == [n \in Nat |-> [f \in [Nat -> D] |-> SkipsOnce(f, n)]]
           IsLoop(f) == f = [n \in Nat |-> SkipsOnce(f, n)]
           loop == CHOOSE f : IsLoop(f)
<1>1. Len(file) \in Nat
  BY LenProperties DEF FilesAreBytes
<1>2. \A at \in Nat : Ends(at) # {} => AfterTerminator(Min(Ends(at))) \in Nat
  <2>1. ASSUME NEW at \in Nat, Ends(at) # {} PROVE AfterTerminator(Min(Ends(at))) \in Nat
    <3> DEFINE p == Min(Ends(at))
    <3>1. p \in at + 1 .. Len(file) /\ AfterTerminator(p) \in {p, p + 1}
      BY <2>1, NextLine
    <3> HIDE DEF p
    <3>2. AfterTerminator(p) \in Nat
      BY <1>1, <3>1, SMT
    <3>3. QED
      BY <3>2 DEF p
  <2>2. QED
    BY <2>1
<1>3. ASSUME NEW n \in Nat, NEW f \in [Nat -> D]
      PROVE  SkipsOnce(f, n) \in D
  <2>1. n # 0 => n - 1 \in Nat
    OBVIOUS
  <2>2. \A m \in Nat : f[m] \in D
    OBVIOUS
  <2>3. \A m \in Nat, at \in Nat : f[m][at] \in Nat
    BY <2>2
  <2> HIDE DEF D
  <2>4. ASSUME NEW at \in Nat
        PROVE  (IF n = 0 THEN at ELSE IF Ends(at) = {} THEN Len(file)
                ELSE f[n - 1][AfterTerminator(Min(Ends(at)))]) \in Nat
    BY <1>1, <1>2, <2>1, <2>3, Zenon
  <2>5. QED
    BY <2>4, Zenon DEF SkipsOnce, D
<1>4. ASSUME NEW n \in Nat, NEW f \in [Nat -> D], NEW g \in [Nat -> D], Earlier(f, g, n)
      PROVE  SkipsOnce(f, n) = SkipsOnce(g, n)
  <2>1. n # 0 => n - 1 \in Nat /\ n - 1 < n
    OBVIOUS
  <2>2. n # 0 => f[n - 1] = g[n - 1]
    BY <1>4, <2>1 DEF Earlier
  <2>3. QED
    BY <2>2, Zenon DEF SkipsOnce
<1>5. \A n \in Nat : \A f \in [Nat -> D] : H[n][f] = SkipsOnce(f, n)
  OBVIOUS
<1>6. [n \in Nat |-> n] \in D
  OBVIOUS
<1> HIDE DEF H, D
<1>7. FromEarlier(H, D)
  BY <1>3, <1>4, <1>5 DEF FromEarlier
<1>8. \E F \in [Nat -> D] : \A n \in Nat : F[n] = H[n][F]
  BY <1>6, <1>7, Recursion
<1>9. \E F : IsLoop(F)
  <2>1. PICK F \in [Nat -> D] : \A n \in Nat : F[n] = H[n][F]
    BY <1>8
  <2>2. \A n \in Nat : F[n] = SkipsOnce(F, n)
    BY <1>5, <2>1
  <2>3. F = [n \in Nat |-> F[n]]
    OBVIOUS
  <2>4. F = [n \in Nat |-> SkipsOnce(F, n)]
    BY <2>2, <2>3, Zenon
  <2>5. QED
    BY <2>4
<1>10. IsLoop(loop)
  <2> HIDE DEF IsLoop
  <2>1. QED
    BY <1>9, Zenon
<1>11. \A from, n : Skip(from, n) = loop[n][from]
  BY Zenon DEF Skip, SkipsOnce, Ends
<1> HIDE DEF loop
<1>12. \A n \in Nat : loop[n] = SkipsOnce(loop, n)
  <2> DEFINE again == [n \in Nat |-> SkipsOnce(loop, n)]
  <2>1. \A n \in Nat : again[n] = SkipsOnce(loop, n)
    OBVIOUS
  <2>2. loop = again
    BY <1>10
  <2> HIDE DEF again
  <2>3. QED
    BY <2>1, <2>2
<1>13. \A n \in Nat : \A at \in Nat :
         loop[n][at] = IF n = 0 THEN at ELSE IF Ends(at) = {} THEN Len(file)
                       ELSE loop[n - 1][AfterTerminator(Min(Ends(at)))]
  BY <1>12, Zenon DEF SkipsOnce
<1>14. \A from \in Nat : Skip(from, 0) = from
  BY <1>11, <1>13
<1>15. ASSUME NEW from \in Nat, NEW n \in Nat
       PROVE  Skip(from, n + 1) = IF Ends(from) = {} THEN Len(file)
                                  ELSE Skip(AfterTerminator(Min(Ends(from))), n)
  <2>1. n + 1 \in Nat /\ n + 1 # 0 /\ (n + 1) - 1 = n
    OBVIOUS
  <2>2. loop[n + 1][from] = IF Ends(from) = {} THEN Len(file)
                            ELSE loop[n][AfterTerminator(Min(Ends(from)))]
    BY <1>13, <2>1
  <2>3. QED
    BY <1>11, <2>2
<1>16. \A from \in Nat, n \in Nat : Skip(from, n) \in Nat
  <2> DEFINE S == {n \in Nat : \A from \in Nat : Skip(from, n) \in Nat}
  <2>1. 0 \in S
    BY <1>14
  <2>2. ASSUME NEW n \in Nat, n \in S PROVE n + 1 \in S
    <3>1. \A from \in Nat : Skip(from, n + 1) \in Nat
      BY <1>1, <1>2, <1>15, <2>2
    <3>2. QED
      BY <3>1
  <2> HIDE DEF S
  <2>3. \A n \in Nat : n \in S
    BY <2>1, <2>2, SetInduction
  <2>4. QED
    BY <2>3 DEF S
<1>17. QED
  BY <1>14, <1>15, <1>16

(* Line feeds of two stretches that meet, wherever the first begins.       *)
LEMMA FeedsSplit ==
  ASSUME FilesAreBytes, NEW b \in Nat, NEW a \in Nat, NEW e \in Nat, b <= a, a <= e
  PROVE  /\ Cardinality(FeedsIn(b, a)) + Cardinality(FeedsIn(a, e)) = Cardinality(FeedsIn(b, e))
         /\ Cardinality(FeedsIn(b, a)) \in Nat /\ Cardinality(FeedsIn(a, e)) \in Nat
         /\ Cardinality(FeedsIn(b, e)) \in Nat
<1>1. /\ Cardinality(FeedsIn(0, b)) + Cardinality(FeedsIn(b, a)) = Cardinality(FeedsIn(0, a))
      /\ Cardinality(FeedsIn(0, a)) + Cardinality(FeedsIn(a, e)) = Cardinality(FeedsIn(0, e))
      /\ Cardinality(FeedsIn(0, b)) + Cardinality(FeedsIn(b, e)) = Cardinality(FeedsIn(0, e))
  BY CountAdds
<1>2. \A x, y : Cardinality(FeedsIn(x, y)) \in Nat
  BY FeedsFinite
<1> DEFINE c(x, y) == Cardinality(FeedsIn(x, y))
<1>3. /\ c(0, b) + c(b, a) = c(0, a) /\ c(0, a) + c(a, e) = c(0, e)
      /\ c(0, b) + c(b, e) = c(0, e)
      /\ c(0, b) \in Nat /\ c(b, a) \in Nat /\ c(0, a) \in Nat /\ c(a, e) \in Nat
      /\ c(0, e) \in Nat /\ c(b, e) \in Nat
  BY <1>1, <1>2
<1> HIDE DEF c
<1>4. c(b, a) + c(a, e) = c(b, e)
  BY <1>3, SMT
<1>5. QED
  BY <1>3, <1>4 DEF c

(* One line further lies at most one line feed, and exactly one if no      *)
(* carriage return stands alone, unless one was not seen.                  *)
LEMMA OneFeed ==
  ASSUME FilesAreBytes, NEW at \in Nat, Ends(at) # {}
  PROVE  LET a == AfterTerminator(Min(Ends(at)))
         IN  /\ a \in at + 1 .. Len(file)
             /\ OneWindow => Cardinality(FeedsIn(at, a)) <= 1
             /\ \A q \in Ends(at) : file[q] = "nl" => a <= q
             /\ OneWindow /\ NoBareCR => a \in LineFeeds /\ Cardinality(FeedsIn(at, a)) = 1
<1> DEFINE p == Min(Ends(at))
           a == AfterTerminator(p)
<1>1. Len(file) \in Nat
  BY LenProperties DEF FilesAreBytes
<1>2. /\ p \in Ends(at) /\ p \in at + 1 .. Len(file) /\ \A q \in Ends(at) : p <= q
      /\ a \in {p, p + 1} /\ a <= Len(file)
      /\ a = p + 1 => file[p] = "cr" /\ p + 1 \in 1 .. Len(file) /\ file[p + 1] = "nl"
      /\ file[p] = "cr" /\ a = p => p = Len(file) \/ file[p + 1] # "nl"
  BY NextLine
<1>3. file[p] \in {"nl", "cr"}
  BY <1>2 DEF Ends
<1> HIDE DEF a, p
<1>4. a \in at + 1 .. Len(file)
  BY <1>1, <1>2, SMT
<1>5. ASSUME NEW q \in Ends(at), file[q] = "nl"
      PROVE  a <= q
  <2>1. q \in at + 1 .. Len(file) /\ p <= q
    BY <1>2 DEF Ends
  <2>2. a = p + 1 => p # q
    BY <1>2, <1>5
  <2>3. QED
    BY <1>1, <1>2, <2>1, <2>2, SMT
<1>6. ASSUME OneWindow PROVE FeedsIn(at, a) \subseteq {a}
  <2>1. ASSUME NEW q \in FeedsIn(at, a) PROVE q = a
    <3>1. q \in 1 .. Len(file) /\ at < q /\ q <= a /\ file[q] = "nl"
      BY <2>1 DEF FeedsIn
    <3>2. q \in Ends(at)
      <4>1. q \in at + 1 .. Len(file)
        BY <1>1, <3>1, SMT
      <4>2. QED
        BY <1>6, <3>1, <4>1, WholeReads DEF Ends
    <3>3. a <= q
      BY <1>5, <3>1, <3>2
    <3>4. QED
      BY <1>4, <3>1, <3>3, SMT
  <2>2. QED
    BY <2>1
<1>7. IsFiniteSet({a}) /\ Cardinality({a}) = 1
  BY FS_Singleton
<1>8. OneWindow => Cardinality(FeedsIn(at, a)) <= 1
  BY <1>6, <1>7, FS_Subset
<1>9. ASSUME OneWindow, NoBareCR
      PROVE  a \in LineFeeds /\ Cardinality(FeedsIn(at, a)) = 1
  <2>1. file[a] = "nl"
    BY <1>1, <1>2, <1>3, <1>9, SMT DEF NoBareCR
  <2>2. a \in FeedsIn(at, a) /\ a \in LineFeeds
    BY <1>1, <1>4, <2>1, SMT DEF FeedsIn, LineFeeds
  <2>3. FeedsIn(at, a) = {a}
    BY <1>6, <1>9, <2>2
  <2>4. QED
    BY <1>7, <2>2, <2>3
<1>10. QED
  BY <1>4, <1>5, <1>8, <1>9 DEF a, p

(* The way leads forward and ends in the file.                             *)
LEMMA SkipBounds ==
  ASSUME FilesAreBytes, NEW from \in 0 .. Len(file), NEW n \in Nat
  PROVE  Skip(from, n) \in from .. Len(file)
<1>1. Len(file) \in Nat
  BY LenProperties DEF FilesAreBytes
<1> DEFINE S == {m \in Nat : \A at \in 0 .. Len(file) : Skip(at, m) \in at .. Len(file)}
<1>2. 0 \in S
  BY <1>1, SkipSteps
<1>3. ASSUME NEW m \in Nat, m \in S PROVE m + 1 \in S
  <2>1. ASSUME NEW at \in 0 .. Len(file) PROVE Skip(at, m + 1) \in at .. Len(file)
    <3> DEFINE a == AfterTerminator(Min(Ends(at)))
    <3>1. at \in Nat
      BY <1>1
    <3>2. Skip(at, m + 1) = IF Ends(at) = {} THEN Len(file) ELSE Skip(a, m)
      BY <3>1, SkipSteps
    <3>3. Ends(at) # {} => a \in at + 1 .. Len(file)
      BY <3>1, OneFeed
    <3> HIDE DEF a
    <3>4. CASE Ends(at) = {}
      BY <1>1, <3>2, <3>4
    <3>5. CASE Ends(at) # {}
      <4>1. a \in at + 1 .. Len(file) /\ a \in 0 .. Len(file)
        BY <1>1, <3>1, <3>3, <3>5
      <4>2. Skip(a, m) \in a .. Len(file)
        BY <1>3, <4>1
      <4>3. QED
        BY <1>1, <3>1, <3>2, <3>5, <4>1, <4>2
    <3>6. QED
      BY <3>4, <3>5
  <2>2. QED
    BY <2>1
<1> HIDE DEF S
<1>4. \A m \in Nat : m \in S
  BY <1>2, <1>3, SetInduction
<1>5. QED
  BY <1>4 DEF S

(* As many lines as a stretch has line feeds do not lead out of it.        *)
LEMMA SkipWithin ==
  ASSUME FilesAreBytes, OneWindow, NEW b \in Nat, NEW e \in Nat, b <= e, NEW n \in Nat,
         n <= Cardinality(FeedsIn(b, e))
  PROVE  Skip(b, n) \in Nat /\ Skip(b, n) <= e
<1>1. Len(file) \in Nat
  BY LenProperties DEF FilesAreBytes
<1> DEFINE S == {m \in Nat : \A at \in Nat :
                   at <= e /\ m <= Cardinality(FeedsIn(at, e)) => Skip(at, m) <= e}
<1>2. 0 \in S
  BY SkipSteps
<1>3. ASSUME NEW m \in Nat, m \in S PROVE m + 1 \in S
  <2>1. ASSUME NEW at \in Nat, at <= e, m + 1 <= Cardinality(FeedsIn(at, e))
        PROVE  Skip(at, m + 1) <= e
    <3> DEFINE a == AfterTerminator(Min(Ends(at)))
    <3>1. FeedsIn(at, e) # {}
      <4>1. ASSUME FeedsIn(at, e) = {} PROVE Cardinality(FeedsIn(at, e)) = 0
        BY <4>1, FS_EmptySet
      <4>2. ~(m + 1 <= 0)
        OBVIOUS
      <4>3. QED
        BY <2>1, <4>1, <4>2
    <3>2. PICK q \in FeedsIn(at, e) : TRUE
      BY <3>1
    <3>3. q \in 1 .. Len(file) /\ at < q /\ q <= e /\ file[q] = "nl"
      BY <3>2 DEF FeedsIn
    <3>4. q \in Ends(at)
      <4>1. q \in at + 1 .. Len(file)
        BY <1>1, <2>1, <3>3, SMT
      <4>2. QED
        BY <2>1, <3>3, <4>1, WholeReads DEF Ends
    <3>5. a \in at + 1 .. Len(file) /\ Cardinality(FeedsIn(at, a)) <= 1 /\ a <= q
      BY <3>3, <3>4, OneFeed
    <3>6. Skip(at, m + 1) = Skip(a, m)
      BY <3>4, SkipSteps
    <3> HIDE DEF a
    <3>7. a \in Nat /\ at <= a /\ a <= e
      BY <1>1, <3>3, <3>5, SMT
    <3>8. /\ Cardinality(FeedsIn(at, a)) + Cardinality(FeedsIn(a, e))
               = Cardinality(FeedsIn(at, e))
          /\ Cardinality(FeedsIn(at, a)) \in Nat /\ Cardinality(FeedsIn(a, e)) \in Nat
      BY <3>7, FeedsSplit
    <3>9. m <= Cardinality(FeedsIn(a, e))
      BY <2>1, <3>5, <3>8, SMT
    <3>10. QED
      BY <1>3, <3>6, <3>7, <3>9
  <2>2. QED
    BY <2>1
<1> HIDE DEF S
<1>4. \A m \in Nat : m \in S
  BY <1>2, <1>3, SetInduction
<1>5. QED
  BY <1>4, SkipSteps DEF S

(* More lines lead further.                                                *)
LEMMA SkipGrows ==
  ASSUME FilesAreBytes, NEW from \in 0 .. Len(file), NEW n \in Nat, NEW m \in Nat, n <= m
  PROVE  Skip(from, n) <= Skip(from, m)
<1>1. Len(file) \in Nat
  BY LenProperties DEF FilesAreBytes
<1> DEFINE S == {k \in Nat : \A at \in 0 .. Len(file), x \in Nat : Skip(at, k) <= Skip(at, k + x)}
<1>2. 0 \in S
  <2>1. ASSUME NEW at \in 0 .. Len(file), NEW x \in Nat PROVE Skip(at, 0) <= Skip(at, 0 + x)
    <3>1. at \in Nat /\ 0 + x = x
      BY <1>1
    <3>2. Skip(at, x) \in at .. Len(file) /\ Skip(at, 0) = at
      BY <3>1, SkipBounds, SkipSteps
    <3>3. QED
      BY <1>1, <3>1, <3>2
  <2>2. QED
    BY <2>1
<1>3. ASSUME NEW k \in Nat, k \in S PROVE k + 1 \in S
  <2>1. ASSUME NEW at \in 0 .. Len(file), NEW x \in Nat
        PROVE  Skip(at, k + 1) <= Skip(at, (k + 1) + x)
    <3> DEFINE a == AfterTerminator(Min(Ends(at)))
    <3>1. at \in Nat /\ (k + 1) + x = (k + x) + 1 /\ k + x \in Nat
      BY <1>1, SMT
    <3>2. /\ Skip(at, k + 1) = IF Ends(at) = {} THEN Len(file) ELSE Skip(a, k)
          /\ Skip(at, (k + x) + 1) = IF Ends(at) = {} THEN Len(file) ELSE Skip(a, k + x)
      BY <3>1, SkipSteps
    <3>3. Ends(at) # {} => a \in at + 1 .. Len(file)
      BY <3>1, OneFeed
    <3> HIDE DEF a
    <3>4. Ends(at) # {} => a \in 0 .. Len(file)
      BY <1>1, <3>1, <3>3
    <3>5. Ends(at) # {} => Skip(a, k) <= Skip(a, k + x)
      BY <1>3, <3>4
    <3>6. CASE Ends(at) = {}
      BY <1>1, <3>1, <3>2, <3>6
    <3>7. CASE Ends(at) # {}
      BY <3>1, <3>2, <3>5, <3>7
    <3>8. QED
      BY <3>6, <3>7
  <2>2. QED
    BY <2>1
<1> HIDE DEF S
<1>4. \A k \in Nat : k \in S
  BY <1>2, <1>3, SetInduction
<1>5. m - n \in Nat /\ n + (m - n) = m
  BY SMT
<1>6. QED
  BY <1>4, <1>5 DEF S

(* Where no carriage return stands alone, n lines further is the n-th line *)
(* feed.                                                                   *)
LEMMA SkipFeeds ==
  ASSUME FilesAreBytes, OneWindow, NoBareCR, NEW b \in 0 .. Len(file), NEW n \in Nat, n > 0,
         n <= Cardinality(FeedsIn(b, Len(file)))
  PROVE  LET q == Skip(b, n)
         IN  q \in LineFeeds /\ b < q /\ Cardinality(FeedsIn(b, q)) = n
<1>1. Len(file) \in Nat
  BY LenProperties DEF FilesAreBytes
<1> DEFINE N == Len(file)
           Good(at, m) == /\ Skip(at, m + 1) \in LineFeeds /\ at < Skip(at, m + 1)
                          /\ Cardinality(FeedsIn(at, Skip(at, m + 1))) = m + 1
           S == {m \in Nat : \A at \in 0 .. N : m + 1 <= Cardinality(FeedsIn(at, N)) => Good(at, m)}
<1>2. ASSUME NEW at \in 0 .. N, NEW m \in Nat, m + 1 <= Cardinality(FeedsIn(at, N))
      PROVE  LET a == AfterTerminator(Min(Ends(at)))
             IN  /\ a \in at + 1 .. N /\ a \in LineFeeds /\ Cardinality(FeedsIn(at, a)) = 1
                 /\ Skip(at, m + 1) = Skip(a, m) /\ m <= Cardinality(FeedsIn(a, N))
                 /\ Cardinality(FeedsIn(a, N)) \in Nat
  <2> DEFINE a == AfterTerminator(Min(Ends(at)))
  <2>1. FeedsIn(at, N) # {}
    <3>1. ASSUME FeedsIn(at, N) = {} PROVE Cardinality(FeedsIn(at, N)) = 0
      BY <3>1, FS_EmptySet
    <3>2. ~(m + 1 <= 0)
      OBVIOUS
    <3>3. QED
      BY <1>2, <3>1, <3>2
  <2>2. PICK q \in FeedsIn(at, N) : TRUE
    BY <2>1
  <2>3. q \in Ends(at) /\ at \in Nat
    <3>1. at \in Nat /\ q \in at + 1 .. N /\ file[q] = "nl"
      BY <1>1, <2>2, SMT DEF FeedsIn
    <3>2. QED
      BY <3>1, WholeReads DEF Ends
  <2>4. a \in at + 1 .. N /\ a \in LineFeeds /\ Cardinality(FeedsIn(at, a)) = 1
    BY <2>3, OneFeed
  <2>5. Skip(at, m + 1) = Skip(a, m)
    BY <2>3, SkipSteps
  <2> HIDE DEF a
  <2>6. a \in Nat /\ at <= a /\ a <= N
    BY <1>1, <2>3, <2>4
  <2>7. /\ Cardinality(FeedsIn(at, a)) + Cardinality(FeedsIn(a, N)) = Cardinality(FeedsIn(at, N))
        /\ Cardinality(FeedsIn(a, N)) \in Nat
    BY <1>1, <2>3, <2>6, FeedsSplit
  <2>8. m <= Cardinality(FeedsIn(a, N))
    BY <1>2, <2>4, <2>7, SMT
  <2>9. QED
    BY <2>4, <2>5, <2>7, <2>8 DEF a
<1>3. 0 \in S
  <2>1. ASSUME NEW at \in 0 .. N, 0 + 1 <= Cardinality(FeedsIn(at, N)) PROVE Good(at, 0)
    <3> DEFINE a == AfterTerminator(Min(Ends(at)))
    <3>1. /\ a \in at + 1 .. N /\ a \in LineFeeds /\ Cardinality(FeedsIn(at, a)) = 1
          /\ Skip(at, 0 + 1) = Skip(a, 0)
      BY <1>2, <2>1
    <3> HIDE DEF a
    <3>2. a \in Nat /\ at < a
      BY <1>1, <3>1
    <3>3. Skip(at, 0 + 1) = a
      BY <3>1, <3>2, SkipSteps
    <3>4. QED
      BY <3>1, <3>2, <3>3
  <2>2. QED
    BY <2>1
<1>4. ASSUME NEW m \in Nat, m \in S PROVE m + 1 \in S
  <2>1. ASSUME NEW at \in 0 .. N, (m + 1) + 1 <= Cardinality(FeedsIn(at, N))
        PROVE  Good(at, m + 1)
    <3> DEFINE a == AfterTerminator(Min(Ends(at)))
               q == Skip(a, m + 1)
    <3>1. /\ a \in at + 1 .. N /\ a \in LineFeeds /\ Cardinality(FeedsIn(at, a)) = 1
          /\ Skip(at, (m + 1) + 1) = q /\ m + 1 <= Cardinality(FeedsIn(a, N))
      BY <1>2, <2>1
    <3> HIDE DEF a
    <3>2. a \in Nat /\ at < a /\ a \in 0 .. N /\ at \in Nat
      BY <1>1, <3>1
    <3>3. q \in LineFeeds /\ a < q /\ Cardinality(FeedsIn(a, q)) = m + 1
      BY <1>4, <3>1, <3>2
    <3> HIDE DEF q
    <3>4. q \in Nat
      BY <1>1, <3>3 DEF LineFeeds
    <3>5. Cardinality(FeedsIn(at, a)) + Cardinality(FeedsIn(a, q)) = Cardinality(FeedsIn(at, q))
      BY <3>2, <3>3, <3>4, FeedsSplit, SMT
    <3>6. QED
      BY <3>1, <3>2, <3>3, <3>4, <3>5, SMT
  <2>2. QED
    BY <2>1
<1> HIDE DEF S, Good, N
<1>5. \A m \in Nat : m \in S
  BY <1>3, <1>4, SetInduction
<1>6. n - 1 \in Nat /\ (n - 1) + 1 = n
  BY SMT
<1>7. Good(b, n - 1)
  BY <1>5, <1>6 DEF S, N
<1>8. QED
  BY <1>6, <1>7 DEF Good

-----------------------------------------------------------------------------
(* The search among the chunks.                                            *)

ChunkType == [byte_offset : 0 .. Len(file), start_line : Nat]

(* Chunks are listed in the order of the file, from its first line on.     *)
ChunksOrdered ==
  /\ chunks \in Seq(ChunkType)
  /\ \A k, l \in 1 .. Len(chunks) : k <= l => chunks[k].start_line <= chunks[l].start_line
  /\ chunks # << >> => chunks[1] = Chunk(0, 0)

(* The chunk (counted from 0) that begins last at or before a line.        *)
IsLastChunk(r, line) ==
  /\ r \in 0 .. Len(chunks) - 1 /\ StartLine(r) <= line
  /\ \A k \in 0 .. Len(chunks) - 1 : k > r => StartLine(k) > line

(* It is among the n from base on.                                         *)
Narrowed(base, n, line) ==
  /\ base + n <= Len(chunks) /\ StartLine(base) <= line
  /\ \A k \in 0 .. Len(chunks) - 1 : k >= base + n => StartLine(k) > line

SearchesOnce(f, n, line) ==
  [base \in Nat |-> IF n <= 1 THEN base ELSE f[n - n \div 2][Halved(base, n \div 2, line)]]

(* The chunks have their fields.                                           *)
LEMMA ChunkFields ==
  ASSUME ChunksOrdered
  PROVE  /\ Len(chunks) \in Nat
         /\ \A k \in 0 .. Len(chunks) - 1 : k + 1 \in 1 .. Len(chunks) /\ StartLine(k) \in Nat
         /\ \A k \in 1 .. Len(chunks) : /\ chunks[k] \in ChunkType /\ chunks[k].start_line \in Nat
                                        /\ chunks[k].byte_offset \in 0 .. Len(file)
                                        /\ k - 1 \in 0 .. Len(chunks) - 1
                                        /\ StartLine(k - 1) = chunks[k].start_line
         /\ \A k, l \in 0 .. Len(chunks) - 1 : k <= l => StartLine(k) <= StartLine(l)
<1>1. Len(chunks) \in Nat /\ \A k \in 1 .. Len(chunks) : chunks[k] \in ChunkType
  BY LenProperties, ElementOfSeq DEF ChunksOrdered
<1>2. ASSUME NEW k \in 1 .. Len(chunks)
      PROVE  /\ chunks[k].start_line \in Nat /\ chunks[k].byte_offset \in 0 .. Len(file)
             /\ k - 1 \in 0 .. Len(chunks) - 1 /\ (k - 1) + 1 = k
             /\ StartLine(k - 1) = chunks[k].start_line
  <2>1. chunks[k] \in ChunkType
    BY <1>1
  <2>2. k - 1 \in 0 .. Len(chunks) - 1 /\ (k - 1) + 1 = k
    BY <1>1, SMT
  <2>3. StartLine(k - 1) = chunks[k].start_line
    BY <2>2 DEF StartLine
  <2>4. QED
    BY <2>1, <2>2, <2>3 DEF ChunkType
<1>3. ASSUME NEW k \in 0 .. Len(chunks) - 1
      PROVE  k + 1 \in 1 .. Len(chunks) /\ StartLine(k) = chunks[k + 1].start_line
  BY <1>1, SMT DEF StartLine
<1>4. ASSUME NEW k \in 0 .. Len(chunks) - 1, NEW l \in 0 .. Len(chunks) - 1, k <= l
      PROVE  StartLine(k) <= StartLine(l)
  <2>1. k + 1 \in 1 .. Len(chunks) /\ l + 1 \in 1 .. Len(chunks) /\ k + 1 <= l + 1
    BY <1>1, <1>4, SMT
  <2>2. QED
    BY <1>3, <2>1 DEF ChunksOrdered
<1>5. QED
  BY <1>1, <1>2, <1>3, <1>4

(* Halving keeps the chunk that is looked for.                             *)
LEMMA HalvingNarrows ==
  ASSUME ChunksOrdered, NEW line \in Nat, NEW base \in Nat, NEW n \in Nat, n > 1,
         Narrowed(base, n, line)
  PROVE  Narrowed(Halved(base, n \div 2, line), n - n \div 2, line)
<1> DEFINE half == n \div 2
           N == Len(chunks)
<1>1. half \in Nat /\ n - half \in Nat /\ 0 < half /\ half < n /\ half <= n - half
  BY SMT
<1> HIDE DEF half
<1>2. N \in Nat /\ \A k, l \in 0 .. N - 1 : k <= l => StartLine(k) <= StartLine(l)
  BY ChunkFields
<1>3. \A k \in 0 .. N - 1 : StartLine(k) \in Nat
  BY ChunkFields
<1> HIDE DEF N
<1>4. /\ base + n <= N /\ StartLine(base) <= line
      /\ \A k \in 0 .. N - 1 : k >= base + n => StartLine(k) > line
  BY DEF Narrowed, N
<1>5. base + half \in 0 .. N - 1
  BY <1>1, <1>2, <1>4, SMT
<1>6. CASE StartLine(base + half) <= line
  <2>1. Halved(base, half, line) = base + half
    BY <1>6 DEF Halved
  <2>2. (base + half) + (n - half) = base + n
    BY <1>1, SMT
  <2>3. Narrowed(base + half, n - half, line)
    BY <1>4, <1>6, <2>2 DEF Narrowed, N
  <2>4. QED
    BY <2>1, <2>3 DEF half
<1>7. CASE ~(StartLine(base + half) <= line)
  <2>1. Halved(base, half, line) = base
    BY <1>7 DEF Halved
  <2>2. base + (n - half) <= N
    BY <1>1, <1>2, <1>4, SMT
  <2>3. ASSUME NEW k \in 0 .. N - 1, k >= base + (n - half)
        PROVE  StartLine(k) > line
    <3>1. base + half <= k
      BY <1>1, <1>2, <2>3, SMT
    <3>2. StartLine(base + half) <= StartLine(k)
      BY <1>2, <1>5, <3>1
    <3> DEFINE x == StartLine(base + half)
               y == StartLine(k)
    <3>3. x \in Nat /\ y \in Nat /\ x <= y /\ ~(x <= line)
      BY <1>3, <1>5, <1>7, <3>2
    <3> HIDE DEF x, y
    <3>4. y > line
      BY <3>3, SMT
    <3>5. QED
      BY <3>4 DEF y
  <2>4. Narrowed(base, n - half, line)
    BY <1>4, <2>2, <2>3 DEF Narrowed, N
  <2>5. QED
    BY <2>1, <2>4 DEF half
<1>8. QED
  BY <1>6, <1>7

(* The loop ends with the only chunk that is left.                         *)
LEMMA SearchFinds ==
  ASSUME ChunksOrdered, chunks # << >>, NEW line \in Nat
  PROVE  IsLastChunk(ChunkIdx(line), line)
<1> DEFINE D == [Nat -> Nat]
           H == [n \in Nat |-> [f \in [Nat -> D] |-> SearchesOnce(f, n, line)]]
           IsLoop(f) == f = [n \in Nat |-> SearchesOnce(f, n, line)]
           loop == CHOOSE f : IsLoop(f)
           N == Len(chunks)
<1>1. N \in Nat /\ N >= 1
  BY ChunkFields, EmptySeq DEF ChunksOrdered
<1>2. \A n \in Nat : n > 1 => n - n \div 2 \in Nat /\ n - n \div 2 < n /\ n - n \div 2 >= 1
  BY SMT
<1>3. \A n \in Nat, base \in Nat : Halved(base, n \div 2, line) \in Nat
  <2>1. ASSUME NEW n \in Nat, NEW base \in Nat PROVE Halved(base, n \div 2, line) \in Nat
    <3>1. n \div 2 \in Nat
      BY SMT
    <3>2. base + n \div 2 \in Nat
      BY <3>1, SMT
    <3>3. QED
      BY <3>2 DEF Halved
  <2>2. QED
    BY <2>1
<1>4. ASSUME NEW n \in Nat, NEW f \in [Nat -> D]
      PROVE  SearchesOnce(f, n, line) \in D
  <2>1. \A m \in Nat : f[m] \in D
    OBVIOUS
  <2>2. \A m \in Nat, at \in Nat : f[m][at] \in Nat
    BY <2>1
  <2>3. ~(n <= 1) => n - n \div 2 \in Nat
    BY <1>2
  <2> HIDE DEF D
  <2>4. ASSUME NEW base \in Nat
        PROVE  (IF n <= 1 THEN base ELSE f[n - n \div 2][Halved(base, n \div 2, line)]) \in Nat
    BY <1>3, <2>2, <2>3, Zenon
  <2>5. QED
    BY <2>4, Zenon DEF SearchesOnce, D
<1>5. ASSUME NEW n \in Nat, NEW f \in [Nat -> D], NEW g \in [Nat -> D], Earlier(f, g, n)
      PROVE  SearchesOnce(f, n, line) = SearchesOnce(g, n, line)
  <2>1. ~(n <= 1) => n - n \div 2 \in Nat /\ n - n \div 2 < n
    BY <1>2
  <2>2. ~(n <= 1) => f[n - n \div 2] = g[n - n \div 2]
    BY <1>5, <2>1 DEF Earlier
  <2>3. QED
    BY <2>2, Zenon DEF SearchesOnce
<1>6. \A n \in Nat : \A f \in [Nat -> D] : H[n][f] = SearchesOnce(f, n, line)
  OBVIOUS
<1>7. [n \in Nat |-> n] \in D
  OBVIOUS
<1> HIDE DEF H, D
<1>8. FromEarlier(H, D)
  BY <1>4, <1>5, <1>6 DEF FromEarlier
<1>9. \E F : IsLoop(F)
  <2>1. PICK F \in [Nat -> D] : \A n \in Nat : F[n] = H[n][F]
    BY <1>7, <1>8, Recursion
  <2>2. \A n \in Nat : F[n] = SearchesOnce(F, n, line)
    BY <1>6, <2>1
  <2>3. F = [n \in Nat |-> F[n]]
    OBVIOUS
  <2>4. F = [n \in Nat |-> SearchesOnce(F, n, line)]
    BY <2>2, <2>3, Zenon
  <2>5. QED
    BY <2>4
<1>10. IsLoop(loop)
  <2> HIDE DEF IsLoop
  <2>1. QED
    BY <1>9, Zenon
<1>11. ChunkIdx(line) =
         IF loop[N][0] + 1 < N /\ StartLine(loop[N][0] + 1) <= line
         THEN loop[N][0] + 1 ELSE loop[N][0]
  BY Zenon DEF ChunkIdx, SearchesOnce
<1> HIDE DEF loop
<1>12. \A n \in Nat : loop[n] = SearchesOnce(loop, n, line)
  <2> DEFINE again == [n \in Nat |-> SearchesOnce(loop, n, line)]
  <2>1. \A n \in Nat : again[n] = SearchesOnce(loop, n, line)
    OBVIOUS
  <2>2. loop = again
    BY <1>10
  <2> HIDE DEF again
  <2>3. QED
    BY <2>1, <2>2
<1>13. \A n \in Nat : \A base \in Nat :
         loop[n][base] = IF n <= 1 THEN base ELSE loop[n - n \div 2][Halved(base, n \div 2, line)]
  BY <1>12, Zenon DEF SearchesOnce
<1> DEFINE Finds(n) == \A base \in Nat : Narrowed(base, n, line) => IsLastChunk(loop[n][base], line)
           S == {n \in Nat : \A m \in Nat : 1 <= m /\ m <= n => Finds(m)}
<1>14. 0 \in S
  BY SMT
<1>15. ASSUME NEW n \in Nat, n \in S PROVE n + 1 \in S
  <2>1. ASSUME NEW base \in Nat, Narrowed(base, n + 1, line)
        PROVE  IsLastChunk(loop[n + 1][base], line)
    <3> DEFINE m == n + 1
    <3>1. m \in Nat /\ m >= 1 /\ (m > 1 => m - m \div 2 <= n)
      BY SMT
    <3>2. CASE m <= 1
      <4>1. m = 1
        BY <3>1, <3>2
      <4>2. loop[m][base] = base
        BY <1>13, <3>1, <3>2
      <4>3. /\ base + 1 <= N /\ StartLine(base) <= line
            /\ \A k \in 0 .. N - 1 : k >= base + 1 => StartLine(k) > line
        BY <2>1, <4>1 DEF Narrowed
      <4>4. base \in 0 .. N - 1 /\ \A k \in 0 .. N - 1 : k > base => k >= base + 1
        BY <1>1, <4>3
      <4>5. IsLastChunk(base, line)
        BY <4>3, <4>4 DEF IsLastChunk
      <4>6. QED
        BY <4>2, <4>5
    <3>3. CASE ~(m <= 1)
      <4>1. m > 1 /\ m - m \div 2 \in Nat /\ 1 <= m - m \div 2 /\ m - m \div 2 <= n
        BY <1>2, <3>1, <3>3
      <4>2. Narrowed(Halved(base, m \div 2, line), m - m \div 2, line)
        BY <2>1, <3>1, <4>1, HalvingNarrows
      <4>3. Halved(base, m \div 2, line) \in Nat
        BY <1>3, <3>1
      <4>4. Finds(m - m \div 2)
        BY <1>15, <4>1
      <4>5. loop[m][base] = loop[m - m \div 2][Halved(base, m \div 2, line)]
        BY <1>13, <3>1, <3>3
      <4>6. QED
        BY <4>2, <4>3, <4>4, <4>5
    <3>4. QED
      BY <3>2, <3>3
  <2>2. Finds(n + 1)
    BY <2>1
  <2>3. \A m \in Nat : 1 <= m /\ m <= n + 1 => m <= n \/ m = n + 1
    BY SMT
  <2>4. \A m \in Nat : 1 <= m /\ m <= n + 1 => Finds(m)
    <3> HIDE DEF Finds
    <3>1. QED
      BY <1>15, <2>2, <2>3
  <2>5. QED
    BY <2>4
<1>16. \A n \in Nat : n \in S
  <2> HIDE DEF S
  <2>1. QED
    BY <1>14, <1>15, SetInduction
<1>17. Finds(N)
  <2>1. N \in Nat /\ 1 <= N /\ N <= N
    BY <1>1
  <2>2. N \in S
    BY <1>16, <2>1
  <2> HIDE DEF Finds, N
  <2>3. \A m \in Nat : 1 <= m /\ m <= N => Finds(m)
    BY <2>2, Zenon
  <2>4. QED
    BY <2>1, <2>3, Zenon
<1>18. Narrowed(0, N, line)
  <2>1. StartLine(0) = 0
    BY DEF StartLine, ChunksOrdered, Chunk
  <2>2. QED
    BY <1>1, <2>1 DEF Narrowed
<1>19. IsLastChunk(loop[N][0], line)
  BY <1>17, <1>18
<1>20. ~(loop[N][0] + 1 < N /\ StartLine(loop[N][0] + 1) <= line)
  <2> DEFINE r == loop[N][0]
  <2>1. r \in 0 .. N - 1 /\ \A k \in 0 .. N - 1 : k > r => StartLine(k) > line
    BY <1>19 DEF IsLastChunk
  <2> HIDE DEF r
  <2>2. ASSUME r + 1 < N PROVE ~(StartLine(r + 1) <= line)
    <3>1. r + 1 \in 0 .. N - 1 /\ r + 1 > r
      BY <1>1, <2>1, <2>2
    <3>2. StartLine(r + 1) > line /\ StartLine(r + 1) \in Nat
      BY <2>1, <3>1, ChunkFields
    <3>3. QED
      BY <3>2, SMT
  <2>3. QED
    BY <2>2 DEF r
<1>21. QED
  BY <1>11, <1>19, <1>20

-----------------------------------------------------------------------------
(* Numbers.                                                                *)

(* The pieces of b bytes in a bytes, the last one begun.                   *)
LEMMA PiecesOf ==
  ASSUME NEW a \in Nat, NEW b \in Nat \ {0}
  PROVE  /\ DivUp(a, b) \in Nat /\ DivUp(a, b) <= a /\ (a > 0 => DivUp(a, b) > 0)
         /\ \A k \in 1 .. DivUp(a, b) : (k - 1) * b \in Nat /\ (k - 1) * b < a
         /\ a <= DivUp(a, b) * b
<1> DEFINE q == DivUp(a, b)
<1>1. q \in Nat /\ q * b <= a + b - 1 /\ a + b - 1 < q * b + b
  BY Division DEF DivUp
<1> HIDE DEF q
<1>2. q <= a
  <2>1. ASSUME q >= a + 1 PROVE FALSE
    <3>1. (a + 1) * b <= q * b
      BY <1>1, <2>1, TimesGrows
    <3>2. (a + 1) * b = a * b + b /\ a * 1 <= a * b
      BY SMT
    <3>3. QED
      BY <1>1, <3>1, <3>2, SMT
  <2>2. QED
    BY <1>1, <2>1
<1>3. ASSUME NEW k \in 1 .. q PROVE (k - 1) * b \in Nat /\ (k - 1) * b < a
  <2>1. k * b <= q * b /\ k * b \in Nat
    BY <1>1, TimesGrows
  <2>2. (k - 1) * b = k * b - b /\ k - 1 \in Nat
    BY <1>1, SMT
  <2>3. QED
    BY <1>1, <2>1, <2>2, SMT
<1>4. a <= q * b /\ (a > 0 => q > 0)
  <2>1. a <= q * b
    BY <1>1, SMT
  <2>2. q = 0 => q * b = 0
    BY SMT
  <2>3. QED
    BY <1>1, <2>1, <2>2
<1>5. QED
  BY <1>1, <1>2, <1>3, <1>4 DEF q

(* A stretch has no more lines than bytes.                                 *)
LEMMA CountsBytes ==
  ASSUME FilesAreBytes, NEW a \in Nat, NEW b \in Nat, a <= b
  PROVE  count_newlines(a, b) \in 0 .. b - a
<1> DEFINE S == {i \in 1 .. Len(file) :
                   a < i /\ i <= b /\ (file[i] = "nl" \/ Miscounted(file, avx2, a, b, i))}
<1>1. Len(file) \in Nat
  BY LenProperties DEF FilesAreBytes
<1>2. S \subseteq a + 1 .. b
  BY <1>1, SMT
<1>3. count_newlines(a, b) = Cardinality(S)
  BY DEF count_newlines, CountNewlines
<1>4. IsFiniteSet(a + 1 .. b) /\ Cardinality(a + 1 .. b) = b - a
  <2> DEFINE c == a + 1
  <2>1. c \in Int /\ b \in Int /\ (IF c > b THEN 0 ELSE b - c + 1) = b - a
    BY SMT
  <2> HIDE DEF c
  <2>2. IsFiniteSet(c .. b) /\ Cardinality(c .. b) = IF c > b THEN 0 ELSE b - c + 1
    BY <2>1, FS_Interval
  <2>3. QED
    BY <2>1, <2>2 DEF c
<1> HIDE DEF S
<1>5. IsFiniteSet(S) /\ Cardinality(S) <= b - a /\ Cardinality(S) \in Nat
  BY <1>2, <1>4, FS_Subset, FS_CardinalityType
<1>6. QED
  BY <1>3, <1>5, SMT

(* The same for what the parallel builder counts; it counts on.            *)
LEMMA RayonCounts ==
  ASSUME FilesAreBytes, NEW a \in Nat, NEW b \in Nat, a <= b
  PROVE  /\ RayonCount(a) \in 0 .. a /\ RayonCount(b) \in 0 .. b
         /\ RayonCount(a) <= RayonCount(b) /\ RayonCount(b) <= Len(file)
<1> DEFINE Hit(i) == LET at == ((i - 1) \div RayonChunkSize) * RayonChunkSize
                         end == IF at + RayonChunkSize < Len(file) THEN at + RayonChunkSize
                                ELSE Len(file)
                     IN  file[i] = "nl" \/ Miscounted(file, avx2, at, end, i)
           S(to) == {i \in 1 .. Len(file) : i <= to /\ Hit(i)}
<1>1. Len(file) \in Nat
  BY LenProperties DEF FilesAreBytes
<1>2. \A to : RayonCount(to) = Cardinality(S(to))
  BY DEF RayonCount
<1> HIDE DEF Hit
<1>3. /\ S(a) \subseteq 1 .. a /\ S(b) \subseteq 1 .. b /\ S(a) \subseteq S(b)
      /\ S(b) \subseteq 1 .. Len(file)
  BY <1>1, SMT
<1>4. \A n \in Nat : IsFiniteSet(1 .. n) /\ Cardinality(1 .. n) = n
  BY FS_Interval, SMT
<1> HIDE DEF S
<1>5. IsFiniteSet(S(b)) /\ IsFiniteSet(S(a))
  BY <1>3, <1>4, FS_Subset
<1>6. /\ Cardinality(S(a)) \in Nat /\ Cardinality(S(b)) \in Nat
      /\ Cardinality(S(a)) <= a /\ Cardinality(S(b)) <= b
      /\ Cardinality(S(a)) <= Cardinality(S(b)) /\ Cardinality(S(b)) <= Len(file)
  <2>1. Cardinality(S(a)) <= a
    BY <1>3, <1>4, FS_Subset
  <2>2. Cardinality(S(b)) <= b
    BY <1>3, <1>4, FS_Subset
  <2>3. Cardinality(S(b)) <= Len(file)
    BY <1>1, <1>3, <1>4, FS_Subset
  <2>4. Cardinality(S(a)) <= Cardinality(S(b))
    BY <1>3, <1>5, FS_Subset
  <2>5. QED
    BY <1>5, <2>1, <2>2, <2>3, <2>4, FS_CardinalityType
<1>7. QED
  BY <1>2, <1>6, SMT

(* The last line is added.                                                 *)
LEMMA LinesInFile ==
  ASSUME FilesAreBytes, NEW n \in 0 .. Len(file)
  PROVE  /\ FinalLines(n) \in n .. Len(file) + 1
         /\ file = << >> => FinalLines(n) = n /\ n = 0
<1>1. Len(file) \in Nat /\ (file = << >> => Len(file) = 0)
  BY LenProperties, EmptySeq DEF FilesAreBytes
<1>2. CASE file = << >>
  BY <1>1, <1>2, SMT DEF FinalLines
<1>3. CASE file # << >>
  BY <1>1, <1>3, SMT DEF FinalLines
<1>4. QED
  BY <1>2, <1>3

-----------------------------------------------------------------------------
(* What the thread knows of itself, and readers of the index: lines are    *)
(* published in the order of the file, each chunk with the number of lines *)
(* before it, and never more lines than bytes.                             *)

Opened ==
  /\ file \in Files /\ FilesAreBytes /\ avx2 \in BOOLEAN /\ narrow \in BOOLEAN
  /\ is_fixed_width \in BOOLEAN

Listed ==
  /\ ChunksOrdered
  /\ \A k \in 1 .. Len(chunks) : chunks[k].start_line <= original_total_lines
  /\ original_total_lines \in 0 .. Len(file) + 1
  /\ ~is_fixed_width /\ original_total_lines > 0 => chunks # << >>

Thread ==
  /\ pc \in {"scan", "count", "publish", "finished", "cancelled"}
  /\ offset \in 0 .. Len(file) /\ current_line \in 0 .. offset
  /\ pc = "count" => offset < Len(file)
  /\ is_finished \in BOOLEAN /\ (is_finished <=> pc = "finished")
  /\ bytes_processed = IF pc = "finished" THEN Len(file) ELSE offset

(* Between two chunks all lines are published that were counted; the one   *)
(* that is counted begins with the lines that are published.               *)
Pending ==
  /\ is_fixed_width => pc = "finished"
  /\ pc # "publish" => local_chunks = << >>
  /\ pc \in {"scan", "count", "cancelled"} =>
       original_total_lines = current_line /\ (chunks = << >> => offset = 0)
  /\ pc = "publish" =>
       /\ original_total_lines <= current_line
       /\ \E at \in 0 .. Len(file) :
            /\ local_chunks = <<Chunk(at, original_total_lines)>>
            /\ chunks = << >> => at = 0 /\ original_total_lines = 0

Indexed == Opened /\ Listed /\ Thread /\ Pending

(* The parallel builder lists its chunks in order.                         *)
LEMMA RayonListed ==
  ASSUME Opened, ~is_fixed_width, chunks = RayonChunks,
         original_total_lines = FinalLines(RayonCount(Len(file)))
  PROVE  Listed
<1> DEFINE N == Len(file)
           R == RayonChunkSize
           M == DivUp(N, R)
<1>1. N \in Nat /\ R \in Nat \ {0} /\ FilesAreBytes
  BY ChunkAssumption, LenProperties DEF Opened, FilesAreBytes
<1> HIDE DEF N, R
<1>2. /\ M \in Nat /\ M <= N /\ (N > 0 => M > 0)
      /\ \A k \in 1 .. M : (k - 1) * R \in Nat /\ (k - 1) * R < N
  BY <1>1, PiecesOf
<1> HIDE DEF M
<1>3. chunks = [k \in 1 .. M |-> Chunk((k - 1) * R, RayonCount((k - 1) * R))]
  BY DEF RayonChunks, M, N, R
<1>4. \A k \in 1 .. M : /\ RayonCount((k - 1) * R) \in Nat
                        /\ RayonCount((k - 1) * R) <= RayonCount(N)
                        /\ (k - 1) * R \in 0 .. N
  <2>1. ASSUME NEW k \in 1 .. M
        PROVE  /\ RayonCount((k - 1) * R) \in Nat
               /\ RayonCount((k - 1) * R) <= RayonCount(N)
               /\ (k - 1) * R \in 0 .. N
    <3> DEFINE x == (k - 1) * R
    <3>1. x \in Nat /\ x <= N
      BY <1>1, <1>2
    <3> HIDE DEF x
    <3>2. RayonCount(x) \in 0 .. x /\ RayonCount(x) <= RayonCount(N)
      BY <1>1, <3>1, RayonCounts
    <3>3. x \in 0 .. N /\ RayonCount(x) \in Nat
      BY <1>1, <3>1, <3>2, SMT
    <3>4. QED
      BY <3>2, <3>3 DEF x
  <2>2. QED
    BY <2>1
<1>5. \A k \in 1 .. M : /\ chunks[k] = Chunk((k - 1) * R, RayonCount((k - 1) * R))
                        /\ chunks[k].start_line = RayonCount((k - 1) * R)
  BY <1>3 DEF Chunk
<1>6. \A k \in 1 .. M : chunks[k] \in ChunkType
  <2>1. ASSUME NEW k \in 1 .. M PROVE chunks[k] \in ChunkType
    <3> DEFINE x == (k - 1) * R
               y == RayonCount(x)
    <3>1. x \in 0 .. N /\ y \in Nat /\ chunks[k] = Chunk(x, y)
      BY <1>4, <1>5
    <3> HIDE DEF x, y
    <3>2. QED
      BY <3>1 DEF ChunkType, Chunk, N
  <2>2. QED
    BY <2>1
<1>7. chunks \in Seq(ChunkType) /\ Len(chunks) = M
  <2>1. chunks = [k \in 1 .. M |-> chunks[k]]
    BY <1>3
  <2>2. chunks \in [1 .. M -> ChunkType]
    BY <1>6, <2>1
  <2>3. chunks \in Seq(ChunkType)
    BY <1>2, <2>2, SeqDef
  <2>4. QED
    BY <1>2, <2>2, <2>3, LenProperties
<1>8. ASSUME NEW k \in 1 .. M, NEW l \in 1 .. M, k <= l
      PROVE  chunks[k].start_line <= chunks[l].start_line
  <2>1. k - 1 \in Nat /\ l - 1 \in Nat /\ k - 1 <= l - 1
    BY <1>2, <1>8, SMT
  <2>2. (k - 1) * R <= (l - 1) * R /\ (k - 1) * R \in Nat /\ (l - 1) * R \in Nat
    BY <1>1, <2>1, TimesGrows
  <2>3. RayonCount((k - 1) * R) <= RayonCount((l - 1) * R)
    BY <1>1, <2>2, RayonCounts
  <2>4. QED
    BY <1>5, <2>3
<1>9. chunks # << >> => chunks[1] = Chunk(0, 0)
  <2> SUFFICES ASSUME chunks # << >> PROVE chunks[1] = Chunk(0, 0)
    OBVIOUS
  <2>1. M # 0
    BY <1>7, EmptySeq
  <2>2. 1 \in 1 .. M /\ (1 - 1) * R = 0
    BY <1>1, <1>2, <2>1, SMT
  <2>3. RayonCount(0) \in 0 .. 0
    BY <1>1, RayonCounts
  <2>4. RayonCount(0) = 0
    BY <2>3, SMT
  <2>5. QED
    BY <1>5, <2>2, <2>4
<1>10. ChunksOrdered
  BY <1>7, <1>8, <1>9 DEF ChunksOrdered
<1>11. RayonCount(N) \in 0 .. N
  BY <1>1, RayonCounts
<1>12. original_total_lines \in RayonCount(N) .. N + 1
  BY <1>1, <1>11, LinesInFile DEF N
<1>13. original_total_lines \in 0 .. N + 1 /\ RayonCount(N) <= original_total_lines
  BY <1>1, <1>11, <1>12, SMT
<1>14. \A k \in 1 .. Len(chunks) : chunks[k].start_line <= original_total_lines
  <2>1. ASSUME NEW k \in 1 .. M PROVE chunks[k].start_line <= original_total_lines
    <3> DEFINE x == RayonCount((k - 1) * R)
    <3>1. x \in Nat /\ x <= RayonCount(N) /\ chunks[k].start_line = x
      BY <1>4, <1>5
    <3> HIDE DEF x
    <3>2. QED
      BY <1>1, <1>11, <1>13, <3>1, SMT
  <2>2. QED
    BY <1>7, <2>1
<1>15. original_total_lines > 0 => chunks # << >>
  <2> SUFFICES ASSUME original_total_lines > 0, chunks = << >> PROVE FALSE
    OBVIOUS
  <2>1. M = 0
    BY <1>7, EmptySeq
  <2>2. N = 0
    BY <1>1, <1>2, <2>1, SMT
  <2>3. file = << >>
    BY <1>1, <2>2, EmptySeq DEF N, FilesAreBytes
  <2>4. original_total_lines = 0
    BY <1>1, <1>11, <2>3, LinesInFile DEF N
  <2>5. QED
    BY <2>4
<1>16. QED
  BY <1>10, <1>13, <1>14, <1>15 DEF Listed, N

(* However a file is opened, its index begins right.                       *)
LEMMA InitIndexes == Init => Indexed
<1> SUFFICES ASSUME Init PROVE Indexed
  OBVIOUS
<1>1. Opened /\ Len(file) \in Nat
  BY ChunkAssumption, LenProperties DEF Init, FixedWidth, Lazily, AtOnce, Opened, FilesAreBytes
<1>2. 0 \in 0 .. Len(file) /\ 0 \in 0 .. Len(file) + 1 /\ 0 \in 0 .. 0
  BY <1>1, SMT
<1>3. offset = 0 /\ current_line = 0 /\ local_chunks = << >>
  BY DEF Init
<1>4. << >> \in Seq(ChunkType) /\ Len(<< >>) = 0 /\ 1 .. 0 = {}
  BY EmptySeq
<1>5. CASE FixedWidth
  <2>1. original_total_lines \in 0 .. Len(file) + 1
    <3>1. FixedSize \in Nat \ {0}
      BY ChunkAssumption
    <3>2. DivUp(Len(file), FixedSize) \in Nat /\ DivUp(Len(file), FixedSize) <= Len(file)
      BY <1>1, <3>1, PiecesOf
    <3>3. original_total_lines = DivUp(Len(file), FixedSize)
      BY <1>5 DEF FixedWidth, FixedLines
    <3>4. QED
      BY <1>1, <3>2, <3>3, SMT
  <2>2. ChunksOrdered /\ \A k \in 1 .. Len(chunks) : chunks[k].start_line <= original_total_lines
    BY <1>4, <1>5 DEF FixedWidth, ChunksOrdered
  <2>3. QED
    BY <1>1, <1>2, <1>3, <1>5, <2>1, <2>2 DEF FixedWidth, Indexed, Listed, Thread, Pending
<1>6. CASE Lazily
  <2>1. ChunksOrdered /\ \A k \in 1 .. Len(chunks) : chunks[k].start_line <= original_total_lines
    BY <1>4, <1>6 DEF Lazily, ChunksOrdered
  <2>2. Listed
    BY <1>2, <1>6, <2>1 DEF Lazily, Listed
  <2>3. Thread
    BY <1>2, <1>3, <1>6 DEF Lazily, Thread
  <2>4. Pending
    BY <1>3, <1>6 DEF Lazily, Pending
  <2>5. QED
    BY <1>1, <2>2, <2>3, <2>4 DEF Indexed
<1>7. CASE AtOnce
  <2>1. Listed
    BY <1>1, <1>7, RayonListed DEF AtOnce
  <2>2. QED
    BY <1>1, <1>2, <1>3, <1>7, <2>1 DEF AtOnce, Indexed, Thread, Pending
<1>8. QED
  BY <1>5, <1>6, <1>7 DEF Init

(* Another chunk, with the lines that are published before it.             *)
LEMMA ListedGrows ==
  ASSUME Opened, Listed, NEW at \in 0 .. Len(file),
         chunks = << >> => at = 0 /\ original_total_lines = 0,
         file' = file, chunks' = chunks \o <<Chunk(at, original_total_lines)>>,
         original_total_lines' \in original_total_lines .. Len(file) + 1
  PROVE  Listed'
<1> DEFINE N == Len(chunks)
           new == Chunk(at, original_total_lines)
           total == original_total_lines
           total2 == original_total_lines'
<1>1. N \in Nat /\ chunks \in Seq(ChunkType)
  BY ChunkFields DEF Listed, ChunksOrdered
<1>2. total \in Nat /\ Len(file) \in Nat /\ total2 \in 0 .. Len(file) + 1 /\ total <= total2
  BY LenProperties, SMT DEF Listed, Opened, FilesAreBytes
<1>3. new \in ChunkType /\ new.start_line = total
  BY <1>2 DEF Chunk, ChunkType
<1> HIDE DEF new
<1>4. /\ chunks' \in Seq(ChunkType) /\ Len(chunks') = N + 1
      /\ \A k \in 1 .. N : chunks'[k] = chunks[k]
      /\ chunks'[N + 1] = new
  <2>1. chunks' = chunks \o <<new>> /\ <<new>> \in Seq(ChunkType)
    BY <1>3 DEF new
  <2>2. QED
    BY <1>1, <2>1, SMT
<1>5. \A k \in 1 .. N : chunks[k].start_line \in Nat /\ chunks[k].start_line <= total
  BY ChunkFields DEF Listed
<1>6. \A k \in 1 .. N + 1 : k \in 1 .. N \/ k = N + 1
  BY <1>1, SMT
<1>7. \A k \in 1 .. N + 1 : chunks'[k].start_line \in Nat /\ chunks'[k].start_line <= total
  <2>1. \A k \in 1 .. N : chunks'[k].start_line \in Nat /\ chunks'[k].start_line <= total
    BY <1>4, <1>5
  <2>2. chunks'[N + 1].start_line \in Nat /\ chunks'[N + 1].start_line <= total
    BY <1>2, <1>3, <1>4
  <2>3. QED
    BY <1>6, <2>1, <2>2
<1>8. ASSUME NEW k \in 1 .. N + 1, NEW l \in 1 .. N + 1, k <= l
      PROVE  chunks'[k].start_line <= chunks'[l].start_line
  <2>1. CASE l = N + 1
    BY <1>3, <1>4, <1>7, <2>1
  <2>2. CASE l \in 1 .. N
    <3>1. k \in 1 .. N
      BY <1>1, <1>8, <2>2, SMT
    <3>2. chunks[k].start_line <= chunks[l].start_line
      BY <1>8, <2>2, <3>1 DEF Listed, ChunksOrdered
    <3>3. QED
      BY <1>4, <2>2, <3>1, <3>2
  <2>3. QED
    BY <1>6, <2>1, <2>2
<1>9. chunks'[1] = Chunk(0, 0)
  <2>1. CASE chunks = << >>
    <3>1. N = 0
      BY <2>1, EmptySeq
    <3>2. QED
      BY <1>4, <2>1, <3>1 DEF new
  <2>2. CASE chunks # << >>
    <3>1. N # 0
      BY <1>1, <2>2, EmptySeq
    <3>2. 1 \in 1 .. N
      BY <1>1, <3>1, SMT
    <3>3. QED
      BY <1>4, <2>2, <3>2 DEF Listed, ChunksOrdered
  <2>3. QED
    BY <2>1, <2>2
<1>10. ChunkType' = ChunkType
  BY DEF ChunkType
<1>11. ChunksOrdered'
  BY <1>4, <1>8, <1>9, <1>10 DEF ChunksOrdered, Chunk
<1>12. \A k \in 1 .. Len(chunks') : chunks'[k].start_line <= total2
  <2>1. ASSUME NEW k \in 1 .. N + 1 PROVE chunks'[k].start_line <= total2
    <3> DEFINE x == chunks'[k].start_line
    <3>1. x \in Nat /\ x <= total
      BY <1>7
    <3> HIDE DEF x, total, total2
    <3>2. x <= total2
      BY <1>2, <3>1, SMT
    <3>3. QED
      BY <3>2 DEF x
  <2>2. QED
    BY <1>4, <2>1
<1>13. chunks' # << >>
  <2>1. N + 1 # 0
    BY <1>1, SMT
  <2>2. QED
    BY <1>4, <2>1, EmptySeq
<1>14. QED
  BY <1>2, <1>11, <1>12, <1>13 DEF Listed

(* Each step of the thread.                                                *)
LEMMA IndexerIndexes == Indexed /\ Indexer => Indexed'
<1> SUFFICES ASSUME Indexed, Indexer PROVE Indexed'
  OBVIOUS
<1> USE DEF Indexed
<1>1. UNCHANGED opened
  BY DEF Indexer, IndexCancelled, IndexCheck, IndexCount, IndexPublish, IndexFinish
<1>2. /\ file' = file /\ avx2' = avx2 /\ narrow' = narrow
      /\ is_fixed_width' = is_fixed_width
      /\ Len(file) \in Nat /\ Opened' /\ ChunkType' = ChunkType
  BY <1>1, LenProperties DEF Opened, FilesAreBytes, opened, ChunkType
<1>3. offset \in Nat /\ current_line \in Nat /\ original_total_lines \in Nat
  BY <1>2, SMT DEF Thread, Listed
<1>4. UNCHANGED index => Listed'
  BY <1>2 DEF Listed, ChunksOrdered, index, Chunk
<1>5. CASE IndexCancelled
  <2>1. Thread'
    BY <1>2, <1>5 DEF Thread, IndexCancelled, index, AfterCancel
  <2>2. Pending'
    BY <1>2, <1>5 DEF Pending, IndexCancelled, index, AfterCancel
  <2>3. QED
    BY <1>2, <1>4, <1>5, <2>1, <2>2 DEF IndexCancelled
<1>6. CASE IndexCheck
  <2>1. Thread'
    BY <1>2, <1>6 DEF Thread, IndexCheck, index
  <2>2. Pending'
    BY <1>2, <1>6 DEF Pending, IndexCheck, index
  <2>3. QED
    BY <1>2, <1>4, <1>6, <2>1, <2>2 DEF IndexCheck
<1>7. CASE IndexCount
  <2>1. offset < Len(file) /\ ~is_finished /\ ~is_fixed_width /\ local_chunks = << >>
    BY <1>7 DEF Thread, Pending, IndexCount
  <2>2. offset' \in Nat /\ offset' <= Len(file) /\ offset <= offset' /\ bytes_processed' = offset'
    <3> DEFINE take == Take(Len(file) - offset)
    <3>1. /\ take \in Nat /\ offset + take \in 0 .. Len(file) /\ offset <= offset + take
      BY TakeInFile DEF Thread, Opened
    <3>2. offset' = offset + take /\ bytes_processed' = offset + take
      BY <1>7 DEF IndexCount, Processed
    <3> HIDE DEF take
    <3>3. QED
      BY <1>2, <1>3, <3>1, <3>2, SMT
  <2>3. current_line' \in current_line .. offset'
    <3> DEFINE take == Take(Len(file) - offset)
               end == ChunkEnd(offset, take)
               n == count_newlines(offset, end)
    <3>1. n \in 0 .. offset' - offset
      <4>1. take \in Nat /\ offset' = offset + take
        BY <1>7, TakeInFile DEF Thread, Opened, IndexCount
      <4>2. end \in offset .. Len(file) /\ end <= offset + take
        BY <4>1, ReadsInFile DEF Thread, Opened
      <4> HIDE DEF take, end
      <4>3. end \in Nat /\ offset <= end /\ end <= offset'
        BY <1>2, <1>3, <4>1, <4>2, SMT
      <4>4. n \in 0 .. end - offset
        BY <1>3, <4>3, CountsBytes DEF Opened
      <4> DEFINE x == offset'
      <4>5. x \in Nat /\ end <= x /\ n \in 0 .. end - offset
        BY <2>2, <4>3, <4>4
      <4> HIDE DEF n, x
      <4>6. n \in 0 .. x - offset
        BY <1>3, <4>3, <4>5, SMT
      <4>7. QED
        BY <4>6 DEF x
    <3>2. current_line' = current_line + n
      BY <1>7 DEF IndexCount
    <3>3. current_line \in 0 .. offset
      BY DEF Thread
    <3> DEFINE x == offset'
               y == current_line'
    <3>4. n \in 0 .. x - offset /\ y = current_line + n /\ x \in Nat /\ offset <= x
      BY <2>2, <3>1, <3>2
    <3> HIDE DEF n, x, y
    <3>5. y \in current_line .. x
      BY <1>3, <3>3, <3>4, SMT
    <3>6. QED
      BY <3>5 DEF x, y
  <2>4. Thread'
    <3>1. offset' \in 0 .. Len(file) /\ current_line' \in 0 .. offset'
      BY <1>2, <1>3, <2>2, <2>3, SMT
    <3>2. QED
      BY <1>2, <1>7, <2>1, <2>2, <3>1 DEF IndexCount, Thread, index
  <2>5. local_chunks' = <<Chunk(offset, original_total_lines)>>
    BY <1>7, <2>1 DEF IndexCount, Pending
  <2>6. Pending'
    <3>1. offset \in 0 .. Len(file) /\ original_total_lines <= current_line'
      BY <1>3, <1>7, <2>3, SMT DEF Thread, Pending, IndexCount
    <3>2. chunks = << >> => offset = 0 /\ original_total_lines = 0
      BY <1>3, <1>7, SMT DEF Thread, Pending, IndexCount
    <3>3. pc' = "publish" /\ UNCHANGED index
      BY <1>7 DEF IndexCount
    <3>4. QED
      BY <1>2, <2>1, <2>5, <3>1, <3>2, <3>3 DEF Pending, Chunk, index
  <2>7. QED
    BY <1>2, <1>4, <1>7, <2>4, <2>6 DEF IndexCount
<1>8. CASE IndexPublish
  <2>1. PICK at \in 0 .. Len(file) : /\ local_chunks = <<Chunk(at, original_total_lines)>>
                                     /\ chunks = << >> => at = 0 /\ original_total_lines = 0
    BY <1>8 DEF Pending, IndexPublish
  <2>2. original_total_lines <= current_line /\ current_line <= Len(file)
    BY <1>2, <1>3, <1>8, SMT DEF Pending, IndexPublish, Thread
  <2>3. original_total_lines' \in original_total_lines .. Len(file) + 1
    BY <1>2, <1>3, <1>8, <2>2, SMT DEF IndexPublish, Published
  <2>4. Listed'
    BY <1>2, <1>8, <2>1, <2>3, ListedGrows DEF IndexPublish
  <2>5. Thread'
    BY <1>2, <1>8 DEF Thread, IndexPublish
  <2>6. chunks' # << >>
    BY <1>8, <2>1, SMT DEF IndexPublish, Listed, ChunksOrdered
  <2>7. Pending'
    BY <1>2, <1>8, <2>6 DEF Pending, IndexPublish, Published
  <2>8. QED
    BY <1>2, <2>4, <2>5, <2>7
<1>9. CASE IndexFinish
  <2>1. local_chunks = << >> /\ original_total_lines = current_line /\ ~is_fixed_width
        /\ (chunks = << >> => offset = 0)
    BY <1>9 DEF Pending, IndexFinish
  <2>2. offset = Len(file) /\ current_line \in 0 .. Len(file)
    BY <1>2, <1>3, <1>9, SMT DEF Thread, IndexFinish
  <2>3. chunks' = chunks
    BY <1>9, <2>1, SMT DEF IndexFinish, Listed, ChunksOrdered
  <2>4. /\ original_total_lines' \in current_line .. Len(file) + 1
        /\ file = << >> => original_total_lines' = 0
    BY <1>9, <2>2, LinesInFile, SMT DEF IndexFinish, Opened
  <2>5. Listed'
    <3>1. ChunksOrdered'
      BY <1>2, <2>3 DEF Listed, ChunksOrdered, Chunk
    <3>2. \A k \in 1 .. Len(chunks) : chunks[k].start_line <= original_total_lines'
      <4>1. ASSUME NEW k \in 1 .. Len(chunks) PROVE chunks[k].start_line <= original_total_lines'
        <5> DEFINE x == chunks[k].start_line
                   y == original_total_lines'
        <5>1. x \in Nat /\ x <= current_line /\ y \in current_line .. Len(file) + 1
          BY <2>1, <2>4, ChunkFields DEF Listed
        <5> HIDE DEF x, y
        <5>2. x <= y
          BY <1>2, <1>3, <5>1, SMT
        <5>3. QED
          BY <5>2 DEF x, y
      <4>2. QED
        BY <4>1
    <3>3. original_total_lines' \in 0 .. Len(file) + 1
      BY <1>2, <1>3, <2>4, SMT
    <3>4. original_total_lines' > 0 => chunks # << >>
      <4> SUFFICES ASSUME chunks = << >> PROVE original_total_lines' = 0
        BY SMT
      <4>1. Len(file) = 0
        BY <2>1, <2>2
      <4>2. file = << >>
        BY <4>1, EmptySeq DEF Opened, FilesAreBytes
      <4>3. QED
        BY <2>4, <4>2
    <3>5. QED
      BY <1>2, <2>3, <3>1, <3>2, <3>3, <3>4 DEF Listed
  <2>6. Thread'
    BY <1>2, <1>9 DEF Thread, IndexFinish
  <2>7. Pending'
    BY <1>2, <1>9, <2>1 DEF Pending, IndexFinish
  <2>8. QED
    BY <1>2, <2>5, <2>6, <2>7
<1>10. QED
  BY <1>5, <1>6, <1>7, <1>8, <1>9 DEF Indexer

(* Whoever leaves the index and its thread alone leaves them right.        *)
LEMMA UnreadIndexes ==
  ASSUME Indexed, UNCHANGED <<opened, index, indexer, bytes_processed>>
  PROVE  Indexed'
<1>1. /\ file' = file /\ avx2' = avx2 /\ narrow' = narrow
      /\ is_fixed_width' = is_fixed_width
      /\ chunks' = chunks /\ original_total_lines' = original_total_lines
      /\ is_finished' = is_finished /\ bytes_processed' = bytes_processed
      /\ pc' = pc /\ offset' = offset /\ current_line' = current_line
      /\ local_chunks' = local_chunks
  BY DEF opened, index, indexer
<1>2. Opened' /\ Listed'
  BY <1>1 DEF Indexed, Opened, FilesAreBytes, Listed, ChunksOrdered, ChunkType, Chunk
<1>3. Thread' /\ Pending'
  BY <1>1 DEF Indexed, Thread, Pending, Chunk
<1>4. QED
  BY <1>2, <1>3 DEF Indexed

-----------------------------------------------------------------------------
(* Offsets.                                                                *)

(* A cut lies in reach of where it was asked for.                          *)
LEMMA CutNear ==
  ASSUME FilesAreBytes, NEW base \in Nat, base > 0
  PROVE  LET cut == FindSafeCut(file, avx2, base)
         IN  cut \in 1 .. base /\ (cut = base \/ base < cut + Lookback)
<1> DEFINE start(i) == base - ((base - i) \div Word + 1) * Word
           cuts == {i \in Reach(file, base) :
                      file[i] = "sep" \/ (~avx2 /\ Borrowed(file, "sep", "next", start(i), i))}
<1>1. FindSafeCut(file, avx2, base) = IF cuts = {} THEN base ELSE Max(cuts)
  BY DEF FindSafeCut
<1> HIDE DEF start
<1>2. cuts \subseteq Reach(file, base)
  OBVIOUS
<1> HIDE DEF cuts
<1>3. \A i \in Reach(file, base) : i \in 1 .. base /\ base < i + Lookback
  BY ScanAssumption, SMT DEF Reach
<1>4. cuts \in SUBSET (0 .. base)
  BY <1>2, <1>3, SMT
<1>5. CASE cuts = {}
  BY <1>1, <1>5, SMT
<1>6. CASE cuts # {}
  <2>1. Max(cuts) \in cuts
    BY <1>4, <1>6, GreatestExists
  <2>2. QED
    BY <1>1, <1>2, <1>3, <1>6, <2>1
<1>7. QED
  BY <1>5, <1>6

(* A file of fixed width: near the multiple of FixedSize, in the file.     *)
LEMMA FixedOffsetInFile ==
  ASSUME FilesAreBytes, NEW line \in Nat
  PROVE  FixedOffset(line) \in 0 .. Len(file)
<1> DEFINE at == AsUsize(line * FixedSize)
           base == IF at < Len(file) THEN at ELSE Len(file)
<1>1. Len(file) \in Nat /\ at \in Nat
  <2>1. line * FixedSize \in Nat
    BY ChunkAssumption, SMT
  <2>2. at \in 0 .. line * FixedSize
    BY <2>1, ReadsInFile
  <2>3. QED
    BY <2>1, <2>2, LenProperties DEF FilesAreBytes
<1> HIDE DEF at
<1>2. base \in 0 .. Len(file)
  BY <1>1
<1>3. FixedOffset(line) =
        IF base \in {0, Len(file)} THEN base ELSE FindSafeCut(file, avx2, base)
  BY DEF FixedOffset, at
<1> HIDE DEF base
<1>4. CASE base \in {0, Len(file)}
  BY <1>2, <1>3, <1>4
<1>5. CASE base \notin {0, Len(file)}
  <2>1. base \in Nat /\ base > 0
    BY <1>1, <1>2, <1>5, SMT
  <2>2. FindSafeCut(file, avx2, base) \in 1 .. base
    BY <2>1, CutNear
  <2>3. QED
    BY <1>1, <1>2, <1>3, <1>5, <2>1, <2>2
<1>6. QED
  BY <1>4, <1>5

(* There is only one such chunk.                                           *)
LEMMA LastIsOne ==
  ASSUME ChunksOrdered, NEW line \in Nat, NEW r, NEW s,
         IsLastChunk(r, line), IsLastChunk(s, line)
  PROVE  r = s
<1>1. r \in 0 .. Len(chunks) - 1 /\ s \in 0 .. Len(chunks) - 1 /\ Len(chunks) \in Nat
  BY ChunkFields DEF IsLastChunk
<1>2. ~(r > s) /\ ~(s > r)
  <2>1. StartLine(r) \in Nat /\ StartLine(s) \in Nat
    BY <1>1, ChunkFields
  <2>2. StartLine(r) <= line /\ StartLine(s) <= line
    BY DEF IsLastChunk
  <2>3. (r > s => StartLine(r) > line) /\ (s > r => StartLine(s) > line)
    BY <1>1 DEF IsLastChunk
  <2> DEFINE x == StartLine(r)
             y == StartLine(s)
  <2>4. /\ x \in Nat /\ y \in Nat /\ x <= line /\ y <= line
        /\ (r > s => x > line) /\ (s > r => y > line)
    BY <2>1, <2>2, <2>3
  <2> HIDE DEF x, y
  <2>5. QED
    BY <2>4, SMT
<1>3. QED
  BY <1>1, <1>2, SMT

(* A published line is looked up in the last chunk that does not begin     *)
(* behind it.                                                              *)
LEMMA OffsetIs ==
  ASSUME Indexed, ~is_fixed_width, NEW line \in Nat, line < original_total_lines
  PROVE  LET r == ChunkIdx(line)
         IN  /\ IsLastChunk(r, line) /\ r + 1 \in 1 .. Len(chunks)
             /\ chunks[r + 1].byte_offset \in 0 .. Len(file)
             /\ chunks[r + 1].start_line \in 0 .. line
             /\ line - chunks[r + 1].start_line \in Nat
             /\ calc_offset(line)
                  = Skip(chunks[r + 1].byte_offset, line - chunks[r + 1].start_line)
<1> DEFINE r == ChunkIdx(line)
<1>1. ChunksOrdered /\ original_total_lines \in Nat
  BY SMT DEF Indexed, Listed
<1>2. chunks # << >>
  BY <1>1, SMT DEF Indexed, Listed
<1>3. IsLastChunk(r, line)
  BY <1>1, <1>2, SearchFinds
<1>4. calc_offset(line) = Skip(chunks[r + 1].byte_offset, line - chunks[r + 1].start_line)
  <2>1. ~(line >= original_total_lines)
    BY <1>1
  <2>2. QED
    BY <2>1 DEF calc_offset
<1> HIDE DEF r
<1>5. r + 1 \in 1 .. Len(chunks) /\ StartLine(r) = chunks[r + 1].start_line
  BY <1>1, <1>3, ChunkFields DEF IsLastChunk, StartLine
<1>6. /\ chunks[r + 1].start_line \in Nat /\ chunks[r + 1].byte_offset \in 0 .. Len(file)
      /\ chunks[r + 1].start_line <= line
  BY <1>1, <1>3, <1>5, ChunkFields DEF IsLastChunk
<1>7. chunks[r + 1].start_line \in 0 .. line /\ line - chunks[r + 1].start_line \in Nat
  <2> DEFINE x == chunks[r + 1].start_line
  <2>1. x \in Nat /\ x <= line
    BY <1>6
  <2> HIDE DEF x
  <2>2. x \in 0 .. line /\ line - x \in Nat
    BY <2>1, SMT
  <2>3. QED
    BY <2>2 DEF x
<1>8. QED
  BY <1>3, <1>4, <1>5, <1>6, <1>7 DEF r

(* Every offset lies in the file.                                          *)
LEMMA OffsetInFile ==
  ASSUME Indexed, NEW line \in Nat
  PROVE  calc_offset(line) \in 0 .. Len(file)
<1>1. FilesAreBytes /\ Len(file) \in Nat /\ original_total_lines \in Nat
  BY LenProperties, SMT DEF Indexed, Opened, Listed, FilesAreBytes
<1>2. bytes_processed \in 0 .. Len(file) /\ Len(file) \in 0 .. Len(file)
  BY <1>1, SMT DEF Indexed, Thread
<1>3. CASE is_fixed_width
  BY <1>1, <1>3, FixedOffsetInFile DEF calc_offset
<1>4. CASE ~is_fixed_width /\ line >= original_total_lines
  BY <1>2, <1>4 DEF calc_offset
<1>5. CASE ~is_fixed_width /\ line < original_total_lines
  <2> DEFINE c == chunks[ChunkIdx(line) + 1]
             b == c.byte_offset
             n == line - c.start_line
  <2>1. b \in 0 .. Len(file) /\ n \in Nat /\ calc_offset(line) = Skip(b, n)
    BY <1>5, OffsetIs
  <2> HIDE DEF b, n
  <2>2. Skip(b, n) \in b .. Len(file)
    BY <1>1, <2>1, SkipBounds
  <2>3. QED
    BY <1>1, <2>1, <2>2
<1>6. QED
  BY <1>1, <1>3, <1>4, <1>5

(* So that whoever finds that chunk has the offset.                        *)
LookupRight ==
  Indexed /\ ~is_fixed_width =>
    \A line \in Nat : line < original_total_lines =>
      \A r \in 0 .. Len(chunks) - 1 : IsLastChunk(r, line) =>
        calc_offset(line) = Skip(chunks[r + 1].byte_offset, line - chunks[r + 1].start_line)

(* It is the only one, in every state.                                     *)
LEMMA LookupIsRight == LookupRight
<1> SUFFICES ASSUME Indexed, ~is_fixed_width, NEW line \in Nat, line < original_total_lines,
                    NEW r \in 0 .. Len(chunks) - 1, IsLastChunk(r, line)
             PROVE  calc_offset(line)
                      = Skip(chunks[r + 1].byte_offset, line - chunks[r + 1].start_line)
  BY DEF LookupRight
<1> DEFINE s == ChunkIdx(line)
<1>1. /\ IsLastChunk(s, line)
      /\ calc_offset(line) = Skip(chunks[s + 1].byte_offset, line - chunks[s + 1].start_line)
  BY OffsetIs
<1>2. ChunksOrdered
  BY DEF Indexed, Listed
<1> HIDE DEF s
<1>3. r = s
  BY <1>1, <1>2, LastIsOne
<1>4. QED
  BY <1>1, <1>3

(* What the index says of a published line does not change any more.       *)
LEMMA OffsetsStay ==
  ASSUME Indexed, Indexer
  PROVE  /\ original_total_lines' \in Nat /\ original_total_lines <= original_total_lines'
         /\ \A line \in Nat :
              line < original_total_lines => calc_offset(line)' = calc_offset(line)
<1>1. Indexed'
  BY IndexerIndexes
<1>2. /\ file' = file /\ avx2' = avx2 /\ narrow' = narrow
      /\ is_fixed_width' = is_fixed_width
      /\ Len(file) \in Nat /\ original_total_lines \in Nat
      /\ chunks \in Seq(ChunkType)
  BY LenProperties, SMT DEF Indexer, IndexCancelled, IndexCheck, IndexCount, IndexPublish,
     IndexFinish, opened, Indexed, Opened, FilesAreBytes, Listed, ChunksOrdered
<1>3. /\ original_total_lines' \in Nat /\ original_total_lines <= original_total_lines'
      /\ \/ chunks' = chunks
         \/ \E new : chunks' = Append(chunks, new) /\ new.start_line = original_total_lines
  <2>1. CASE IndexCancelled \/ IndexCheck \/ IndexCount
    BY <1>2, <2>1 DEF IndexCancelled, IndexCheck, IndexCount, index
  <2>2. CASE IndexPublish
    <3>1. PICK at \in 0 .. Len(file) : local_chunks = <<Chunk(at, original_total_lines)>>
      BY <2>2 DEF Indexed, Pending, IndexPublish
    <3>2. Chunk(at, original_total_lines).start_line = original_total_lines
      BY DEF Chunk
    <3>3. chunks' = Append(chunks, Chunk(at, original_total_lines))
      <4> DEFINE new == Chunk(at, original_total_lines)
      <4>1. chunks' = chunks \o <<new>>
        BY <2>2, <3>1 DEF IndexPublish
      <4> HIDE DEF new
      <4>2. chunks \o <<new>> = Append(chunks, new)
        BY <1>2, AppendIsConcat
      <4>3. QED
        BY <4>1, <4>2 DEF new
    <3>4. original_total_lines <= current_line /\ current_line \in Nat
      BY <1>2, <2>2, SMT DEF Indexed, Pending, Thread, IndexPublish
    <3>5. original_total_lines' = current_line
      BY <2>2 DEF IndexPublish, Published
    <3>6. QED
      BY <3>2, <3>3, <3>4, <3>5
  <2>3. CASE IndexFinish
    <3>1. local_chunks = << >> /\ original_total_lines = current_line
      BY <2>3 DEF Indexed, Pending, IndexFinish
    <3>2. chunks' = chunks
      BY <1>2, <2>3, <3>1, SMT DEF IndexFinish
    <3>3. current_line \in 0 .. Len(file)
      BY <1>2, SMT DEF Indexed, Thread
    <3>4. original_total_lines' \in current_line .. Len(file) + 1
      BY <2>3, <3>3, LinesInFile DEF IndexFinish, Indexed, Opened
    <3>5. QED
      BY <1>2, <3>1, <3>2, <3>3, <3>4, SMT
  <2>4. QED
    BY <2>1, <2>2, <2>3 DEF Indexer
<1>4. ASSUME NEW r, chunks'[r + 1] = chunks[r + 1], NEW line
      PROVE  Skip(chunks[r + 1].byte_offset, line - chunks[r + 1].start_line)'
               = Skip(chunks[r + 1].byte_offset, line - chunks[r + 1].start_line)
  BY <1>2, <1>4 DEF Skip, Seen, ChunkEnd, AsUsize, AfterTerminator
<1>5. ASSUME NEW line \in Nat, line < original_total_lines
      PROVE  calc_offset(line)' = calc_offset(line)
  <2>1. line < original_total_lines'
    BY <1>2, <1>3, <1>5, SMT
  <2>2. CASE is_fixed_width
    BY <1>2, <2>2 DEF calc_offset, FixedOffset, AsUsize
  <2>3. CASE ~is_fixed_width
    <3> DEFINE N == Len(chunks)
    <3>1. PICK r : /\ IsLastChunk(r, line) /\ r + 1 \in 1 .. N
                   /\ calc_offset(line) = Skip(chunks[r + 1].byte_offset,
                                               line - chunks[r + 1].start_line)
      BY <1>5, <2>3, OffsetIs
    <3>2. /\ N \in Nat /\ r \in 0 .. N - 1 /\ StartLine(r) <= line
          /\ \A k \in 0 .. N - 1 : k > r => StartLine(k) > line
      BY <1>2, <3>1, LenProperties DEF IsLastChunk
    <3>3. /\ Len(chunks') \in {N, N + 1} /\ \A k \in 1 .. N : chunks'[k] = chunks[k]
          /\ Len(chunks') = N + 1 => chunks'[N + 1].start_line > line
      <4>1. CASE chunks' = chunks
        BY <3>2, <4>1
      <4>2. CASE chunks' # chunks
        <5>1. PICK new : chunks' = Append(chunks, new) /\ new.start_line = original_total_lines
          BY <1>3, <4>2
        <5>2. /\ Len(chunks') = N + 1 /\ chunks'[N + 1] = new
              /\ \A k \in 1 .. N : chunks'[k] = chunks[k]
          <6>1. \A k \in 1 .. N : chunks[k] = chunks[k]
            OBVIOUS
          <6>2. QED
            BY <1>2, <5>1, AppendElements
        <5>3. original_total_lines > line
          BY <1>2, <1>5, SMT
        <5>4. QED
          BY <5>1, <5>2, <5>3
      <4>3. QED
        BY <4>1, <4>2
    <3>4. \A k \in 0 .. N - 1 : StartLine(k)' = StartLine(k) /\ k + 1 \in 1 .. N
      <4>1. \A k \in 0 .. N - 1 : k + 1 \in 1 .. N
        BY <3>2, SMT
      <4>2. QED
        BY <3>3, <4>1 DEF StartLine
    <3>5. r \in 0 .. Len(chunks') - 1
      BY <3>2, <3>3, SMT
    <3>6. ASSUME NEW k \in 0 .. Len(chunks') - 1, k > r
          PROVE  StartLine(k)' > line
      <4>1. CASE k \in 0 .. N - 1
        BY <3>2, <3>4, <3>6, <4>1
      <4>2. CASE k \notin 0 .. N - 1
        <5>1. k = N /\ Len(chunks') = N + 1
          BY <3>2, <3>3, <4>2, SMT
        <5>2. QED
          BY <3>3, <5>1 DEF StartLine
      <4>3. QED
        BY <4>1, <4>2
    <3>7. IsLastChunk(r, line)'
      BY <3>2, <3>4, <3>5, <3>6 DEF IsLastChunk
    <3>8. LookupRight'
      BY LookupIsRight, PTL
    <3>9. calc_offset(line)'
            = Skip(chunks[r + 1].byte_offset, line - chunks[r + 1].start_line)'
      BY <1>1, <1>2, <2>1, <2>3, <3>5, <3>7, <3>8 DEF LookupRight
    <3>10. QED
      BY <1>4, <3>1, <3>3, <3>9
  <2>4. QED
    BY <2>2, <2>3
<1>6. QED
  BY <1>3, <1>5

-----------------------------------------------------------------------------
(* Readers.                                                                *)

ReaderType ==
  [pc : {"idle", "half", "done"}, first : Nat, count : Nat,
   start : 0 .. Len(file), end : 0 .. Len(file)]

(* A read looks in the file; halfway, it has the beginning of a line that  *)
(* is published.                                                           *)
Reading ==
  /\ reader \in ReaderType /\ cancel \in BOOLEAN
  /\ reader.pc = "half" =>
       /\ reader.count > 0 /\ reader.first + reader.count <= original_total_lines
       /\ reader.start = calc_offset(reader.first)

(* What a read of some lines knows when it has looked up the first.        *)
LEMMA HalfRead ==
  ASSUME Indexed, NEW first \in Nat, NEW count \in Nat
  PROVE  [pc |-> "half", first |-> first, count |-> count,
          start |-> calc_offset(first), end |-> 0] \in ReaderType
<1> DEFINE x == calc_offset(first)
<1>1. x \in 0 .. Len(file)
  BY OffsetInFile
<1>2. Len(file) \in Nat
  BY LenProperties DEF Indexed, Opened, FilesAreBytes
<1> HIDE DEF x
<1>3. [pc |-> "half", first |-> first, count |-> count, start |-> x, end |-> 0] \in ReaderType
  BY <1>1, <1>2, SMT DEF ReaderType
<1>4. QED
  BY <1>3 DEF x

(* And when it has looked up the end.                                      *)
LEMMA WholeRead ==
  ASSUME Indexed, NEW r \in ReaderType
  PROVE  LET new == [r EXCEPT !.pc = "done", !.end = calc_offset(r.first + r.count)]
         IN  /\ new \in ReaderType /\ new.pc = "done" /\ new.start = r.start
             /\ new.first = r.first /\ new.count = r.count
             /\ new.end = calc_offset(r.first + r.count)
<1> DEFINE x == calc_offset(r.first + r.count)
<1>1. r.first + r.count \in Nat
  BY SMT DEF ReaderType
<1>2. x \in 0 .. Len(file)
  BY <1>1, OffsetInFile
<1> HIDE DEF x
<1> DEFINE new == [r EXCEPT !.pc = "done", !.end = x]
<1> DEFINE r1 == [r EXCEPT !.pc = "done"]
           r2 == [r1 EXCEPT !.end = x]
<1>3. /\ r1 \in ReaderType /\ r1.pc = "done" /\ r1.start = r.start
      /\ r1.first = r.first /\ r1.count = r.count
  BY SMT DEF ReaderType
<1>4. new = r2
  BY Zenon
<1> HIDE DEF r1
<1>5. /\ r2 \in ReaderType /\ r2.pc = "done" /\ r2.start = r.start
      /\ r2.first = r.first /\ r2.count = r.count /\ r2.end = x
  BY <1>2, <1>3, SMT DEF ReaderType
<1> HIDE DEF r2
<1>6. QED
  BY <1>4, <1>5 DEF x

(* No read is under way at first.                                          *)
LEMMA InitReads == Init => Reading
<1> SUFFICES ASSUME Init PROVE Reading
  OBVIOUS
<1>1. Len(file) \in Nat
  BY InitIndexes, LenProperties DEF Indexed, Opened, FilesAreBytes
<1>2. NoRead \in ReaderType
  BY <1>1, SMT DEF NoRead, ReaderType
<1>3. QED
  BY <1>2 DEF Init, Reading, NoRead

(* The thread does not disturb a read that is halfway.                     *)
LEMMA IndexerKeepsReads == Indexed /\ Reading /\ Indexer => Reading'
<1> SUFFICES ASSUME Indexed, Reading, Indexer PROVE Reading'
  OBVIOUS
<1>1. reader' = reader /\ cancel' = cancel /\ ReaderType' = ReaderType
  BY DEF Indexer, IndexCancelled, IndexCheck, IndexCount, IndexPublish, IndexFinish, opened,
         ReaderType
<1>2. original_total_lines \in Nat /\ Len(file) \in Nat
  BY LenProperties, SMT DEF Indexed, Opened, Listed, FilesAreBytes
<1>3. CASE reader.pc # "half"
  BY <1>1, <1>3 DEF Reading
<1>4. CASE reader.pc = "half"
  <2> DEFINE first == reader.first
             count == reader.count
  <2>1. /\ first \in Nat /\ count \in Nat /\ count > 0
        /\ first + count <= original_total_lines
        /\ reader.start = calc_offset(first)
    BY <1>4 DEF Reading, ReaderType
  <2> HIDE DEF first, count
  <2>2. first < original_total_lines
    BY <1>2, <2>1, SMT
  <2>3. PICK line \in Nat : line = first
    BY <2>1
  <2>4. calc_offset(line)' = calc_offset(line)
    BY <2>2, <2>3, OffsetsStay
  <2>5. calc_offset(reader.first)' = calc_offset(line)'
    BY <1>1, <2>3 DEF first
  <2>6. calc_offset(reader.first)' = reader'.start
    BY <1>1, <2>1, <2>3, <2>4, <2>5
  <2>7. first + count <= original_total_lines'
    BY <1>2, <2>1, OffsetsStay, SMT
  <2>8. QED
    BY <1>1, <1>4, <2>1, <2>6, <2>7 DEF Reading, first, count
<1>5. QED
  BY <1>3, <1>4

(* The offsets depend on the index alone.                                  *)
LEMMA SameOffset ==
  ASSUME UNCHANGED <<opened, index, bytes_processed>>, NEW line
  PROVE  calc_offset(line)' = calc_offset(line)
BY DEF calc_offset, opened, index, FixedOffset, ChunkIdx, StartLine, Halved, Skip, Seen,
       ChunkEnd, AsUsize, AfterTerminator

(* Readers do not disturb one another, there is only one.                  *)
LEMMA ReaderReads ==
  ASSUME Indexed, Reading, Next, ~Indexer
  PROVE  Reading' /\ UNCHANGED <<opened, index, indexer, bytes_processed>>
<1>1. UNCHANGED <<opened, index, indexer, bytes_processed>>
  BY DEF Next, ReadFirst, ReadLast, ReadReturns, Free
<1>2. ReaderType' = ReaderType /\ original_total_lines' = original_total_lines
  BY <1>1 DEF ReaderType, opened, index
<1>3. original_total_lines \in Nat /\ Len(file) \in Nat
  BY LenProperties, SMT DEF Indexed, Opened, Listed, FilesAreBytes
<1>4. ASSUME NEW first \in 0 .. original_total_lines, NEW count \in 1 .. original_total_lines,
             ReadFirst(first, count)
      PROVE  Reading'
  <2>1. first \in Nat /\ count \in Nat /\ count > 0
    BY <1>3, SMT
  <2>2. /\ reader' = [pc |-> "half", first |-> first, count |-> count,
                      start |-> calc_offset(first), end |-> 0]
        /\ first + count <= original_total_lines /\ cancel' = cancel
    BY <1>4 DEF ReadFirst
  <2>3. reader' \in ReaderType
    BY <2>1, <2>2, HalfRead
  <2>4. PICK line \in Nat : line = first
    BY <2>1
  <2>5. calc_offset(line)' = calc_offset(line)
    BY <1>1, SameOffset
  <2>6. reader'.first = line
    BY <2>2, <2>4
  <2>7. calc_offset(reader.first)' = calc_offset(line)'
    BY <2>6
  <2>8. reader'.start = calc_offset(line)
    BY <2>2, <2>4
  <2>9. reader'.start = calc_offset(reader.first)'
    BY <2>5, <2>7, <2>8
  <2>10. reader'.first = first /\ reader'.count = count /\ reader'.pc = "half"
    BY <2>2
  <2>11. QED
    BY <1>2, <2>1, <2>2, <2>3, <2>9, <2>10 DEF Reading
<1>5. ASSUME ReadLast PROVE Reading'
  <2>1. reader' \in ReaderType /\ reader'.pc = "done" /\ cancel' = cancel
    BY <1>5, WholeRead DEF ReadLast, Reading
  <2>2. QED
    BY <1>2, <2>1 DEF Reading
<1>6. ASSUME ReadReturns PROVE Reading'
  <2>1. NoRead \in ReaderType /\ NoRead.pc = "idle"
    BY <1>3, SMT DEF NoRead, ReaderType
  <2>2. reader' = NoRead /\ cancel' = cancel
    BY <1>6 DEF ReadReturns
  <2>3. QED
    BY <1>2, <2>1, <2>2 DEF Reading
<1>7. ASSUME Free PROVE Reading'
  BY <1>2, <1>7 DEF Reading, Free
<1>8. QED
  BY <1>1, <1>4, <1>5, <1>6, <1>7 DEF Next

(* Nothing happens.                                                        *)
LEMMA RestReads ==
  ASSUME Indexed, Reading, UNCHANGED vars
  PROVE  Indexed' /\ Reading'
<1>1. /\ UNCHANGED <<opened, index, indexer, bytes_processed, reader, cancel>>
      /\ file' = file /\ original_total_lines' = original_total_lines
  BY DEF vars, opened, index
<1>2. Indexed'
  BY <1>1, UnreadIndexes
<1>3. calc_offset(reader.first)' = calc_offset(reader.first)
  BY <1>1 DEF calc_offset, opened, index, FixedOffset, ChunkIdx, StartLine, Halved, Skip,
              Seen, ChunkEnd, AsUsize, AfterTerminator
<1>4. QED
  BY <1>1, <1>2, <1>3 DEF Reading, ReaderType

(* Each step.                                                              *)
LEMMA NextReads == Indexed /\ Reading /\ [Next]_vars => Indexed' /\ Reading'
<1> SUFFICES ASSUME Indexed, Reading, [Next]_vars PROVE Indexed' /\ Reading'
  OBVIOUS
<1>1. CASE Indexer
  BY <1>1, IndexerIndexes, IndexerKeepsReads
<1>2. CASE Next /\ ~Indexer
  BY <1>2, ReaderReads, UnreadIndexes
<1>3. CASE UNCHANGED vars
  BY <1>3, RestReads
<1>4. QED
  BY <1>1, <1>2, <1>3

(* In every reachable state the index lists its chunks in the order of the *)
(* file, has published no more than was counted, and a read that is        *)
(* halfway still has the offset of its first line.                         *)
THEOREM IndexInvariant == Spec => [](Indexed /\ Reading)
<1>1. Init => Indexed /\ Reading
  BY InitIndexes, InitReads
<1>2. QED
  BY <1>1, NextReads, PTL DEF Spec

(* The types follow from what the thread and the readers know.             *)
LEMMA TypesFollow == Indexed /\ Reading => TypeOK
<1> SUFFICES ASSUME Indexed, Reading PROVE TypeOK
  OBVIOUS
<1>1. Len(file) \in Nat
  BY LenProperties DEF Indexed, Opened, FilesAreBytes
<1>2. chunks \in Seq([byte_offset : 0 .. Len(file), start_line : Nat])
  BY DEF Indexed, Listed, ChunksOrdered, ChunkType
<1>3. bytes_processed \in 0 .. Len(file) /\ offset \in 0 .. Len(file) /\ current_line \in Nat
  BY <1>1, SMT DEF Indexed, Thread
<1>4. Len(local_chunks) <= 1
  <2>1. CASE pc # "publish"
    BY <2>1, EmptySeq DEF Indexed, Pending
  <2>2. CASE pc = "publish"
    <3>1. PICK at \in 0 .. Len(file) : local_chunks = <<Chunk(at, original_total_lines)>>
      BY <2>2 DEF Indexed, Pending
    <3>2. QED
      BY <3>1
  <2>3. QED
    BY <2>1, <2>2
<1>5. reader.pc \in {"idle", "half", "done"} /\ reader.start \in 0 .. Len(file)
      /\ reader.end \in 0 .. Len(file)
  BY DEF Reading, ReaderType
<1>6. QED
  BY <1>2, <1>3, <1>4, <1>5 DEF Indexed, Opened, Listed, Thread, Reading, TypeOK

(* No position lies behind the end of the file, no file has more lines     *)
(* than bytes (and one more), and the thread keeps one chunk to itself at  *)
(* most.                                                                   *)
THEOREM IndexTypes == Spec => []TypeOK
BY TypesFollow, IndexInvariant, PTL

(* The branchless search is right for every list of chunks that the        *)
(* indexers build: several may have the same first line, or there is one.  *)
THEOREM SearchIsRight == Spec => []SearchFindsLastChunk
<1>1. Indexed => SearchFindsLastChunk
  <2> SUFFICES ASSUME Indexed, ~is_fixed_width, NEW line \in 0 .. original_total_lines - 1
               PROVE  ChunkIdx(line) + 1
                        = Max({k \in 1 .. Len(chunks) : chunks[k].start_line <= line})
    BY DEF SearchFindsLastChunk
  <2> DEFINE r == ChunkIdx(line)
             S == {k \in 1 .. Len(chunks) : chunks[k].start_line <= line}
  <2>1. line \in Nat /\ line < original_total_lines /\ ChunksOrdered
    BY SMT DEF Indexed, Listed
  <2>2. IsLastChunk(r, line) /\ r + 1 \in 1 .. Len(chunks)
    BY <2>1, OffsetIs
  <2> HIDE DEF r
  <2>3. Len(chunks) \in Nat /\ r \in 0 .. Len(chunks) - 1
    BY <2>1, <2>2, ChunkFields DEF IsLastChunk
  <2>4. r + 1 \in S
    BY <2>2 DEF IsLastChunk, StartLine
  <2>5. ASSUME NEW k \in S PROVE k <= r + 1
    <3>1. k \in 1 .. Len(chunks) /\ chunks[k].start_line <= line
      OBVIOUS
    <3>2. /\ chunks[k].start_line \in Nat /\ k - 1 \in 0 .. Len(chunks) - 1
          /\ StartLine(k - 1) = chunks[k].start_line
      BY <2>1, <3>1, ChunkFields
    <3>3. k - 1 > r => StartLine(k - 1) > line
      BY <2>2, <3>2 DEF IsLastChunk
    <3> DEFINE x == chunks[k].start_line
    <3>4. x \in Nat /\ x <= line /\ (k - 1 > r => x > line)
      BY <3>1, <3>2, <3>3
    <3> HIDE DEF x
    <3>5. QED
      BY <2>1, <2>3, <3>1, <3>4, SMT
  <2>6. S \in SUBSET (0 .. Len(chunks))
    BY <2>3, SMT
  <2> HIDE DEF S
  <2>7. Max(S) \in S /\ \A y \in S : Max(S) >= y
    BY <2>3, <2>4, <2>6, GreatestExists
  <2>8. Max(S) = r + 1
    <3> DEFINE x == Max(S)
    <3>1. x \in 0 .. Len(chunks) /\ x <= r + 1 /\ x >= r + 1
      BY <2>4, <2>5, <2>6, <2>7
    <3> HIDE DEF x
    <3>2. x = r + 1
      BY <2>3, <3>1, SMT
    <3>3. QED
      BY <3>2 DEF x
  <2>9. QED
    BY <2>8 DEF S, r
<1>2. QED
  BY <1>1, IndexInvariant, PTL

(* Lines that are published keep their offsets, for every file and both    *)
(* indexers: what a piece of the table stands for never moves.             *)
THEOREM OffsetsAreStable == Spec => OffsetStable
<1>1. Indexed /\ Reading /\ [Next]_vars =>
        [\A line \in 0 .. original_total_lines - 1 : calc_offset(line)' = calc_offset(line)]_vars
  <2> SUFFICES ASSUME Indexed, Reading, [Next]_vars, vars' # vars,
                      NEW line \in 0 .. original_total_lines - 1
               PROVE  calc_offset(line)' = calc_offset(line)
    OBVIOUS
  <2>1. CASE Indexer
    <3>1. line \in Nat /\ line < original_total_lines
      BY SMT DEF Indexed, Listed
    <3>2. QED
      BY <2>1, <3>1, OffsetsStay
  <2>2. CASE Next /\ ~Indexer
    BY <2>2, ReaderReads, SameOffset
  <2>3. QED
    BY <2>1, <2>2
<1>2. QED
  BY <1>1, IndexInvariant, PTL DEF Spec, OffsetStable

-----------------------------------------------------------------------------
(* Exact offsets.                                                          *)

(* As many lines begin before a chunk as line feeds lie before it.         *)
StartsRight(c) == c.start_line = Cardinality(FeedsIn(0, c.byte_offset))

(* Without vertical tabs every chunk is listed with its first line.        *)
Exact ==
  NoTabs /\ OneWindow =>
    /\ \A k \in 1 .. Len(chunks) : StartsRight(chunks[k])
    /\ \A k \in 1 .. Len(local_chunks) : StartsRight(local_chunks[k])

(* However a file is opened.                                               *)
LEMMA InitExact == Init => Exact
<1> SUFFICES ASSUME Init, NoTabs
             PROVE  /\ \A k \in 1 .. Len(chunks) : StartsRight(chunks[k])
                    /\ \A k \in 1 .. Len(local_chunks) : StartsRight(local_chunks[k])
  BY DEF Exact
<1>1. local_chunks = << >> /\ Len(<< >>) = 0 /\ 1 .. 0 = {}
  BY EmptySeq DEF Init
<1>2. CASE chunks = << >>
  BY <1>1, <1>2
<1>3. CASE chunks = RayonChunks
  <2> DEFINE M == DivUp(Len(file), RayonChunkSize)
  <2>1. FilesAreBytes /\ M \in Nat
    BY InitIndexes, ChunkAssumption, LenProperties, PiecesOf DEF Indexed, Opened, FilesAreBytes
  <2> HIDE DEF M
  <2>2. chunks = [k \in 1 .. M |-> Chunk((k - 1) * RayonChunkSize,
                                         RayonCount((k - 1) * RayonChunkSize))]
    BY <1>3 DEF RayonChunks, M
  <2>3. DOMAIN chunks = 1 .. M /\ chunks \in Seq(ChunkType)
    BY <2>2, InitIndexes DEF Indexed, Listed, ChunksOrdered
  <2>4. 1 .. Len(chunks) = 1 .. M
    BY <2>3, LenProperties
  <2>5. ASSUME NEW k \in 1 .. M PROVE StartsRight(chunks[k])
    <3> DEFINE x == (k - 1) * RayonChunkSize
    <3>1. chunks[k] = Chunk(x, RayonCount(x))
      BY <2>2
    <3> HIDE DEF x
    <3>2. RayonCount(x) = Cardinality(FeedsIn(0, x))
      BY <2>1, ScansAreExact
    <3>3. QED
      BY <3>1, <3>2 DEF StartsRight, Chunk
  <2>6. QED
    BY <1>1, <2>4, <2>5
<1>4. QED
  BY <1>2, <1>3 DEF Init, FixedWidth, Lazily, AtOnce

(* The thread lists a chunk with the lines it has counted before it.       *)
LEMMA IndexerExact == Indexed /\ Counted /\ Exact /\ Indexer => Exact'
<1> SUFFICES ASSUME Indexed, Counted, Exact, Indexer, NoTabs', OneWindow'
             PROVE  /\ \A k \in 1 .. Len(chunks') : StartsRight(chunks[k])'
                    /\ \A k \in 1 .. Len(local_chunks') : StartsRight(local_chunks[k])'
  BY DEF Exact
<1>1. file' = file /\ narrow' = narrow
  BY DEF Indexer, IndexCancelled, IndexCheck, IndexCount, IndexPublish, IndexFinish, opened
<1>2. NoTabs /\ OneWindow /\ \A c : StartsRight(c)' <=> StartsRight(c)
  BY <1>1 DEF NoTabs, OneWindow, StartsRight, FeedsIn
<1>3. /\ \A k \in 1 .. Len(chunks) : StartsRight(chunks[k])
      /\ \A k \in 1 .. Len(local_chunks) : StartsRight(local_chunks[k])
  BY <1>2 DEF Exact
<1>4. ASSUME NEW k PROVE /\ StartsRight(chunks[k])' <=> StartsRight(chunks'[k])
                         /\ StartsRight(local_chunks[k])' <=> StartsRight(local_chunks'[k])
  BY <1>1 DEF StartsRight, FeedsIn
<1>5. CASE IndexCancelled \/ IndexCheck
  <2>1. chunks' = chunks /\ local_chunks' = local_chunks
    BY <1>5 DEF IndexCancelled, IndexCheck, index
  <2>2. QED
    BY <1>3, <1>4, <2>1
<1>6. CASE IndexCount
  <2> DEFINE c == Chunk(offset, current_line)
  <2>1. StartsRight(c)
    BY <1>2 DEF Counted, StartsRight, Chunk
  <2>2. local_chunks' = Append(<< >>, c) /\ chunks' = chunks
    BY <1>6 DEF Indexed, Pending, IndexCount, index
  <2> HIDE DEF c
  <2>3. \A k \in 1 .. Len(local_chunks') : local_chunks'[k] = c
    BY <2>2, SMT
  <2>4. QED
    BY <1>3, <1>4, <2>1, <2>2, <2>3
<1>7. CASE IndexPublish
  <2>1. PICK at \in 0 .. Len(file) : local_chunks = <<Chunk(at, original_total_lines)>>
    BY <1>7 DEF Indexed, Pending, IndexPublish
  <2> DEFINE c == Chunk(at, original_total_lines)
  <2>2. StartsRight(c)
    <3>1. 1 \in 1 .. Len(local_chunks) /\ local_chunks[1] = c
      BY <2>1
    <3>2. QED
      BY <1>3, <3>1
  <2>3. chunks' = chunks \o <<c>> /\ local_chunks' = << >> /\ chunks \in Seq(ChunkType)
    BY <1>7, <2>1 DEF IndexPublish, Indexed, Listed, ChunksOrdered
  <2> HIDE DEF c
  <2>4. \A k \in 1 .. Len(chunks') : \/ k \in 1 .. Len(chunks) /\ chunks'[k] = chunks[k]
                                     \/ chunks'[k] = c
    BY <2>3, SMT
  <2>5. Len(local_chunks') = 0
    BY <2>3
  <2>6. QED
    BY <1>3, <1>4, <2>2, <2>4, <2>5
<1>8. CASE IndexFinish
  <2>1. local_chunks = << >> /\ local_chunks' = local_chunks /\ chunks \in Seq(ChunkType)
        /\ chunks' = chunks \o local_chunks
    BY <1>8 DEF IndexFinish, Indexed, Pending, Listed, ChunksOrdered
  <2>2. chunks' = chunks
    BY <2>1, SMT
  <2>3. QED
    BY <1>3, <1>4, <2>1, <2>2
<1>9. QED
  BY <1>5, <1>6, <1>7, <1>8 DEF Indexer

(* Nobody else lists chunks.                                               *)
LEMMA UnreadExact ==
  ASSUME Exact, UNCHANGED <<opened, index, indexer>>
  PROVE  Exact'
BY DEF Exact, opened, index, indexer, NoTabs, OneWindow, StartsRight, FeedsIn

(* In every reachable state.                                               *)
LEMMA IndexExact == Spec => [](Indexed /\ Reading /\ Counted /\ Exact)
<1>1. Init => Exact
  BY InitExact
<1>2. Indexed /\ Reading /\ Counted /\ Exact /\ [Next]_vars => Exact'
  <2> SUFFICES ASSUME Indexed, Reading, Counted, Exact, [Next]_vars PROVE Exact'
    OBVIOUS
  <2>1. CASE Indexer
    BY <2>1, IndexerExact
  <2>2. CASE Next /\ ~Indexer
    BY <2>2, ReaderReads, UnreadExact
  <2>3. CASE UNCHANGED vars
    BY <2>3, UnreadExact DEF vars
  <2>4. QED
    BY <2>1, <2>2, <2>3
<1>3. QED
  BY <1>1, <1>2, IndexInvariant, IndexCounts, PTL DEF Spec

(* The line feeds up to a position.                                        *)
Feeds(to) == Cardinality(FeedsIn(0, to))

(* They are no fewer further on.                                           *)
LEMMA FeedsGrow ==
  ASSUME FilesAreBytes, NEW a \in Nat, NEW b \in Nat
  PROVE  /\ Feeds(a) \in Nat /\ Feeds(b) \in Nat
         /\ a <= b => Feeds(a) <= Feeds(b) /\ Feeds(b) - Feeds(a) = Cardinality(FeedsIn(a, b))
         /\ Feeds(a) < Feeds(b) => a < b
<1>1. Feeds(a) \in Nat /\ Feeds(b) \in Nat
  BY FeedsFinite DEF Feeds
<1>2. ASSUME NEW x \in Nat, NEW y \in Nat, x <= y
      PROVE  /\ Feeds(x) \in Nat /\ Feeds(y) \in Nat /\ Feeds(x) <= Feeds(y)
             /\ Feeds(y) - Feeds(x) = Cardinality(FeedsIn(x, y))
  <2> DEFINE n == Cardinality(FeedsIn(x, y))
  <2>1. Feeds(x) \in Nat /\ Feeds(y) \in Nat /\ n \in Nat
    BY FeedsFinite DEF Feeds
  <2>2. Feeds(x) + n = Feeds(y)
    BY <1>2, CountAdds DEF Feeds
  <2> HIDE DEF n
  <2>3. Feeds(x) <= Feeds(y) /\ Feeds(y) - Feeds(x) = n
    BY <2>1, <2>2, SMT
  <2>4. QED
    BY <2>1, <2>3 DEF n
<1>3. Feeds(a) < Feeds(b) => a < b
  <2> SUFFICES ASSUME Feeds(a) < Feeds(b), b <= a PROVE FALSE
    OBVIOUS
  <2>1. Feeds(b) <= Feeds(a)
    BY <1>2
  <2>2. QED
    BY <1>1, <2>1, SMT
<1>4. QED
  BY <1>1, <1>2, <1>3

(* No more lines are published than were counted, and one more than line   *)
(* feeds when all are.                                                     *)
LEMMA PublishedLines ==
  ASSUME Indexed, Counted, NoTabs, OneWindow, ~is_fixed_width
  PROVE  /\ ~is_finished => original_total_lines <= Feeds(offset)
         /\ original_total_lines <= Feeds(Len(file)) + 1
         /\ original_total_lines \in Nat
<1>1. FilesAreBytes /\ Len(file) \in Nat /\ offset \in Nat /\ offset <= Len(file)
      /\ original_total_lines \in Nat
  BY LenProperties, SMT DEF Indexed, Opened, Thread, Listed, FilesAreBytes
<1>2. Feeds(offset) \in Nat /\ Feeds(Len(file)) \in Nat /\ Feeds(offset) <= Feeds(Len(file))
  BY <1>1, FeedsGrow
<1>3. ASSUME ~is_finished PROVE original_total_lines <= Feeds(offset)
  <2>1. pc # "finished" /\ current_line = Feeds(offset)
    BY <1>3 DEF Indexed, Thread, Counted, Feeds
  <2>2. CASE pc = "publish"
    BY <2>1, <2>2 DEF Indexed, Pending
  <2>3. CASE pc # "publish"
    <3>1. original_total_lines = current_line
      BY <2>1, <2>3 DEF Indexed, Thread, Pending
    <3>2. QED
      BY <1>2, <2>1, <3>1, SMT
  <2>4. QED
    BY <2>2, <2>3
<1>4. ASSUME is_finished PROVE original_total_lines <= Feeds(Len(file)) + 1
  <2> DEFINE n == Feeds(Len(file))
  <2>1. n = Cardinality(LineFeeds)
    BY <1>1, FeedsAtEnds DEF Feeds
  <2>2. original_total_lines = FinalLines(n)
    BY <1>4, <2>1 DEF Counted, AllLines
  <2> HIDE DEF n
  <2>3. n \in Nat => FinalLines(n) <= n + 1
    BY SMT DEF FinalLines
  <2>4. QED
    BY <1>2, <2>2, <2>3 DEF n
<1>5. QED
  BY <1>1, <1>2, <1>3, <1>4, SMT

(* A line begins no further than where its predecessor has ended.          *)
LEMMA OffsetBelow ==
  ASSUME Indexed, Exact, NoTabs, OneWindow, ~is_fixed_width,
         NEW line \in Nat, line < original_total_lines, NEW e \in Nat, line < Feeds(e)
  PROVE  calc_offset(line) <= e
<1> DEFINE r == ChunkIdx(line)
           c == chunks[r + 1]
           b == c.byte_offset
           s == c.start_line
<1>1. /\ r + 1 \in 1 .. Len(chunks) /\ b \in 0 .. Len(file) /\ s \in 0 .. line
      /\ line - s \in Nat /\ calc_offset(line) = Skip(b, line - s)
  BY OffsetIs
<1>2. FilesAreBytes /\ Len(file) \in Nat
  BY LenProperties DEF Indexed, Opened, FilesAreBytes
<1>3. s = Feeds(b)
  BY <1>1 DEF Exact, StartsRight, Feeds
<1> HIDE DEF r, c, b, s
<1>4. b \in Nat /\ s \in Nat /\ s <= line
  BY <1>1, <1>2, SMT
<1>5. Feeds(e) \in Nat /\ (Feeds(b) < Feeds(e) => b < e)
  BY <1>2, <1>4, FeedsGrow
<1>6. b < e
  BY <1>3, <1>4, <1>5, SMT
<1>7. b <= e
  BY <1>4, <1>6, SMT
<1>8. Feeds(e) - s = Cardinality(FeedsIn(b, e))
  BY <1>2, <1>3, <1>4, <1>7, FeedsGrow
<1>9. line - s <= Feeds(e) - s
  BY <1>4, <1>5, SMT
<1>10. QED
  BY <1>1, <1>2, <1>4, <1>7, <1>8, <1>9, SkipWithin

(* Later lines begin no earlier.                                           *)
LEMMA OffsetsGrow ==
  ASSUME Indexed, Exact, NoTabs, OneWindow, ~is_fixed_width,
         NEW line \in Nat, NEW m \in Nat, line <= m, m < original_total_lines
  PROVE  calc_offset(line) <= calc_offset(m)
<1> DEFINE r == ChunkIdx(line)
           b == chunks[r + 1].byte_offset
           s == chunks[r + 1].start_line
           r2 == ChunkIdx(m)
           b2 == chunks[r2 + 1].byte_offset
           s2 == chunks[r2 + 1].start_line
<1>1. FilesAreBytes /\ Len(file) \in Nat /\ original_total_lines \in Nat
  BY LenProperties, SMT DEF Indexed, Opened, Listed, FilesAreBytes
<1>2. line < original_total_lines
  BY <1>1, SMT
<1>3. /\ IsLastChunk(r, line) /\ r + 1 \in 1 .. Len(chunks) /\ b \in 0 .. Len(file)
      /\ s \in 0 .. line /\ line - s \in Nat /\ calc_offset(line) = Skip(b, line - s)
  BY <1>2, OffsetIs
<1>4. /\ IsLastChunk(r2, m) /\ r2 + 1 \in 1 .. Len(chunks) /\ b2 \in 0 .. Len(file)
      /\ s2 \in 0 .. m /\ m - s2 \in Nat /\ calc_offset(m) = Skip(b2, m - s2)
  BY OffsetIs
<1>5. s2 = Feeds(b2)
  BY <1>4 DEF Exact, StartsRight, Feeds
<1>6. StartLine(r2) = s2 /\ StartLine(r) = s
  BY DEF StartLine
<1>7. s2 > line => b2 \in Nat /\ line < Feeds(b2)
  BY <1>1, <1>4, <1>5
<1>8. CASE s2 > line
  <2>1. calc_offset(line) <= b2
    BY <1>2, <1>7, <1>8, OffsetBelow
  <2>2. calc_offset(m) \in b2 .. Len(file)
    BY <1>1, <1>4, SkipBounds
  <2>3. calc_offset(line) \in 0 .. Len(file)
    BY OffsetInFile
  <2> DEFINE x == calc_offset(line)
             y == calc_offset(m)
  <2>4. b2 \in Nat
    BY <1>7, <1>8
  <2> HIDE DEF x, y, b2
  <2>5. x <= y
    BY <1>1, <2>1, <2>2, <2>3, <2>4, SMT DEF x, y
  <2>6. QED
    BY <2>5 DEF x, y
<1>9. CASE ~(s2 > line)
  <2>1. IsLastChunk(r2, line)
    <3>1. s2 \in Nat
      BY <1>4
    <3>2. s2 <= line
      <4> HIDE DEF s2
      <4>1. QED
        BY <1>9, <3>1, SMT
    <3>3. /\ r2 \in 0 .. Len(chunks) - 1
          /\ \A k \in 0 .. Len(chunks) - 1 : k > r2 => StartLine(k) > m
      BY <1>4 DEF IsLastChunk
    <3>4. ASSUME NEW k \in 0 .. Len(chunks) - 1, k > r2 PROVE StartLine(k) > line
      <4>1. StartLine(k) > m /\ StartLine(k) \in Nat
        BY <3>3, <3>4, ChunkFields DEF Indexed, Listed
      <4> DEFINE x == StartLine(k)
      <4>2. x > m /\ x \in Nat
        BY <4>1
      <4> HIDE DEF x
      <4>3. x > line
        BY <4>2, SMT
      <4>4. QED
        BY <4>3 DEF x
    <3>5. QED
      BY <1>6, <3>2, <3>3, <3>4 DEF IsLastChunk
  <2>2. r = r2
    <3> HIDE DEF r, r2
    <3>1. QED
      BY <1>3, <2>1, LastIsOne DEF Indexed, Listed
  <2>3. b = b2 /\ s = s2
    BY <2>2
  <2> HIDE DEF b, b2, s, s2, r, r2
  <2>4. line - s <= m - s
    BY <1>3, <2>3, SMT
  <2>5. Skip(b, line - s) <= Skip(b, m - s)
    BY <1>1, <1>3, <1>4, <2>3, <2>4, SkipGrows
  <2>6. QED
    BY <1>3, <1>4, <2>3, <2>5
<1>10. QED
  BY <1>8, <1>9

(* The line behind a line feed.                                            *)
LEMMA LineStartIs ==
  ASSUME FilesAreBytes, NEW q \in LineFeeds, NEW m \in Nat, m > 0, Feeds(q) = m
  PROVE  LineStart(m) = q
<1>1. Len(file) \in Nat
  BY LenProperties DEF FilesAreBytes
<1>2. \A i \in LineFeeds : {j \in LineFeeds : j <= i} = FeedsIn(0, i)
  BY <1>1, SMT DEF LineFeeds, FeedsIn
<1>3. \A i \in LineFeeds : i \in Nat /\ i <= Len(file) /\ i > 0
  BY <1>1, SMT DEF LineFeeds
<1>4. ASSUME NEW i \in LineFeeds, NEW k \in LineFeeds, i < k
      PROVE  Feeds(i) # Feeds(k)
  <2>1. i \in Nat /\ k \in Nat /\ i <= k
    BY <1>3, <1>4, SMT
  <2>2. Feeds(k) - Feeds(i) = Cardinality(FeedsIn(i, k)) /\ Feeds(i) \in Nat /\ Feeds(k) \in Nat
    BY <2>1, FeedsGrow
  <2>3. k \in FeedsIn(i, k)
    BY <1>1, <1>4, <2>1, SMT DEF FeedsIn, LineFeeds
  <2>4. Cardinality(FeedsIn(i, k)) # 0
    BY <2>3, FeedsFinite, FS_EmptySet
  <2>5. QED
    BY <2>2, <2>4, SMT
<1>5. \A i \in LineFeeds : Feeds(i) = m => i = q
  <2>1. ASSUME NEW i \in LineFeeds, Feeds(i) = m, i # q PROVE FALSE
    <3>1. i < q \/ q < i
      BY <1>3, <2>1, SMT
    <3>2. QED
      BY <1>4, <2>1, <3>1
  <2>2. QED
    BY <2>1
<1>6. ~(Cardinality(LineFeeds) < m)
  <2>1. q \in Nat /\ q <= Len(file)
    BY <1>3
  <2>2. Feeds(q) <= Feeds(Len(file)) /\ Feeds(Len(file)) \in Nat
    BY <1>1, <2>1, FeedsGrow
  <2>3. Feeds(Len(file)) = Cardinality(LineFeeds)
    BY FeedsAtEnds DEF Feeds
  <2>4. QED
    BY <2>2, <2>3, SMT
<1>7. LineStart(m) = CHOOSE i \in LineFeeds : Cardinality({j \in LineFeeds : j <= i}) = m
  BY <1>6 DEF LineStart
<1>8. \A i \in LineFeeds : Cardinality({j \in LineFeeds : j <= i}) = Feeds(i)
  BY <1>2 DEF Feeds
<1>9. QED
  BY <1>5, <1>7, <1>8, Zenon

(* Where lines end with a line feed, a line begins in front of the end of  *)
(* any stretch that has all the line feeds before it.                      *)
LEMMA LineStartBelow ==
  ASSUME FilesAreBytes, OneWindow, NoBareCR, NEW m \in Nat, m > 0
  PROVE  /\ LineStart(m) <= Len(file)
         /\ \A e \in 0 .. Len(file) : m <= Feeds(e) => LineStart(m) <= e
<1>1. Len(file) \in Nat /\ 0 \in 0 .. Len(file) /\ 0 \in Nat
  BY LenProperties, SMT DEF FilesAreBytes
<1>2. Feeds(Len(file)) = Cardinality(LineFeeds) /\ Feeds(Len(file)) \in Nat
  BY <1>1, FeedsAtEnds, FeedsGrow DEF Feeds
<1>3. ASSUME NEW e \in 0 .. Len(file), m <= Feeds(e)
      PROVE  LineStart(m) <= e
  <2>1. e \in Nat /\ e <= Len(file) /\ 0 <= e
    BY <1>1
  <2>2. Feeds(e) <= Feeds(Len(file)) /\ Feeds(e) \in Nat
    BY <1>1, <2>1, FeedsGrow
  <2>3. m <= Cardinality(FeedsIn(0, Len(file)))
    BY <1>2, <1>3, <2>2, SMT DEF Feeds
  <2> DEFINE q == Skip(0, m)
  <2>4. q \in LineFeeds /\ Cardinality(FeedsIn(0, q)) = m
    BY <1>1, <2>3, SkipFeeds
  <2>5. LineStart(m) = q
    BY <2>4, LineStartIs DEF Feeds
  <2>6. m <= Cardinality(FeedsIn(0, e))
    BY <1>3 DEF Feeds
  <2>7. q <= e
    BY <1>1, <2>1, <2>6, SkipWithin
  <2>8. QED
    BY <2>5, <2>7
<1>4. LineStart(m) <= Len(file)
  <2>1. CASE Cardinality(LineFeeds) < m
    <3>1. LineStart(m) = Len(file)
      BY <2>1, SMT DEF LineStart
    <3>2. QED
      BY <1>1, <3>1
  <2>2. CASE ~(Cardinality(LineFeeds) < m)
    <3>1. Len(file) \in 0 .. Len(file) /\ m <= Feeds(Len(file))
      BY <1>1, <1>2, <2>2, SMT
    <3>2. QED
      BY <1>3, <3>1
  <2>3. QED
    BY <2>1, <2>2
<1>5. QED
  BY <1>3, <1>4

(* The lookup of a published line ends at the beginning of the line, or,   *)
(* if a chunk begins in the middle of the line, there.                     *)
LEMMA LineReached ==
  ASSUME Indexed, Counted, Exact, Plain, NEW m \in Nat, m > 0, m < original_total_lines
  PROVE  LET c == chunks[ChunkIdx(m) + 1]
         IN  /\ LineStart(m) <= calc_offset(m)
             /\ \/ calc_offset(m) = LineStart(m)
                \/ c.start_line = m /\ calc_offset(m) = c.byte_offset
<1> DEFINE r == ChunkIdx(m)
           c == chunks[r + 1]
           b == c.byte_offset
           s == c.start_line
<1>1. /\ r + 1 \in 1 .. Len(chunks) /\ b \in 0 .. Len(file) /\ s \in 0 .. m
      /\ m - s \in Nat /\ calc_offset(m) = Skip(b, m - s)
  BY OffsetIs DEF Plain
<1>2. FilesAreBytes /\ Len(file) \in Nat /\ NoBareCR /\ NoTabs /\ OneWindow
  BY LenProperties DEF Indexed, Opened, FilesAreBytes, Plain
<1>3. s = Feeds(b)
  BY <1>1, <1>2 DEF Exact, StartsRight, Feeds
<1> HIDE DEF r, c, b, s
<1>4. b \in Nat /\ b <= Len(file) /\ s \in Nat /\ s <= m
  BY <1>1, <1>2, SMT
<1>5. CASE s = m
  <2>1. m - s = 0
    BY <1>4, <1>5, SMT
  <2>2. calc_offset(m) = b
    BY <1>1, <1>2, <1>4, <2>1, SkipSteps
  <2>3. m <= Feeds(b)
    BY <1>3, <1>5
  <2>4. LineStart(m) <= b
    BY <1>1, <1>2, <2>3, LineStartBelow
  <2>5. QED
    BY <1>5, <2>2, <2>4 DEF b, c, s, r
<1>6. CASE s # m
  <2> DEFINE n == m - s
  <2>1. n \in Nat /\ n > 0 /\ s + n = m
    BY <1>4, <1>6, SMT
  <2>2. Feeds(Len(file)) \in Nat
        /\ Feeds(Len(file)) - Feeds(b) = Cardinality(FeedsIn(b, Len(file)))
    BY <1>2, <1>4, FeedsGrow
  <2>3. m <= Feeds(Len(file))
    BY <1>2, <2>2, PublishedLines, SMT DEF Plain
  <2> DEFINE q == Skip(b, n)
             k == Cardinality(FeedsIn(b, Len(file)))
  <2>4. n <= Cardinality(FeedsIn(b, Len(file)))
    <3>1. Feeds(Len(file)) - s = k
      BY <1>3, <2>2
    <3>2. n = m - s
      OBVIOUS
    <3> HIDE DEF n, k
    <3>3. n <= k
      BY <1>4, <2>2, <2>3, <3>1, <3>2, SMT
    <3>4. QED
      BY <3>3 DEF k
  <2> HIDE DEF n
  <2>5. q \in LineFeeds /\ b < q /\ Cardinality(FeedsIn(b, q)) = n
    BY <1>1, <1>2, <2>1, <2>4, SkipFeeds
  <2> HIDE DEF q
  <2>6. q \in Nat /\ b <= q
    BY <1>2, <1>4, <2>5, SMT DEF LineFeeds
  <2>7. Feeds(q) - Feeds(b) = n /\ Feeds(q) \in Nat
    BY <1>2, <1>4, <2>5, <2>6, FeedsGrow
  <2>8. Feeds(q) = m
    BY <1>3, <1>4, <2>1, <2>7, SMT
  <2>9. LineStart(m) = q
    BY <1>2, <2>5, <2>8, LineStartIs
  <2>10. calc_offset(m) = q
    BY <1>1 DEF q, n
  <2>11. LineStart(m) <= calc_offset(m)
    BY <2>6, <2>9, <2>10, SMT
  <2>12. QED
    BY <2>9, <2>10, <2>11
<1>7. QED
  BY <1>5, <1>6

(* The first line begins with the file.                                    *)
LEMMA FirstLineReached ==
  ASSUME Indexed, ~is_fixed_width, original_total_lines > 0
  PROVE  LET c == chunks[ChunkIdx(0) + 1]
         IN  c.start_line = 0 /\ calc_offset(0) = c.byte_offset
<1> DEFINE r == ChunkIdx(0)
           c == chunks[r + 1]
           b == c.byte_offset
           s == c.start_line
<1>1. 0 \in Nat /\ 0 < original_total_lines
  BY SMT DEF Indexed, Listed
<1>2. b \in 0 .. Len(file) /\ s \in 0 .. 0 /\ calc_offset(0) = Skip(b, 0 - s)
  BY <1>1, OffsetIs
<1>3. FilesAreBytes /\ Len(file) \in Nat
  BY LenProperties DEF Indexed, Opened, FilesAreBytes
<1> HIDE DEF r, c, b, s
<1>4. s = 0 /\ 0 - 0 = 0 /\ b \in Nat
  <2>1. s = 0
    BY <1>2
  <2>2. b \in Nat
    BY <1>2, <1>3
  <2>3. QED
    BY <2>1, <2>2
<1>5. calc_offset(0) = Skip(b, 0)
  BY <1>2, <1>4
<1>6. calc_offset(0) = b
  BY <1>3, <1>4, <1>5, SkipSteps
<1>7. QED
  BY <1>4, <1>6 DEF b, s, c, r

(* For every file whose lines end with a line feed, the offset of a        *)
(* published line is the beginning of that line, during and after          *)
(* indexing, unless a chunk begins in the middle of it.                    *)
THEOREM OffsetsAreExact == Spec => []OffsetExact
<1>1. Indexed /\ Counted /\ Exact => OffsetExact
  <2> SUFFICES ASSUME Indexed, Counted, Exact, Plain,
                      NEW line \in 0 .. original_total_lines - 1, ~CutByChunk(line)
               PROVE  calc_offset(line) = LineStart(line)
    BY DEF OffsetExact
  <2>1. line \in Nat /\ line < original_total_lines /\ ~is_fixed_width
    BY SMT DEF Indexed, Listed, Plain
  <2> DEFINE c == chunks[ChunkIdx(line) + 1]
  <2>2. c.start_line = line => c.byte_offset = LineStart(line)
    <3>1. ChunkIdx(line) + 1 \in 1 .. Len(chunks)
      BY <2>1, OffsetIs
    <3>2. QED
      BY <3>1 DEF CutByChunk
  <2>3. CASE line = 0
    <3>1. original_total_lines > 0
      BY <2>1, <2>3, SMT DEF Indexed, Listed
    <3>2. c.start_line = line /\ calc_offset(line) = c.byte_offset
      BY <2>1, <2>3, <3>1, FirstLineReached
    <3>3. QED
      BY <2>2, <3>2
  <2>4. CASE line # 0
    <3>1. line > 0
      BY <2>1, <2>4, SMT
    <3>2. QED
      BY <2>1, <2>2, <3>1, LineReached
  <2>5. QED
    BY <2>3, <2>4
<1>2. QED
  BY <1>1, IndexExact, PTL

-----------------------------------------------------------------------------
(* Lines of fixed width.                                                   *)

(* A file of fixed width has as many lines as pieces of FixedSize bytes.   *)
FixedKnown == is_fixed_width => pc = "finished" /\ original_total_lines = FixedLines

(* Nothing but opening a file decides it.                                  *)
LEMMA InitFixed == Init => FixedKnown
BY DEF Init, FixedWidth, Lazily, AtOnce, FixedKnown

(* No step takes it back.                                                  *)
LEMMA NextFixed == FixedKnown /\ [Next]_vars => FixedKnown'
<1> SUFFICES ASSUME FixedKnown, [Next]_vars, is_fixed_width'
             PROVE  pc' = "finished" /\ original_total_lines' = FixedLines'
  BY DEF FixedKnown
<1>1. UNCHANGED opened
  BY DEF Next, Indexer, IndexCancelled, IndexCheck, IndexCount, IndexPublish, IndexFinish,
         ReadFirst, ReadLast, ReadReturns, Free, vars
<1>2. is_fixed_width /\ FixedLines' = FixedLines
  BY <1>1 DEF opened, FixedLines, DivUp
<1>3. pc = "finished" /\ original_total_lines = FixedLines
  BY <1>2 DEF FixedKnown
<1>4. pc' = pc /\ original_total_lines' = original_total_lines
  BY <1>3 DEF Next, Indexer, IndexCancelled, IndexCheck, IndexCount, IndexPublish, IndexFinish,
         ReadFirst, ReadLast, ReadReturns, Free, vars, index, indexer
<1>5. QED
  BY <1>2, <1>3, <1>4

(* It holds beside what the index keeps.                                   *)
LEMMA FixedInvariant == Spec => [](Indexed /\ FixedKnown)
<1>1. QED
  BY InitFixed, NextFixed, IndexInvariant, PTL DEF Spec

(* In a file of one window their multiples of FixedSize do not wrap around. *)
LEMMA FixedLinesFit ==
  ASSUME FilesAreBytes, OneWindow
  PROVE  /\ FixedLines \in Nat
         /\ \A line \in 0 .. FixedLines :
              line \in Nat /\ AsUsize(line * FixedSize) = line * FixedSize
<1> DEFINE n == FixedLines
<1>1. /\ Len(file) \in Nat /\ FixedSize \in Nat \ {0} /\ WINDOW_SIZE \in Nat \ {0}
      /\ WINDOW_SIZE % FixedSize = 0 /\ Usize \in Nat /\ 2 * WINDOW_SIZE <= Usize
  BY ChunkAssumption, PagerAssumption, LenProperties DEF FilesAreBytes
<1>2. FixedSize <= WINDOW_SIZE
  BY <1>1, SMT
<1>3. n = DivUp(Len(file), FixedSize)
  BY DEF FixedLines
<1> HIDE DEF n
<1>4. /\ n \in Nat
      /\ \A k \in 1 .. n : (k - 1) * FixedSize \in Nat /\ (k - 1) * FixedSize < Len(file)
  BY <1>1, <1>3, PiecesOf
<1>5. ASSUME NEW line \in 0 .. n
      PROVE  line \in Nat /\ AsUsize(line * FixedSize) = line * FixedSize
  <2> DEFINE x == line * FixedSize
  <2>1. line \in Nat
    BY <1>4
  <2>2. x \in Nat /\ x < Len(file) + FixedSize
    <3>1. CASE line = 0
      <4>1. x = 0
        BY <1>1, <3>1, SMT
      <4>2. QED
        BY <1>1, <4>1, SMT
    <3>2. CASE line # 0
      <4> DEFINE y == (line - 1) * FixedSize
      <4>1. line \in 1 .. n
        BY <1>4, <2>1, <3>2
      <4>2. y \in Nat /\ y < Len(file)
        BY <1>4, <4>1
      <4>3. x = y + FixedSize
        BY <1>1, <2>1, SMT
      <4> HIDE DEF x, y
      <4>4. QED
        BY <1>1, <4>2, <4>3, SMT
    <3>3. QED
      BY <3>1, <3>2
  <2> HIDE DEF x
  <2>3. narrow => x < Usize
    BY <1>1, <1>2, <2>2, SMT DEF OneWindow
  <2>4. narrow => x % Usize = x
    BY <1>1, <2>2, <2>3, SMT
  <2>5. AsUsize(x) = x
    BY <2>4 DEF AsUsize
  <2>6. QED
    BY <2>1, <2>5 DEF x
<1>6. QED
  BY <1>4, <1>5 DEF n

-----------------------------------------------------------------------------
(* Reads that the thread overtakes.                                        *)

(* Cuts of a file of fixed width do not overtake one another.              *)
LEMMA FixedOffsetsGrow ==
  ASSUME FilesAreBytes, OneWindow, NEW line \in 0 .. FixedLines, NEW m \in 0 .. FixedLines,
         line < m
  PROVE  FixedOffset(line) <= FixedOffset(m)
<1> DEFINE x == line * FixedSize
           y == m * FixedSize
           N == Len(file)
           a == IF x < N THEN x ELSE N
           b == IF y < N THEN y ELSE N
           cut(p) == IF p \in {0, N} THEN p ELSE FindSafeCut(file, avx2, p)
<1>1. N \in Nat /\ FixedSize \in Nat \ {0} /\ Lookback \in Nat /\ Lookback < FixedSize
  BY ChunkAssumption, ScanAssumption, LenProperties DEF FilesAreBytes
<1>2. FixedOffset(line) = cut(a) /\ FixedOffset(m) = cut(b)
  <2>1. AsUsize(line * FixedSize) = x /\ AsUsize(m * FixedSize) = y
    BY FixedLinesFit
  <2>2. QED
    BY <2>1, Zenon DEF FixedOffset
<1>3. x \in Nat /\ y \in Nat /\ x + FixedSize <= y
  <2>0. line \in Nat /\ m \in Nat
    BY FixedLinesFit
  <2>1. line + 1 \in Nat /\ line + 1 <= m
    BY <2>0, SMT
  <2>2. (line + 1) * FixedSize <= m * FixedSize
    BY <1>1, <2>0, <2>1, TimesGrows
  <2>3. (line + 1) * FixedSize = line * FixedSize + FixedSize
    BY <1>1, <2>0, SMT
  <2>4. x \in Nat /\ y \in Nat
    BY <1>1, <2>0, SMT
  <2>5. QED
    BY <2>2, <2>3, <2>4
<1> HIDE DEF x, y, N
<1>4. /\ a \in Nat /\ b \in Nat /\ a <= b /\ (b = N \/ a + FixedSize <= b)
      /\ a <= N /\ b <= N
  BY <1>1, <1>3, SMT
<1> HIDE DEF a, b
<1>5. \A p \in 0 .. N : /\ cut(p) \in 0 .. N /\ cut(p) <= p
                        /\ p \in {0, N} => cut(p) = p
                        /\ cut(p) = p \/ p < cut(p) + Lookback
  <2>1. ASSUME NEW p \in 0 .. N
        PROVE  /\ cut(p) \in 0 .. N /\ cut(p) <= p
               /\ p \in {0, N} => cut(p) = p
               /\ cut(p) = p \/ p < cut(p) + Lookback
    <3>1. CASE p \in {0, N}
      BY <1>1, <3>1
    <3>2. CASE p \notin {0, N}
      <4> DEFINE c == FindSafeCut(file, avx2, p)
      <4>1. p \in Nat /\ p > 0
        BY <1>1, <3>2
      <4>2. c \in 1 .. p /\ (c = p \/ p < c + Lookback)
        BY <4>1, CutNear
      <4> HIDE DEF c
      <4>3. c \in 0 .. N /\ c <= p
        BY <1>1, <4>1, <4>2, SMT
      <4>4. QED
        BY <3>2, <4>2, <4>3 DEF c
    <3>3. QED
      BY <3>1, <3>2
  <2>2. QED
    BY <2>1
<1> HIDE DEF cut
<1>6. a \in 0 .. N /\ b \in 0 .. N
  BY <1>1, <1>4
<1>7. CASE b = N
  <2>1. cut(b) = N /\ cut(a) \in 0 .. N
    BY <1>5, <1>6, <1>7
  <2>2. QED
    BY <1>1, <1>2, <2>1
<1>8. CASE b # N
  <2>1. /\ cut(a) \in 0 .. N /\ cut(a) <= a /\ cut(b) \in 0 .. N
        /\ cut(b) = b \/ b < cut(b) + Lookback
    BY <1>5, <1>6
  <2> DEFINE ca == cut(a)
             cb == cut(b)
  <2>2. ca \in 0 .. N /\ ca <= a /\ cb \in 0 .. N /\ (cb = b \/ b < cb + Lookback)
    BY <2>1
  <2> HIDE DEF ca, cb
  <2>3. ca <= cb
    BY <1>1, <1>4, <1>8, <2>2, SMT
  <2>4. QED
    BY <1>2, <2>3 DEF ca, cb
<1>9. QED
  BY <1>7, <1>8

(* The end of a range of published lines is looked up: it does not lie in  *)
(* front of the beginning, and nothing of the last line lies behind it.    *)
LEMMA EndCovers ==
  ASSUME Indexed, Counted, Exact, FixedKnown, NEW first \in Nat, NEW m \in Nat, first < m,
         m <= original_total_lines
  PROVE  /\ NoTabs /\ OneWindow => calc_offset(first) <= calc_offset(m)
         /\ Plain => LineStart(m) <= calc_offset(m)
<1>1. FilesAreBytes /\ Len(file) \in Nat /\ original_total_lines \in Nat
  BY LenProperties, SMT DEF Indexed, Opened, Listed, FilesAreBytes
<1>2. first < original_total_lines /\ m > 0
  BY <1>1, SMT
<1>3. calc_offset(first) \in 0 .. Len(file) /\ calc_offset(m) \in 0 .. Len(file)
  BY OffsetInFile
<1>4. CASE is_fixed_width
  <2>1. FixedLines = original_total_lines
    BY <1>4 DEF FixedKnown
  <2>2. first \in 0 .. FixedLines /\ m \in 0 .. FixedLines
    BY <1>1, <2>1, SMT
  <2>3. QED
    BY <1>1, <1>4, <2>2, FixedOffsetsGrow DEF calc_offset, Plain
<1>5. CASE ~is_fixed_width /\ m < original_total_lines
  <2>1. first <= m
    BY SMT
  <2>2. QED
    BY <1>2, <1>5, <2>1, OffsetsGrow, LineReached DEF Plain
<1>6. CASE ~is_fixed_width /\ m = original_total_lines /\ is_finished
  <2>1. calc_offset(m) = Len(file)
    BY <1>1, <1>6 DEF calc_offset
  <2>2. QED
    BY <1>1, <1>2, <1>3, <2>1, LineStartBelow DEF Plain
<1>7. CASE ~is_fixed_width /\ m = original_total_lines /\ ~is_finished
  <2>1. calc_offset(m) = offset
    <3>1. bytes_processed = offset
      BY <1>7 DEF Indexed, Thread
    <3>2. m >= original_total_lines
      BY <1>1, <1>7
    <3>3. QED
      BY <1>7, <3>1, <3>2 DEF calc_offset
  <2>2. offset \in Nat /\ offset \in 0 .. Len(file)
    BY <1>1, SMT DEF Indexed, Thread
  <2>3. ASSUME NoTabs, OneWindow PROVE m <= Feeds(offset)
    BY <1>7, <2>3, PublishedLines
  <2>4. ASSUME NoTabs, OneWindow PROVE first < Feeds(offset)
    <3>1. Feeds(offset) \in Nat /\ m <= Feeds(offset)
      BY <1>1, <2>2, <2>3, <2>4, FeedsGrow
    <3>2. QED
      BY <3>1, SMT
  <2>5. NoTabs /\ OneWindow => calc_offset(first) <= offset
    BY <1>2, <1>7, <2>2, <2>4, OffsetBelow
  <2>6. Plain => LineStart(m) <= offset
    BY <1>1, <1>2, <2>2, <2>3, LineStartBelow DEF Plain
  <2>7. QED
    BY <2>1, <2>5, <2>6
<1>8. QED
  BY <1>1, <1>4, <1>5, <1>6, <1>7, SMT

(* So that no step spoils a read: what was read stays right, since files   *)
(* do not change, and a read that ends then is right.                      *)
LEMMA NextCovers ==
  Indexed /\ Reading /\ Counted /\ Exact /\ FixedKnown /\ ReadCovers /\ [Next]_vars
    => ReadCovers'
<1> SUFFICES ASSUME Indexed, Reading, Counted, Exact, FixedKnown, ReadCovers, [Next]_vars
             PROVE  ReadCovers'
  OBVIOUS
<1>1. UNCHANGED opened
  BY DEF Next, Indexer, IndexCancelled, IndexCheck, IndexCount, IndexPublish, IndexFinish,
         ReadFirst, ReadLast, ReadReturns, Free, vars
<1>2. /\ NoTabs' <=> NoTabs
      /\ OneWindow' <=> OneWindow
      /\ Plain' <=> Plain
      /\ \A line : LineStart(line)' = LineStart(line)
  BY <1>1 DEF opened, NoTabs, NoBareCR, OneWindow, Plain, LineStart, LineFeeds
<1>3. CASE reader'.pc # "done"
  BY <1>3 DEF ReadCovers
<1>4. CASE reader' = reader
  <2>1. LineStart(reader.first + reader.count)' = LineStart(reader.first + reader.count)
    BY <1>1, <1>4 DEF opened, LineStart, LineFeeds
  <2>2. QED
    BY <1>2, <1>4, <2>1 DEF ReadCovers
<1>5. CASE ReadLast
  <2> DEFINE first == reader.first
             m == first + reader.count
  <2>1. /\ first \in Nat /\ m \in Nat /\ first < m /\ m <= original_total_lines
        /\ reader.start = calc_offset(first)
    <3>1. /\ first \in Nat /\ reader.count \in Nat /\ reader.count > 0
          /\ m <= original_total_lines /\ reader.start = calc_offset(first)
      BY <1>5 DEF Reading, ReadLast, ReaderType
    <3>2. m \in Nat /\ first < m
      BY <3>1, SMT
    <3>3. QED
      BY <3>1, <3>2
  <2>2. /\ NoTabs /\ OneWindow => calc_offset(first) <= calc_offset(m)
        /\ Plain => LineStart(m) <= calc_offset(m)
    BY <2>1, EndCovers
  <2>3. /\ reader'.start = reader.start /\ reader'.first = reader.first
        /\ reader'.count = reader.count /\ reader'.end = calc_offset(m)
    BY <1>5, WholeRead DEF ReadLast, Reading
  <2>4. LineStart(reader.first + reader.count)' = LineStart(m)
    BY <1>1, <2>3 DEF opened, LineStart, LineFeeds
  <2>5. QED
    BY <1>2, <2>1, <2>2, <2>3, <2>4 DEF ReadCovers
<1>6. CASE UNCHANGED vars
  BY <1>4, <1>6 DEF vars
<1>7. reader' = reader \/ reader'.pc # "done" \/ ReadLast \/ UNCHANGED vars
  BY DEF Next, Indexer, IndexCancelled, IndexCheck, IndexCount, IndexPublish, IndexFinish,
         ReadFirst, ReadLast, ReadReturns, Free, NoRead
<1>8. QED
  BY <1>3, <1>4, <1>5, <1>6, <1>7

(* A read of published lines that the thread overtakes ends behind its     *)
(* beginning and loses no byte of its last line, wherever the thread is    *)
(* between the two lookups.                                                *)
THEOREM ReadsCover == Spec => []ReadCovers
<1>1. Init => ReadCovers
  BY DEF Init, ReadCovers, NoRead
<1>2. QED
  BY <1>1, NextCovers, IndexExact, FixedInvariant, PTL DEF Spec

-----------------------------------------------------------------------------
(* Bytes that the scanners may miscount.                                   *)

(* The vertical tabs right behind a line feed, in a stretch.               *)
TabsIn(from, to) ==
  {i \in 1 .. Len(file) :
     from < i /\ i <= to /\ file[i] = "vt" /\ Borrowed(file, "nl", "vt", 0, i)}

(* As many as the line feeds of a stretch, and tabs that they lend to.     *)
Counts(n, from, to) ==
  /\ n \in Nat /\ Cardinality(FeedsIn(from, to)) <= n
  /\ n <= Cardinality(FeedsIn(from, to)) + Cardinality(TabsIn(from, to))

(* The line feeds up to a position that the slice of their chunk lacks.    *)
HiddenTo(to) ==
  {i \in LineFeeds : i <= to /\ ChunkEnd(((i - 1) \div ChunkSize) * ChunkSize, ChunkSize) < i}

(* As many as there are, but for these.                                    *)
Nearly(n, to, hidden) ==
  /\ n \in Nat /\ Cardinality(FeedsIn(0, to)) <= n + Cardinality(HiddenTo(hidden))
  /\ n <= Cardinality(FeedsIn(0, to)) + Cardinality(TabsIn(0, to))

(* The thread goes from chunk to chunk, unless it goes round for ever.     *)
Aligned ==
  IF Indexable THEN offset = Len(file) \/ \E k \in Nat : offset = k * ChunkSize
  ELSE ~is_finished /\ offset + Usize <= Len(file)

(* The thread's count, and the number of lines that is the last one.       *)
Scanned ==
  ~is_fixed_width =>
    /\ Aligned
    /\ Indexable => Nearly(current_line, offset, offset)
    /\ is_finished =>
         \E n \in Nat : Nearly(n, Len(file), offset) /\ original_total_lines = FinalLines(n)

(* They are finitely many, and those of two stretches that meet add up.    *)
LEMMA TabsAdd ==
  ASSUME FilesAreBytes, NEW a \in Nat, NEW b \in Nat, a <= b
  PROVE  /\ \A x, y : IsFiniteSet(TabsIn(x, y)) /\ Cardinality(TabsIn(x, y)) \in Nat
         /\ Cardinality(TabsIn(0, a)) + Cardinality(TabsIn(a, b)) = Cardinality(TabsIn(0, b))
<1> DEFINE S == TabsIn(0, a)
           T == TabsIn(a, b)
<1>1. Len(file) \in Nat
  BY LenProperties DEF FilesAreBytes
<1>2. \A x, y : IsFiniteSet(TabsIn(x, y)) /\ Cardinality(TabsIn(x, y)) \in Nat
  <2>1. ASSUME NEW x, NEW y PROVE IsFiniteSet(TabsIn(x, y)) /\ Cardinality(TabsIn(x, y)) \in Nat
    <3>1. IsFiniteSet(1 .. Len(file))
      BY <1>1, FS_Interval
    <3>2. TabsIn(x, y) \subseteq 1 .. Len(file)
      BY DEF TabsIn
    <3>3. QED
      BY <3>1, <3>2, FS_Subset, FS_CardinalityType
  <2>2. QED
    BY <2>1
<1>3. S \cup T = TabsIn(0, b) /\ S \cap T = {}
  <2> DEFINE P(i) == file[i] = "vt" /\ Borrowed(file, "nl", "vt", 0, i)
  <2>1. \A x, y : TabsIn(x, y) = {i \in 1 .. Len(file) : x < i /\ i <= y /\ P(i)}
    BY DEF TabsIn
  <2> HIDE DEF P
  <2>2. QED
    BY <1>1, <2>1, SMT
<1>4. IsFiniteSet(S) /\ IsFiniteSet(T) /\ Cardinality(S) \in Nat /\ Cardinality(T) \in Nat
  BY <1>2
<1> HIDE DEF S, T
<1>5. Cardinality(S \cup T) = Cardinality(S) + Cardinality(T) - Cardinality(S \cap T)
  BY <1>4, FS_Union
<1>6. Cardinality(S \cap T) = 0
  BY <1>3, FS_EmptySet
<1>7. Cardinality(S \cup T) = Cardinality(S) + Cardinality(T)
  BY <1>4, <1>5, <1>6, SMT
<1>8. QED
  BY <1>2, <1>3, <1>7 DEF S, T

(* A set between the line feeds and both.                                  *)
LEMMA BetweenCounts ==
  ASSUME FilesAreBytes, NEW a \in Nat, NEW b \in Nat, NEW S,
         FeedsIn(a, b) \subseteq S, S \subseteq FeedsIn(a, b) \cup TabsIn(a, b)
  PROVE  Counts(Cardinality(S), a, b)
<1> DEFINE F == FeedsIn(a, b)
           T == TabsIn(a, b)
<1>1. /\ IsFiniteSet(F) /\ IsFiniteSet(T) /\ IsFiniteSet(F \cap T)
      /\ Cardinality(F) \in Nat /\ Cardinality(T) \in Nat /\ Cardinality(F \cap T) \in Nat
  <2>1. a <= a
    OBVIOUS
  <2>2. IsFiniteSet(F) /\ IsFiniteSet(T)
    BY <2>1, FeedsFinite, TabsAdd
  <2>3. IsFiniteSet(F \cap T)
    BY <2>2, FS_Subset
  <2>4. QED
    BY <2>2, <2>3, FS_CardinalityType
<1>2. F \subseteq S /\ S \subseteq F \cup T
  OBVIOUS
<1> HIDE DEF F, T
<1>3. IsFiniteSet(F \cup T) /\ Cardinality(F \cup T) = Cardinality(F) + Cardinality(T)
                                                         - Cardinality(F \cap T)
  BY <1>1, FS_Union
<1>4. IsFiniteSet(S) /\ Cardinality(S) <= Cardinality(F \cup T)
  BY <1>2, <1>3, FS_Subset
<1>5. Cardinality(F) <= Cardinality(S) /\ Cardinality(S) \in Nat
  BY <1>2, <1>4, FS_Subset, FS_CardinalityType
<1>6. Cardinality(S) <= Cardinality(F) + Cardinality(T)
  BY <1>1, <1>3, <1>4, <1>5, SMT
<1>7. QED
  BY <1>5, <1>6 DEF Counts, F, T

(* A tab that is counted takes a borrow from a line feed in front of it.   *)
LEMMA MiscountsBorrow ==
  ASSUME NEW from, NEW to, NEW i \in 1 .. Len(file), Miscounted(file, avx2, from, to, i)
  PROVE  file[i] = "vt" /\ Borrowed(file, "nl", "vt", 0, i)
<1>1. file[i] = "vt" /\ Borrowed(file, "nl", "vt", ((i - 1) \div Word) * Word, i)
  BY DEF Miscounted
<1> DEFINE start == ((i - 1) \div Word) * Word
<1>2. \E j \in 1 .. i - 1 : file[j] = "nl" /\ \A k \in j + 1 .. i : file[k] = "vt"
  BY <1>1 DEF Borrowed
<1>3. \A j \in 1 .. i - 1 : 0 < j
  OBVIOUS
<1>4. QED
  BY <1>1, <1>2, <1>3 DEF Borrowed

(* Both scanners, and the parallel builder with its own chunks.            *)
LEMMA ScansCount ==
  ASSUME FilesAreBytes
  PROVE  /\ \A a, b \in Nat : Counts(count_newlines(a, b), a, b)
         /\ Counts(RayonCount(Len(file)), 0, Len(file))
<1>1. Len(file) \in Nat
  BY LenProperties DEF FilesAreBytes
<1>2. ASSUME NEW a \in Nat, NEW b \in Nat PROVE Counts(count_newlines(a, b), a, b)
  <2> DEFINE S == {i \in 1 .. Len(file) :
                     a < i /\ i <= b /\ (file[i] = "nl" \/ Miscounted(file, avx2, a, b, i))}
  <2>1. count_newlines(a, b) = Cardinality(S)
    BY DEF count_newlines, CountNewlines
  <2>2. FeedsIn(a, b) \subseteq S
    BY DEF FeedsIn
  <2>3. S \subseteq FeedsIn(a, b) \cup TabsIn(a, b)
    BY MiscountsBorrow DEF FeedsIn, TabsIn
  <2>4. QED
    BY <2>1, <2>2, <2>3, BetweenCounts
<1>3. Counts(RayonCount(Len(file)), 0, Len(file))
  <2> DEFINE N == Len(file)
             at(i) == ((i - 1) \div RayonChunkSize) * RayonChunkSize
             end(i) == IF at(i) + RayonChunkSize < N THEN at(i) + RayonChunkSize ELSE N
             S == {i \in 1 .. N :
                     i <= N /\ (file[i] = "nl" \/ Miscounted(file, avx2, at(i), end(i), i))}
  <2>1. RayonCount(N) = Cardinality(S)
    BY DEF RayonCount
  <2> HIDE DEF at, end
  <2>2. \A i \in 1 .. N : 0 < i /\ i <= N
    BY <1>1
  <2>3. FeedsIn(0, N) \subseteq S
    BY <2>2 DEF FeedsIn
  <2>4. S \subseteq FeedsIn(0, N) \cup TabsIn(0, N)
    BY <2>2, MiscountsBorrow DEF FeedsIn, TabsIn
  <2>5. 0 \in Nat
    OBVIOUS
  <2>6. QED
    BY <1>1, <2>1, <2>3, <2>4, <2>5, BetweenCounts
<1>4. QED
  BY <1>2, <1>3

(* Whatever is hidden is a line feed.                                      *)
LEMMA HiddenFinite ==
  ASSUME FilesAreBytes, NEW to
  PROVE  IsFiniteSet(HiddenTo(to)) /\ Cardinality(HiddenTo(to)) \in Nat
<1>1. HiddenTo(to) \subseteq LineFeeds /\ IsFiniteSet(LineFeeds)
  BY FeedsAtEnds, FeedsFinite DEF HiddenTo
<1>2. QED
  BY <1>1, FS_Subset, FS_CardinalityType

(* The thread takes a chunk that its offset is the beginning of: what the  *)
(* slice lacks of it is hidden.                                            *)
LEMMA ChunkHides ==
  ASSUME FilesAreBytes, Indexable, NEW k \in Nat, k * ChunkSize \in 0 .. Len(file) - 1
  PROVE  LET at == k * ChunkSize
             to == at + Take(Len(file) - at)
             end == ChunkEnd(at, Take(Len(file) - at))
         IN  /\ to = Len(file) \/ to = (k + 1) * ChunkSize
             /\ end \in at .. to /\ to \in at .. Len(file)
             /\ Cardinality(HiddenTo(to))
                  = Cardinality(HiddenTo(at)) + Cardinality(FeedsIn(end, to))
<1> DEFINE at == k * ChunkSize
           N == Len(file)
           take == Take(N - at)
           to == at + take
           end == ChunkEnd(at, take)
<1>0. at \in 0 .. N - 1 /\ at = k * ChunkSize
  OBVIOUS
<1> HIDE DEF at
<1>1. /\ N \in Nat /\ ChunkSize \in Nat \ {0} /\ at \in Nat /\ at < N /\ N - at \in Nat
      /\ at \in 0 .. N
  <2>1. N \in Nat /\ ChunkSize \in Nat \ {0}
    BY ChunkAssumption, LenProperties DEF FilesAreBytes
  <2> HIDE DEF N
  <2>2. QED
    BY <1>0, <2>1, SMT
<1>2. AsUsize(N - at) = N - at
  <2>1. narrow => N - at < Usize /\ Usize \in Nat
    BY <1>1, PagerAssumption, SMT DEF Indexable
  <2>2. narrow => (N - at) % Usize = N - at
    BY <1>1, <2>1, SMT
  <2>3. QED
    BY <2>2 DEF AsUsize
<1>3. take = IF N - at < ChunkSize THEN N - at ELSE ChunkSize
  BY <1>2 DEF Take
<1> HIDE DEF take, N
<1>4. take \in Nat /\ to \in Nat /\ to <= N /\ at < to /\ to <= at + ChunkSize
  BY <1>1, <1>3, SMT
<1>5. to = N \/ to = (k + 1) * ChunkSize
  <2>1. (k + 1) * ChunkSize = at + ChunkSize
    BY <1>0, <1>1, SMT
  <2>2. QED
    BY <1>1, <1>3, <2>1
<1>6. end \in at .. N /\ end <= to
  BY <1>1, <1>4, ReadsInFile DEF N
<1>7. ChunkEnd(at, ChunkSize) = end
  <2> DEFINE w == (at \div WINDOW_SIZE + 1) * WINDOW_SIZE
             W == {window \in {w} : narrow}
             S == {at + take, N} \union W
             T == {at + ChunkSize, N} \union W
  <2>1. end = Min(S) /\ ChunkEnd(at, ChunkSize) = Min(T)
    BY DEF ChunkEnd, N
  <2>2. W \in SUBSET Nat
    <3>1. w \in Nat
      BY <1>1, PagerAssumption, SMT
    <3>2. QED
      BY <3>1
  <2> HIDE DEF W
  <2>3. S \in SUBSET Nat /\ S # {} /\ T \in SUBSET Nat /\ T # {}
    <3>1. at + take \in Nat /\ at + ChunkSize \in Nat /\ N \in Nat
      BY <1>1, <1>4
    <3>2. QED
      BY <2>2, <3>1
  <2>4. /\ Min(S) \in S /\ \A x \in S : Min(S) <= x
        /\ Min(T) \in T /\ \A x \in T : Min(T) <= x
    BY <2>3, LeastExists
  <2> DEFINE x == Min(S)
             y == Min(T)
             a == at + take
             b == at + ChunkSize
  <2>5. /\ x \in Nat /\ (x = a \/ x = N \/ x \in W) /\ x <= a /\ x <= N /\ \A z \in W : x <= z
        /\ y \in Nat /\ (y = b \/ y = N \/ y \in W) /\ y <= b /\ y <= N /\ \A z \in W : y <= z
    BY <2>3, <2>4
  <2> HIDE DEF x, y, S, T
  <2>6. x = y
    <3>1. a \in Nat /\ b \in Nat /\ ((b <= N /\ a = b) \/ (N < b /\ a = N))
      BY <1>1, <1>3, SMT
    <3> HIDE DEF a, b
    <3>2. x <= y /\ y <= x
      BY <1>1, <2>5, <3>1, SMT
    <3>3. QED
      BY <2>5, <3>2, SMT
  <2>7. QED
    BY <2>1, <2>6 DEF x, y
<1>8. ASSUME NEW i \in at + 1 .. to PROVE ((i - 1) \div ChunkSize) * ChunkSize = at
  <2> DEFINE q == (i - 1) \div ChunkSize
  <2>1. i - 1 \in Nat /\ i \in Nat /\ at < i /\ i <= at + ChunkSize
    BY <1>1, <1>4, SMT
  <2>2. q \in Nat /\ q * ChunkSize <= i - 1 /\ i - 1 < q * ChunkSize + ChunkSize
    BY <1>1, <2>1, Division
  <2> HIDE DEF q
  <2>3. ASSUME q < k PROVE FALSE
    <3>1. (q + 1) * ChunkSize <= k * ChunkSize
      BY <1>1, <2>2, <2>3, TimesGrows
    <3>2. (q + 1) * ChunkSize = q * ChunkSize + ChunkSize /\ q * ChunkSize \in Nat
      BY <1>1, <2>2, SMT
    <3> DEFINE a == q * ChunkSize
    <3>3. a \in Nat /\ a + ChunkSize <= at /\ i - 1 < a + ChunkSize
      BY <1>0, <2>2, <3>1, <3>2
    <3> HIDE DEF a
    <3>4. QED
      BY <1>1, <2>1, <3>3, SMT
  <2>4. ASSUME k < q PROVE FALSE
    <3>1. (k + 1) * ChunkSize <= q * ChunkSize
      BY <1>1, <2>2, <2>4, TimesGrows
    <3>2. (k + 1) * ChunkSize = at + ChunkSize /\ q * ChunkSize \in Nat
      BY <1>0, <1>1, <2>2, SMT
    <3> DEFINE a == q * ChunkSize
    <3>3. a \in Nat /\ at + ChunkSize <= a /\ a <= i - 1
      BY <2>2, <3>1, <3>2
    <3> HIDE DEF a
    <3>4. QED
      BY <1>1, <2>1, <3>3, SMT
  <2>5. q = k
    BY <2>2, <2>3, <2>4, SMT
  <2>6. QED
    BY <1>0, <2>5 DEF q
<1>9. HiddenTo(to) = HiddenTo(at) \cup FeedsIn(end, to)
  <2> DEFINE Gone(i) == ChunkEnd(((i - 1) \div ChunkSize) * ChunkSize, ChunkSize) < i
  <2>1. \A i \in at + 1 .. to : Gone(i) <=> end < i
    BY <1>7, <1>8
  <2>2. /\ HiddenTo(to) = {i \in LineFeeds : i <= to /\ Gone(i)}
        /\ HiddenTo(at) = {i \in LineFeeds : i <= at /\ Gone(i)}
    BY DEF HiddenTo
  <2> HIDE DEF Gone, to, end
  <2>3. \A i \in LineFeeds : i \in 1 .. N /\ file[i] = "nl"
    BY DEF LineFeeds, N
  <2>4. \A i \in 1 .. N : i <= at \/ i \in at + 1 .. to \/ ~(i <= to)
    BY <1>1, <1>4, SMT
  <2>5. \A i \in 1 .. N : i <= at => i <= to /\ ~(end < i)
    BY <1>1, <1>4, <1>6, SMT
  <2>6. \A i \in 1 .. N : i \in at + 1 .. to => i <= to
    BY <1>1, <1>4, SMT
  <2>7. FeedsIn(end, to) = {i \in LineFeeds : end < i /\ i <= to}
    BY DEF FeedsIn, LineFeeds, N
  <2>8. QED
    BY <2>1, <2>2, <2>3, <2>4, <2>5, <2>6, <2>7, Zenon
<1>10. HiddenTo(at) \cap FeedsIn(end, to) = {}
  <2> HIDE DEF to, end
  <2>1. \A i \in 1 .. N : ~(i <= at /\ end < i)
    BY <1>1, <1>6, SMT
  <2>2. QED
    BY <2>1, Zenon DEF HiddenTo, FeedsIn, N
<1>11. Cardinality(HiddenTo(to)) = Cardinality(HiddenTo(at)) + Cardinality(FeedsIn(end, to))
  <2> DEFINE S == HiddenTo(at)
             T == FeedsIn(end, to)
  <2>1. IsFiniteSet(S) /\ IsFiniteSet(T) /\ Cardinality(S) \in Nat /\ Cardinality(T) \in Nat
    BY HiddenFinite, FeedsFinite
  <2>2. S \cap T = {} /\ HiddenTo(to) = S \cup T
    BY <1>9, <1>10
  <2> HIDE DEF S, T
  <2>3. Cardinality(S \cup T) = Cardinality(S) + Cardinality(T) - Cardinality(S \cap T)
    BY <2>1, FS_Union
  <2>4. Cardinality(S \cap T) = 0
    BY <2>2, FS_EmptySet
  <2>5. Cardinality(S \cup T) = Cardinality(S) + Cardinality(T)
    BY <2>1, <2>3, <2>4, SMT
  <2>6. QED
    BY <2>2, <2>5 DEF S, T
<1>12. QED
  <2>1. end \in at .. to /\ to \in at .. N
    <3> HIDE DEF to, end
    <3>1. QED
      BY <1>1, <1>4, <1>6, SMT
  <2>2. QED
    BY <1>5, <1>11, <2>1 DEF take, at, N

(* A chunk is counted as far as its slice goes.                            *)
LEMMA NearlyAdds ==
  ASSUME FilesAreBytes, NEW at \in Nat, NEW end \in Nat, NEW to \in Nat, at <= end, end <= to,
         NEW n, NEW m, Nearly(n, at, at), Counts(m, at, end),
         Cardinality(HiddenTo(to)) = Cardinality(HiddenTo(at)) + Cardinality(FeedsIn(end, to))
  PROVE  Nearly(n + m, to, to)
<1> DEFINE F(a, b) == Cardinality(FeedsIn(a, b))
           T(a, b) == Cardinality(TabsIn(a, b))
           H(a) == Cardinality(HiddenTo(a))
<1>0. at <= to
  BY SMT
<1>1. /\ F(0, at) + F(at, end) = F(0, end) /\ F(0, end) + F(end, to) = F(0, to)
      /\ T(0, at) + T(at, end) = T(0, end) /\ T(0, end) + T(end, to) = T(0, to)
  BY CountAdds, TabsAdd
<1>2. \A x, y : F(x, y) \in Nat /\ T(x, y) \in Nat /\ H(x) \in Nat
  BY <1>0, FeedsFinite, TabsAdd, HiddenFinite
<1>3. /\ n \in Nat /\ F(0, at) <= n + H(at) /\ n <= F(0, at) + T(0, at)
      /\ m \in Nat /\ F(at, end) <= m /\ m <= F(at, end) + T(at, end)
      /\ H(to) = H(at) + F(end, to)
  BY DEF Nearly, Counts
<1> DEFINE f1 == F(0, at)
           f2 == F(at, end)
           f3 == F(end, to)
           f12 == F(0, end)
           f == F(0, to)
           t1 == T(0, at)
           t2 == T(at, end)
           t3 == T(end, to)
           t12 == T(0, end)
           tt == T(0, to)
           h == H(at)
           hh == H(to)
<1>4. /\ f1 \in Nat /\ f2 \in Nat /\ f3 \in Nat /\ t1 \in Nat /\ t2 \in Nat /\ t3 \in Nat
      /\ h \in Nat /\ f12 \in Nat /\ f \in Nat /\ t12 \in Nat /\ tt \in Nat
      /\ f1 + f2 = f12 /\ f12 + f3 = f /\ t1 + t2 = t12 /\ t12 + t3 = tt
      /\ n \in Nat /\ f1 <= n + h /\ n <= f1 + t1
      /\ m \in Nat /\ f2 <= m /\ m <= f2 + t2 /\ hh = h + f3
  BY <1>1, <1>2, <1>3
<1> HIDE DEF f1, f2, f3, f12, f, t1, t2, t3, t12, tt, h, hh
<1>5. n + m \in Nat /\ f <= (n + m) + hh /\ n + m <= f + tt
  BY <1>4, SMT
<1>6. QED
  BY <1>5 DEF Nearly, f, tt, hh

(* However a file is opened.                                               *)
LEMMA InitScans == Init => Scanned
<1> SUFFICES ASSUME Init, ~is_fixed_width
             PROVE  /\ Aligned
                    /\ Indexable => Nearly(current_line, offset, offset)
                    /\ is_finished => \E n \in Nat : /\ Nearly(n, Len(file), offset)
                                                     /\ original_total_lines = FinalLines(n)
  BY DEF Scanned
<1>1. FilesAreBytes /\ offset = 0 /\ current_line = 0 /\ Len(file) \in Nat
  BY ChunkAssumption, LenProperties DEF Init, FilesAreBytes
<1>2. Nearly(0, 0, 0)
  <2>1. Cardinality(FeedsIn(0, 0)) = 0
    BY <1>1, FeedsAtEnds
  <2>2. 0 \in Nat /\ 0 <= 0
    OBVIOUS
  <2>3. Cardinality(TabsIn(0, 0)) \in Nat /\ Cardinality(HiddenTo(0)) \in Nat
    BY <1>1, <2>2, TabsAdd, HiddenFinite
  <2>4. QED
    BY <2>1, <2>2, <2>3 DEF Nearly
<1>3. is_finished => Indexable
  BY DEF Init, FixedWidth, Lazily, AtOnce
<1>4. Aligned
  <2>1. Indexable => \E k \in Nat : offset = k * ChunkSize
    <3>1. 0 * ChunkSize = 0 /\ 0 \in Nat
      BY ChunkAssumption, SMT
    <3>2. QED
      BY <1>1, <3>1
  <2>2. ~Indexable => Usize \in Nat /\ Usize <= Len(file)
    BY <1>1, PagerAssumption, SMT DEF Indexable
  <2>3. ~Indexable => offset + Usize <= Len(file)
    BY <1>1, <2>2, SMT
  <2>4. QED
    BY <1>3, <2>1, <2>3 DEF Aligned
<1>5. ASSUME is_finished
      PROVE  \E n \in Nat : Nearly(n, Len(file), offset) /\ original_total_lines = FinalLines(n)
  <2> DEFINE n == RayonCount(Len(file))
  <2>1. Counts(n, 0, Len(file)) /\ original_total_lines = FinalLines(n)
    BY <1>1, <1>5, ScansCount DEF Init, FixedWidth, Lazily, AtOnce
  <2> HIDE DEF n
  <2>2. /\ Cardinality(HiddenTo(0)) \in Nat
        /\ Cardinality(FeedsIn(0, Len(file))) \in Nat
    BY <1>1, HiddenFinite, FeedsFinite
  <2>3. Nearly(n, Len(file), 0)
    BY <2>1, <2>2, SMT DEF Counts, Nearly
  <2>4. n \in Nat
    BY <2>1 DEF Counts
  <2>5. QED
    BY <1>1, <2>1, <2>3, <2>4
<1>6. QED
  BY <1>1, <1>2, <1>4, <1>5

(* Each step.                                                              *)
LEMMA NextScans == Indexed /\ Scanned /\ [Next]_vars => Scanned'
<1> SUFFICES ASSUME Indexed, Scanned, [Next]_vars, ~is_fixed_width' PROVE Scanned'
  BY DEF Scanned
<1>1. UNCHANGED opened
  BY DEF Next, Indexer, IndexCancelled, IndexCheck, IndexCount, IndexPublish, IndexFinish,
         ReadFirst, ReadLast, ReadReturns, Free, vars
<1>2. file' = file /\ narrow' = narrow /\ is_fixed_width' = is_fixed_width /\ ~is_fixed_width
  BY <1>1 DEF opened
<1>3. (Indexable' <=> Indexable) /\ Len(file)' = Len(file)
  BY <1>2 DEF Indexable
<1>4. \A n, to, hidden : Nearly(n, to, hidden)' <=> Nearly(n, to, hidden)
  BY <1>2 DEF Nearly, FeedsIn, TabsIn, HiddenTo, LineFeeds, ChunkEnd
<1>5. \A n : FinalLines(n)' = FinalLines(n)
  BY <1>2 DEF FinalLines
<1>6. FilesAreBytes /\ Len(file) \in Nat /\ offset \in Nat /\ offset <= Len(file)
  BY LenProperties, SMT DEF Indexed, Opened, Thread, FilesAreBytes
<1>7. /\ Aligned
      /\ Indexable => Nearly(current_line, offset, offset)
      /\ is_finished =>
           \E n \in Nat : Nearly(n, Len(file), offset) /\ original_total_lines = FinalLines(n)
  BY <1>2 DEF Scanned
<1>8. Scanned' <=>
        /\ Aligned'
        /\ Indexable => Nearly(current_line', offset', offset')
        /\ is_finished' =>
             \E n \in Nat : /\ Nearly(n, Len(file), offset')
                            /\ original_total_lines' = FinalLines(n)
  <2>1. Nearly(current_line, offset, offset)' <=> Nearly(current_line', offset', offset')
    BY <1>2 DEF Nearly, FeedsIn, TabsIn, HiddenTo, LineFeeds, ChunkEnd
  <2>2. \A n : Nearly(n, Len(file), offset)' <=> Nearly(n, Len(file), offset')
    BY <1>2 DEF Nearly, FeedsIn, TabsIn, HiddenTo, LineFeeds, ChunkEnd
  <2>3. QED
    BY <1>2, <1>3, <1>5, <2>1, <2>2 DEF Scanned
<1>9. CASE /\ UNCHANGED <<current_line, offset>>
           /\ UNCHANGED original_total_lines \/ ~is_finished'
           /\ is_finished' => is_finished
  <2>1. Aligned'
    BY <1>2, <1>3, <1>7, <1>9 DEF Aligned
  <2>2. QED
    BY <1>7, <1>8, <1>9, <2>1
<1>10. CASE IndexCount
  <2> DEFINE take == Take(Len(file) - offset)
             to == offset + take
             end == ChunkEnd(offset, take)
             m == count_newlines(offset, end)
  <2>1. offset' = to /\ current_line' = current_line + m /\ ~is_finished'
    BY <1>10 DEF IndexCount, index, Indexed, Thread
  <2>2. offset < Len(file) /\ offset \in 0 .. Len(file) - 1 /\ ~is_finished
    BY <1>6, <1>10, SMT DEF Indexed, Thread, IndexCount
  <2>3. CASE Indexable
    <3>1. PICK k \in Nat : offset = k * ChunkSize
      BY <1>6, <1>7, <2>2, <2>3, SMT DEF Aligned
    <3>2. /\ to = Len(file) \/ to = (k + 1) * ChunkSize
          /\ end \in offset .. to /\ to \in offset .. Len(file)
          /\ Cardinality(HiddenTo(to))
               = Cardinality(HiddenTo(offset)) + Cardinality(FeedsIn(end, to))
      BY <1>6, <2>2, <2>3, <3>1, ChunkHides, Zenon
    <3> HIDE DEF take, to, end
    <3>3. /\ end \in Nat /\ to \in Nat /\ offset <= end /\ end <= to
      BY <1>6, <3>2, SMT
    <3>4. Counts(m, offset, end)
      BY <1>6, <3>3, ScansCount
    <3> HIDE DEF m
    <3>5. Nearly(current_line + m, to, to)
      BY <1>6, <1>7, <2>3, <3>2, <3>3, <3>4, NearlyAdds
    <3>6. Aligned'
      <4>1. k + 1 \in Nat
        OBVIOUS
      <4>2. QED
        BY <1>3, <2>1, <2>3, <3>2, <4>1 DEF Aligned
    <3>7. QED
      BY <1>8, <2>1, <3>5, <3>6
  <2>4. CASE ~Indexable
    <3>1. Usize \in Nat \ {0} /\ narrow
      BY <2>4, PagerAssumption, SMT DEF Indexable
    <3>2. offset + Usize <= Len(file)
      BY <1>7, <2>4 DEF Aligned
    <3> DEFINE rem == Len(file) - offset
    <3>3. rem \in Nat /\ Usize <= rem /\ rem = Len(file) - offset
      BY <1>6, <3>1, <3>2, SMT
    <3> HIDE DEF rem
    <3>4. rem % Usize \in Nat /\ rem % Usize <= rem - Usize
      <4> DEFINE q == rem \div Usize
                 x == q * Usize
      <4>1. q \in Nat /\ rem < x + Usize
        BY <3>1, <3>3, Division
      <4>2. rem % Usize = rem - x /\ rem % Usize \in Nat
        BY <3>1, <3>3, SMT
      <4>3. Usize <= x /\ x \in Nat
        <5>1. q # 0
          <6> SUFFICES ASSUME q = 0 PROVE FALSE
            OBVIOUS
          <6>1. x = 0
            BY <3>1, SMT
          <6> HIDE DEF x
          <6>2. QED
            BY <3>1, <3>3, <4>1, <6>1, SMT
        <5>2. 1 * Usize <= q * Usize /\ q * Usize \in Nat
          <6>1. 1 <= q
            BY <4>1, <5>1
          <6> HIDE DEF q
          <6>2. QED
            BY <3>1, <4>1, <6>1, TimesGrows
        <5>3. QED
          BY <3>1, <5>2, SMT
      <4> HIDE DEF x
      <4>4. QED
        BY <3>1, <3>3, <4>2, <4>3, SMT
    <3>5. take = IF rem % Usize < ChunkSize THEN rem % Usize ELSE ChunkSize
      BY <3>1 DEF Take, AsUsize, rem
    <3>6. take \in Nat /\ take <= rem - Usize
      BY <3>1, <3>3, <3>4, <3>5, ChunkAssumption, SMT
    <3> HIDE DEF take
    <3>7. offset' + Usize <= Len(file)
      BY <1>6, <2>1, <3>1, <3>3, <3>6, SMT
    <3>8. Aligned'
      BY <1>3, <2>1, <2>4, <3>7 DEF Aligned
    <3>9. QED
      BY <1>8, <2>1, <2>4, <3>8
  <2>5. QED
    BY <2>3, <2>4
<1>11. CASE IndexFinish
  <2>1. current_line' = current_line /\ offset' = offset
        /\ original_total_lines' = FinalLines(current_line)
    BY <1>11 DEF IndexFinish
  <2>2. offset = Len(file)
    BY <1>6, <1>11, SMT DEF IndexFinish
  <2>3. Indexable
    BY <1>6, <1>7, <2>2, PagerAssumption, SMT DEF Aligned
  <2>4. Nearly(current_line, Len(file), offset) /\ current_line \in Nat
    BY <1>7, <2>2, <2>3 DEF Nearly
  <2>5. Aligned'
    BY <1>3, <2>1, <2>2, <2>3 DEF Aligned
  <2>6. QED
    BY <1>7, <1>8, <2>1, <2>4, <2>5
<1>12. \/ /\ UNCHANGED <<current_line, offset>>
          /\ UNCHANGED original_total_lines \/ ~is_finished'
          /\ is_finished' => is_finished
       \/ IndexCount \/ IndexFinish
  <2>1. CASE IndexPublish
    BY <2>1 DEF IndexPublish, Indexed, Thread
  <2>2. CASE ~IndexPublish
    BY <2>2 DEF Next, Indexer, IndexCancelled, IndexCheck, ReadFirst, ReadLast, ReadReturns,
         Free, vars, index, indexer
  <2>3. QED
    BY <2>1, <2>2
<1>13. QED
  BY <1>9, <1>10, <1>11, <1>12

(* A vertical tab is counted as a line only directly behind a line feed,   *)
(* and a line feed is forgotten only behind the end of its chunk's slice;  *)
(* but for those the number of lines is that of the file, for every file,  *)
(* for both builders, and for builds of 32 and of 64 bits.                 *)
THEOREM ScansAreNearlyExact == Spec => []ScanCounts
<1>1. Indexed /\ Scanned => ScanCounts
  <2> SUFFICES ASSUME Indexed, Scanned, is_finished, ~is_fixed_width, NoBareCR, file # << >>
               PROVE  LET exact == Cardinality(LineFeeds) + (IF Last(file) = "nl" THEN 0 ELSE 1)
                          tabs == {i \in 1 .. Len(file) :
                                     file[i] = "vt" /\ Borrowed(file, "nl", "vt", 0, i)}
                      IN  original_total_lines
                            \in exact - Cardinality(Hidden) .. exact + Cardinality(tabs)
    BY DEF ScanCounts
  <2> DEFINE N == Len(file)
             f == Cardinality(LineFeeds)
             tabs == {i \in 1 .. N : file[i] = "vt" /\ Borrowed(file, "nl", "vt", 0, i)}
             t == Cardinality(tabs)
             exact == f + (IF Last(file) = "nl" THEN 0 ELSE 1)
             h == Cardinality(Hidden)
  <2>1. FilesAreBytes /\ N \in Nat
    BY LenProperties DEF Indexed, Opened, FilesAreBytes
  <2>2. PICK n \in Nat : Nearly(n, N, offset) /\ original_total_lines = FinalLines(n)
    BY DEF Scanned
  <2>3. tabs = TabsIn(0, N) /\ LineFeeds = FeedsIn(0, N)
    <3>1. \A i \in 1 .. N : 0 < i /\ i <= N
      BY <2>1
    <3>2. QED
      BY <2>1, <3>1, FeedsAtEnds DEF TabsIn
  <2>4. /\ f <= n + h /\ n <= f + t /\ f \in Nat /\ t \in Nat /\ h \in Nat
        /\ IsFiniteSet(LineFeeds)
    <3>1. 0 \in Nat /\ 0 <= 0
      OBVIOUS
    <3>2. Hidden = HiddenTo(offset)
      BY DEF Hidden, HiddenTo
    <3>3. QED
      BY <2>1, <2>2, <2>3, <3>1, <3>2, FeedsFinite, TabsAdd, HiddenFinite DEF Nearly
  <2>5. N \in 1 .. N /\ Last(file) = file[N]
    BY <2>1, EmptySeq, SMT DEF FilesAreBytes, Last
  <2>6. Last(file) # "cr"
    BY <2>1, <2>5, SMT DEF NoBareCR
  <2>7. Last(file) = "nl" => f # 0
    <3>1. Last(file) = "nl" => N \in LineFeeds
      BY <2>5 DEF LineFeeds
    <3>2. QED
      BY <2>4, <3>1, FS_EmptySet
  <2>8. FinalLines(n) = IF Last(file) = "nl" THEN (IF n = 0 THEN 1 ELSE n)
                        ELSE n + 1
    <3>1. n + 1 # 0
      BY SMT
    <3>2. QED
      BY <2>6, <3>1 DEF FinalLines
  <2> HIDE DEF f, t, h, tabs, N
  <2>9. original_total_lines \in exact - h .. exact + t
    <3>1. CASE Last(file) = "nl"
      <4>1. f > 0
        BY <2>4, <2>7, <3>1, SMT
      <4>2. original_total_lines = (IF n = 0 THEN 1 ELSE n) /\ exact = f + 0
        BY <2>2, <2>8, <3>1
      <4>3. QED
        BY <2>4, <4>1, <4>2, SMT
    <3>2. CASE Last(file) # "nl"
      <4>1. original_total_lines = n + 1 /\ exact = f + 1
        BY <2>2, <2>8, <3>2
      <4>2. QED
        BY <2>4, <4>1, SMT
    <3>3. QED
      BY <3>1, <3>2
  <2>10. QED
    BY <2>9 DEF f, t, h, tabs, N
<1>2. Init => Scanned
  BY InitScans
<1>3. QED
  BY <1>1, <1>2, NextScans, IndexInvariant, PTL DEF Spec

-----------------------------------------------------------------------------
(* Files of fixed width.                                                   *)

(* A line begins less than Lookback bytes in front of its multiple of the  *)
(* width.                                                                  *)
LEMMA CutReach ==
  ASSUME FilesAreBytes, OneWindow, is_fixed_width, NEW line \in 0 .. FixedLines
  PROVE  /\ line * FixedSize \in Nat
         /\ calc_offset(line) \in 0 .. Len(file) /\ calc_offset(line) <= line * FixedSize
         /\ line * FixedSize < Len(file) => line * FixedSize < calc_offset(line) + Lookback
         /\ line * FixedSize >= Len(file) => calc_offset(line) = Len(file)
<1> DEFINE x == line * FixedSize
           N == Len(file)
           base == IF x < N THEN x ELSE N
           c == FindSafeCut(file, avx2, base)
<1>1. N \in Nat /\ x \in Nat /\ Lookback \in Nat \ {0}
  <2>1. line \in Nat
    BY FixedLinesFit
  <2>2. QED
    BY <2>1, ChunkAssumption, ScanAssumption, LenProperties, SMT DEF FilesAreBytes
<1>2. calc_offset(line) = IF base \in {0, N} THEN base ELSE c
  <2>1. AsUsize(line * FixedSize) = x
    BY FixedLinesFit
  <2>2. QED
    BY <2>1, Zenon DEF calc_offset, FixedOffset
<1> HIDE DEF x, N
<1>3. base \in Nat /\ base <= x /\ base <= N /\ (x < N => base = x) /\ (x >= N => base = N)
  BY <1>1, SMT
<1>4. base \notin {0, N} => c \in 1 .. base /\ (c = base \/ base < c + Lookback)
  <2>1. base \notin {0, N} => base > 0
    BY <1>3
  <2>2. QED
    BY <1>3, <2>1, CutNear
<1> HIDE DEF base, c
<1>5. CASE base \in {0, N}
  BY <1>1, <1>2, <1>3, <1>5, SMT DEF x, N
<1>6. CASE base \notin {0, N}
  <2>1. /\ c \in 1 .. base /\ (c = base \/ base < c + Lookback) /\ calc_offset(line) = c
    BY <1>2, <1>4, <1>6
  <2>2. base < c + Lookback /\ c \in 0 .. N /\ c <= x
    BY <1>1, <1>3, <2>1, SMT
  <2>3. x < N => x < c + Lookback
    BY <1>3, <2>2
  <2>4. x >= N => c = N
    BY <1>3, <1>6
  <2>5. QED
    BY <1>1, <2>1, <2>2, <2>3, <2>4 DEF x, N
<1>7. QED
  BY <1>5, <1>6

(* The next one begins less than a width and Lookback bytes behind it, and *)
(* at least one byte while there are any.                                  *)
LEMMA LineWidth ==
  ASSUME FilesAreBytes, OneWindow, is_fixed_width, NEW line \in 0 .. FixedLines - 1
  PROVE  LET c == calc_offset(line)
             d == calc_offset(line + 1)
         IN  /\ c \in 0 .. Len(file) /\ d \in 0 .. Len(file) /\ d - c \in Nat
             /\ line * FixedSize < Len(file) => d - c \in 1 .. FixedSize + Lookback - 1
<1> DEFINE c == calc_offset(line)
           d == calc_offset(line + 1)
           x == line * FixedSize
           y == (line + 1) * FixedSize
           N == Len(file)
<1>1. N \in Nat /\ FixedSize \in Nat \ {0} /\ Lookback \in Nat \ {0} /\ Lookback < FixedSize
  BY ChunkAssumption, ScanAssumption, LenProperties DEF FilesAreBytes
<1>0. line \in Nat /\ line \in 0 .. FixedLines /\ line + 1 \in 0 .. FixedLines
  BY FixedLinesFit, SMT
<1>2. /\ x \in Nat /\ c \in 0 .. N /\ c <= x
      /\ x < N => x < c + Lookback
      /\ x >= N => c = N
  BY <1>0, CutReach
<1>3. /\ y \in Nat /\ d \in 0 .. N /\ d <= y
      /\ y < N => y < d + Lookback
      /\ y >= N => d = N
  BY <1>0, CutReach
<1>4. y = x + FixedSize
  BY <1>0, <1>1, SMT
<1> HIDE DEF c, d, x, y, N
<1>5. d - c \in Nat
  BY <1>1, <1>2, <1>3, <1>4, SMT
<1>6. x < N => d - c \in 1 .. FixedSize + Lookback - 1
  <2> SUFFICES ASSUME x < N PROVE d - c \in 1 .. FixedSize + Lookback - 1
    OBVIOUS
  <2>1. c < d
    BY <1>1, <1>2, <1>3, <1>4, SMT
  <2>2. d <= y /\ x < c + Lookback
    BY <1>2, <1>3
  <2>3. d - c <= FixedSize + Lookback - 1
    BY <1>1, <1>2, <1>3, <1>4, <2>2, SMT
  <2>4. QED
    BY <1>1, <1>2, <1>3, <2>1, <2>3, SMT
<1>7. QED
  BY <1>2, <1>3, <1>5, <1>6 DEF c, d, x, N

(* Every line is bytes.                                                    *)
LEMMA LineIsBytes ==
  ASSUME FilesAreBytes, is_fixed_width, NEW line \in Nat
  PROVE  LineBytes(line) \in Seq(Bytes)
<1> DEFINE c == calc_offset(line)
           d == calc_offset(line + 1)
           e == ChunkEnd(c, AsUsize(d - c))
           k == e - c
<1>1. c \in 0 .. Len(file) /\ d \in 0 .. Len(file)
  <2>1. line + 1 \in Nat
    OBVIOUS
  <2>2. QED
    BY <2>1, FixedOffsetInFile DEF calc_offset
<1>2. LineBytes(line) = IF c < d THEN SubSeq(file, c + 1, e) ELSE << >>
  BY DEF LineBytes
<1>3. Len(file) \in Nat
  BY LenProperties DEF FilesAreBytes
<1>4. CASE c < d
  <2>1. d - c \in Nat
    BY <1>1, <1>3, <1>4, SMT
  <2>2. AsUsize(d - c) \in Nat
    BY <2>1, ReadsInFile
  <2>3. e \in c .. Len(file)
    BY <1>1, <2>2, ReadsInFile
  <2>4. k = e - c
    OBVIOUS
  <2> HIDE DEF c, d, e, k
  <2>5. c \in Nat /\ k \in Nat /\ c + k = e /\ c + k <= Len(file)
    BY <1>1, <1>3, <2>3, <2>4, SMT
  <2>6. SubSeq(file, c + 1, c + k) \in Seq(Bytes)
    BY <2>5, SliceElements DEF FilesAreBytes
  <2>7. QED
    BY <1>2, <1>4, <2>5, <2>6
<1>5. CASE ~(c < d)
  <2>1. << >> \in Seq(Bytes)
    BY EmptySeq
  <2>2. QED
    BY <1>2, <1>5, <2>1
<1>6. QED
  BY <1>4, <1>5

(* In a file of one window it is all that lies between two cuts.           *)
LEMMA LineIsWhole ==
  ASSUME FilesAreBytes, OneWindow, is_fixed_width, NEW line \in 0 .. FixedLines - 1
  PROVE  LET c == calc_offset(line)
             d == calc_offset(line + 1)
         IN  LineBytes(line) = SubSeq(file, c + 1, d) /\ Len(LineBytes(line)) = d - c
<1> DEFINE c == calc_offset(line)
           d == calc_offset(line + 1)
           k == d - c
<1>1. c \in 0 .. Len(file) /\ d \in 0 .. Len(file) /\ k \in Nat
  BY LineWidth
<1>2. LineBytes(line) = IF c < d THEN SubSeq(file, c + 1, ChunkEnd(c, AsUsize(k))) ELSE << >>
  BY DEF LineBytes
<1>3. Len(file) \in Nat
  BY LenProperties DEF FilesAreBytes
<1>4. k = d - c
  OBVIOUS
<1> HIDE DEF c, d, k
<1>5. c \in Nat /\ c + k = d /\ c + k <= Len(file) /\ k \in 0 .. Len(file)
  BY <1>1, <1>3, <1>4, SMT
<1>6. ChunkEnd(c, AsUsize(k)) = d
  BY <1>1, <1>5, WholeReads
<1>7. /\ SubSeq(file, c + 1, c + k) \in Seq(Bytes) /\ Len(SubSeq(file, c + 1, c + k)) = k
  BY <1>1, <1>5, SliceElements DEF FilesAreBytes
<1>8. LineBytes(line) = SubSeq(file, c + 1, d)
  <2>1. CASE c < d
    BY <1>2, <1>6, <2>1
  <2>2. CASE ~(c < d)
    <3>1. k = 0
      BY <1>1, <1>4, <1>5, <2>2, SMT
    <3>2. SubSeq(file, c + 1, d) = << >>
      BY <1>5, <1>7, <3>1, EmptySeq
    <3>3. QED
      BY <1>2, <2>2, <3>2
  <2>3. QED
    BY <2>1, <2>2
<1>9. QED
  BY <1>4, <1>5, <1>7, <1>8 DEF c, d

(* One more line.                                                          *)
LEMMA SavedAppend ==
  ASSUME FilesAreBytes, is_fixed_width, NEW n \in Nat
  PROVE  SavedLines(0, n) \in Seq(Bytes) /\ SavedLines(0, n + 1) = SavedLines(0, n) \o LineBytes(n)
<1> DEFINE list(m) == [i \in 1 .. m |-> LineBytes(0 + i - 1)]
<1>1. \A m \in Nat : list(m) \in Seq(Seq(Bytes)) /\ Len(list(m)) = m
  <2>1. ASSUME NEW m \in Nat PROVE list(m) \in Seq(Seq(Bytes)) /\ Len(list(m)) = m
    <3>1. ASSUME NEW i \in 1 .. m PROVE LineBytes(0 + i - 1) \in Seq(Bytes)
      <4>1. 0 + i - 1 \in Nat
        OBVIOUS
      <4>2. QED
        BY <4>1, LineIsBytes
    <3>2. list(m) \in [1 .. m -> Seq(Bytes)]
      BY <3>1
    <3>3. list(m) \in Seq(Seq(Bytes))
      BY <3>2, SeqDef
    <3>4. QED
      BY <3>2, <3>3, LenProperties
  <2>2. QED
    BY <2>1
<1>2. n + 1 \in Nat /\ \A i \in 1 .. n : i \in 1 .. n + 1
  OBVIOUS
<1>3. /\ \A i \in 1 .. n : list(n)[i] = LineBytes(0 + i - 1) /\ list(n + 1)[i] = LineBytes(0 + i - 1)
      /\ list(n + 1)[n + 1] = LineBytes(n)
  <2>1. 0 + (n + 1) - 1 = n /\ n + 1 \in 1 .. n + 1
    OBVIOUS
  <2>2. QED
    BY <1>2, <2>1
<1>4. LineBytes(n) \in Seq(Bytes)
  BY LineIsBytes
<1>5. \A m : SavedLines(0, m) = FlattenSeq(list(m))
  BY DEF SavedLines
<1> DEFINE s == list(n)
           t == list(n + 1)
           x == LineBytes(n)
<1>6. /\ s \in Seq(Seq(Bytes)) /\ Len(s) = n /\ t \in Seq(Seq(Bytes)) /\ Len(t) = n + 1
      /\ \A i \in 1 .. n : t[i] = s[i]
      /\ t[n + 1] = x /\ x \in Seq(Bytes)
      /\ SavedLines(0, n) = FlattenSeq(s) /\ SavedLines(0, n + 1) = FlattenSeq(t)
  BY <1>1, <1>2, <1>3, <1>4, <1>5
<1> HIDE DEF list, s, t, x
<1>7. t = Append(s, x)
  <2> DEFINE u == Append(s, x)
  <2>1. /\ u \in Seq(Seq(Bytes)) /\ Len(u) = n + 1 /\ u[n + 1] = x
        /\ \A i \in 1 .. n : u[i] = s[i]
    BY <1>6, AppendProperties
  <2>2. \A i \in 1 .. n + 1 : i \in 1 .. n \/ i = n + 1
    OBVIOUS
  <2> HIDE DEF u
  <2>3. \A i \in 1 .. Len(t) : t[i] = u[i]
    BY <1>6, <2>1, <2>2
  <2>4. t = u
    BY <1>6, <2>1, <2>3, SameList
  <2>5. QED
    BY <2>4 DEF u
<1>8. FlattenSeq(t) = FlattenSeq(s) \o x
  BY <1>6, <1>7, FlattenAppend
<1>9. FlattenSeq(s) \in Seq(Bytes)
  BY <1>6, FlattenType
<1>10. QED
  BY <1>6, <1>8, <1>9 DEF x

(* The bytes up to one position, then up to another.                       *)
LEMMA SlicesMeet ==
  ASSUME NEW S, NEW s \in Seq(S), NEW a \in Nat, NEW b \in Nat, a <= b, b <= Len(s)
  PROVE  SubSeq(s, 1, a) \o SubSeq(s, a + 1, b) = SubSeq(s, 1, b)
<1> DEFINE u == SubSeq(s, 1, a)
           v == SubSeq(s, a + 1, b)
           w == SubSeq(s, 1, b)
<1>1. Len(s) \in Nat
  BY LenProperties
<1>2. /\ u \in Seq(S) /\ Len(u) = a /\ \A i \in 1 .. a : u[i] = s[i]
      /\ w \in Seq(S) /\ Len(w) = b /\ \A i \in 1 .. b : w[i] = s[i]
  BY <1>1, SMT
<1>3. /\ v \in Seq(S) /\ Len(v) = b - a /\ \A i \in 1 .. b - a : v[i] = s[a + i]
  BY <1>1, SMT
<1> HIDE DEF u, v, w
<1>4. /\ u \o v \in Seq(S) /\ Len(u \o v) = Len(u) + Len(v)
      /\ \A i \in 1 .. Len(u) + Len(v) :
           (u \o v)[i] = IF i <= Len(u) THEN u[i] ELSE v[i - Len(u)]
  <2>1. u \in Seq(S) /\ v \in Seq(S)
    BY <1>2, <1>3
  <2>2. QED
    BY <2>1, ConcatElements, Zenon
<1>5. Len(u) = a /\ Len(u) + Len(v) = b
  BY <1>2, <1>3, SMT
<1> DEFINE z == u \o v
<1>6. z \in Seq(S) /\ Len(z) = b /\ \A i \in 1 .. b : z[i] = IF i <= a THEN u[i] ELSE v[i - a]
  BY <1>4, <1>5
<1> HIDE DEF z
<1>7. \A i \in 1 .. b : z[i] = w[i]
  <2>1. ASSUME NEW i \in 1 .. b PROVE z[i] = w[i]
    <3>1. CASE i <= a
      BY <1>2, <1>6, <3>1
    <3>2. CASE ~(i <= a)
      <4>1. i - a \in 1 .. b - a /\ a + (i - a) = i
        BY <3>2, SMT
      <4>2. QED
        BY <1>2, <1>3, <1>6, <3>2, <4>1
    <3>3. QED
      BY <3>1, <3>2
  <2>2. QED
    BY <2>1
<1>8. z = w
  BY <1>2, <1>6, <1>7, SameList
<1>9. QED
  BY <1>8 DEF z, u, v, w

(* The lines lie side by side.                                             *)
LEMMA SavedAre ==
  ASSUME FilesAreBytes, OneWindow, is_fixed_width, NEW n \in 0 .. FixedLines
  PROVE  SavedLines(0, n) = SubSeq(file, 1, calc_offset(n))
<1> DEFINE S == {m \in Nat : m <= FixedLines =>
                     SavedLines(0, m) = SubSeq(file, 1, calc_offset(m))}
<1>0. FixedLines \in Nat /\ n \in Nat /\ n <= FixedLines /\ 0 \in 0 .. FixedLines
  BY FixedLinesFit, SMT
<1>1. 0 \in S
  <2>1. 0 * FixedSize = 0
    BY ChunkAssumption, SMT
  <2>2. calc_offset(0) = 0
    <3>1. calc_offset(0) \in 0 .. Len(file) /\ calc_offset(0) <= 0
      BY <1>0, <2>1, CutReach
    <3>2. Len(file) \in Nat
      BY LenProperties DEF FilesAreBytes
    <3>3. QED
      BY <3>1, <3>2
  <2>3. [i \in 1 .. 0 |-> LineBytes(0 + i - 1)] = << >>
    BY SMT
  <2>4. SavedLines(0, 0) = << >>
    BY <2>3, FlattenEmpty DEF SavedLines
  <2>5. SubSeq(file, 1, 0) = << >>
    BY SMT DEF FilesAreBytes
  <2>6. QED
    BY <2>2, <2>4, <2>5
<1>2. ASSUME NEW m \in Nat, m \in S PROVE m + 1 \in S
  <2> SUFFICES ASSUME m + 1 <= FixedLines
               PROVE  SavedLines(0, m + 1) = SubSeq(file, 1, calc_offset(m + 1))
    OBVIOUS
  <2> DEFINE c == calc_offset(m)
             d == calc_offset(m + 1)
  <2>0. m \in 0 .. FixedLines - 1 /\ m <= FixedLines
    BY <1>0, SMT
  <2>1. c \in 0 .. Len(file) /\ d \in 0 .. Len(file) /\ d - c \in Nat
    BY <2>0, LineWidth
  <2>2. SavedLines(0, m + 1) = SubSeq(file, 1, c) \o SubSeq(file, c + 1, d)
    <3>1. SavedLines(0, m) = SubSeq(file, 1, c)
      BY <1>2, <2>0
    <3>2. LineBytes(m) = SubSeq(file, c + 1, d)
      BY <2>0, LineIsWhole
    <3>3. QED
      BY <3>1, <3>2, SavedAppend
  <2>3. Len(file) \in Nat
    BY LenProperties DEF FilesAreBytes
  <2> HIDE DEF c, d
  <2>4. c \in Nat /\ d \in Nat /\ c <= d /\ d <= Len(file)
    BY <2>1, <2>3, SMT
  <2>5. SavedLines(0, m + 1) = SubSeq(file, 1, d)
    BY <2>2, <2>4, SlicesMeet DEF FilesAreBytes
  <2>6. QED
    BY <2>5 DEF d
<1> HIDE DEF S
<1>3. \A m \in Nat : m \in S
  BY <1>1, <1>2, SetInduction
<1>4. QED
  BY <1>0, <1>3 DEF S

(* Every line of such a file begins in front of its end, and the last one  *)
(* ends there.                                                             *)
LEMMA FixedLinesAre ==
  ASSUME Indexed, FixedKnown, OneWindow, is_fixed_width
  PROVE  /\ original_total_lines = FixedLines
         /\ FilesAreBytes /\ Len(file) \in Nat /\ original_total_lines \in Nat
         /\ calc_offset(original_total_lines) = Len(file)
         /\ \A line \in 0 .. original_total_lines - 1 :
              line \in Nat /\ line * FixedSize \in Nat /\ line * FixedSize < Len(file)
<1> DEFINE n == original_total_lines
<1>1. FilesAreBytes /\ Len(file) \in Nat /\ FixedSize \in Nat \ {0}
  BY ChunkAssumption, LenProperties DEF Indexed, Opened, FilesAreBytes
<1>2. n = DivUp(Len(file), FixedSize)
  BY DEF FixedKnown, FixedLines
<1> HIDE DEF n
<1>3. /\ n \in Nat /\ Len(file) <= n * FixedSize
      /\ \A k \in 1 .. n : (k - 1) * FixedSize \in Nat /\ (k - 1) * FixedSize < Len(file)
  BY <1>1, <1>2, PiecesOf
<1>4. calc_offset(n) = Len(file)
  <2>0. n \in 0 .. FixedLines
    BY <1>2, <1>3, SMT DEF FixedLines
  <2>1. n * FixedSize \in Nat
    BY <1>1, <2>0, CutReach
  <2>2. n * FixedSize >= Len(file)
    <3> DEFINE x == n * FixedSize
    <3>1. x \in Nat /\ Len(file) <= x
      BY <1>3, <2>1
    <3> HIDE DEF x
    <3>2. x >= Len(file)
      BY <1>1, <3>1, SMT
    <3>3. QED
      BY <3>2 DEF x
  <2>3. QED
    BY <1>1, <2>0, <2>2, CutReach
<1>5. ASSUME NEW line \in 0 .. n - 1
      PROVE  line \in Nat /\ line * FixedSize \in Nat /\ line * FixedSize < Len(file)
  <2>1. line \in Nat /\ line + 1 \in 1 .. n /\ (line + 1) - 1 = line
    BY <1>3, SMT
  <2>2. QED
    BY <1>3, <2>1
<1>6. QED
  BY <1>1, <1>3, <1>4, <1>5 DEF n, FixedKnown

(* The lines of a file of fixed width are the file, side by side, none of  *)
(* them empty or much too long: for every width and both ways to look for  *)
(* a separator, and wherever its separators are (with 32 bits, if the file *)
(* is one window).                                                         *)
THEOREM FixedLinesAreTheFile == Spec => []FixedLinesCover
<1>1. Indexed /\ FixedKnown => FixedLinesCover
  <2> SUFFICES ASSUME Indexed, FixedKnown, OneWindow, is_fixed_width
               PROVE  /\ SavedLines(0, original_total_lines) = file
                      /\ \A line \in 0 .. original_total_lines - 1 :
                           Len(LineBytes(line)) \in 1 .. FixedSize + Lookback - 1
    BY DEF FixedLinesCover, Fixed
  <2>1. SavedLines(0, original_total_lines) = SubSeq(file, 1, Len(file))
    <3>1. original_total_lines \in 0 .. FixedLines
      BY FixedLinesAre, SMT
    <3>2. QED
      BY <3>1, FixedLinesAre, SavedAre
  <2>2. SubSeq(file, 1, Len(file)) = file
    BY FixedLinesAre, SMT DEF FilesAreBytes
  <2>3. ASSUME NEW line \in 0 .. original_total_lines - 1
        PROVE  Len(LineBytes(line)) \in 1 .. FixedSize + Lookback - 1
    <3>1. FilesAreBytes /\ line \in Nat /\ line * FixedSize < Len(file)
      BY FixedLinesAre
    <3>2. line \in 0 .. FixedLines - 1
      BY FixedLinesAre
    <3>3. QED
      BY <3>1, <3>2, LineIsWhole, LineWidth
  <2>4. QED
    BY <2>1, <2>2, <2>3
<1>2. QED
  BY <1>1, FixedInvariant, PTL

(* A quotient is near a number if the dividend is near its multiple.       *)
LEMMA QuotientNear ==
  ASSUME NEW f \in Nat \ {0}, NEW k \in Nat, NEW x \in Nat,
         k * f < x + f, x < k * f + f + f
  PROVE  x \div f \in k - 1 .. k + 1
<1> DEFINE q == x \div f
<1>1. q \in Nat /\ q * f <= x /\ x < q * f + f
  BY Division
<1> HIDE DEF q
<1>2. ASSUME q + 2 <= k PROVE FALSE
  <2>1. (q + 2) * f <= k * f
    BY <1>1, <1>2, TimesGrows
  <2>2. (q + 2) * f = q * f + f + f
    BY <1>1, SMT
  <2>3. q * f \in Nat /\ k * f \in Nat /\ (q + 2) * f \in Nat
    BY <1>1, SMT
  <2> DEFINE a == q * f
             b == k * f
             c == (q + 2) * f
  <2>4. /\ a \in Nat /\ b \in Nat /\ c <= b /\ c = a + f + f
        /\ a <= x /\ x < a + f /\ b < x + f
    BY <1>1, <2>1, <2>2, <2>3
  <2> HIDE DEF a, b, c
  <2>5. QED
    BY <2>4, SMT
<1>3. ASSUME k + 2 <= q PROVE FALSE
  <2>1. (k + 2) * f <= q * f
    BY <1>1, <1>3, TimesGrows
  <2>2. (k + 2) * f = k * f + f + f
    BY <1>1, SMT
  <2>3. q * f \in Nat /\ k * f \in Nat /\ (k + 2) * f \in Nat
    BY <1>1, SMT
  <2> DEFINE a == q * f
             b == k * f
             c == (k + 2) * f
  <2>4. a \in Nat /\ b \in Nat /\ c <= a /\ c = b + f + f /\ a <= x /\ x < b + f + f
    BY <1>1, <2>1, <2>2, <2>3
  <2> HIDE DEF a, b, c
  <2>5. QED
    BY <2>4, SMT
<1>4. q \in k - 1 .. k + 1
  BY <1>1, <1>2, <1>3, SMT
<1>5. QED
  BY <1>4 DEF q

(* The line that a search in a file of fixed width reports is at most one  *)
(* off, wherever the cuts are and whatever is asked for.                   *)
THEOREM FoundLinesAreNear == Spec => []FoundNearby
<1>1. Indexed /\ FixedKnown => FoundNearby
  <2> SUFFICES ASSUME Indexed, FixedKnown, OneWindow, is_fixed_width,
                      NEW first \in 0 .. original_total_lines - 1,
                      NEW line \in 0 .. original_total_lines - 1,
                      NEW at \in calc_offset(line) .. calc_offset(line + 1) - 1,
                      first <= line
               PROVE  first + (at - calc_offset(first)) \div FixedSize \in line - 1 .. line + 1
    BY DEF FoundNearby, Fixed, FoundLine
  <2> DEFINE a == calc_offset(first)
             b == calc_offset(line)
             c == calc_offset(line + 1)
             x == first * FixedSize
             y == line * FixedSize
             z == (line + 1) * FixedSize
             k == line - first
             w == k * FixedSize
             N == Len(file)
  <2>1. /\ FilesAreBytes /\ N \in Nat /\ first \in Nat /\ line \in Nat /\ line + 1 \in Nat
        /\ k \in Nat /\ x \in Nat /\ x < N /\ y \in Nat /\ y < N
        /\ first \in 0 .. FixedLines /\ line \in 0 .. FixedLines
        /\ line + 1 \in 0 .. FixedLines
    <3>1. first \in Nat /\ line \in Nat
      BY FixedLinesAre
    <3>2. line + 1 \in Nat /\ k \in Nat
      BY <3>1, SMT
    <3>3. /\ first \in 0 .. FixedLines /\ line \in 0 .. FixedLines
          /\ line + 1 \in 0 .. FixedLines
      BY <3>1, FixedLinesAre, SMT
    <3>4. QED
      BY <3>1, <3>2, <3>3, FixedLinesAre
  <2>2. FixedSize \in Nat \ {0} /\ Lookback \in Nat \ {0} /\ Lookback < FixedSize
    BY ChunkAssumption, ScanAssumption
  <2>3. a \in 0 .. N /\ a <= x /\ x < a + Lookback
    BY <2>1, CutReach
  <2>4. b \in 0 .. N /\ b <= y /\ y < b + Lookback
    BY <2>1, CutReach
  <2>5. c \in 0 .. N /\ c <= z /\ z \in Nat
    BY <2>1, CutReach
  <2>6. z = y + FixedSize /\ y = x + w /\ w \in Nat
    BY <2>1, <2>2, SMT
  <2>7. a <= b
    <3>1. CASE first = line
      BY <2>1, <2>3, <3>1
    <3>2. CASE first # line
      <4>1. first < line
        BY <2>1, <3>2
      <4>2. FixedOffset(first) <= FixedOffset(line)
        BY <2>1, <4>1, FixedOffsetsGrow
      <4>3. QED
        BY <4>2 DEF calc_offset
    <3>3. QED
      BY <3>1, <3>2
  <2>8. at \in b .. c - 1
    OBVIOUS
  <2> DEFINE pos == at - a
  <2>9. pos = at - a
    OBVIOUS
  <2> HIDE DEF a, b, c, x, y, z, w, k, N, pos
  <2>10. pos \in Nat /\ w < pos + FixedSize /\ pos < w + FixedSize + FixedSize
    <3>1. at \in Nat /\ a \in Nat /\ b \in Nat /\ c \in Nat /\ b <= at /\ at < c
      BY <2>1, <2>3, <2>4, <2>5, <2>8, SMT
    <3>2. pos \in Nat
      BY <2>7, <2>9, <3>1, SMT
    <3>3. w < pos + FixedSize
      BY <2>1, <2>2, <2>3, <2>4, <2>6, <2>9, <3>1, SMT
    <3>4. pos < w + FixedSize + FixedSize
      BY <2>1, <2>2, <2>3, <2>5, <2>6, <2>9, <3>1, SMT
    <3>5. QED
      BY <3>2, <3>3, <3>4
  <2>11. pos \div FixedSize \in k - 1 .. k + 1
    BY <2>1, <2>2, <2>10, QuotientNear DEF w
  <2>12. first + pos \div FixedSize \in line - 1 .. line + 1
    <3> DEFINE q == pos \div FixedSize
    <3>1. q \in k - 1 .. k + 1 /\ k = line - first
      BY <2>11 DEF k
    <3> HIDE DEF q
    <3>2. first + q \in line - 1 .. line + 1
      BY <2>1, <3>1, SMT
    <3>3. QED
      BY <3>2 DEF q
  <2>13. QED
    BY <2>12 DEF pos, a
<1>2. QED
  BY <1>1, FixedInvariant, PTL

(* What comes first in a list, and what comes last.                        *)
LEMMA EndsOfConcat ==
  ASSUME NEW S, NEW s \in Seq(S), NEW t \in Seq(S)
  PROVE  IsPrefix(s, s \o t) /\ IsSuffix(t, s \o t)
<1> DEFINE u == s \o t
           n == Len(s)
           m == Len(t)
<1>1. /\ u \in Seq(S) /\ Len(u) = n + m /\ n \in Nat /\ m \in Nat
      /\ \A j \in 1 .. n + m : u[j] = IF j <= n THEN s[j] ELSE t[j - n]
  BY ConcatElements, LenProperties
<1>2. IsPrefix(s, u)
  <2> DEFINE v == SubSeq(s, 1, n)
             w == SubSeq(u, 1, n)
  <2>1. v \in Seq(S) /\ Len(v) = n /\ \A i \in 1 .. n : v[i] = s[i]
    BY <1>1, SMT
  <2>2. u \in Seq(S) /\ n \in Nat /\ n <= Len(u)
    BY <1>1, SMT
  <2> HIDE DEF u
  <2>3. w \in Seq(S) /\ Len(w) = n /\ \A i \in 1 .. n : w[i] = u[i]
    BY <2>2, SMT
  <2>4. \A i \in 1 .. n : u[i] = s[i]
    <3>1. \A i \in 1 .. n : i \in 1 .. n + m /\ i <= n
      BY <1>1, SMT
    <3>2. QED
      BY <1>1, <3>1
  <2> HIDE DEF v, w, n
  <2>5. v = w
    BY <2>1, <2>3, <2>4, SameList
  <2>6. QED
    BY <2>2, <2>5 DEF IsPrefix, v, w, n
<1>3. IsSuffix(t, u)
  <2> DEFINE p == Reverse(t)
             q == Reverse(u)
             v == SubSeq(p, 1, m)
             w == SubSeq(q, 1, m)
  <2>1. p \in Seq(S) /\ Len(p) = m /\ \A i \in 1 .. m : p[i] = t[(m - i) + 1]
    <3>1. \A i \in 1 .. m : (m - i) + 1 \in 1 .. m
      BY <1>1, SMT
    <3>2. \A i \in 1 .. m : t[(m - i) + 1] \in S
      BY <3>1, ElementOfSeq
    <3>3. p = [i \in 1 .. m |-> t[(m - i) + 1]]
      BY DEF Reverse
    <3>4. p \in [1 .. m -> S]
      BY <3>2, <3>3
    <3>5. p \in Seq(S) /\ DOMAIN p = 1 .. m
      BY <1>1, <3>4, SeqDef
    <3>6. QED
      BY <1>1, <3>3, <3>5, LenProperties
  <2>2. q \in Seq(S) /\ Len(q) = n + m /\ \A i \in 1 .. n + m : q[i] = u[(n + m - i) + 1]
    <3> HIDE DEF u
    <3>1. \A i \in 1 .. n + m : (n + m - i) + 1 \in 1 .. n + m
      BY <1>1, SMT
    <3>2. \A i \in 1 .. n + m : u[(n + m - i) + 1] \in S
      BY <1>1, <3>1, ElementOfSeq
    <3>3. q = [i \in 1 .. n + m |-> u[(n + m - i) + 1]]
      BY <1>1 DEF Reverse
    <3>4. q \in [1 .. n + m -> S] /\ n + m \in Nat
      BY <1>1, <3>2, <3>3
    <3>5. q \in Seq(S) /\ DOMAIN q = 1 .. n + m
      BY <3>4, SeqDef
    <3>6. QED
      BY <1>1, <3>3, <3>4, <3>5, LenProperties
  <2>3. \A i \in 1 .. m : q[i] = p[i]
    <3>1. ASSUME NEW i \in 1 .. m PROVE q[i] = p[i]
      <4>1. /\ i \in 1 .. n + m /\ (n + m - i) + 1 \in 1 .. n + m /\ ~((n + m - i) + 1 <= n)
            /\ ((n + m - i) + 1) - n = (m - i) + 1
        BY <1>1, SMT
      <4> HIDE DEF p, q, u
      <4>2. q[i] = u[(n + m - i) + 1] /\ u[(n + m - i) + 1] = t[((n + m - i) + 1) - n]
        BY <1>1, <2>2, <4>1
      <4>3. QED
        BY <2>1, <4>1, <4>2
    <3>2. QED
      BY <3>1
  <2>4. m <= n + m
    BY <1>1, SMT
  <2> HIDE DEF p, q, u
  <2>5. v \in Seq(S) /\ Len(v) = m /\ \A i \in 1 .. m : v[i] = p[i]
    BY <1>1, <2>1, SMT
  <2>6. w \in Seq(S) /\ Len(w) = m /\ \A i \in 1 .. m : w[i] = q[i]
    BY <1>1, <2>2, <2>4, SMT
  <2> HIDE DEF v, w, m, n
  <2>7. v = w
    BY <2>3, <2>5, <2>6, SameList
  <2>8. QED
    BY <2>1, <2>2, <2>4, <2>7 DEF IsSuffix, IsPrefix, v, w, p, q
<1>4. QED
  BY <1>2, <1>3

(* One byte more is at most one line feed more.                            *)
LEMMA FeedsStep ==
  ASSUME FilesAreBytes, NEW i \in 1 .. Len(file)
  PROVE  /\ i \in Nat /\ i - 1 \in Nat /\ Feeds(i) \in Nat /\ Feeds(i - 1) \in Nat
         /\ i \in LineFeeds => Feeds(i) = Feeds(i - 1) + 1
         /\ i \notin LineFeeds => Feeds(i) = Feeds(i - 1)
<1>1. Len(file) \in Nat
  BY LenProperties DEF FilesAreBytes
<1>2. i \in Nat /\ i - 1 \in Nat /\ i - 1 <= i
  BY <1>1, SMT
<1> DEFINE a == i - 1
           c == Cardinality(FeedsIn(a, i))
<1>3. Feeds(i) \in Nat /\ Feeds(a) \in Nat /\ Feeds(i) - Feeds(a) = c
  BY <1>2, FeedsGrow
<1>4. i \in LineFeeds => c = 1
  <2>1. i \in LineFeeds => FeedsIn(a, i) = {i}
    BY <1>1, SMT DEF FeedsIn, LineFeeds
  <2>2. QED
    BY <2>1, FS_Singleton
<1>5. i \notin LineFeeds => c = 0
  <2>1. i \notin LineFeeds => FeedsIn(a, i) = {}
    BY <1>1, SMT DEF FeedsIn, LineFeeds
  <2>2. QED
    BY <2>1, FS_EmptySet
<1> HIDE DEF c
<1>6. /\ i \in LineFeeds => Feeds(i) = Feeds(a) + 1
      /\ i \notin LineFeeds => Feeds(i) = Feeds(a)
  BY <1>3, <1>4, <1>5, SMT
<1>7. QED
  BY <1>2, <1>3, <1>6

(* There is a line feed of every number.                                   *)
LEMMA FeedAt ==
  ASSUME FilesAreBytes, NEW m \in Nat, m > 0, m <= Cardinality(LineFeeds)
  PROVE  \E q \in LineFeeds : Feeds(q) = m
<1> DEFINE S == {a \in 0 .. Len(file) : Feeds(a) >= m}
           q == Min(S)
<1>1. Len(file) \in Nat /\ Feeds(Len(file)) = Cardinality(LineFeeds) /\ Feeds(0) = 0
  BY LenProperties, FeedsAtEnds DEF FilesAreBytes, Feeds
<1>2. S \in SUBSET Nat /\ Len(file) \in S
  <2>1. Feeds(Len(file)) \in Nat
    BY <1>1, FeedsGrow
  <2>2. Feeds(Len(file)) >= m
    BY <1>1, <2>1, SMT
  <2>3. Len(file) \in 0 .. Len(file) /\ 0 .. Len(file) \subseteq Nat
    BY <1>1, SMT
  <2>4. QED
    BY <2>2, <2>3
<1>3. S # {}
  BY <1>2
<1>4. q \in S /\ \A y \in S : q <= y
  BY <1>2, <1>3, LeastExists, Zenon
<1> HIDE DEF q
<1>5. q \in 0 .. Len(file) /\ Feeds(q) >= m
  BY <1>4
<1>6. q # 0
  BY <1>1, <1>5, SMT
<1>7. q \in 1 .. Len(file) /\ q - 1 \in 0 .. Len(file) /\ ~(q <= q - 1)
  BY <1>1, <1>5, <1>6, SMT
<1>8. ~(Feeds(q - 1) >= m)
  BY <1>4, <1>7
<1>9. /\ Feeds(q) \in Nat /\ Feeds(q - 1) \in Nat
      /\ q \in LineFeeds => Feeds(q) = Feeds(q - 1) + 1
      /\ q \notin LineFeeds => Feeds(q) = Feeds(q - 1)
  BY <1>7, FeedsStep
<1>10. q \in LineFeeds /\ Feeds(q) = m
  BY <1>5, <1>8, <1>9, SMT
<1>11. QED
  BY <1>10

(* Where the editor's last lines begin: behind a line feed that has as     *)
(* many behind it as lines were asked for, or at the beginning of a file   *)
(* that has not that many.                                                 *)
LEMMA EofStartIs ==
  ASSUME FilesAreBytes, NEW n \in Nat, n > 0
  PROVE  LET start == EofStart(n)
             behind == Cardinality(FeedsIn(start, Len(file)))
         IN  /\ Cardinality(LineFeeds) \in Nat
             /\ \/ start = 0 /\ Cardinality(LineFeeds) <= n /\ behind = Cardinality(LineFeeds)
                \/ start \in LineFeeds /\ n < Cardinality(LineFeeds) /\ behind = n
<1> DEFINE N == Len(file)
           F == Cardinality(LineFeeds)
           starts == {i \in LineFeeds : Cardinality({j \in LineFeeds : i <= j}) = n + 1}
           E == EofStart(n)
<1>1. N \in Nat /\ F \in Nat /\ Feeds(N) = F
  BY LenProperties, FeedsAtEnds, FeedsFinite DEF FilesAreBytes, Feeds
<1>2. \A i \in LineFeeds : i \in 1 .. N /\ i \in Nat /\ i <= N
  BY <1>1, SMT DEF LineFeeds
<1>3. ASSUME NEW i \in LineFeeds
      PROVE  /\ Feeds(i) \in Nat /\ Feeds(i) > 0 /\ Feeds(i) + Cardinality(FeedsIn(i, N)) = F
             /\ Cardinality(FeedsIn(i, N)) \in Nat
             /\ i \in starts <=> Feeds(i) + n = F
  <2>1. i \in 1 .. N /\ i \in Nat /\ i <= N
    BY <1>2
  <2>2. Feeds(i) \in Nat /\ Feeds(i - 1) \in Nat /\ i - 1 \in Nat /\ Feeds(i) = Feeds(i - 1) + 1
    BY <2>1, FeedsStep
  <2>3. F - Feeds(i) = Cardinality(FeedsIn(i, N)) /\ Cardinality(FeedsIn(i, N)) \in Nat
    BY <1>1, <2>1, FeedsGrow, FeedsFinite
  <2>4. i - 1 <= N
    BY <1>1, <2>1, SMT
  <2>5. F - Feeds(i - 1) = Cardinality(FeedsIn(i - 1, N))
    BY <1>1, <2>2, <2>4, FeedsGrow
  <2>6. {j \in LineFeeds : i <= j} = FeedsIn(i - 1, N)
    BY <1>1, <2>1, SMT DEF LineFeeds, FeedsIn
  <2>7. i \in starts <=> F - Feeds(i - 1) = n + 1
    BY <2>5, <2>6
  <2>8. Feeds(i) > 0 /\ Feeds(i) + Cardinality(FeedsIn(i, N)) = F
    BY <1>1, <2>2, <2>3, SMT
  <2>9. F - Feeds(i - 1) = n + 1 <=> Feeds(i) + n = F
    BY <1>1, <2>2, SMT
  <2>10. QED
    BY <2>2, <2>3, <2>7, <2>8, <2>9
<1>4. E = IF starts = {} THEN 0 ELSE Max(starts)
  BY DEF EofStart, LineFeedsBack
<1>5. CASE starts = {}
  <2>1. E = 0
    BY <1>4, <1>5
  <2>2. ~(n < F)
    <3>1. ASSUME n < F PROVE FALSE
      <4>1. F - n \in Nat /\ F - n > 0 /\ F - n <= F
        BY <1>1, <3>1, SMT
      <4>2. PICK q \in LineFeeds : Feeds(q) = F - n
        BY <4>1, FeedAt
      <4>3. Feeds(q) + n = F
        BY <1>1, <4>2, SMT
      <4>4. QED
        BY <1>3, <1>5, <4>3
    <3>2. QED
      BY <3>1
  <2>3. F <= n
    BY <1>1, <2>2, SMT
  <2>4. FeedsIn(E, N) = LineFeeds
    BY <2>1, FeedsAtEnds
  <2>5. QED
    BY <1>1, <2>1, <2>3, <2>4
<1>6. CASE starts # {}
  <2>1. starts \in SUBSET (0 .. N)
    <3>1. \A i \in LineFeeds : i \in 0 .. N
      BY <1>1, <1>2, SMT
    <3>2. QED
      BY <3>1
  <2>2. E \in starts
    BY <1>1, <1>4, <1>6, <2>1, GreatestExists
  <2> HIDE DEF E
  <2>3. E \in LineFeeds
    BY <2>2
  <2>4. /\ Feeds(E) \in Nat /\ Feeds(E) > 0 /\ Feeds(E) + Cardinality(FeedsIn(E, N)) = F
        /\ Cardinality(FeedsIn(E, N)) \in Nat /\ Feeds(E) + n = F
    BY <1>3, <2>2, <2>3
  <2>5. n < F /\ Cardinality(FeedsIn(E, N)) = n
    BY <1>1, <2>4, SMT
  <2>6. QED
    BY <1>1, <2>3, <2>5 DEF E
<1>7. QED
  BY <1>5, <1>6

(* The line feeds of a block that begins behind a position of the file.    *)
LEMMA TailFeeds ==
  ASSUME FilesAreBytes, NEW a \in 0 .. Len(file)
  PROVE  LET shown == {k \in 1 .. Len(file) - a : file[a + k] = "nl"}
         IN  IsFiniteSet(shown) /\ Cardinality(shown) = Cardinality(FeedsIn(a, Len(file)))
<1> DEFINE N == Len(file)
           shown == {k \in 1 .. N - a : file[a + k] = "nl"}
           T == FeedsIn(a, N)
           f == [k \in shown |-> a + k]
<1>1. N \in Nat /\ a \in Nat
  BY LenProperties, SMT DEF FilesAreBytes
<1>2. IsFiniteSet(shown)
  <2>1. IsFiniteSet(1 .. N - a)
    <3>1. N - a \in Int
      BY <1>1, SMT
    <3>2. QED
      BY <3>1, FS_Interval
  <2>2. QED
    BY <2>1, FS_Subset
<1>3. \A k \in shown : k \in 1 .. N - a /\ a + k \in T
  BY <1>1, SMT DEF FeedsIn
<1>4. \A i \in T : i - a \in shown /\ a + (i - a) = i
  BY <1>1, SMT DEF FeedsIn
<1> HIDE DEF shown, T
<1>5. f \in [shown -> T] /\ \A k \in shown : f[k] = a + k
  BY <1>3
<1> HIDE DEF f
<1>6. f \in Injection(shown, T)
  <2>1. \A j, k \in shown : f[j] = f[k] => j = k
    BY <1>1, <1>3, <1>5, SMT
  <2>2. QED
    BY <1>5, <2>1 DEF Injection, IsInjective
<1>7. f \in Surjection(shown, T)
  <2>1. \A i \in T : \E k \in shown : f[k] = i
    BY <1>4, <1>5
  <2>2. QED
    BY <1>5, <2>1 DEF Surjection
<1>8. ExistsBijection(shown, T)
  BY <1>6, <1>7 DEF ExistsBijection, Bijection
<1>9. Cardinality(T) = Cardinality(shown)
  BY <1>2, <1>8, FS_Bijection
<1>10. QED
  BY <1>2, <1>9 DEF shown, T

(* What a block from a position of the file to its end looks like, with    *)
(* its last line terminated.                                               *)
LEMMA TerminatedTail ==
  ASSUME FilesAreBytes, file # << >>, NEW a \in 0 .. Len(file) - 1
  PROVE  LET block == Terminated(SubSeq(file, a + 1, Len(file)))
             open == IF Last(file) = "nl" THEN 0 ELSE 1
         IN  /\ block \in Seq(Bytes) /\ Len(block) = Len(file) - a + open
             /\ \A k \in 1 .. Len(file) - a : block[k] = file[a + k]
             /\ open = 1 => block[Len(file) - a + 1] = "nl"
<1> DEFINE N == Len(file)
           m == N - a
           s == SubSeq(file, a + 1, N)
           open == IF Last(file) = "nl" THEN 0 ELSE 1
<1>1. /\ N \in Nat /\ a \in Nat /\ m \in Nat /\ m > 0 /\ a + m = N /\ m \in 1 .. m
      /\ file \in Seq(Bytes)
  BY LenProperties, SMT DEF FilesAreBytes
<1> HIDE DEF m
<1>2. s \in Seq(Bytes) /\ Len(s) = m /\ \A k \in 1 .. m : s[k] = file[a + k]
  <2>1. a + m <= Len(file) /\ s = SubSeq(file, a + 1, a + m)
    BY <1>1, SMT
  <2>2. QED
    BY <1>1, <2>1, SliceElements
<1> HIDE DEF s
<1>3. s # << >> /\ Last(s) = Last(file)
  <2>1. Len(s) # 0 /\ s[m] = file[a + m]
    BY <1>1, <1>2
  <2>2. QED
    BY <1>1, <1>2, <2>1, SMT DEF Last
<1>4. CASE Last(file) = "nl"
  <2>1. Terminated(s) = s /\ open = 0
    BY <1>3, <1>4 DEF Terminated
  <2> DEFINE t == Terminated(s)
  <2>2. m = m + open /\ open # 1
    BY <1>1, <2>1, SMT
  <2>3. /\ t \in Seq(Bytes) /\ Len(t) = m + open /\ \A k \in 1 .. m : t[k] = file[a + k]
        /\ open # 1
    BY <1>2, <2>1, <2>2
  <2> HIDE DEF t
  <2>4. t \in Seq(Bytes) /\ Len(t) = m + open /\ (open = 1 => t[m + 1] = "nl")
        /\ \A k \in 1 .. m : t[k] = file[a + k]
    BY <2>3
  <2>5. QED
    BY <2>4 DEF s, m, t
<1>5. CASE Last(file) # "nl"
  <2>1. Terminated(s) = Append(s, "nl") /\ open = 1
    BY <1>3, <1>5 DEF Terminated
  <2>2. "nl" \in Bytes
    BY DEF Bytes
  <2> DEFINE t == Append(s, "nl")
  <2>3. /\ t \in Seq(Bytes) /\ Len(t) = m + 1 /\ t[m + 1] = "nl"
        /\ \A k \in 1 .. m : t[k] = s[k]
    BY <1>1, <1>2, <2>2, AppendElements
  <2> HIDE DEF t
  <2>4. t \in Seq(Bytes) /\ Len(t) = m + open /\ t[m + 1] = "nl" /\ \A k \in 1 .. m : t[k] = file[a + k]
    BY <1>2, <2>1, <2>3
  <2>5. QED
    BY <2>1, <2>4 DEF s, m, t
<1>6. QED
  BY <1>4, <1>5

(* The whole file, terminated, is what lies in front of such a block and   *)
(* then the block; and the block's line feeds are those of the file there. *)
LEMMA TailEndsFile ==
  ASSUME FilesAreBytes, file # << >>, NEW a \in 0 .. Len(file) - 1
  PROVE  LET block == Terminated(SubSeq(file, a + 1, Len(file)))
             open == IF Last(file) = "nl" THEN 0 ELSE 1
             ends == {k \in DOMAIN block : block[k] = "nl"}
         IN  /\ IsSuffix(block, Terminated(file))
             /\ Len(Terminated(file)) - Len(block) = a
             /\ a # 0 => Terminated(file)[a] = file[a]
             /\ Cardinality(ends) = Cardinality(FeedsIn(a, Len(file))) + open
<1> DEFINE N == Len(file)
           m == N - a
           b == Terminated(SubSeq(file, a + 1, N))
           w == Terminated(file)
           open == IF Last(file) = "nl" THEN 0 ELSE 1
           u == SubSeq(file, 1, a)
           ends == {k \in DOMAIN b : b[k] = "nl"}
           shown == {k \in 1 .. m : file[a + k] = "nl"}
<1>1. /\ N \in Nat /\ a \in Nat /\ m \in Nat /\ a + m = N /\ file \in Seq(Bytes)
      /\ open \in {0, 1} /\ 0 \in 0 .. N - 1 /\ N > 0 /\ N - 0 = N
  BY LenProperties, SMT DEF FilesAreBytes
<1>2. /\ b \in Seq(Bytes) /\ Len(b) = m + open
      /\ \A k \in 1 .. m : b[k] = file[a + k]
      /\ open = 1 => b[m + 1] = "nl"
  BY TerminatedTail
<1>3. /\ w \in Seq(Bytes) /\ Len(w) = N + open
      /\ \A k \in 1 .. N : w[k] = file[k]
      /\ open = 1 => w[N + 1] = "nl"
  <2>1. SubSeq(file, 0 + 1, N) = file
    BY <1>1, SMT
  <2>2. LET block == Terminated(SubSeq(file, 0 + 1, Len(file)))
        IN  /\ block \in Seq(Bytes) /\ Len(block) = Len(file) - 0 + open
            /\ \A k \in 1 .. Len(file) - 0 : block[k] = file[0 + k]
            /\ open = 1 => block[Len(file) - 0 + 1] = "nl"
    BY <1>1, TerminatedTail
  <2>3. \A k \in 1 .. N : 0 + k = k
    BY <1>1, SMT
  <2>4. Terminated(SubSeq(file, 0 + 1, Len(file))) = w
    BY <2>1
  <2>5. QED
    BY <1>1, <2>2, <2>3, <2>4
<1>4. u \in Seq(Bytes) /\ Len(u) = a /\ \A k \in 1 .. a : u[k] = file[k]
  <2>1. 0 + a <= Len(file) /\ u = SubSeq(file, 0 + 1, 0 + a) /\ \A k \in 1 .. a : 0 + k = k
    BY <1>1, SMT
  <2>2. QED
    BY <1>1, <2>1, SliceElements
<1>5. shown = {k \in 1 .. Len(file) - a : file[a + k] = "nl"}
  OBVIOUS
<1> HIDE DEF b, w, u, open, m, N
<1>6. w = u \o b
  <2> DEFINE z == u \o b
  <2>0. u \in Seq(Bytes) /\ b \in Seq(Bytes)
    BY <1>2, <1>4
  <2>1a. /\ z \in Seq(Bytes) /\ Len(z) = Len(u) + Len(b)
         /\ \A k \in 1 .. Len(u) + Len(b) : z[k] = IF k <= Len(u) THEN u[k] ELSE b[k - Len(u)]
    BY <2>0, ConcatElements, Zenon
  <2> HIDE DEF z
  <2>1. /\ z \in Seq(Bytes) /\ Len(z) = a + (m + open)
        /\ \A k \in 1 .. a + (m + open) : z[k] = IF k <= a THEN u[k] ELSE b[k - a]
    BY <1>2, <1>4, <2>1a
  <2>2. a + (m + open) = N + open
    BY <1>1, SMT
  <2>3. ASSUME NEW k \in 1 .. N + open PROVE w[k] = z[k]
    <3>1. CASE k <= a
      <4>1. k \in 1 .. a /\ k \in 1 .. N
        BY <1>1, <3>1, SMT
      <4>2. QED
        BY <1>3, <1>4, <2>1, <2>2, <3>1, <4>1
    <3>2. CASE ~(k <= a) /\ k <= N
      <4>1. k \in 1 .. N /\ k - a \in 1 .. m /\ a + (k - a) = k
        BY <1>1, <3>2, SMT
      <4>2. QED
        BY <1>2, <1>3, <2>1, <2>2, <3>2, <4>1
    <3>3. CASE ~(k <= a) /\ ~(k <= N)
      <4>1. open = 1 /\ k = N + 1 /\ k - a = m + 1
        BY <1>1, <3>3, SMT
      <4>2. QED
        BY <1>2, <1>3, <2>1, <2>2, <3>3, <4>1
    <3>4. QED
      BY <3>1, <3>2, <3>3
  <2>4. w = z
    BY <1>3, <2>1, <2>2, <2>3, SameList
  <2>5. QED
    BY <2>4 DEF z
<1>7. IsSuffix(b, w)
  BY <1>2, <1>4, <1>6, EndsOfConcat
<1>8. Len(w) - Len(b) = a
  BY <1>1, <1>2, <1>3, SMT
<1>9. a # 0 => w[a] = file[a]
  <2>1. a # 0 => a \in 1 .. N
    BY <1>1, SMT
  <2>2. QED
    BY <1>3, <2>1
<1>10. Cardinality(ends) = Cardinality(FeedsIn(a, Len(file))) + open
  <2>1. /\ IsFiniteSet(shown) /\ Cardinality(shown) = Cardinality(FeedsIn(a, Len(file)))
        /\ Cardinality(shown) \in Nat
    <3>1. a \in 0 .. Len(file)
      BY <1>1, SMT DEF N
    <3>2. IsFiniteSet(shown) /\ Cardinality(shown) = Cardinality(FeedsIn(a, Len(file)))
      BY <1>5, <3>1, TailFeeds
    <3>3. QED
      BY <3>2, FS_CardinalityType
  <2>2. DOMAIN b = 1 .. m + open
    BY <1>2, LenProperties
  <2>3. CASE open = 0
    <3>1. m + open = m
      BY <1>1, <2>3, SMT
    <3>2. ends = shown
      BY <1>2, <2>2, <3>1
    <3> HIDE DEF ends, shown
    <3>3. Cardinality(shown) = Cardinality(FeedsIn(a, Len(file))) + open
      BY <2>1, <2>3, SMT
    <3>4. QED
      BY <3>2, <3>3
  <2>4. CASE open = 1
    <3>1. m + 1 \notin 1 .. m /\ 1 .. m + open = (1 .. m) \cup {m + 1}
      BY <1>1, <2>4, SMT
    <3>2. ends = shown \cup {m + 1}
      BY <1>2, <2>2, <2>4, <3>1
    <3>3. m + 1 \notin shown
      BY <3>1
    <3> HIDE DEF ends, shown
    <3>4. Cardinality(ends) = Cardinality(shown) + 1
      BY <2>1, <3>2, <3>3, FS_AddElement
    <3>5. QED
      BY <2>1, <2>4, <3>4
  <2>5. QED
    BY <1>1, <2>3, <2>4
<1>11. QED
  BY <1>7, <1>8, <1>9, <1>10 DEF b, w, open, N

(* The first lines of a block of a file of fixed width begin the block.    *)
LEMMA ShownPrefix ==
  ASSUME FilesAreBytes, is_fixed_width, NEW first \in Nat, NEW m \in Nat, NEW n \in Nat, m <= n
  PROVE  IsPrefix(ShownLines(first, m), ShownLines(first, n))
<1> DEFINE list(k) == [i \in 1 .. k |-> Append(LineBytes(first + i - 1), "nl")]
           s == list(m)
           t == list(n)
           k == n - m
           u == SubSeq(t, m + 1, m + k)
<1>1. \A x \in Nat : list(x) \in Seq(Seq(Bytes)) /\ Len(list(x)) = x
  <2>1. ASSUME NEW x \in Nat PROVE list(x) \in Seq(Seq(Bytes)) /\ Len(list(x)) = x
    <3>1. ASSUME NEW i \in 1 .. x PROVE Append(LineBytes(first + i - 1), "nl") \in Seq(Bytes)
      <4>1. first + i - 1 \in Nat
        OBVIOUS
      <4>2. LineBytes(first + i - 1) \in Seq(Bytes) /\ "nl" \in Bytes
        BY <4>1, LineIsBytes DEF Bytes
      <4>3. QED
        BY <4>2, AppendElements
    <3> DEFINE l == list(x)
    <3>2. l \in [1 .. x -> Seq(Bytes)]
      BY <3>1
    <3> HIDE DEF l
    <3>3. l \in Seq(Seq(Bytes)) /\ DOMAIN l = 1 .. x
      BY <3>2, SeqDef
    <3>4. l \in Seq(Seq(Bytes)) /\ Len(l) = x
      BY <3>3, LenProperties
    <3>5. QED
      BY <3>4 DEF l
  <2>2. QED
    BY <2>1
<1>2. k \in Nat /\ m + k = n
  OBVIOUS
<1>3. /\ s \in Seq(Seq(Bytes)) /\ Len(s) = m /\ t \in Seq(Seq(Bytes)) /\ Len(t) = n
      /\ \A i \in 1 .. m : s[i] = t[i]
      /\ ShownLines(first, m) = FlattenSeq(s) /\ ShownLines(first, n) = FlattenSeq(t)
  <2>1. \A i \in 1 .. m : i \in 1 .. n
    OBVIOUS
  <2>2. \A i \in 1 .. m : s[i] = t[i]
    BY <2>1
  <2>3. s \in Seq(Seq(Bytes)) /\ Len(s) = m /\ t \in Seq(Seq(Bytes)) /\ Len(t) = n
    BY <1>1
  <2>4. QED
    BY <2>2, <2>3 DEF ShownLines
<1> HIDE DEF list, s, t, k
<1>4. u \in Seq(Seq(Bytes)) /\ Len(u) = k /\ \A i \in 1 .. k : u[i] = t[m + i]
  <2>1. m + k <= Len(t)
    BY <1>2, <1>3, SMT
  <2>2. QED
    BY <1>2, <1>3, <2>1, SliceElements
<1> HIDE DEF u
<1>5. t = s \o u
  <2> DEFINE z == s \o u
  <2>1. s \in Seq(Seq(Bytes)) /\ u \in Seq(Seq(Bytes))
    BY <1>3, <1>4
  <2>2. /\ z \in Seq(Seq(Bytes)) /\ Len(z) = Len(s) + Len(u)
        /\ \A i \in 1 .. Len(s) + Len(u) : z[i] = IF i <= Len(s) THEN s[i] ELSE u[i - Len(s)]
    BY <2>1, ConcatElements, Zenon
  <2> HIDE DEF z
  <2>3. /\ Len(z) = n /\ \A i \in 1 .. n : z[i] = IF i <= m THEN s[i] ELSE u[i - m]
    BY <1>2, <1>3, <1>4, <2>2
  <2>4. ASSUME NEW i \in 1 .. n PROVE t[i] = z[i]
    <3>1. CASE i <= m
      BY <1>3, <2>3, <3>1
    <3>2. CASE ~(i <= m)
      <4>1. i - m \in 1 .. k /\ m + (i - m) = i
        BY <1>2, <3>2, SMT
      <4>2. QED
        BY <1>4, <2>3, <3>2, <4>1
    <3>3. QED
      BY <3>1, <3>2
  <2>5. t = z
    BY <1>3, <2>2, <2>3, <2>4, SameList
  <2>6. QED
    BY <2>5 DEF z
<1>6. FlattenSeq(t) = FlattenSeq(s) \o FlattenSeq(u)
  BY <1>3, <1>4, <1>5, FlattenConcat
<1>7. FlattenSeq(s) \in Seq(Bytes) /\ FlattenSeq(u) \in Seq(Bytes)
  BY <1>3, <1>4, FlattenType
<1>8. IsPrefix(FlattenSeq(s), FlattenSeq(t))
  BY <1>6, <1>7, EndsOfConcat
<1>9. QED
  BY <1>3, <1>8

(* What the editor shows of the end of a file, for every file and however  *)
(* many lines it asks for, is the end of the file from the beginning of a  *)
(* line on, with as many lines as the file has of them.                    *)
THEOREM EofBlocksAreTails == Spec => []EofBlockIsTail
<1>1. Indexed /\ FixedKnown => EofBlockIsTail
  <2> SUFFICES ASSUME Indexed, FixedKnown, file # << >>, OneWindow,
                      NEW n \in 1 .. Len(file) + 1
               PROVE  LET block == GetEofBlock(n)
                          ends == Cardinality({i \in DOMAIN block : block[i] = "nl"})
                          all == Cardinality(LineFeeds) + (IF Last(file) = "nl" THEN 0 ELSE 1)
                          open == IF Last(file) = "nl" THEN 0 ELSE 1
                      IN  IF is_fixed_width
                          THEN IsPrefix(ShownLines(EofLine(n), original_total_lines - EofLine(n)),
                                        block)
                          ELSE /\ IsSuffix(block, Terminated(file))
                               /\ ends = (IF n + open < all THEN n + open ELSE all)
                               /\ Len(block) < Len(Terminated(file)) =>
                                    Terminated(file)[Len(Terminated(file)) - Len(block)] = "nl"
    BY DEF EofBlockIsTail
  <2>1. FilesAreBytes /\ Len(file) \in Nat /\ n \in Nat /\ n > 0 /\ n # 0 /\ Len(file) # 0
    <3>1. FilesAreBytes
      BY DEF Indexed, Opened, FilesAreBytes
    <3>2. Len(file) \in Nat /\ Len(file) # 0
      BY <3>1, SMT DEF FilesAreBytes
    <3>3. QED
      BY <3>1, <3>2, SMT
  <2>2. CASE is_fixed_width
    <3> DEFINE first == EofLine(n)
               m == original_total_lines - first
    <3>1. GetEofBlock(n) = ShownLines(first, n)
      BY <2>1, <2>2 DEF GetEofBlock
    <3>2. original_total_lines \in Nat
      BY <2>2, FixedLinesAre
    <3>3. first \in Nat /\ m \in Nat /\ m <= n
      BY <2>1, <3>2, SMT DEF EofLine
    <3> HIDE DEF first, m
    <3>4. IsPrefix(ShownLines(first, m), ShownLines(first, n))
      BY <2>1, <2>2, <3>3, ShownPrefix
    <3>5. QED
      BY <2>2, <3>1, <3>4 DEF first, m
  <2>3. CASE ~is_fixed_width
    <3> DEFINE a == EofStart(n)
               block == Terminated(SubSeq(file, a + 1, Len(file)))
               open == IF Last(file) = "nl" THEN 0 ELSE 1
               F == Cardinality(LineFeeds)
               behind == Cardinality(FeedsIn(a, Len(file)))
               ends == {i \in DOMAIN block : block[i] = "nl"}
    <3>1. GetEofBlock(n) = block
      <4>1. a \in Nat /\ Len(file) - a \in 0 .. Len(file) /\ a + (Len(file) - a) = Len(file)
        <5>1. a = 0 \/ a \in LineFeeds
          BY <2>1, EofStartIs
        <5> HIDE DEF a
        <5>2. a \in 0 .. Len(file)
          BY <2>1, <5>1, SMT DEF LineFeeds
        <5>3. QED
          BY <2>1, <5>2, SMT
      <4>2. ChunkEnd(a, AsUsize(Len(file) - a)) = Len(file)
        <5> HIDE DEF a
        <5> DEFINE k == Len(file) - a
        <5>1. AsUsize(k) = k
          BY <2>1, <4>1, WholeReads
        <5>2. k \in Nat /\ a + k = Len(file) /\ a + k <= Len(file)
          BY <2>1, <4>1
        <5> HIDE DEF k
        <5>3. ChunkEnd(a, k) = Len(file)
          BY <2>1, <4>1, <5>2, WholeReads
        <5>4. QED
          BY <5>1, <5>3 DEF k
      <4>3. QED
        BY <2>1, <2>3, <4>2 DEF GetEofBlock
    <3>2. /\ F \in Nat
          /\ \/ a = 0 /\ F <= n /\ behind = F
             \/ a \in LineFeeds /\ n < F /\ behind = n
      BY <2>1, EofStartIs
    <3> HIDE DEF a, block, F
    <3>3. a \in 0 .. Len(file) - 1
      <4>1. CASE a = 0
        BY <2>1, <4>1, SMT
      <4>2. CASE a \in LineFeeds /\ behind = n
        <5>1. a \in 1 .. Len(file)
          BY <4>2 DEF LineFeeds
        <5>2. a # Len(file)
          <6>1. a = Len(file) => FeedsIn(a, Len(file)) = {}
            BY <2>1, SMT DEF FeedsIn
          <6>2. QED
            BY <2>1, <4>2, <6>1, FS_EmptySet
        <5>3. QED
          BY <2>1, <5>1, <5>2, SMT
      <4>3. QED
        BY <3>2, <4>1, <4>2
    <3>4. /\ IsSuffix(block, Terminated(file))
          /\ Len(Terminated(file)) - Len(block) = a
          /\ a # 0 => Terminated(file)[a] = file[a]
          /\ Cardinality(ends) = behind + open
      BY <2>1, <3>3, TailEndsFile DEF block
    <3>5. Cardinality(ends) = IF n + open < F + open THEN n + open ELSE F + open
      <4>1. open \in Nat
        OBVIOUS
      <4> HIDE DEF open, ends, behind
      <4>2. CASE a = 0 /\ F <= n /\ behind = F
        <5>1. ~(n + open < F + open)
          BY <2>1, <3>2, <4>1, <4>2, SMT
        <5>2. QED
          BY <3>4, <4>2, <5>1
      <4>3. CASE n < F /\ behind = n
        <5>1. n + open < F + open
          BY <2>1, <3>2, <4>1, <4>3, SMT
        <5>2. QED
          BY <3>4, <4>3, <5>1
      <4>4. QED
        BY <3>2, <4>2, <4>3
    <3>6. Len(block) < Len(Terminated(file)) => Terminated(file)[a] = "nl"
      <4>1. Len(block) \in Nat /\ Len(Terminated(file)) \in Nat
        <5>1. block \in Seq(Bytes)
          BY <2>1, <3>3, TerminatedTail DEF block
        <5>2. Terminated(file) \in Seq(Bytes)
          BY <2>1, AppendElements DEF Terminated, FilesAreBytes, Bytes
        <5>3. QED
          BY <5>1, <5>2, LenProperties
      <4>2. ASSUME Len(block) < Len(Terminated(file)) PROVE a # 0
        BY <3>4, <4>1, <4>2, SMT
      <4>3. a # 0 => file[a] = "nl"
        BY <3>2 DEF LineFeeds
      <4>4. QED
        BY <3>4, <4>2, <4>3
    <3> HIDE DEF ends, open
    <3>7. /\ IsSuffix(block, Terminated(file))
          /\ Cardinality(ends) = IF n + open < F + open THEN n + open ELSE F + open
          /\ Len(block) < Len(Terminated(file)) =>
               Terminated(file)[Len(Terminated(file)) - Len(block)] = "nl"
      BY <3>4, <3>5, <3>6
    <3>8. QED
      BY <2>3, <3>1, <3>7 DEF ends, open, F
  <2>4. QED
    BY <2>2, <2>3
<1>2. QED
  BY <1>1, FixedInvariant, PTL
=============================================================================
