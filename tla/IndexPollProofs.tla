-------------------------- MODULE IndexPollProofs --------------------------
(***************************************************************************)
(* Proofs about the poll of the index, for every file, chunk size,         *)
(* mantissa and number of queued callbacks: what the editor holds is never *)
(* freed, what it announced of a finished index is final, and what it      *)
(* announced before that lacks little.                                     *)
(***************************************************************************)
EXTENDS IndexPoll, LineIndexProofs

(* A main thread that is in the middle of something, and a buffer that     *)
(* still exists, have an engine that was not freed.                        *)
EngineHeld == step # "idle" \/ valid => ~cancel

(* What was seen finished is; the number asked for after that is final.    *)
TotalKnown ==
  /\ saw_finished => is_finished
  /\ saw_finished /\ NoTabs /\ OneWindow /\ step \in {"idle", "done"} =>
       total = FinalTotal

PollInv == Counted /\ EngineHeld /\ TotalKnown

(* At first the engine is there and nothing was seen of the index.         *)
LEMMA PollInitHolds == PollInit => PollInv
<1> SUFFICES ASSUME PollInit PROVE PollInv
  OBVIOUS
<1>1. Counted
  BY InitCounts DEF PollInit
<1>2. EngineHeld /\ TotalKnown
  BY DEF PollInit, Init, EngineHeld, TotalKnown
<1>3. QED
  BY <1>1, <1>2 DEF PollInv

(* A finished index does not change any more. *)
LEMMA IndexerKeepsPoll == PollInv /\ IndexerThread => PollInv'
<1> SUFFICES ASSUME PollInv, IndexerThread PROVE PollInv'
  OBVIOUS
<1>1. Counted'
  BY IndexerCounts DEF PollInv, IndexerThread
<1>2. ~is_finished /\ cancel' = cancel
  BY DEF PollInv, Counted, opened, IndexerThread, Indexer, IndexCancelled, IndexCheck, IndexCount,
         IndexPublish, IndexFinish
<1>3. UNCHANGED <<step, buffer, timer, queued, history>>
  BY DEF IndexerThread
<1>4. EngineHeld'
  BY <1>2, <1>3 DEF PollInv, EngineHeld, buffer
<1>5. TotalKnown'
  BY <1>2, <1>3 DEF PollInv, TotalKnown, history
<1>6. QED
  BY <1>1, <1>4, <1>5 DEF PollInv

(* Whatever the editor does, only wiping frees the engine, and lets go of it. *)
LEMMA EditorKeepsPoll ==
  ASSUME PollInv, MainThread \/ TimerFires \/ JumpToEof \/ JumpToLine \/ Wipeout
  PROVE  PollInv'
<1> USE DEF engine, opened, index, indexer, buffer, history
<1>1. UNCHANGED <<opened, file, narrow, is_fixed_width, index, indexer, is_finished, original_total_lines>>
  BY DEF MainThread, Attach, Setup, PollGone, PollProgress, PollTotal, PollDone,
         TimerFires, JumpToEof, JumpToLine, Wipeout
<1>2. Counted'
  BY <1>1, UnreadCounts DEF PollInv
<1>3. is_finished /\ NoTabs /\ OneWindow => original_total_lines = FinalTotal
  BY DEF PollInv, Counted, FinalTotal
<1>4. FinalTotal' = FinalTotal /\ (NoTabs' <=> NoTabs) /\ (OneWindow' <=> OneWindow)
  BY <1>1 DEF FinalTotal, AllLines, FixedLines, DivUp, FinalLines, LineFeeds, NoTabs, OneWindow
<1>5. EngineHeld' /\ TotalKnown'
  <2> USE DEF PollInv, EngineHeld, TotalKnown
  <2>1. CASE Attach
    BY <1>1, <2>1 DEF Attach, GetProgress
  <2>2. CASE Setup
    BY <1>1, <1>3, <1>4, <2>2 DEF Setup, TotalLines
  <2>3. CASE PollGone
    BY <1>1, <1>4, <2>3 DEF PollGone
  <2>4. CASE PollProgress
    BY <1>1, <2>4 DEF PollProgress, GetProgress, BufferIsValid
  <2>5. CASE PollTotal
    BY <1>1, <1>3, <1>4, <2>5 DEF PollTotal, TotalLines
  <2>6. CASE PollDone
    BY <1>1, <1>4, <2>6 DEF PollDone
  <2>7. CASE TimerFires
    BY <1>1, <1>4, <2>7 DEF TimerFires
  <2>8. CASE JumpToEof
    BY <1>1, <1>4, <2>8 DEF JumpToEof
  <2>9. CASE JumpToLine
    BY <1>1, <1>4, <2>9 DEF JumpToLine
  <2>10. CASE Wipeout
    BY <1>1, <1>4, <2>10 DEF Wipeout
  <2>11. QED
    BY <2>1, <2>2, <2>3, <2>4, <2>5, <2>6, <2>7, <2>8, <2>9, <2>10 DEF MainThread
<1>6. QED
  BY <1>2, <1>5 DEF PollInv

(* The engine of a buffer outlives whatever is queued for it, and a number *)
(* asked for after the end of indexing was seen is final.                  *)
THEOREM PollInvariant == PollSpec => []PollInv
<1>1. PollInit => PollInv
  BY PollInitHolds
<1>2. PollInv /\ [PollNext]_pollVars => PollInv'
  <2> SUFFICES ASSUME PollInv, [PollNext]_pollVars PROVE PollInv'
    OBVIOUS
  <2>1. CASE PollNext
    BY <2>1, IndexerKeepsPoll, EditorKeepsPoll DEF PollNext
  <2>2. CASE UNCHANGED pollVars
    <3>1. UNCHANGED <<opened, file, narrow, is_fixed_width, index, indexer, is_finished, cancel, step, valid, total,
                      saw_finished>>
      BY <2>2 DEF pollVars, vars, opened, index, buffer, history
    <3>2. Counted'
      BY <3>1, UnreadCounts DEF PollInv
    <3>3. FinalTotal' = FinalTotal /\ (NoTabs' <=> NoTabs) /\ (OneWindow' <=> OneWindow)
      BY <3>1 DEF FinalTotal, AllLines, FixedLines, DivUp, FinalLines, LineFeeds, NoTabs, OneWindow
    <3>4. EngineHeld' /\ TotalKnown'
      BY <3>1, <3>3 DEF PollInv, EngineHeld, TotalKnown
    <3>5. QED
      BY <3>2, <3>4 DEF PollInv
  <2>3. QED
    BY <2>1, <2>2
<1>3. QED
  BY <1>1, <1>2, PTL DEF PollSpec

(* A callback that was queued before the buffer was wiped, and runs after, *)
(* never hands a freed engine to the library.                              *)
THEOREM EngineNotUsedAfterFree == PollSpec => []NoUseAfterFree
<1>1. PollInv => NoUseAfterFree
  BY DEF PollInv, EngineHeld, NoUseAfterFree
<1>2. QED
  BY <1>1, PollInvariant, PTL

(* Asking for the progress before the number of lines is the right order:  *)
(* the announced number is final when the indexer was seen to be finished. *)
THEOREM FinishedTotalIsFinal == PollSpec => []AnnouncedAfterFinish
<1>1. PollInv => AnnouncedAfterFinish
  BY DEF PollInv, TotalKnown, AnnouncedAfterFinish
<1>2. QED
  BY <1>1, PollInvariant, PTL

-----------------------------------------------------------------------------
(* The end of indexing, as the editor sees it.                             *)

(* While a file is read in lines, chunks begin at multiples of their size, *)
(* and the one that is being published goes up to where the thread is.     *)
Marks ==
  ~is_fixed_width /\ ~is_finished /\ OneWindow =>
    /\ offset = Len(file) \/ \E k \in Nat : offset = k * ChunkSize
    /\ pc = "publish" =>
         \E k \in Nat : /\ local_chunks[1].byte_offset = k * ChunkSize
                        /\ k * ChunkSize < Len(file)
                        /\ offset <= k * ChunkSize + ChunkSize

(* A file that was just opened, in any of the three ways, has its marks. *)
LEMMA InitMarks == Init => Marks
<1>1. 0 * ChunkSize = 0 /\ 0 \in Nat
  BY ChunkAssumption, SMT
<1>2. QED
  BY <1>1 DEF Init, FixedWidth, Lazily, AtOnce, Marks

(* The thread moves by a chunk, or to the end.                             *)
LEMMA IndexerMarks == Indexed /\ Marks /\ Indexer => Marks'
<1> SUFFICES ASSUME Indexed, Marks, Indexer PROVE Marks'
  OBVIOUS
<1> SUFFICES ASSUME OneWindow PROVE Marks'
  <2>1. narrow' = narrow /\ file' = file
    BY DEF Indexer, IndexCancelled, IndexCheck, IndexCount, IndexPublish, IndexFinish, opened
  <2>2. OneWindow' <=> OneWindow
    BY <2>1 DEF OneWindow
  <2>3. QED
    BY <2>2 DEF Marks
<1>1. file' = file /\ is_fixed_width' = is_fixed_width /\ Len(file) \in Nat /\ offset \in Nat
      /\ ChunkSize \in Nat \ {0} /\ FilesAreBytes /\ offset \in 0 .. Len(file)
  BY ChunkAssumption, LenProperties, SMT DEF Indexer, IndexCancelled, IndexCheck, IndexCount,
     IndexPublish, IndexFinish, opened, Indexed, Opened, Thread, FilesAreBytes
<1>2. CASE IndexCancelled \/ IndexCheck
  BY <1>1, <1>2 DEF IndexCancelled, IndexCheck, AfterCancel, index, Marks
<1>3. CASE IndexCount
  <2>1. offset < Len(file) /\ local_chunks = << >> /\ ~is_finished /\ ~is_fixed_width
    BY <1>3 DEF Indexed, Thread, Pending, IndexCount
  <2>2. PICK k \in Nat : offset = k * ChunkSize
    BY <1>1, <2>1 DEF Marks
  <2>3. local_chunks'[1].byte_offset = offset
    <3> DEFINE c == Chunk(offset, current_line)
    <3>1. c.byte_offset = offset
      BY DEF Chunk
    <3>2. local_chunks' = Append(<< >>, c)
      BY <1>3, <2>1 DEF IndexCount
    <3> HIDE DEF c
    <3>3. local_chunks'[1] = c
      BY <3>2, SMT
    <3>4. QED
      BY <3>1, <3>3
  <2>4. k + 1 \in Nat /\ (k + 1) * ChunkSize = k * ChunkSize + ChunkSize /\ k * ChunkSize \in Nat
    BY <1>1, SMT
  <2> DEFINE x == k * ChunkSize
             y == (k + 1) * ChunkSize
             z == offset'
  <2>5. x \in Nat /\ y = x + ChunkSize /\ offset = x
    BY <2>2, <2>4
  <2>6. z = offset + Take(Len(file) - offset)
    BY <1>3 DEF IndexCount
  <2> HIDE DEF x, y, z
  <2>7. z \in Nat /\ z <= x + ChunkSize /\ (z = Len(file) \/ z = y)
    <3> DEFINE t == Take(Len(file) - offset)
    <3>1. /\ t \in Nat /\ t <= ChunkSize
          /\ t = IF Len(file) - offset < ChunkSize THEN Len(file) - offset ELSE ChunkSize
      BY <1>1, TakeInFile
    <3>2. z = offset + t
      BY <2>6
    <3> HIDE DEF t
    <3>3. QED
      BY <1>1, <2>1, <2>5, <3>1, <3>2, SMT
  <2>8. x < Len(file)
    BY <2>1, <2>5
  <2>9. offset' = Len(file) \/ \E l \in Nat : offset' = l * ChunkSize
    BY <2>4, <2>7 DEF y, z
  <2>10. \E l \in Nat : /\ local_chunks'[1].byte_offset = l * ChunkSize
                        /\ l * ChunkSize < Len(file)
                        /\ offset' <= l * ChunkSize + ChunkSize
    BY <2>3, <2>5, <2>7, <2>8 DEF x, z
  <2>11. QED
    BY <1>1, <2>9, <2>10 DEF Marks
<1>4. CASE IndexPublish
  BY <1>1, <1>4 DEF IndexPublish, Marks
<1>5. CASE IndexFinish
  BY <1>5 DEF IndexFinish, Marks
<1>6. QED
  BY <1>2, <1>3, <1>4, <1>5 DEF Indexer

(* Where the last chunk begins.                                            *)
LEMMA LastChunkIs ==
  ASSUME FilesAreBytes
  PROVE  /\ LastChunkStart \in 0 .. Len(file)
         /\ \A k \in Nat : k * ChunkSize < Len(file) /\ Len(file) <= k * ChunkSize + ChunkSize
              => LastChunkStart = k * ChunkSize
<1> DEFINE N == Len(file)
           q == (N - 1) \div ChunkSize
<1>1. N \in Nat /\ ChunkSize \in Nat \ {0} /\ (N = 0 <=> file = << >>)
  BY ChunkAssumption, LenProperties, EmptySeq DEF FilesAreBytes
<1>2. LastChunkStart = IF N = 0 THEN 0 ELSE q * ChunkSize
  BY <1>1 DEF LastChunkStart
<1>3. N # 0 => q \in Nat /\ q * ChunkSize <= N - 1 /\ N - 1 < q * ChunkSize + ChunkSize
  <2>1. N # 0 => N - 1 \in Nat
    BY <1>1
  <2>2. QED
    BY <1>1, <2>1, Division
<1> HIDE DEF q, N
<1>4. N # 0 => q * ChunkSize \in Nat
  BY <1>1, <1>3, SMT
<1>5. LastChunkStart \in 0 .. N
  <2> DEFINE x == q * ChunkSize
  <2>1. N # 0 => x \in Nat /\ x <= N - 1
    BY <1>3, <1>4
  <2>2. LastChunkStart = IF N = 0 THEN 0 ELSE x
    BY <1>2
  <2> HIDE DEF x
  <2>3. QED
    BY <1>1, <2>1, <2>2, SMT
<1>6. ASSUME NEW k \in Nat, k * ChunkSize < N, N <= k * ChunkSize + ChunkSize
      PROVE  LastChunkStart = k * ChunkSize
  <2>1. N # 0 /\ k * ChunkSize \in Nat
    BY <1>1, <1>6, SMT
  <2>2. q \in Nat /\ q * ChunkSize <= N - 1 /\ N - 1 < q * ChunkSize + ChunkSize
        /\ q * ChunkSize \in Nat
    BY <1>3, <1>4, <2>1
  <2>3. ASSUME NEW a \in Nat, NEW b \in Nat, a < b PROVE a * ChunkSize + ChunkSize <= b * ChunkSize
    <3>1. a + 1 \in Nat /\ a + 1 <= b
      BY <2>3, SMT
    <3>2. (a + 1) * ChunkSize <= b * ChunkSize
      BY <1>1, <3>1, TimesGrows
    <3>3. (a + 1) * ChunkSize = a * ChunkSize + ChunkSize
      BY <1>1, SMT
    <3>4. QED
      BY <3>2, <3>3
  <2>4. /\ k < q => k * ChunkSize + ChunkSize <= q * ChunkSize
        /\ q < k => q * ChunkSize + ChunkSize <= k * ChunkSize
    BY <2>2, <2>3
  <2> DEFINE x == q * ChunkSize
             y == k * ChunkSize
  <2>5. /\ x \in Nat /\ y \in Nat /\ x <= N - 1 /\ N - 1 < x + ChunkSize
        /\ y < N /\ N <= y + ChunkSize
        /\ (k < q => y + ChunkSize <= x) /\ (q < k => x + ChunkSize <= y)
    BY <1>6, <2>1, <2>2, <2>4
  <2> HIDE DEF x, y
  <2>6. k = q
    BY <1>1, <2>2, <2>5, SMT
  <2>7. QED
    BY <1>2, <2>1, <2>6
<1>7. QED
  BY <1>5, <1>6 DEF N

(* How far the f32 at a number are apart is the largest of its set.        *)
LEMMA UlpInSet ==
  ASSUME NEW n \in Nat
  PROVE  LET S == {1} \union {u \in 1 .. n : PowerOf2(u) /\ u * Mantissa <= 2 * n}
         IN  Ulp(n) \in S /\ \A u \in S : u <= Ulp(n)
<1> DEFINE S == {1} \union {u \in 1 .. n : PowerOf2(u) /\ u * Mantissa <= 2 * n}
<1>1. Ulp(n) = Max(S)
  BY DEF Ulp
<1>2. S \in SUBSET (0 .. n + 1) /\ S # {} /\ n + 1 \in Nat /\ S \in SUBSET Nat
  BY SMT
<1> HIDE DEF S
<1>3. Max(S) \in S /\ \A y \in S : Max(S) >= y
  BY <1>2, GreatestExists
<1>4. \A y \in S : y <= Max(S)
  BY <1>2, <1>3, SMT
<1>5. QED
  BY <1>1, <1>3, <1>4 DEF S

(* The larger the number, the further apart. *)
LEMMA UlpIs ==
  ASSUME NEW n \in Nat
  PROVE  /\ Ulp(n) \in Nat \ {0}
         /\ \A m \in Nat : n <= m => Ulp(n) <= Ulp(m)
<1>1. ASSUME NEW m \in Nat PROVE Ulp(m) \in Nat \ {0}
  BY UlpInSet, SMT
<1>2. ASSUME NEW m \in Nat, n <= m PROVE Ulp(n) <= Ulp(m)
  <2>1. Mantissa \in Nat
    BY PollAssumption
  <2> DEFINE u == Ulp(n)
             x == u * Mantissa
  <2>2. u = 1 \/ (u \in 1 .. n /\ PowerOf2(u) /\ x <= 2 * n)
    BY UlpInSet
  <2>3. u \in Nat \ {0}
    BY <1>1
  <2> HIDE DEF u
  <2>4. x \in Nat
    BY <2>1, <2>3, SMT
  <2> HIDE DEF x
  <2>5. u = 1 \/ (u \in 1 .. m /\ PowerOf2(u) /\ x <= 2 * m)
    BY <1>2, <2>2, <2>4, SMT
  <2>6. QED
    BY <2>5, UlpInSet DEF u, x
<1>3. QED
  BY <1>1, <1>2

(* No number lies further than half of that from its own f32.              *)
LEMMA F32IsNear ==
  ASSUME NEW n \in Nat
  PROVE  /\ F32(n) \in Nat
         /\ 2 * F32(n) <= 2 * n + Ulp(n) /\ 2 * n <= 2 * F32(n) + Ulp(n)
<1> DEFINE u == Ulp(n)
           q == n \div u
           r == n % u
           down == 2 * r < u \/ (2 * r = u /\ q % 2 = 0)
<1>1. u \in Nat \ {0}
  BY UlpIs
<1>2. F32(n) = (IF down THEN q ELSE q + 1) * u
  BY DEF F32
<1> HIDE DEF u
<1>3. q \in Nat /\ r \in 0 .. u - 1 /\ n = q * u + r
  BY <1>1, SMT
<1> HIDE DEF q, r
<1>4. (q + 1) * u = q * u + u /\ q * u \in Nat
  BY <1>1, <1>3, SMT
<1> DEFINE x == q * u
<1>5. x \in Nat /\ n = x + r /\ F32(n) = IF down THEN x ELSE x + u
  BY <1>2, <1>3, <1>4
<1> HIDE DEF x
<1>6. (down => 2 * r <= u) /\ (~down => 2 * r >= u)
  BY <1>1, <1>3, SMT
<1> HIDE DEF down
<1>7. QED
  BY <1>1, <1>3, <1>5, <1>6, SMT DEF u

(* A multiple leaves nothing. *)
LEMMA MultipleOf ==
  ASSUME NEW k \in Nat, NEW d \in Nat \ {0}
  PROVE  (k * d) % d = 0
<1> DEFINE n == k * d
           q == n \div d
           r == n % d
<1>1. n \in Nat
  BY SMT
<1> HIDE DEF n
<1>2. q \in Nat /\ r \in 0 .. d - 1 /\ n = q * d + r
  BY <1>1, SMT
<1> HIDE DEF q
<1>3. ASSUME NEW a \in Nat, NEW b \in Nat, a < b PROVE a * d + d <= b * d
  <2>1. (a + 1) * d <= b * d /\ (a + 1) * d = a * d + d
    BY <1>3, TimesGrows, SMT
  <2>2. QED
    BY <2>1
<1> DEFINE x == q * d
<1>4. x \in Nat /\ n = x + r /\ (q < k => x + d <= n) /\ (k < q => n + d <= x) /\ (k = q => n = x)
  BY <1>2, <1>3, SMT DEF n
<1> HIDE DEF x, r
<1>5. r = 0
  BY <1>1, <1>2, <1>4, SMT
<1>6. QED
  BY <1>5 DEF r, n

(* A power of two is twice another. *)
LEMMA HalfPower ==
  ASSUME NEW v \in Nat, v > 1, PowerOf2(v)
  PROVE  \E h \in Nat \ {0} : v = 2 * h /\ PowerOf2(h)
<1>1. v \in 2 .. v /\ v % v = 0
  BY SMT
<1>2. v % 2 = 0
  BY <1>1 DEF PowerOf2
<1>3. PICK h \in Nat \ {0} : v = 2 * h
  BY <1>2, SMT
<1>4. ASSUME NEW d \in 2 .. h, h % d = 0 PROVE d % 2 = 0
  <2>1. d \in 2 .. v
    BY <1>3, SMT
  <2>2. h = (h \div d) * d /\ h \div d \in Nat
    BY <1>4, SMT
  <2> DEFINE k == 2 * (h \div d)
  <2>3. v = k * d /\ k \in Nat /\ d \in Nat \ {0}
    BY <1>3, <2>2, SMT
  <2> HIDE DEF k
  <2>4. v % d = 0
    BY <2>3, MultipleOf
  <2>5. QED
    BY <2>1, <2>4 DEF PowerOf2
<1>5. QED
  BY <1>3, <1>4 DEF PowerOf2

(* A smaller power of two divides half of a larger one.                    *)
LEMMA PowersDivide ==
  ASSUME NEW u \in Nat \ {0}, NEW v \in Nat, u < v, PowerOf2(u), PowerOf2(v)
  PROVE  \E k \in Nat \ {0} : v = 2 * k * u
<1> DEFINE Good(a, b) == \E k \in Nat \ {0} : b = 2 * k * a
           Bad == {b \in Nat : PowerOf2(b) /\ \E a \in Nat \ {0} : a < b /\ PowerOf2(a) /\ ~Good(a, b)}
<1>1. SUFFICES Bad = {}
  <2>1. v \notin Bad
    BY <1>1
  <2>2. Good(u, v)
    BY <2>1
  <2>3. QED
    BY <2>2
<1>2. SUFFICES ASSUME Bad # {} PROVE FALSE
  OBVIOUS
<1>3. Bad \in SUBSET Nat
  OBVIOUS
<1>4. PICK b \in Bad : \A c \in Bad : b <= c
  <2> HIDE DEF Bad
  <2>1. QED
    BY <1>2, <1>3, LeastExists
<1>5. PICK a \in Nat \ {0} : a < b /\ PowerOf2(a) /\ ~Good(a, b)
  OBVIOUS
<1>6. b \in Nat /\ b > 1 /\ PowerOf2(b)
  BY <1>5, SMT
<1>7. PICK h \in Nat \ {0} : b = 2 * h /\ PowerOf2(h)
  BY <1>6, HalfPower
<1>8. CASE a = 1
  <2>1. b = 2 * h * a
    BY <1>7, <1>8, SMT
  <2>2. QED
    BY <1>5, <2>1
<1>9. CASE a > 1
  <2>1. PICK g \in Nat \ {0} : a = 2 * g /\ PowerOf2(g)
    BY <1>5, <1>9, HalfPower
  <2>2. g < h /\ h < b
    BY <1>5, <1>6, <1>7, <2>1, SMT
  <2>3. h \notin Bad
    <3> SUFFICES ASSUME h \in Bad PROVE FALSE
      OBVIOUS
    <3>1. b <= h
      BY <1>4
    <3>2. QED
      BY <1>6, <1>7, <2>2, <3>1, SMT
  <2>4. PICK k \in Nat \ {0} : h = 2 * k * g
    BY <1>7, <2>1, <2>2, <2>3
  <2>5. b = 2 * k * a
    BY <1>7, <2>1, <2>4, SMT
  <2>6. QED
    BY <1>5, <2>5
<1>10. QED
  BY <1>5, <1>8, <1>9, SMT

(* The f32 next to a larger number is no smaller.                          *)
LEMMA F32Grows ==
  ASSUME NEW m \in Nat, NEW n \in Nat, m <= n
  PROVE  F32(m) <= F32(n)
<1> DEFINE u == Ulp(m)
           v == Ulp(n)
           p == m \div u
           q == n \div v
           r == m % u
           s == n % v
           down == 2 * r < u \/ (2 * r = u /\ p % 2 = 0)
           sunk == 2 * s < v \/ (2 * s = v /\ q % 2 = 0)
<1>1. u \in Nat \ {0} /\ v \in Nat \ {0} /\ u <= v
  BY UlpIs
<1>2. F32(m) = (IF down THEN p ELSE p + 1) * u /\ F32(n) = (IF sunk THEN q ELSE q + 1) * v
  BY DEF F32
<1>3. u # v => PowerOf2(v) /\ v * Mantissa <= 2 * n /\ (v > m \/ v * Mantissa > 2 * m)
  <2> SUFFICES ASSUME u # v PROVE PowerOf2(v) /\ v * Mantissa <= 2 * n /\ (v > m \/ v * Mantissa > 2 * m)
    OBVIOUS
  <2>1. v > 1 /\ u < v
    BY <1>1, SMT
  <2>2. v \in {1} \union {w \in 1 .. n : PowerOf2(w) /\ w * Mantissa <= 2 * n}
    BY UlpInSet
  <2>3. PowerOf2(v) /\ v * Mantissa <= 2 * n
    BY <2>1, <2>2
  <2>4. ASSUME ~(v > m), ~(v * Mantissa > 2 * m) PROVE FALSE
    <3>1. v * Mantissa \in Nat
      BY <1>1, PollAssumption, SMT
    <3>2. v \in 1 .. m /\ v * Mantissa <= 2 * m
      BY <1>1, <2>4, <3>1, SMT
    <3>3. v <= u
      BY <2>3, <3>2, UlpInSet
    <3>4. QED
      BY <1>1, <2>1, <3>3, SMT
  <2>5. QED
    BY <2>3, <2>4
<1>4. PowerOf2(u)
  <2>1. u \in {1} \union {w \in 1 .. m : PowerOf2(w) /\ w * Mantissa <= 2 * m}
    BY UlpInSet
  <2>2. PowerOf2(1)
    BY SMT DEF PowerOf2
  <2>3. QED
    BY <2>1, <2>2
<1> HIDE DEF u, v
<1>5. /\ p \in Nat /\ r \in 0 .. u - 1 /\ m = p * u + r
      /\ q \in Nat /\ s \in 0 .. v - 1 /\ n = q * v + s
  BY <1>1, SMT
<1> HIDE DEF p, q, r, s
<1>6. CASE u = v
  <2>1. CASE p = q
    <3>1. r <= s
      <4> DEFINE x == p * u
      <4>1. x \in Nat /\ m = x + r /\ n = x + s
        BY <1>1, <1>5, <1>6, <2>1, SMT
      <4> HIDE DEF x
      <4>2. QED
        BY <1>1, <1>5, <4>1, SMT
    <3>2. sunk => down
      BY <1>1, <1>5, <1>6, <2>1, <3>1, SMT
    <3>3. p * u <= (p + 1) * u /\ p * u \in Nat /\ (p + 1) * u \in Nat
      BY <1>1, <1>5, SMT
    <3> HIDE DEF down, sunk
    <3>4. QED
      BY <1>2, <1>6, <2>1, <3>2, <3>3, SMT
  <2>2. CASE p # q
    <3>1. p < q
      <4>1. SUFFICES ASSUME q < p PROVE FALSE
        BY <1>5, <2>2, SMT
      <4>2. (q + 1) * u <= p * u /\ (q + 1) * u = q * u + u /\ p * u \in Nat /\ q * u \in Nat
        BY <1>1, <1>5, <4>1, TimesGrows, SMT
      <4> DEFINE x == p * u
                 y == q * u
      <4>3. x \in Nat /\ y \in Nat /\ y + u <= x /\ m = x + r /\ n = y + s
        BY <1>5, <1>6, <4>2
      <4> HIDE DEF x, y
      <4>4. QED
        BY <1>1, <1>5, <1>6, <4>3, SMT
    <3> DEFINE a == IF down THEN p ELSE p + 1
               b == IF sunk THEN q ELSE q + 1
    <3>2. a \in Nat /\ b \in Nat /\ a <= b
      <4> HIDE DEF down, sunk
      <4>1. QED
        BY <1>5, <3>1, SMT
    <3> HIDE DEF a, b
    <3>3. a * u <= b * u
      BY <1>1, <3>2, TimesGrows
    <3>4. QED
      BY <1>2, <1>6, <3>3 DEF a, b
  <2>3. QED
    BY <2>1, <2>2
<1>7. CASE u # v
  <2>1. PICK k \in Nat \ {0} : v = 2 * k * u
    BY <1>1, <1>3, <1>4, <1>7, PowersDivide, SMT
  <2>2. PICK h \in Nat \ {0} : Mantissa = 2 * h
    BY PollAssumption, SMT
  <2> DEFINE T == h * v
             c == h * (2 * k)
  <2>3. T = c * u /\ c \in Nat /\ T \in Nat
    BY <1>1, <2>1, <2>2, SMT
  <2>4. v * Mantissa = 2 * T /\ v <= T
    BY <1>1, <2>2, SMT
  <2>5. T <= n /\ m < T
    <3> HIDE DEF T
    <3>1. QED
      BY <1>3, <1>7, <2>3, <2>4, <1>1, SMT
  <2> HIDE DEF c
  <2>6. F32(m) <= T
    <3>1. p + 1 <= c
      <4>1. SUFFICES ASSUME c <= p PROVE FALSE
        BY <1>5, <2>3, SMT
      <4>2. c * u <= p * u /\ p * u \in Nat
        BY <1>1, <1>5, <2>3, <4>1, TimesGrows
      <4> DEFINE x == p * u
      <4>3. x \in Nat /\ T <= x /\ m = x + r
        BY <1>5, <2>3, <4>2
      <4> HIDE DEF x, T
      <4>4. QED
        BY <1>1, <1>5, <2>3, <2>5, <4>3, SMT
    <3> DEFINE a == IF down THEN p ELSE p + 1
    <3>2. a \in Nat /\ a <= c
      <4> HIDE DEF down
      <4>1. QED
        BY <1>5, <2>3, <3>1, SMT
    <3> HIDE DEF a
    <3>3. a * u <= c * u
      BY <1>1, <2>3, <3>2, TimesGrows
    <3>4. QED
      BY <1>2, <2>3, <3>3 DEF a
  <2>7. T <= F32(n)
    <3>1. h <= q
      <4>1. SUFFICES ASSUME q < h PROVE FALSE
        BY <1>5, <2>2, SMT
      <4>2. (q + 1) * v <= h * v /\ (q + 1) * v = q * v + v /\ q * v \in Nat
        BY <1>1, <1>5, <2>2, <4>1, TimesGrows, SMT
      <4> DEFINE x == q * v
      <4>3. x \in Nat /\ x + v <= T /\ n = x + s
        BY <1>5, <4>2
      <4> HIDE DEF x, T
      <4>4. QED
        BY <1>1, <1>5, <2>3, <2>5, <4>3, SMT
    <3> DEFINE b == IF sunk THEN q ELSE q + 1
    <3>2. b \in Nat /\ h <= b
      <4> HIDE DEF sunk
      <4>1. QED
        BY <1>5, <2>2, <3>1, SMT
    <3> HIDE DEF b
    <3>3. h * v <= b * v
      BY <1>1, <2>2, <3>2, TimesGrows
    <3>4. QED
      BY <1>2, <3>3 DEF b
  <2>8. F32(m) \in Nat /\ F32(n) \in Nat
    BY F32IsNear
  <2> HIDE DEF T
  <2>9. QED
    BY <2>3, <2>6, <2>7, <2>8, SMT
<1>8. QED
  BY <1>6, <1>7

(* The thread has begun to publish the last chunk, or f32 does not tell    *)
(* its beginning from the end of the file and it is published next.        *)
Reached ==
  \/ is_finished
  \/ bytes_processed >= Len(file)
  \/ bytes_processed >= LastChunkStart /\ F32(LastChunkStart) >= F32(Len(file))

(* That is what it takes for the progress to be complete.                  *)
LEMMA CompleteReaches ==
  ASSUME Indexed, Marks, OneWindow, ProgressComplete
  PROVE  Reached
<1> SUFFICES ASSUME ~is_finished, ~(bytes_processed >= Len(file)) PROVE Reached
  BY DEF Reached
<1> DEFINE N == Len(file)
<1>1. /\ FilesAreBytes /\ N \in Nat /\ ChunkSize \in Nat \ {0} /\ file \in Files
      /\ offset \in Nat /\ bytes_processed = offset /\ ~is_fixed_width
  BY ChunkAssumption, LenProperties, SMT DEF Indexed, Opened, Thread, Pending, FilesAreBytes
<1>2. offset < N
  BY <1>1, SMT
<1>3. F32(offset) >= F32(N)
  BY <1>1 DEF ProgressComplete
<1>4. PICK k \in Nat : offset = k * ChunkSize
  BY <1>1, <1>2, SMT DEF Marks
<1> HIDE DEF N
<1>5. N <= offset + ChunkSize
  <2> DEFINE a == F32(offset)
             b == F32(N)
             u == Ulp(offset)
             v == Ulp(N)
  <2>1. a \in Nat /\ b \in Nat /\ 2 * a <= 2 * offset + u /\ 2 * N <= 2 * b + v
    BY <1>1, F32IsNear
  <2>2. u \in Nat /\ v \in Nat /\ u <= v
    BY <1>1, <1>2, UlpIs
  <2>3. v <= ChunkSize
    BY <1>1, FloatAssumption DEF N
  <2>4. a >= b
    BY <1>3
  <2> HIDE DEF a, b, u, v
  <2>5. QED
    BY <1>1, <2>1, <2>2, <2>3, <2>4, SMT
<1>6. LastChunkStart = offset
  <2>1. k * ChunkSize < N /\ N <= k * ChunkSize + ChunkSize
    BY <1>2, <1>4, <1>5
  <2>2. LastChunkStart = k * ChunkSize
    BY <1>1, <2>1, LastChunkIs DEF N
  <2>3. QED
    BY <1>4, <2>2
<1>7. bytes_processed >= LastChunkStart
  BY <1>1, <1>6, SMT
<1>8. QED
  BY <1>3, <1>6, <1>7 DEF Reached, N

(* What may be missing is at the end.                                      *)
LEMMA MissingIs ==
  ASSUME FilesAreBytes
  PROVE  /\ LastMissing \in 0 .. Len(file) /\ LastChunkStart \in 0 .. Len(file)
         /\ LastMissing <= LastChunkStart
         /\ F32(LastChunkStart) >= F32(Len(file)) =>
              \A at \in Nat : LastChunkStart <= at + ChunkSize => LastMissing <= at
<1>1. Len(file) \in Nat /\ ChunkSize \in Nat /\ LastChunkStart \in 0 .. Len(file)
  BY ChunkAssumption, LenProperties, LastChunkIs DEF FilesAreBytes
<1> DEFINE a == F32(LastChunkStart)
           b == F32(Len(file))
<1>2. LastChunkStart \in Nat /\ Len(file) \in Nat
  BY <1>1, SMT
<1>3. a \in Nat /\ b \in Nat
  BY <1>2, F32IsNear
<1>4. LastMissing = IF a < b THEN LastChunkStart
                    ELSE IF LastChunkStart < ChunkSize THEN 0 ELSE LastChunkStart - ChunkSize
  BY DEF LastMissing
<1> HIDE DEF a, b
<1>5. LastMissing \in 0 .. Len(file) /\ LastMissing <= LastChunkStart
  BY <1>1, <1>2, <1>4, SMT
<1>6. a >= b => \A at \in Nat : LastChunkStart <= at + ChunkSize => LastMissing <= at
  BY <1>1, <1>2, <1>3, <1>4, SMT
<1>7. QED
  BY <1>1, <1>5, <1>6 DEF a, b

(* Whoever is told that the whole file was read finds the lines of all but *)
(* the last chunks published; never more than there are.                   *)
LEMMA LinesSeen ==
  ASSUME Indexed, Counted, Exact, Marks, NoTabs, OneWindow
  PROVE  /\ original_total_lines <= FinalTotal /\ original_total_lines \in Nat
         /\ ~is_fixed_width /\ Reached => Feeds(LastMissing) <= original_total_lines
         /\ Feeds(LastMissing) \in Nat /\ FinalTotal \in Nat
<1>1. FilesAreBytes /\ Len(file) \in Nat /\ original_total_lines \in Nat
      /\ offset \in Nat /\ offset <= Len(file)
  BY LenProperties, SMT DEF Indexed, Opened, Listed, Thread, FilesAreBytes
<1>2. /\ LastChunkStart \in Nat /\ LastChunkStart <= Len(file)
      /\ LastMissing \in Nat /\ LastMissing <= LastChunkStart /\ LastMissing <= Len(file)
  <2>1. LastMissing \in 0 .. Len(file) /\ LastChunkStart \in 0 .. Len(file)
        /\ LastMissing <= LastChunkStart
    BY <1>1, MissingIs
  <2>2. QED
    BY <1>1, <2>1, SMT
<1>3. /\ Feeds(LastMissing) \in Nat /\ Feeds(Len(file)) \in Nat /\ Feeds(offset) \in Nat
      /\ Feeds(LastMissing) <= Feeds(Len(file)) /\ Feeds(offset) <= Feeds(Len(file))
  BY <1>1, <1>2, FeedsGrow
<1> DEFINE n == Feeds(Len(file))
<1>4. n = Cardinality(LineFeeds) /\ n \in Nat
  BY <1>1, <1>3, FeedsAtEnds DEF Feeds
<1>5. ~is_fixed_width => FinalTotal = FinalLines(n)
  BY <1>4 DEF FinalTotal, AllLines
<1> HIDE DEF n
<1>6. FinalLines(n) \in Nat /\ n <= FinalLines(n)
  BY <1>4, SMT DEF FinalLines
<1>7. is_finished => original_total_lines = FinalTotal
  BY DEF Counted, FinalTotal
<1>8. is_fixed_width => is_finished
  BY DEF Indexed, Thread, Pending
<1>9. ASSUME ~is_finished
      PROVE  /\ original_total_lines <= n
             /\ Reached => Feeds(LastMissing) <= original_total_lines
  <2>1. ~is_fixed_width /\ original_total_lines <= Feeds(offset)
    BY <1>8, <1>9, PublishedLines
  <2>2. original_total_lines <= n
    BY <1>1, <1>3, <2>1, SMT DEF n
  <2>3. ASSUME Reached
        PROVE  Feeds(LastMissing) <= original_total_lines
    <3>1. bytes_processed = offset /\ pc # "finished"
      BY <1>9 DEF Indexed, Thread
    <3>2. /\ LastChunkStart <= offset
          /\ offset = Len(file) \/ F32(LastChunkStart) >= F32(Len(file))
      <4>1. \/ offset >= Len(file)
            \/ offset >= LastChunkStart /\ F32(LastChunkStart) >= F32(Len(file))
        BY <1>9, <2>3, <3>1 DEF Reached
      <4>2. offset >= Len(file) => offset = Len(file) /\ LastChunkStart <= offset
        BY <1>1, <1>2, SMT
      <4>3. offset >= LastChunkStart => LastChunkStart <= offset
        BY <1>1, <1>2, SMT
      <4>4. QED
        BY <4>1, <4>2, <4>3
    <3>3. CASE pc # "publish"
      <4>1. pc \in {"scan", "count", "cancelled"}
        BY <3>1, <3>3 DEF Indexed, Thread
      <4>2. original_total_lines = Feeds(offset)
        BY <4>1 DEF Indexed, Pending, Counted, Feeds
      <4>3. LastMissing <= offset
        BY <1>1, <1>2, <3>2, SMT
      <4>4. Feeds(LastMissing) <= Feeds(offset)
        BY <1>1, <1>2, <4>3, FeedsGrow
      <4>5. QED
        BY <4>2, <4>4
    <3>4. CASE pc = "publish"
      <4>1. PICK k \in Nat : /\ local_chunks[1].byte_offset = k * ChunkSize
                             /\ k * ChunkSize < Len(file)
                             /\ offset <= k * ChunkSize + ChunkSize
        BY <1>9, <2>1, <3>4 DEF Marks
      <4>2. PICK at \in 0 .. Len(file) : local_chunks = <<Chunk(at, original_total_lines)>>
        BY <3>4 DEF Indexed, Pending
      <4> DEFINE c == Chunk(at, original_total_lines)
      <4>3. c.start_line = original_total_lines /\ c.byte_offset = at
        BY DEF Chunk
      <4> HIDE DEF c
      <4>4. 1 \in 1 .. Len(local_chunks) /\ local_chunks[1] = c
        BY <4>2 DEF c
      <4>5. original_total_lines = Feeds(at)
        BY <4>3, <4>4 DEF Exact, StartsRight, Feeds
      <4>6. at = k * ChunkSize /\ at \in Nat /\ at < Len(file) /\ offset <= at + ChunkSize
        BY <1>1, <4>1, <4>3, <4>4, SMT
      <4>7. LastMissing <= at
        <5>1. CASE offset = Len(file)
          <6>1. k * ChunkSize < Len(file) /\ Len(file) <= k * ChunkSize + ChunkSize
            BY <4>1, <5>1
          <6>2. LastChunkStart = at
            BY <1>1, <4>6, <6>1, LastChunkIs
          <6>3. QED
            BY <1>2, <6>2
        <5>2. CASE F32(LastChunkStart) >= F32(Len(file))
          <6>1. LastChunkStart <= at + ChunkSize
            BY <1>1, <1>2, <3>2, <4>6, ChunkAssumption, SMT
          <6>2. QED
            BY <1>1, <4>6, <5>2, <6>1, MissingIs
        <5>3. QED
          BY <3>2, <5>1, <5>2
      <4>8. Feeds(LastMissing) <= Feeds(at)
        BY <1>1, <1>2, <4>6, <4>7, FeedsGrow
      <4>9. QED
        BY <4>5, <4>8
    <3>5. QED
      BY <3>3, <3>4
  <2>4. QED
    BY <2>2, <2>3
<1>10. CASE is_finished
  <2>1. original_total_lines = FinalTotal
    BY <1>7, <1>10
  <2>2. ~is_fixed_width => Feeds(LastMissing) <= original_total_lines
    BY <1>3, <1>5, <1>6, <2>1, SMT DEF n
  <2>3. FinalTotal \in Nat /\ original_total_lines <= FinalTotal
    BY <1>1, <2>1, SMT
  <2>4. QED
    BY <1>1, <1>3, <2>2, <2>3
<1>11. CASE ~is_finished
  <2>1. original_total_lines <= FinalTotal /\ FinalTotal \in Nat
    BY <1>1, <1>4, <1>5, <1>6, <1>8, <1>9, <1>11, SMT
  <2>2. QED
    BY <1>1, <1>3, <1>9, <1>11, <2>1
<1>12. QED
  BY <1>10, <1>11

(* What the thread and the index know, for the editor to see.              *)
IndexSeen == Indexed /\ Counted /\ Exact /\ Marks

(* Nobody reads while the editor polls.                                    *)
EditorTypes ==
  /\ reader = NoRead /\ cancel \in BOOLEAN
  /\ step \in {"attach", "setup", "idle", "polled", "done"}
  /\ valid \in BOOLEAN /\ complete \in BOOLEAN /\ queued \in 0 .. MaxQueued
  /\ total \in 0 .. Len(file) + 1
  /\ timer \in {"none", "running", "closed"}
  /\ is_eof_mode \in BOOLEAN /\ initial_render_done \in BOOLEAN
  /\ announced \in BOOLEAN /\ saw_finished \in BOOLEAN

(* What was once complete is, and nothing is announced before.             *)
SeenComplete ==
  /\ complete => ProgressComplete
  /\ announced \/ step = "done" => complete
  /\ step \in {"attach", "setup"} => ~announced /\ ~is_eof_mode
  /\ announced => ~is_eof_mode

(* No number is too large; one that is announced was asked for after that. *)
TotalsSeen ==
  NoTabs /\ OneWindow =>
    /\ total <= FinalTotal
    /\ ~is_fixed_width /\ (announced \/ step = "done") => Feeds(LastMissing) <= total

Editor == EditorTypes /\ SeenComplete /\ TotalsSeen

(* What depends on the file alone.                                         *)
LEMMA FileStays ==
  ASSUME UNCHANGED opened
  PROVE  /\ file' = file /\ is_fixed_width' = is_fixed_width
         /\ (NoTabs' <=> NoTabs) /\ (OneWindow' <=> OneWindow)
         /\ FinalTotal' = FinalTotal /\ LastChunkStart' = LastChunkStart
         /\ Feeds(LastMissing)' = Feeds(LastMissing)
<1>1. file' = file /\ is_fixed_width' = is_fixed_width /\ narrow' = narrow
  BY DEF opened
<1>2. (NoTabs' <=> NoTabs) /\ (OneWindow' <=> OneWindow)
  BY <1>1 DEF NoTabs, OneWindow
<1>3. FinalTotal' = FinalTotal
  BY <1>1 DEF FinalTotal, AllLines, FixedLines, DivUp, FinalLines, LineFeeds
<1>4. LastChunkStart' = LastChunkStart
  BY <1>1 DEF LastChunkStart
<1>5. LastMissing' = LastMissing
  BY <1>1, <1>4 DEF LastMissing
<1>6. Feeds(LastMissing)' = Feeds(LastMissing)
  BY <1>1, <1>5 DEF Feeds, FeedsIn
<1>7. QED
  BY <1>1, <1>2, <1>3, <1>4, <1>6

(* An editor that opens its file has seen no total but what it may show.   *)
LEMMA InitSeen == PollInit => IndexSeen /\ Editor
<1> SUFFICES ASSUME PollInit PROVE IndexSeen /\ Editor
  OBVIOUS
<1>1. IndexSeen
  BY InitIndexes, InitCounts, InitExact, InitMarks DEF PollInit, IndexSeen
<1>2. Len(file) \in Nat
  BY <1>1, LenProperties DEF IndexSeen, Indexed, Opened, FilesAreBytes
<1>3. EditorTypes
  <2>1. 0 \in 0 .. Len(file) + 1 /\ 0 \in 0 .. MaxQueued
    BY <1>2, PollAssumption, SMT
  <2>2. reader = NoRead /\ cancel = FALSE
    BY DEF PollInit, Init
  <2>3. QED
    BY <2>1, <2>2 DEF PollInit, EditorTypes
<1>4. SeenComplete
  BY DEF PollInit, SeenComplete
<1>5. TotalsSeen
  <2>1. NoTabs /\ OneWindow => FinalTotal \in Nat
    BY <1>1, LinesSeen DEF IndexSeen
  <2>2. total = 0 /\ ~announced /\ step # "done"
    BY DEF PollInit
  <2>3. QED
    BY <2>1, <2>2, SMT DEF TotalsSeen
<1>6. QED
  BY <1>1, <1>3, <1>4, <1>5 DEF Editor

(* The thread only ever gets further.                                      *)
LEMMA IndexerSeen == IndexSeen /\ Editor /\ IndexerThread => IndexSeen' /\ Editor'
<1> SUFFICES ASSUME IndexSeen, Editor, IndexerThread PROVE IndexSeen' /\ Editor'
  OBVIOUS
<1>1. Indexer /\ UNCHANGED <<step, buffer, timer, queued, history>>
  BY DEF IndexerThread
<1>2. UNCHANGED opened /\ cancel' = cancel /\ reader' = reader
  BY <1>1 DEF Indexer, IndexCancelled, IndexCheck, IndexCount, IndexPublish, IndexFinish
<1>3. IndexSeen'
  BY <1>1, IndexerIndexes, IndexerCounts, IndexerExact, IndexerMarks DEF IndexSeen
<1>4. Len(file) \in Nat /\ offset \in Nat /\ bytes_processed \in Nat /\ ~is_finished
      /\ bytes_processed = offset /\ offset <= Len(file)
  <2>1. Len(file) \in Nat
    BY LenProperties DEF IndexSeen, Indexed, Opened, FilesAreBytes
  <2>2. pc # "finished"
    BY <1>1 DEF Indexer, IndexCancelled, IndexCheck, IndexCount, IndexPublish, IndexFinish
  <2>3. QED
    BY <2>1, <2>2, SMT DEF IndexSeen, Indexed, Thread
<1>5. bytes_processed' \in Nat /\ bytes_processed <= bytes_processed'
  <2>1. CASE IndexCancelled \/ IndexCheck \/ IndexPublish
    BY <1>4, <2>1 DEF IndexCancelled, IndexCheck, IndexPublish
  <2>2. CASE IndexCount
    <3>1. FilesAreBytes /\ offset \in 0 .. Len(file)
      BY DEF IndexSeen, Indexed, Opened, Thread, FilesAreBytes
    <3> DEFINE t == Take(Len(file) - offset)
    <3>2. t \in Nat
      BY <3>1, TakeInFile
    <3>3. bytes_processed' = offset + t
      BY <2>2 DEF IndexCount, Processed
    <3> HIDE DEF t
    <3>4. QED
      BY <1>4, <3>2, <3>3, SMT
  <2>3. CASE IndexFinish
    BY <1>4, <2>3 DEF IndexFinish
  <2>4. QED
    BY <1>1, <2>1, <2>2, <2>3 DEF Indexer
<1>6. ProgressComplete => ProgressComplete'
  <2>1. file' = file
    BY <1>2 DEF opened
  <2>2. F32(bytes_processed) <= F32(bytes_processed') /\ F32(bytes_processed) \in Nat
        /\ F32(bytes_processed') \in Nat /\ F32(Len(file)) \in Nat
    BY <1>4, <1>5, F32Grows, F32IsNear
  <2>3. F32(bytes_processed) >= F32(Len(file)) => F32(bytes_processed') >= F32(Len(file))
    BY <2>2, SMT
  <2>4. QED
    BY <1>4, <2>1, <2>3 DEF ProgressComplete
<1>7. EditorTypes'
  BY <1>1, <1>2 DEF Editor, EditorTypes, buffer, history, opened
<1>8. SeenComplete'
  BY <1>1, <1>6 DEF Editor, SeenComplete, buffer, history
<1>9. TotalsSeen'
  BY <1>1, <1>2, FileStays DEF Editor, TotalsSeen, buffer, history
<1>10. QED
  BY <1>3, <1>7, <1>8, <1>9 DEF Editor

(* The editor leaves the index alone.                                      *)
LEMMA EditorLeavesIndex ==
  ASSUME IndexSeen, UNCHANGED <<opened, index, bytes_processed, indexer>>
  PROVE  IndexSeen' /\ (ProgressComplete' <=> ProgressComplete)
<1>1. Indexed' /\ Counted' /\ Exact'
  BY UnreadIndexes, UnreadCounts, UnreadExact DEF IndexSeen
<1>2. Marks'
  BY FileStays DEF IndexSeen, Marks, opened, index, indexer
<1>3. ProgressComplete' <=> ProgressComplete
  BY DEF ProgressComplete, opened, index
<1>4. QED
  BY <1>1, <1>2, <1>3 DEF IndexSeen

(* Each of its steps.                                                      *)
LEMMA EditorSeen ==
  ASSUME IndexSeen, Editor, MainThread \/ TimerFires \/ JumpToEof \/ JumpToLine \/ Wipeout
  PROVE  IndexSeen' /\ Editor'
<1>1. UNCHANGED <<opened, index, bytes_processed, indexer, reader>>
  BY DEF MainThread, Attach, Setup, PollGone, PollProgress, PollTotal, PollDone, engine,
         TimerFires, JumpToEof, JumpToLine, Wipeout
<1>2. IndexSeen' /\ (ProgressComplete' <=> ProgressComplete)
  BY <1>1, EditorLeavesIndex
<1>3. /\ file' = file /\ is_fixed_width' = is_fixed_width /\ reader' = reader
      /\ (NoTabs' <=> NoTabs) /\ (OneWindow' <=> OneWindow)
      /\ FinalTotal' = FinalTotal /\ Feeds(LastMissing)' = Feeds(LastMissing)
  BY <1>1, FileStays
<1>4. is_finished \in BOOLEAN /\ original_total_lines \in 0 .. Len(file) + 1
      /\ ProgressComplete \in BOOLEAN /\ Len(file) \in Nat
  BY LenProperties DEF IndexSeen, Indexed, Thread, Listed, ProgressComplete, Opened, FilesAreBytes
<1>5. EditorTypes'
  <2> USE <1>3, <1>4 DEF Editor, EditorTypes, buffer, history
  <2>1. CASE Attach \/ Setup
    BY <2>1 DEF Attach, Setup, GetProgress, TotalLines
  <2>2. CASE PollGone
    BY <2>2, PollAssumption, SMT DEF PollGone, BufferIsValid
  <2>3. CASE PollProgress
    BY <2>3, PollAssumption, SMT DEF PollProgress, GetProgress, BufferIsValid
  <2>4. CASE PollTotal \/ PollDone
    BY <2>4 DEF PollTotal, PollDone, TotalLines, EofModeAfter
  <2>5. CASE TimerFires
    BY <2>5, PollAssumption, SMT DEF TimerFires, TimerAfter
  <2>6. CASE JumpToEof \/ JumpToLine \/ Wipeout
    BY <2>6 DEF JumpToEof, JumpToLine, Wipeout
  <2>7. QED
    BY <2>1, <2>2, <2>3, <2>4, <2>5, <2>6 DEF MainThread
<1>6. SeenComplete'
  <2> USE <1>2 DEF Editor, EditorTypes, SeenComplete, buffer, history
  <2>1. CASE Attach
    BY <2>1 DEF Attach, GetProgress
  <2>2. CASE Setup
    BY <2>2 DEF Setup
  <2>3. CASE PollGone
    BY <2>3 DEF PollGone
  <2>4. CASE PollProgress
    BY <2>4 DEF PollProgress, GetProgress
  <2>5. CASE PollTotal
    BY <2>5 DEF PollTotal
  <2>6. CASE PollDone
    BY <2>6 DEF PollDone, EofModeAfter
  <2>7. CASE TimerFires \/ Wipeout
    BY <2>7 DEF TimerFires, Wipeout
  <2>8. CASE JumpToEof
    BY <2>8 DEF JumpToEof
  <2>9. CASE JumpToLine
    BY <2>9 DEF JumpToLine
  <2>10. QED
    BY <2>1, <2>2, <2>3, <2>4, <2>5, <2>6, <2>7, <2>8, <2>9 DEF MainThread
<1>7. TotalsSeen'
  <2> SUFFICES ASSUME NoTabs, OneWindow
               PROVE  /\ total' <= FinalTotal
                      /\ ~is_fixed_width /\ (announced' \/ step' = "done") =>
                           Feeds(LastMissing) <= total'
    BY <1>3 DEF TotalsSeen
  <2>1. /\ original_total_lines <= FinalTotal
        /\ ~is_fixed_width /\ ProgressComplete => Feeds(LastMissing) <= original_total_lines
    BY CompleteReaches, LinesSeen DEF IndexSeen
  <2>2. /\ total <= FinalTotal
        /\ ~is_fixed_width /\ (announced \/ step = "done") => Feeds(LastMissing) <= total
    BY DEF Editor, TotalsSeen
  <2>3. complete => ProgressComplete
    BY DEF Editor, SeenComplete
  <2>4. CASE Attach
    BY <2>1, <2>4 DEF Attach, GetProgress, TotalLines, Editor, SeenComplete
  <2>5. CASE Setup
    BY <2>1, <2>3, <2>5 DEF Setup, TotalLines
  <2>6. CASE PollTotal
    BY <2>1, <2>3, <2>6 DEF PollTotal, TotalLines, Editor, SeenComplete, history
  <2>7. CASE PollDone
    BY <2>2, <2>7 DEF PollDone
  <2>8. CASE PollGone \/ PollProgress \/ TimerFires \/ JumpToEof \/ JumpToLine \/ Wipeout
    <3>1. total' = total /\ announced' = announced /\ step' # "done"
      BY <2>8 DEF PollGone, PollProgress, TimerFires, JumpToEof, JumpToLine, Wipeout, buffer, history
    <3>2. QED
      BY <2>2, <3>1
  <2>9. QED
    BY <2>4, <2>5, <2>6, <2>7, <2>8 DEF MainThread
<1>8. QED
  BY <1>2, <1>5, <1>6, <1>7 DEF Editor

(* In every reachable state progress that was complete still is, and the   *)
(* numbers the editor holds were asked for in the right order.             *)
THEOREM EditorInvariant == PollSpec => [](IndexSeen /\ Editor)
<1>1. PollInit => IndexSeen /\ Editor
  BY InitSeen
<1>2. IndexSeen /\ Editor /\ [PollNext]_pollVars => IndexSeen' /\ Editor'
  <2> SUFFICES ASSUME IndexSeen, Editor, [PollNext]_pollVars PROVE IndexSeen' /\ Editor'
    OBVIOUS
  <2>1. CASE PollNext
    BY <2>1, IndexerSeen, EditorSeen DEF PollNext
  <2>2. CASE UNCHANGED pollVars
    <3>1. UNCHANGED <<opened, index, bytes_processed, indexer, reader, cancel, step, buffer, timer,
                      queued, history>>
      BY <2>2 DEF pollVars, vars
    <3>2. IndexSeen' /\ (ProgressComplete' <=> ProgressComplete)
      BY <3>1, EditorLeavesIndex
    <3>3. Editor'
      BY <3>1, <3>2, FileStays DEF Editor, EditorTypes, SeenComplete, TotalsSeen, buffer, history
    <3>4. QED
      BY <3>2, <3>3
  <2>3. QED
    BY <2>1, <2>2
<1>3. QED
  BY <1>1, <1>2, PTL DEF PollSpec

(* The editor never holds more lines than the file can have, nor more      *)
(* callbacks than the bound.                                               *)
THEOREM PollTypesCorrect == PollSpec => []PollTypeOK
<1>1. IndexSeen /\ Editor => PollTypeOK
  <2> SUFFICES ASSUME IndexSeen, Editor PROVE PollTypeOK
    OBVIOUS
  <2>1. Len(file) \in Nat
    BY LenProperties DEF IndexSeen, Indexed, Opened, FilesAreBytes
  <2>2. NoRead \in ReaderType /\ NoRead.pc # "half"
    BY <2>1, SMT DEF NoRead, ReaderType
  <2>3. Reading
    BY <2>2 DEF Reading, Editor, EditorTypes
  <2>4. TypeOK
    BY <2>3, TypesFollow DEF IndexSeen
  <2>5. QED
    BY <2>4 DEF PollTypeOK, Editor, EditorTypes
<1>2. QED
  BY <1>1, EditorInvariant, PTL

(* A view of the end of the file gets line numbers when the end of         *)
(* indexing is announced, and never again a view without.                  *)
THEOREM EofModeIsLeft == PollSpec => []EofModeEnds
<1>1. IndexSeen /\ Editor => EofModeEnds
  BY DEF Editor, SeenComplete, EofModeEnds
<1>2. QED
  BY <1>1, EditorInvariant, PTL

(* The number that is announced lacks no lines but those of the last       *)
(* chunk, or of the last two, whatever the chunk size: bytes_processed is  *)
(* stored before its chunk is published, but after all others were, and an *)
(* f32 next to the length of the file is not more than a chunk from it.    *)
THEOREM AnnouncedTotalIsNear == PollSpec => []OnlyLastChunksMissing
<1>1. IndexSeen /\ Editor => OnlyLastChunksMissing
  <2> SUFFICES ASSUME IndexSeen, Editor, announced, NoTabs, OneWindow
               PROVE  /\ ~is_fixed_width => total >= count_newlines(0, LastMissing)
                      /\ total <= FinalTotal
    BY DEF OnlyLastChunksMissing
  <2>1. FilesAreBytes
    BY DEF IndexSeen, Indexed, Opened
  <2>2. count_newlines(0, LastMissing) = Feeds(LastMissing)
    BY <2>1, ScansAreExact DEF Feeds
  <2>3. Feeds(LastMissing) \in Nat /\ total \in Nat
    <3>1. Feeds(LastMissing) \in Nat
      BY LinesSeen DEF IndexSeen
    <3>2. Len(file) \in Nat
      BY <2>1, LenProperties DEF FilesAreBytes
    <3>3. total \in Nat
      BY <3>2, SMT DEF Editor, EditorTypes
    <3>4. QED
      BY <3>1, <3>3
  <2>4. /\ ~is_fixed_width => Feeds(LastMissing) <= total
        /\ total <= FinalTotal
    BY DEF Editor, TotalsSeen
  <2> DEFINE x == Feeds(LastMissing)
  <2>5. x \in Nat /\ (~is_fixed_width => x <= total)
    BY <2>3, <2>4
  <2> HIDE DEF x
  <2>6. ~is_fixed_width => total >= x
    BY <2>3, <2>5, SMT
  <2>7. QED
    BY <2>2, <2>4, <2>6 DEF x
<1>2. QED
  BY <1>1, EditorInvariant, PTL
=============================================================================
