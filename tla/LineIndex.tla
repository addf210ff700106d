------------------------------ MODULE LineIndex ------------------------------
(***************************************************************************)
(* The line index of the original file (src/core.rs): where each line of   *)
(* the memory-mapped file begins. A background thread scans the file chunk *)
(* by chunk and publishes, for every chunk, the number of line feeds in    *)
(* front of it (build_index_sequential); without lazy the whole index is   *)
(* built before new returns (build_index_rayon). Readers turn line numbers *)
(* into byte offsets (calc_offset) while the index is still growing; a     *)
(* read of a range of lines asks twice, and the index may grow in between. *)
(*                                                                         *)
(* A file whose beginning is one huge line has no index: its "lines" are   *)
(* FixedSize bytes each, cut at a separator near by.                       *)
(*                                                                         *)
(* A build for 32 bits has another pager (src/core/pager_32.rs): get_chunk *)
(* stops at the end of a window, and a usize holds less than a length of   *)
(* the file. Reads that fail there are left out (see Pager32).             *)
(***************************************************************************)
EXTENDS ByteScan

CONSTANTS Files,          \* contents of the file: sequences of bytes
          ChunkSize,      \* bytes the background thread scans at a time
          RayonChunkSize, \* bytes of a chunk of the parallel builder
          SliceSize,      \* bytes that calc_offset searches at a time
          SampleSize,     \* bytes that are looked at for a huge line
          FixedSize,      \* fixed_width_size
          WINDOW_SIZE,    \* bytes of a window of the pager for 32 bits
          Usize           \* how many values a usize of 32 bits has

ASSUME ChunkAssumption ==
  /\ ChunkSize \in Nat \ {0} /\ RayonChunkSize \in Nat \ {0}
  /\ SampleSize \in Nat /\ FixedSize \in Nat \ {0} /\ Lookback < FixedSize
  /\ \A f \in Files : f \in Seq(Bytes)

(* The sample, the chunks of the parallel builder and the bytes in front of *)
(* a cut lie in one window each; those of the thread and of calc_offset    *)
(* need not.                                                               *)
ASSUME PagerAssumption ==
  /\ WINDOW_SIZE \in Nat \ {0} /\ SampleSize <= WINDOW_SIZE
  /\ WINDOW_SIZE % RayonChunkSize = 0 /\ WINDOW_SIZE % FixedSize = 0
  /\ SliceSize \in Nat \ {0}
  /\ Usize \in Nat /\ 2 * WINDOW_SIZE <= Usize

VARIABLES
  file,                 \* the bytes of the file; they never change
  avx2,                 \* what the processor can do
  narrow,               \* the build is one for 32 bits
  is_fixed_width,       \* the file is cut into pieces of fixed width
  chunks,               \* IndexState: offset and first line of each chunk
  original_total_lines, \* IndexState: lines in the published chunks
  is_finished,          \* IndexState: the whole file is indexed
  bytes_processed,      \* atomic, written without the lock of the index
  cancel,               \* the engine was freed
  pc, offset, current_line, local_chunks,  \* the indexer thread
  reader                \* one read of a range of lines

opened == <<file, avx2, narrow, is_fixed_width>>
index == <<chunks, original_total_lines, is_finished>>
indexer == <<pc, offset, current_line, local_chunks>>
vars == <<opened, index, bytes_processed, cancel, indexer, reader>>

Chunk(at, line) == [byte_offset |-> at, start_line |-> line]
NoRead == [pc |-> "idle", first |-> 0, count |-> 0, start |-> 0, end |-> 0]

-----------------------------------------------------------------------------
(* The pager.                                                              *)

AsUsize(n) == IF narrow THEN n % Usize ELSE n

(* get_chunk(from, len): the position behind the last byte of the slice.   *)
ChunkEnd(from, len) ==
  Min({from + len, Len(file)}
        \union {window \in {(from \div WINDOW_SIZE + 1) * WINDOW_SIZE} : narrow})

-----------------------------------------------------------------------------
(* The builders.                                                           *)

count_newlines(from, to) == CountNewlines(file, avx2, from, to)

(* The last line may lack its terminator; a file of some bytes has a line. *)
(* Mutant of FinalLines: an unterminated last line is forgotten.           *)
FinalLinesTerminated(counted) == counted

FinalLines(counted) ==
  IF file = << >> THEN counted
  ELSE LET n == IF Last(file) \in {"nl", "cr"} THEN counted ELSE counted + 1
       IN  IF n = 0 THEN 1 ELSE n

DivUp(a, b) == (a + b - 1) \div b

(* What the parallel builder counts up to a position: the bytes that are   *)
(* counted in their own chunk, which never goes over the end of a window.  *)
RayonCount(to) ==
  Cardinality({i \in 1 .. Len(file) :
     /\ i <= to
     /\ LET at == ((i - 1) \div RayonChunkSize) * RayonChunkSize
            end == IF at + RayonChunkSize < Len(file) THEN at + RayonChunkSize ELSE Len(file)
        IN  file[i] = "nl" \/ Miscounted(file, avx2, at, end, i)})

RayonChunks ==
  [i \in 1 .. DivUp(Len(file), RayonChunkSize) |->
     Chunk((i - 1) * RayonChunkSize, RayonCount((i - 1) * RayonChunkSize))]

(* Mutant of Take: a whole chunk, also at the end of the file.             *)
TakeWhole(rem) == ChunkSize

Take(rem) == IF AsUsize(rem) < ChunkSize THEN AsUsize(rem) ELSE ChunkSize

-----------------------------------------------------------------------------
(* calc_offset.                                                            *)

(* The branchless binary search: one step halves the range of len chunks   *)
(* that begins at base (from 0, as in the code).                           *)
StartLine(k) == chunks[k + 1].start_line

(* Mutant of Halved: the upper half is taken one chunk too late.           *)
HalvedLate(base, half, line) == IF StartLine(base + half) < line THEN base + half ELSE base

Halved(base, half, line) == IF StartLine(base + half) <= line THEN base + half ELSE base

ChunkIdx(line) ==
  LET search[len \in Nat] ==
        [base \in Nat |->
           IF len <= 1 THEN base
           ELSE search[len - len \div 2][Halved(base, len \div 2, line)]]
      base_idx == search[Len(chunks)][0]
  IN  IF base_idx + 1 < Len(chunks) /\ StartLine(base_idx + 1) <= line
      THEN base_idx + 1 ELSE base_idx

(* Mutant of AfterTerminator: a line feed after a carriage return is taken *)
(* for a line of its own.                                                  *)
AfterOneByte(i) == i

(* The offset behind the terminator at position i (counted from 1).        *)
AfterTerminator(i) ==
  IF file[i] = "cr" /\ i < Len(file) /\ file[i + 1] = "nl" THEN i + 1 ELSE i

(* The search from `at` comes to byte i: the slices before its own are not *)
(* taken for the last, and its own reaches it in its window.               *)
Seen(at, i) ==
  LET before == (i - 1 - at) \div SliceSize
      start == at + before * SliceSize
  IN  /\ \A k \in 0 .. before - 1 : AsUsize(Len(file) - (at + k * SliceSize)) > SliceSize
      /\ i <= ChunkEnd(start, AsUsize(Len(file) - start))

(* n terminators further, each a line feed, a carriage return or both.     *)
Skip(from, n) ==
  LET ends(at) == {i \in at + 1 .. Len(file) : file[i] \in {"nl", "cr"} /\ Seen(at, i)}
      skip[left \in Nat] ==
        [at \in Nat |-> IF left = 0 THEN at
                        ELSE IF ends(at) = {} THEN Len(file)
                        ELSE skip[left - 1][AfterTerminator(Min(ends(at)))]]
  IN  skip[n][from]

(* A file of fixed width: near a multiple of FixedSize. *)
FixedOffset(line) ==
  LET at == AsUsize(line * FixedSize)
      base == IF at < Len(file) THEN at ELSE Len(file)
  IN  IF base \in {0, Len(file)} THEN base ELSE FindSafeCut(file, avx2, base)

calc_offset(line) ==
  IF is_fixed_width THEN FixedOffset(line)
  ELSE IF line >= original_total_lines
  THEN IF is_finished THEN Len(file) ELSE bytes_processed
  ELSE LET chunk == chunks[ChunkIdx(line) + 1]
       IN  Skip(chunk.byte_offset, line - chunk.start_line)

-----------------------------------------------------------------------------
(* new: a file that begins with a huge line needs no index; otherwise the  *)
(* indexer thread begins, or the index is built at once.                   *)

Monstrous ==
  LET size == AsUsize(Len(file))
  IN  IsMonsterLine(SubSeq(file, 1, IF size < SampleSize THEN size ELSE SampleSize), avx2)

(* The file is shorter than 2^32 bytes, or usize is wider. *)
Indexable == narrow => Len(file) < Usize

FixedLines == DivUp(Len(file), FixedSize)

FixedWidth ==
  /\ Monstrous /\ is_fixed_width = TRUE
  /\ chunks = << >> /\ original_total_lines = FixedLines /\ is_finished = TRUE
  /\ bytes_processed = Len(file)
  /\ pc = "finished"

Lazily ==
  /\ ~Monstrous /\ is_fixed_width = FALSE
  /\ chunks = << >> /\ original_total_lines = 0 /\ is_finished = FALSE
  /\ bytes_processed = 0
  /\ pc = "scan"

(* (With 32 bits the offsets of the chunks of a longer file are products   *)
(* that wrap around; left out.)                                            *)
AtOnce ==
  /\ ~Monstrous /\ is_fixed_width = FALSE /\ Indexable
  /\ chunks = RayonChunks
  /\ original_total_lines = FinalLines(RayonCount(Len(file)))
  /\ is_finished = TRUE
  /\ bytes_processed = Len(file)
  /\ pc = "finished"

Init ==
  /\ file \in Files /\ avx2 \in BOOLEAN /\ narrow \in BOOLEAN
  /\ avx2 => ~narrow   \* #[cfg(target_arch = "x86_64")]
  /\ FixedWidth \/ Lazily \/ AtOnce
  /\ offset = 0 /\ current_line = 0 /\ local_chunks = << >>
  /\ cancel = FALSE
  /\ reader = NoRead

(* Mutant of AfterCancel: `continue` instead of `return`.                  *)
ScanAfterCancel == "scan"

AfterCancel == "cancelled"

(* The head of the indexer's loop: the cancel token is looked at once per  *)
(* chunk.                                                                  *)
IndexCancelled ==
  /\ pc = "scan" /\ offset < Len(file) /\ cancel
  /\ pc' = AfterCancel
  /\ UNCHANGED <<opened, index, bytes_processed, cancel, offset, current_line,
                 local_chunks, reader>>

(* With 32 bits and a multiple of 2^32 bytes to go, take is 0: the thread  *)
(* goes round for ever and publishes empty chunks, which no lookup ever    *)
(* uses. The model stays here.                                             *)
IndexCheck ==
  /\ pc = "scan" /\ offset < Len(file) /\ ~cancel
  /\ Take(Len(file) - offset) # 0
  /\ pc' = "count"
  /\ UNCHANGED <<opened, index, bytes_processed, cancel, offset, current_line,
                 local_chunks, reader>>

(* Mutant of Processed: the progress of the previous chunk is stored.      *)
ProcessedBefore == offset

(* Another: the length of the file is stored.                              *)
ProcessedAll == Len(file)

(* What is stored in bytes_processed for the chunk just counted. *)
Processed == offset + Take(Len(file) - offset)

(* Count what get_chunk returns of a chunk, and go on behind the chunk;    *)
(* bytes_processed is stored before the chunk is published.                *)
IndexCount ==
  /\ pc = "count"
  /\ local_chunks' = Append(local_chunks, Chunk(offset, current_line))
  /\ offset' = offset + Take(Len(file) - offset)
  /\ current_line' = current_line
                        + count_newlines(offset, ChunkEnd(offset, Take(Len(file) - offset)))
  /\ bytes_processed' = Processed
  /\ pc' = "publish"
  /\ UNCHANGED <<opened, index, cancel, reader>>

(* Mutant of Published: the line that the chunk leaves open is counted.    *)
PublishedOpen == current_line + 1

Published == current_line

(* Under the write lock of the index. *)
IndexPublish ==
  /\ pc = "publish"
  /\ chunks' = chunks \o local_chunks
  /\ local_chunks' = << >>
  /\ original_total_lines' = Published
  /\ pc' = "scan"
  /\ UNCHANGED <<opened, is_finished, bytes_processed, cancel, offset, current_line, reader>>

(* The whole file is scanned: the last publication, also under the lock.   *)
IndexFinish ==
  /\ pc = "scan" /\ offset >= Len(file)
  /\ chunks' = chunks \o local_chunks
  /\ original_total_lines' = FinalLines(current_line)
  /\ is_finished' = TRUE
  /\ bytes_processed' = Len(file)
  /\ pc' = "finished"
  /\ UNCHANGED <<opened, cancel, offset, current_line, local_chunks, reader>>

Indexer == IndexCancelled \/ IndexCheck \/ IndexCount \/ IndexPublish \/ IndexFinish

(* get_original_bytes, get_block and save_async: the offset of the first   *)
(* line, then the offset behind the last. Pieces of the table only have    *)
(* lines that were published.                                              *)
ReadFirst(first, count) ==
  /\ reader.pc = "idle" /\ ~cancel
  /\ first + count <= original_total_lines
  /\ reader' = [pc |-> "half", first |-> first, count |-> count,
                start |-> calc_offset(first), end |-> 0]
  /\ UNCHANGED <<opened, index, bytes_processed, cancel, indexer>>

ReadLast ==
  /\ reader.pc = "half"
  /\ reader' = [reader EXCEPT !.pc = "done", !.end = calc_offset(reader.first + reader.count)]
  /\ UNCHANGED <<opened, index, bytes_processed, cancel, indexer>>

ReadReturns ==
  /\ reader.pc = "done"
  /\ reader' = NoRead
  /\ UNCHANGED <<opened, index, bytes_processed, cancel, indexer>>

(* log_engine_free, by the thread that also reads. *)
Free ==
  /\ reader.pc = "idle" /\ ~cancel
  /\ cancel' = TRUE
  /\ UNCHANGED <<opened, index, bytes_processed, indexer, reader>>

Next ==
  \/ Indexer
  \/ \E first \in 0 .. original_total_lines, count \in 1 .. original_total_lines :
       ReadFirst(first, count)
  \/ ReadLast \/ ReadReturns \/ Free

(* The indexer is a thread of its own that waits for nothing but a lock    *)
(* that readers hold for a moment.                                         *)
Spec == Init /\ [][Next]_vars /\ WF_vars(Indexer)

-----------------------------------------------------------------------------
(* What a line is, independently of chunks: line feeds end lines.          *)

LineFeeds == {i \in 1 .. Len(file) : file[i] = "nl"}
LineStart(line) ==
  IF line = 0 THEN 0
  ELSE IF Cardinality(LineFeeds) < line THEN Len(file)
  ELSE CHOOSE i \in LineFeeds : Cardinality({j \in LineFeeds : j <= i}) = line

(* No carriage return stands alone. *)
NoBareCR == \A i \in 1 .. Len(file) : file[i] = "cr" => i < Len(file) /\ file[i + 1] = "nl"

(* No byte is there that a scanner can take for a line feed. *)
NoTabs == \A i \in 1 .. Len(file) : file[i] # "vt"

(* No read is cut short by the pager, and no length wraps around. *)
OneWindow == narrow => Len(file) <= WINDOW_SIZE

(* Lines end with a line feed, and every line feed is counted once. *)
Plain == ~is_fixed_width /\ NoBareCR /\ NoTabs /\ OneWindow

(* The number of lines of a file that is wholly indexed. *)
AllLines == IF is_fixed_width THEN FixedLines ELSE FinalLines(Cardinality(LineFeeds))

(* A chunk begins in the middle of this line. *)
CutByChunk(line) ==
  \E k \in 1 .. Len(chunks) :
    /\ chunks[k].start_line = line
    /\ chunks[k].byte_offset # LineStart(line)

-----------------------------------------------------------------------------
TypeOK ==
  /\ file \in Files /\ avx2 \in BOOLEAN /\ narrow \in BOOLEAN
  /\ is_fixed_width \in BOOLEAN
  /\ chunks \in Seq([byte_offset : 0 .. Len(file), start_line : Nat])
  /\ original_total_lines \in 0 .. Len(file) + 1
  /\ is_finished \in BOOLEAN /\ cancel \in BOOLEAN
  /\ bytes_processed \in 0 .. Len(file)
  /\ pc \in {"scan", "count", "publish", "finished", "cancelled"}
  /\ offset \in 0 .. Len(file) /\ current_line \in Nat
  /\ Len(local_chunks) <= 1
  /\ reader.pc \in {"idle", "half", "done"}
  /\ reader.start \in 0 .. Len(file) /\ reader.end \in 0 .. Len(file)

(* The branchless search finds the last chunk that begins at or before the *)
(* line, whatever chunks without a line feed stand side by side.           *)
SearchFindsLastChunk ==
  ~is_fixed_width =>
  \A line \in 0 .. original_total_lines - 1 :
    ChunkIdx(line) + 1 = Max({k \in 1 .. Len(chunks) : chunks[k].start_line <= line})

(* Both builders count the lines of the file, wherever its chunks end.     *)
CountCorrect ==
  is_finished /\ Plain =>
    original_total_lines =
      Cardinality(LineFeeds) + (IF file # << >> /\ Last(file) # "nl" THEN 1 ELSE 0)

(* The line feeds the thread has gone over without their being in the slice *)
(* of their chunk.                                                         *)
Hidden ==
  {i \in LineFeeds :
     i <= offset /\ ChunkEnd(((i - 1) \div ChunkSize) * ChunkSize, ChunkSize) < i}

(* Two things alone make the count wrong, in any build: a vertical tab     *)
(* directly behind a line feed may be taken for a line, because of the     *)
(* borrow, and with 32 bits the thread never sees what a chunk has behind  *)
(* the end of a window, and loses at most the line feeds there.            *)
ScanCounts ==
  is_finished /\ ~is_fixed_width /\ NoBareCR /\ file # << >> =>
    LET exact == Cardinality(LineFeeds) + (IF Last(file) = "nl" THEN 0 ELSE 1)
        tabs == {i \in 1 .. Len(file) : file[i] = "vt" /\ Borrowed(file, "nl", "vt", 0, i)}
    IN  original_total_lines \in exact - Cardinality(Hidden) .. exact + Cardinality(tabs)

(* The offset of a published line is the beginning of that line, during    *)
(* and after indexing, unless a chunk begins in the middle of the line.    *)
(* Files with lone carriage returns are left out: they end a line for      *)
(* calc_offset and none for count_newlines.                                *)
OffsetExact ==
  Plain =>
    \A line \in 0 .. original_total_lines - 1 :
      ~CutByChunk(line) => calc_offset(line) = LineStart(line)

(* A line keeps its offset once it is published: later chunks and the end  *)
(* of indexing move no line that a piece of the table may already have.    *)
OffsetStable ==
  [][\A line \in 0 .. original_total_lines - 1 : calc_offset(line)' = calc_offset(line)]_vars

(* A read that is overtaken by the indexer neither ends before it begins   *)
(* (end - start is unsigned) nor loses a byte of its last line. Bytes that *)
(* are counted and end no line are left out: a chunk with more lines than  *)
(* terminators leads the way to one of its last lines over the beginning   *)
(* of the next chunk, and there the difference does wrap.                  *)
ReadCovers ==
  reader.pc = "done" =>
    /\ NoTabs /\ OneWindow => reader.start <= reader.end
    /\ Plain => LineStart(reader.first + reader.count) <= reader.end

(* The indexer ends, also when it is cancelled, if lengths fit in a usize. *)
IndexerEnds == Indexable => <>(pc \in {"finished", "cancelled"})

(* Refuted: line_to_byte_offset "converts a logical line number into an    *)
(* absolute byte offset", so in an indexed file every line should begin    *)
(* where the previous one ends.                                            *)
LineBeginsAtItsOffset ==
  is_finished /\ Plain =>
    \A line \in 0 .. original_total_lines - 1 : calc_offset(line) = LineStart(line)
=============================================================================
