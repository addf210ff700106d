----------------------------- MODULE FileBlocks -----------------------------
(***************************************************************************)
(* Blocks of the file that are made without the piece table being edited:  *)
(* the lines of a file of fixed width (get_block, save, save_async), the   *)
(* end of a file whose index is not complete (get_eof_block), and the line *)
(* a search reports for a match in a file of fixed width (src/c_api.rs).   *)
(***************************************************************************)
EXTENDS LineIndex

(* Lines first + 1 .. first + n, as they lie in the file. *)
LineBytes(line) ==
  LET start == calc_offset(line)
      end == calc_offset(line + 1)
  IN  IF start < end THEN SubSeq(file, start + 1, ChunkEnd(start, AsUsize(end - start)))
      ELSE << >>
SavedLines(first, n) == FlattenSeq([i \in 1 .. n |-> LineBytes(first + i - 1)])

(* For the editor each of them gets a line feed. *)
ShownLines(first, n) ==
  FlattenSeq([i \in 1 .. n |-> Append(LineBytes(first + i - 1), "nl")])

Terminated(block) ==
  IF block = << >> \/ Last(block) = "nl" THEN block ELSE Append(block, "nl")

(* Mutant of LineFeedsBack: the last byte of the file is not thought of.   *)
LineFeedsBackShort(num_lines) == num_lines

LineFeedsBack(num_lines) == num_lines + 1

(* Backwards from the end, over so many line feeds. *)
EofStart(num_lines) ==
  LET starts == {i \in LineFeeds :
                   Cardinality({j \in LineFeeds : i <= j}) = LineFeedsBack(num_lines)}
  IN  IF starts = {} THEN 0 ELSE Max(starts)

EofLine(num_lines) ==
  IF original_total_lines < num_lines THEN 0 ELSE original_total_lines - num_lines

GetEofBlock(num_lines) ==
  IF file = << >> \/ num_lines = 0 THEN << >>
  ELSE IF is_fixed_width THEN ShownLines(EofLine(num_lines), num_lines)
  ELSE LET start == EofStart(num_lines)
       IN  Terminated(SubSeq(file, start + 1, ChunkEnd(start, AsUsize(Len(file) - start))))

(* Mutant of FoundLine: the position in the file instead of in the slice.  *)
FoundLineOfFile(first, pos) == first + (calc_offset(first) + pos) \div FixedSize

(* The line of a match `pos` bytes behind the beginning of line `first`. *)
FoundLine(first, pos) == first + pos \div FixedSize

-----------------------------------------------------------------------------
Fixed == is_fixed_width /\ OneWindow /\ reader.pc = "idle"

(* The lines of a file of fixed width lie side by side, none is empty or   *)
(* much too long, and together they are the file: cuts that were moved to  *)
(* separators do not overtake each other, with AVX2 or without, and saving *)
(* a file that was not edited gives back its bytes.                        *)
FixedLinesCover ==
  Fixed =>
    /\ SavedLines(0, original_total_lines) = file
    /\ \A line \in 0 .. original_total_lines - 1 :
         Len(LineBytes(line)) \in 1 .. FixedSize + Lookback - 1

(* A search in a file of fixed width divides the position of the match by  *)
(* the width, though cuts are moved: it is off by one line at most.        *)
FoundNearby ==
  Fixed =>
    \A first, line \in 0 .. original_total_lines - 1 :
      \A at \in calc_offset(line) .. calc_offset(line + 1) - 1 :
        first <= line => FoundLine(first, at - calc_offset(first)) \in line - 1 .. line + 1

(* G while the file is indexed shows the last lines of the file: as many   *)
(* as were asked for (one more if the last is not terminated), from the    *)
(* beginning of a line on, whatever the index knows.                       *)
EofBlockIsTail ==
  reader.pc = "idle" /\ file # << >> /\ OneWindow =>
    \A n \in 1 .. Len(file) + 1 :
      LET block == GetEofBlock(n)
          ends == Cardinality({i \in DOMAIN block : block[i] = "nl"})
          all == Cardinality(LineFeeds) + (IF Last(file) = "nl" THEN 0 ELSE 1)
          open == IF Last(file) = "nl" THEN 0 ELSE 1
      IN  IF is_fixed_width
          THEN IsPrefix(ShownLines(EofLine(n), original_total_lines - EofLine(n)), block)
          ELSE /\ IsSuffix(block, Terminated(file))
               /\ ends = (IF n + open < all THEN n + open ELSE all)
               /\ Len(block) < Len(Terminated(file)) =>
                    Terminated(file)[Len(Terminated(file)) - Len(block)] = "nl"
=============================================================================
