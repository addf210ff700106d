------------------------------- MODULE Search -------------------------------
(***************************************************************************)
(* The searches of the editor (log_engine_search, _backward in             *)
(* src/c_api.rs; do_search, n and N in lua/juanlog/commands.lua), which    *)
(* walk the piece table from a line towards a limit.                       *)
(*                                                                         *)
(* Lines of the file are searched as bytes: those from calc_offset of one  *)
(* line to calc_offset of another. By a line of the file is meant here     *)
(* what lies between its offset and that of the next (see LineIndex), so   *)
(* a match lies inside of one, or begins in one and ends in the next: in a *)
(* file of fixed width, and where a chunk of the index begins in the       *)
(* middle of a line. A query is the set of the lines it matches inside and *)
(* of those in which a match begins that goes over to the next. (Longer    *)
(* matches, lone carriage returns, miscounted bytes and reads that the     *)
(* pager for 32 bits cuts short are left out.)                             *)
(*                                                                         *)
(* Where in the bytes the match was is turned into a number of lines: by a *)
(* division in a file of fixed width, which is off by one at most          *)
(* (FoundNearby), else by counting line feeds, which gives the next number *)
(* for the beginning of a line that has its offset in the middle. `slip`   *)
(* is that difference.                                                     *)
(*                                                                         *)
(* A read of the last published line of a file that is still indexed runs  *)
(* on to bytes_processed and beyond: `extra` is the number of lines of the *)
(* file that such a read sees behind the published ones.                   *)
(***************************************************************************)
EXTENDS PieceTable

CONSTANT Queries    \* what is searched for

ASSUME QueriesAssumption ==
  Queries \subseteq [lines : SUBSET ((0 .. FileLines - 1) \union (Text \ {EmptyLine})),
                     over : SUBSET (0 .. FileLines - 2)]

-----------------------------------------------------------------------------
(* Looking at lines. Positions are lines of a piece, counted from 0.       *)

Less(a, b) == IF a < b THEN a ELSE b
More(a, b) == IF a < b THEN b ELSE a
Monus(a, b) == More(a - b, 0)   \* saturating_sub

Line(i, k) == IF IsOriginal(pieces[i]) THEN pieces[i].start + k
              ELSE Buffer(i)[pieces[i].start + k + 1]

(* Mutant of Seen: the limit of the search is not looked at.               *)
SeenAll(i, from, n, extra) == from .. pieces[i].count - 1

(* The positions whose bytes are looked at when n lines of piece i are     *)
(* wanted. Of the file there is nothing behind the last byte.              *)
Seen(i, from, n, extra) ==
  IF IsMemory(pieces[i]) THEN from .. from + n - 1
  ELSE LET end == pieces[i].start + from + n
           seen == IF end >= original_total_lines THEN original_total_lines + extra ELSE end
       IN  from .. seen - pieces[i].start - 1

Hits(query, i, from, n, extra) ==
  LET seen == Seen(i, from, n, extra)
  IN  {k \in seen : \/ Line(i, k) \in query.lines
                    \/ Line(i, k) \in query.over /\ k + 1 \in seen}

(* How many lines behind the first one that was read a match is said to be. *)
Reported(i, lines, slip) ==
  IF IsMemory(pieces[i]) THEN lines ELSE More(lines + slip, 0)

(* find_piece_idx: <<piece, line of the piece>>, one past the end.         *)
Find(line) ==
  IF line >= total_lines THEN <<Len(pieces) + 1, 0>>
  ELSE LET i == CHOOSE k \in DOMAIN pieces :
                  LinesBefore(pieces, k) <= line /\ line < LinesBefore(pieces, k + 1)
       IN  <<i, line - LinesBefore(pieces, i)>>

-----------------------------------------------------------------------------
(* The walks.                                                              *)

(* The line at the limit is searched. *)
Wanted(available, line, end) == Less(available, Monus(end, line) + 1)

Forward(query, start, end, extra, slip) ==
  LET walk[i \in 1 .. Len(pieces) + 1] ==
        [off \in Nat |-> [line \in Int |->
          IF i > Len(pieces) \/ line > end THEN -1
          ELSE LET available == pieces[i].count - off
                   hits == Hits(query, i, off, Wanted(available, line, end), extra)
               IN  IF hits # {} THEN line + Reported(i, Min(hits) - off, slip)
                   ELSE walk[i + 1][0][line + available]]]
  IN  walk[Find(start)[1]][Find(start)[2]][start]

(* Mutant of Floor: the piece is searched from its first line, below the   *)
(* limit.                                                                  *)
FloorAtPiece(first, end) == 0

(* Lines of a piece that begins at `first` and lie below the limit. *)
Floor(first, end) == Monus(end, first)

(* From past the end, the walk starts at the last line of the last piece,  *)
(* under the number that was asked for.                                    *)
Backward(query, start, end, extra, slip) ==
  LET walk[i \in 1 .. Len(pieces)] ==
        [off \in Nat |-> [line \in Nat |->
          LET first == Monus(line, off)
              skip == Floor(first, end)
              hits == Hits(query, i, skip, off + 1 - skip, extra)
          IN  IF line < end THEN -1
              ELSE IF hits # {} THEN first + skip + Reported(i, Max(hits) - skip, slip)
              ELSE IF i = 1 THEN -1
              ELSE walk[i - 1][Monus(pieces[i - 1].count, 1)][Monus(first, 1)]]]
      last == Len(pieces)
  IN  IF start < total_lines THEN walk[Find(start)[1]][Find(start)[2]][start]
      ELSE walk[last][Monus(pieces[last].count, 1)][start]

(* Mutant of Nearer: the match above always wins.                          *)
NearerUp(down, up, line) == up

Nearer(down, up, line) == IF line - up < down - line THEN up ELSE down

(* do_search: the nearest match of both directions; the line of the cursor *)
(* itself is not searched. -1 when there is none.                          *)
DoSearch(query, line, limit_start, limit_end, extra, slip) ==
  LET start_down == More(line + 1, limit_start)
      start_up == Less(Monus(line, 1), limit_end)
      down == IF start_down > limit_end THEN -1
              ELSE Forward(query, start_down, limit_end, extra, slip.down)
      up == IF start_up < limit_start \/ line = 0 THEN -1
            ELSE Backward(query, start_up, limit_start, extra, slip.up)
  IN  IF down >= 0 /\ up >= 0 THEN Nearer(down, up, line) ELSE More(down, up)

-----------------------------------------------------------------------------
(* What the searches promise, with reference to the lines of the document. *)

(* The table after the sync that a search begins with. *)
Searchable == pc = "idle" /\ indexed_lines_added = original_total_lines

(* The division is off to either side, but such a file is wholly indexed.  *)
Slips(extra) == IF extra = 0 THEN -1 .. 1 ELSE 0 .. 1

(* This line of the document and the next are of one piece. *)
Joined(m) ==
  \E i \in DOMAIN pieces : LinesBefore(pieces, i) <= m /\ m + 1 < LinesBefore(pieces, i + 1)

(* The lines in which a match begins that ends at the limit or before. An  *)
(* edit puts what is on its two sides apart.                               *)
Matches(doc, query, from, to) ==
  LET last == Less(to, Len(doc) - 1)
  IN  {m \in from .. last : \/ doc[m + 1] \in query.lines
                            \/ doc[m + 1] \in query.over /\ m < last /\ Joined(m)}

(* A lazily opened file that was edited before its first line was known    *)
(* keeps an empty piece.                                                   *)
NoEmptyPiece == \A i \in DOMAIN pieces : pieces[i].count > 0

(* The last published line of the file, if it is still in the table.       *)
LastPublished == {LinesBefore(pieces, i + 1) - 1 : i \in {j \in DOMAIN pieces :
             IsOriginal(pieces[j]) /\ End(pieces[j]) = original_total_lines}}

(* The number of line m, or that of a neighbour, but none below the range  *)
(* of lines that is searched.                                              *)
Numbers(m, slip, from) == {number \in {m, m + slip} : number >= from}

(* An answer is right, or the match was seen behind the published lines.   *)
Answers(found, right, extra) ==
  found \in right \/ (extra > 0 /\ \E line \in LastPublished : found >= line)

(* log_engine_search reports the first match between the two lines,        *)
(* wherever the pieces lie, and no other: under the number of its line, or *)
(* of a neighbour by as much as the number may slip. While the file is     *)
(* indexed a wrong answer is never before the end of the indexed zone.     *)
ForwardFirst ==
  Searchable =>
    LET doc == Contents IN
    \A query \in Queries, start, end \in 0 .. Len(doc) :
      LET matches == Matches(doc, query, start, end)
      IN  \A extra \in 0 .. FileLines - original_total_lines : \A slip \in Slips(extra) :
          Answers(Forward(query, start, end, extra, slip),
                  IF matches = {} THEN {-1} ELSE Numbers(Min(matches), slip, start), extra)

(* log_engine_search_backward reports the last match between the two lines *)
(* (unsigned arithmetic that would wrap makes the walk end elsewhere).     *)
BackwardLast ==
  Searchable /\ NoEmptyPiece =>
    LET doc == Contents IN
    \A query \in Queries, start \in 0 .. Len(doc) - 1, end \in 0 .. Len(doc) :
      LET matches == Matches(doc, query, end, start)
      IN  \A extra \in 0 .. FileLines - original_total_lines : \A slip \in Slips(extra) :
          Answers(Backward(query, start, end, extra, slip),
                  IF matches = {} THEN {-1} ELSE Numbers(Max(matches), slip, end), extra)

(* / and :Logfind go to the match nearest to the cursor inside the limits, *)
(* down when two are as near, and find nothing only if there is no match   *)
(* above and none below the line of the cursor. Where numbers may slip,    *)
(* another match may be nearer by two lines.                               *)
NearestMatch ==
  Searchable /\ NoEmptyPiece /\ original_total_lines = FileLines =>
    LET doc == Contents IN
    \A query \in Queries, line \in 0 .. Len(doc) - 1, from, to \in 0 .. Len(doc) :
      LET above == Matches(doc, query, from, Less(line - 1, to))
          below == Matches(doc, query, More(line + 1, from), to)
          Distance(m) == More(m - line, line - m)
          Nearest(m, d) == \A other \in above \union below :
                             \/ Distance(m) < Distance(other) + d
                             \/ Distance(m) = Distance(other) + d /\ m >= other
      IN  \A slip \in [down : Slips(0), up : Slips(0)] :
          LET found == DoSearch(query, line, from, to, 0, slip)
              d == IF slip.down = 0 /\ slip.up = 0 THEN 0 ELSE 2
          IN  \/ found = -1 /\ above \union below = {}
              \/ \E m \in above : Nearest(m, d) /\ found \in Numbers(m, slip.up, from)
              \/ \E m \in below : Nearest(m, d) /\ found \in Numbers(m, slip.down, from)
=============================================================================
