----------------------------- MODULE PieceTable -----------------------------
(***************************************************************************)
(* The piece table of LogEngine (src/core.rs): the edited file as a list   *)
(* of runs of lines, taken from the memory-mapped file or from the buffer  *)
(* of typed lines. The editor thread edits and reads it; the indexer       *)
(* thread makes the file longer at any moment, and every reader first      *)
(* copies the lines that arrived into the table (sync_pieces).             *)
(*                                                                         *)
(* apply_edit is followed step by step, because it re-reads the length of  *)
(* the file in the middle of its work, each time it splits a piece.        *)
(***************************************************************************)
EXTENDS Integers, SequencesExt

CONSTANTS FileLines,    \* number of lines the finished index will report
          Text,         \* contents of typed lines
          EmptyLine,    \* the line without characters
          CompactAt,    \* wasted lines above which the buffer is compacted
          MaxInsert,    \* bound: lines in the text of one edit
          MaxDelete,    \* bound: lines one edit asks to delete
          MaxMemory     \* bound: lines in memory_buffer

ASSUME ConstantsAssumption ==
  /\ FileLines \in Nat /\ CompactAt \in Nat
  /\ MaxInsert \in Nat /\ MaxDelete \in Nat /\ MaxMemory \in Nat
  /\ EmptyLine \in Text

VARIABLES
  original_total_lines, \* the index: lines of the file published so far
  pieces,               \* the piece table
  indexed_lines_added,  \* lines of the file already in the piece table
  memory_buffer,        \* typed lines; pieces refer to them by position
  wasted_memory_lines,  \* lines of memory_buffer that no piece uses
  pc,                   \* where the editor thread is in apply_edit
  edit,                 \* the arguments of the running apply_edit
  piece_idx, offset,    \* where the edit takes place
  remaining_delete,     \* lines still to be deleted
  new_memory_buffer,    \* the buffer compact_memory fills
  cursor                \* the piece compact_memory looks at

table == <<pieces, indexed_lines_added>>
memory == <<memory_buffer, wasted_memory_lines>>
locals == <<piece_idx, offset, remaining_delete>>
compaction == <<new_memory_buffer, cursor>>
vars == <<original_total_lines, table, memory, pc, edit, locals, compaction>>

Original(first, n) == [kind |-> "original", start |-> first, count |-> n]
Memory(first, n) == [kind |-> "memory", start |-> first, count |-> n]
Pieces == [kind : {"original", "memory"}, start : Nat, count : Nat]

PCs == {"idle", "sync", "locate", "sync_split", "split", "delete", "insert", "compact"}
NoEdit == [start |-> 0, deleted |-> 0, lines |-> << >>]

-----------------------------------------------------------------------------
(* The operations of the table, as functions of the list of pieces.        *)

IsOriginal(p) == p.kind = "original"
IsMemory(p) == p.kind = "memory"
End(p) == p.start + p.count

Resized(p, n) == [p EXCEPT !.count = n]

(* Mutants of Rest: the second half keeps its length; it starts too early. *)
RestKeepsCount(p, off) == [p EXCEPT !.start = @ + off]
RestKeepsStart(p, off) == [p EXCEPT !.count = @ - off]

Rest(p, off) == [kind |-> p.kind, start |-> p.start + off, count |-> p.count - off]

(* Mutant of CanExtend: any last piece of the file is extended.            *)
CanExtendAny(ps) == ps # << >> /\ IsOriginal(Last(ps))

(* The last piece ends where the lines already in the table end. *)
CanExtend(ps) ==
  /\ ps # << >>
  /\ IsOriginal(Last(ps))
  /\ End(Last(ps)) = indexed_lines_added

SyncedPieces ==
  LET diff == original_total_lines - indexed_lines_added
  IN  IF diff = 0 THEN pieces
      ELSE IF CanExtend(pieces)
        THEN [pieces EXCEPT ![Len(pieces)] = Resized(@, @.count + diff)]
        ELSE Append(pieces, Original(indexed_lines_added, diff))

(* split_piece_at after its sync: the piece at position i of the list ps is *)
(* cut in two when off is strictly inside it.                               *)
Split(ps, i, off) ==
  IF off = 0 \/ i > Len(ps) THEN ps
  ELSE IF off >= ps[i].count THEN ps
  ELSE InsertAt([ps EXCEPT ![i] = Resized(@, off)], i + 1, Rest(ps[i], off))

LinesBefore(ps, i) == SumFunctionOnSet([k \in DOMAIN ps |-> ps[k].count], 1 .. i - 1)
total_lines == LinesBefore(pieces, Len(pieces) + 1)

(* <<i, off>> is the place of the given line; past the end there is none.  *)
Holds(i, off, line) ==
  /\ line = LinesBefore(pieces, i) + off
  /\ off < pieces[i].count

(* The lines of an edit's text: what split(b'\n') gives, without the empty *)
(* last part that a final newline leaves. The text of no bytes is the one  *)
(* empty part, so it too brings no line.                                   *)
TextLines(parts) == IF Last(parts) = EmptyLine THEN Front(parts) ELSE parts

-----------------------------------------------------------------------------
(* Reading.                                                                *)

(* While the buffer is compacted, the pieces before cursor already refer   *)
(* to the new one.                                                         *)
Compacted(i) == pc = "compact" /\ i < cursor
Buffer(i) == IF Compacted(i) THEN new_memory_buffer ELSE memory_buffer

PieceLines(i) ==
  LET p == pieces[i]
  IN  IF IsOriginal(p) THEN [k \in 1 .. p.count |-> p.start + k - 1]
      ELSE SubSeq(Buffer(i), p.start + 1, End(p))

LinesOf(from, to) == FlattenSeq([k \in 1 .. (to - from + 1) |-> PieceLines(from + k - 1)])
Contents == LinesOf(1, Len(pieces))

(* Mutant of From: the offset is not reset after the first piece.          *)
FromOffset(i, first, off) == off

From(i, first, off) == IF i = first THEN off ELSE 0

(* get_block's loop, from the piece that holds line `start`: what remains  *)
(* to be collected is taken from each piece in turn.                       *)
Collected(first, off, num_lines) ==
  LET take[i \in Nat \ {0}] ==
        [need \in Nat |->
          IF i > Len(pieces) \/ need = 0 THEN << >>
          ELSE LET from == From(i, first, off)
                   n == IF pieces[i].count - from < need THEN pieces[i].count - from ELSE need
               IN  SubSeq(PieceLines(i), from + 1, from + n) \o take[i + 1][need - n]]
  IN  take[first][num_lines]

GetBlock(start, num_lines) ==
  IF num_lines = 0 \/ start >= total_lines THEN << >>
  ELSE LET i == CHOOSE k \in DOMAIN pieces :
                  LinesBefore(pieces, k) <= start /\ start < LinesBefore(pieces, k + 1)
       IN  Collected(i, start - LinesBefore(pieces, i), num_lines)

-----------------------------------------------------------------------------
(* A lazily opened file starts with an empty piece; a file of fixed-width  *)
(* lines, or one opened without lazy, is wholly indexed before new returns.*)
Init ==
  /\ original_total_lines \in {0, FileLines}
  /\ pieces = << Original(0, original_total_lines) >>
  /\ indexed_lines_added = original_total_lines
  /\ memory_buffer = << >> /\ wasted_memory_lines = 0
  /\ pc = "idle" /\ edit = NoEdit
  /\ piece_idx = 1 /\ offset = 0 /\ remaining_delete = 0
  /\ new_memory_buffer = << >> /\ cursor = 1

(* The indexer publishes more lines. *)
IndexGrows ==
  /\ original_total_lines' \in original_total_lines + 1 .. FileLines
  /\ UNCHANGED <<table, memory, pc, edit, locals, compaction>>

sync_pieces ==
  /\ pieces' = SyncedPieces
  /\ indexed_lines_added' = original_total_lines

(* What total_lines, get_block and the searches do to the table. *)
Read ==
  /\ pc = "idle"
  /\ sync_pieces
  /\ UNCHANGED <<original_total_lines, memory, pc, edit, locals, compaction>>

(* apply_edit is called. *)
EditCall(start, deleted, parts) ==
  /\ pc = "idle"
  /\ Len(memory_buffer) + Len(TextLines(parts)) <= MaxMemory
  /\ edit' = [start |-> start, deleted |-> deleted, lines |-> TextLines(parts)]
  /\ pc' = "sync"
  /\ UNCHANGED <<original_total_lines, table, memory, locals, compaction>>

EditSync ==
  /\ pc = "sync"
  /\ sync_pieces
  /\ pc' = "locate"
  /\ UNCHANGED <<original_total_lines, memory, edit, locals, compaction>>

(* find_piece_idx finds the line in a piece, or is past the end. *)
EditLocate ==
  /\ pc = "locate"
  /\ \/ \E i \in 1 .. Len(pieces) : \E off \in 0 .. pieces[i].count :
          /\ Holds(i, off, edit.start)
          /\ piece_idx' = i /\ offset' = off /\ pc' = "sync_split"
     \/ /\ edit.start >= total_lines
        /\ piece_idx' = Len(pieces) + 1 /\ offset' = 0 /\ pc' = "delete"
  /\ remaining_delete' = edit.deleted
  /\ UNCHANGED <<original_total_lines, table, memory, edit, compaction>>

(* split_piece_at first syncs: lines that arrived since the edit began are *)
(* now behind the place of the edit.                                       *)
EditSyncSplit ==
  /\ pc = "sync_split"
  /\ sync_pieces
  /\ pc' = "split"
  /\ UNCHANGED <<original_total_lines, memory, edit, locals, compaction>>

EditSplit ==
  /\ pc = "split"
  /\ pieces' = Split(pieces, piece_idx, offset)
  /\ piece_idx' = IF offset > 0 THEN piece_idx + 1 ELSE piece_idx
  /\ offset' = 0
  /\ pc' = "delete"
  /\ UNCHANGED <<original_total_lines, indexed_lines_added, memory, edit,
                 remaining_delete, compaction>>

Deleting == pc = "delete" /\ remaining_delete > 0 /\ piece_idx <= Len(pieces)

(* Mutant of Wasted: lines of the file are counted too.                    *)
WastedAny(p, n) == wasted_memory_lines + n

Wasted(p, n) == wasted_memory_lines + (IF IsMemory(p) THEN n ELSE 0)

(* Mutant of WhollyDeleted: the comparison with the count is missing.      *)
AnyDeleted(p) == TRUE

WhollyDeleted(p) == p.count <= remaining_delete

(* The piece lies wholly in the deleted range. *)
DeleteWhole ==
  /\ Deleting
  /\ WhollyDeleted(pieces[piece_idx])
  /\ wasted_memory_lines' = Wasted(pieces[piece_idx], pieces[piece_idx].count)
  /\ remaining_delete' = remaining_delete - pieces[piece_idx].count
  /\ pieces' = RemoveAt(pieces, piece_idx)
  /\ UNCHANGED <<original_total_lines, indexed_lines_added, memory_buffer, pc, edit,
                 piece_idx, offset, compaction>>

(* Only its front does: split_piece_at (which syncs) and drop the front. *)
DeletePart ==
  /\ Deleting
  /\ ~WhollyDeleted(pieces[piece_idx])
  /\ wasted_memory_lines' = Wasted(pieces[piece_idx], remaining_delete)
  /\ pieces' = RemoveAt(Split(SyncedPieces, piece_idx, remaining_delete), piece_idx)
  /\ indexed_lines_added' = original_total_lines
  /\ remaining_delete' = 0
  /\ UNCHANGED <<original_total_lines, memory_buffer, pc, edit, piece_idx, offset, compaction>>

DeleteDone ==
  /\ pc = "delete" /\ ~Deleting
  /\ pc' = "insert"
  /\ UNCHANGED <<original_total_lines, table, memory, edit, locals, compaction>>

(* Back to the caller; nothing of the call survives. *)
Return ==
  /\ pc' = "idle" /\ edit' = NoEdit
  /\ piece_idx' = 1 /\ offset' = 0 /\ remaining_delete' = 0

(* The typed lines go to the end of the buffer and become one piece. *)
EditInsert ==
  /\ pc = "insert"
  /\ IF edit.lines = << >> THEN UNCHANGED <<pieces, memory_buffer>>
     ELSE /\ memory_buffer' = memory_buffer \o edit.lines
          /\ pieces' = InsertAt(pieces, piece_idx, Memory(Len(memory_buffer), Len(edit.lines)))
  /\ IF wasted_memory_lines > CompactAt
       THEN pc' = "compact" /\ UNCHANGED <<edit, locals>>
       ELSE Return
  /\ UNCHANGED <<original_total_lines, indexed_lines_added, wasted_memory_lines, compaction>>

(* compact_memory copies the lines of one piece and redirects the piece. *)
CompactPiece ==
  /\ pc = "compact" /\ cursor <= Len(pieces)
  /\ IF IsMemory(pieces[cursor])
       THEN /\ new_memory_buffer' = new_memory_buffer \o PieceLines(cursor)
            /\ pieces' = [pieces EXCEPT ![cursor].start = Len(new_memory_buffer)]
       ELSE UNCHANGED <<new_memory_buffer, pieces>>
  /\ cursor' = cursor + 1
  /\ UNCHANGED <<original_total_lines, indexed_lines_added, memory, pc, edit, locals>>

CompactDone ==
  /\ pc = "compact" /\ cursor > Len(pieces)
  /\ memory_buffer' = new_memory_buffer
  /\ wasted_memory_lines' = 0
  /\ new_memory_buffer' = << >> /\ cursor' = 1
  /\ Return
  /\ UNCHANGED <<original_total_lines, table>>

(* The editor thread inside apply_edit. *)
EditStep ==
  \/ EditSync \/ EditLocate \/ EditSyncSplit \/ EditSplit
  \/ DeleteWhole \/ DeletePart \/ DeleteDone \/ EditInsert
  \/ CompactPiece \/ CompactDone

Next ==
  \/ IndexGrows
  \/ Read
  \/ \E start \in 0 .. FileLines + MaxMemory, deleted \in 0 .. MaxDelete :
       \E parts \in UNION {[1 .. n -> Text] : n \in 1 .. MaxInsert} :
         EditCall(start, deleted, parts)
  \/ EditStep

(* The editor thread runs apply_edit to its end: it takes no lock that the *)
(* indexer keeps.                                                          *)
Spec == Init /\ [][Next]_vars /\ WF_vars(EditStep)

-----------------------------------------------------------------------------
(* Invariants.                                                             *)

(* Every variable has its type; a deletion never asks for more lines than  *)
(* it was given and the place of the edit stays in the list (the unsigned  *)
(* arithmetic of the delete loop, lines 650-667, does not wrap).           *)
TypeOK ==
  /\ original_total_lines \in 0 .. FileLines
  /\ pieces \in Seq(Pieces)
  /\ indexed_lines_added \in 0 .. original_total_lines
  /\ memory_buffer \in Seq(Text)
  /\ wasted_memory_lines \in Nat
  /\ pc \in PCs
  /\ edit \in [start : Nat, deleted : Nat, lines : Seq(Text)]
  /\ piece_idx \in 1 .. Len(pieces) + 1
  /\ offset \in Nat
  /\ remaining_delete \in 0 .. edit.deleted
  /\ new_memory_buffer \in Seq(Text)
  /\ cursor \in 1 .. Len(pieces) + 1

(* Every piece points inside the lines it is cut from, also while the      *)
(* buffer is being compacted: get_block and save_async index memory_buffer *)
(* without a check.                                                        *)
PiecesInBounds ==
  \A i \in 1 .. Len(pieces) :
    IF IsOriginal(pieces[i]) THEN End(pieces[i]) <= indexed_lines_added
    ELSE End(pieces[i]) <= Len(Buffer(i))

(* No line of the file is in the table twice, and what is left of the file *)
(* keeps its order, whatever edits and late lines did to the list.         *)
OriginalsInOrder ==
  \A i, j \in 1 .. Len(pieces) :
    i < j /\ IsOriginal(pieces[i]) /\ IsOriginal(pieces[j])
      => End(pieces[i]) <= pieces[j].start

(* No typed line belongs to two pieces of the same buffer.                 *)
MemoryNotShared ==
  \A i, j \in 1 .. Len(pieces) :
    /\ i < j
    /\ IsMemory(pieces[i]) /\ IsMemory(pieces[j])
    /\ Compacted(i) <=> Compacted(j)
    => End(pieces[i]) <= pieces[j].start \/ End(pieces[j]) <= pieces[i].start

(* The count that triggers compaction is exact: buffer = used + wasted.    *)
MemoryUsed == SumFunctionOnSet([i \in DOMAIN pieces |-> pieces[i].count],
                               {i \in DOMAIN pieces : IsMemory(pieces[i])})
WastedExact ==
  pc # "compact" => wasted_memory_lines + MemoryUsed = Len(memory_buffer)

(* get_block answers with exactly the lines asked for, across piece edges. *)
BlockCorrect ==
  pc = "idle" =>
    \A start \in 0 .. total_lines, n \in 0 .. total_lines + 1 :
      GetBlock(start, n) = SubSeq(Contents, start + 1,
                                  IF start + n < total_lines THEN start + n ELSE total_lines)

-----------------------------------------------------------------------------
(* Refinement: an edit takes effect at once, at the moment its place in    *)
(* the list is fixed and the last lines that can get behind it are in.     *)

Pending == LET rest == LinesOf(piece_idx, Len(pieces))
           IN  LinesOf(1, piece_idx - 1) \o edit.lines
                 \o SubSeq(rest, remaining_delete + 1, Len(rest))

Doc == INSTANCE Document WITH
  doc <- IF pc \in {"delete", "insert"} THEN Pending ELSE Contents,
  arrived <- indexed_lines_added,
  request <- IF pc \in {"sync", "locate", "sync_split", "split"} THEN edit
             ELSE [start |-> 0, deleted |-> 0, lines |-> << >>, none |-> TRUE]

(* The piece table behaves as the abstract document: each call of          *)
(* apply_edit changes the document once, by what it was asked, and lines   *)
(* that the indexer publishes in the middle of it are neither lost, nor    *)
(* reordered, nor deleted by mistake; every edit that is called is made.   *)
RefinesDocument == Doc!Spec
=============================================================================
