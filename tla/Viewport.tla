------------------------------ MODULE Viewport ------------------------------
(***************************************************************************)
(* The window on the document that the editor's buffer holds               *)
(* (lua/juanlog/core.lua, handlers.lua): at most chunk_size lines from     *)
(* state.offset on, moved when the cursor gets near its edge, refilled by  *)
(* jumps, and edited by the user, whose edits go to the engine under the   *)
(* numbers state.offset + row. Every action is a callback on the editor's  *)
(* main thread; the indexer lengthens the document beside it. The document *)
(* behaves as module Document says: an edit is made at once.               *)
(*                                                                         *)
(* Lines of the file are numbers, typed lines members of Text.             *)
(***************************************************************************)
EXTENDS Integers, SequencesExt

CONSTANTS FileLines,   \* lines of the file
          Late,        \* lines of the last chunk, which may be published after
                       \* the progress is complete
          Text,        \* contents of typed lines
          EmptyLine,   \* the line without characters
          Long,        \* lines of the file that are twice as long as others
          MaxLen,      \* length of a block that fetch_lines has room for
          Cut,         \* what is left of a line whose end was cut off
          chunk_size, margin,
          Inserts,     \* lines that an edit of the user leaves in the place
          MaxDelete,   \* bound: lines that an edit of the user replaces
          MaxEdits     \* bound: edits of the user

ASSUME ViewAssumption ==
  /\ FileLines \in Nat /\ Late \in Nat /\ MaxLen \in Nat \ {0}
  /\ EmptyLine \in Text /\ Inserts \subseteq Seq(Text)
  /\ chunk_size \in Nat \ {0} /\ margin \in 1 .. chunk_size \div 2
  /\ MaxDelete \in Nat /\ MaxEdits \in Nat

VARIABLES
  doc,           \* the document: what the engine answers with
  arrived,       \* lines of the file that the indexer has published
  complete,      \* state.indexing_progress >= 1.0
  total,         \* state.total
  offset,        \* state.offset
  is_eof_mode, initial_render_done,
  buf,           \* the lines of the buffer; never none
  row,           \* where the plugin has put the cursor; 0 when it moved since
  timer,         \* state.timer waits, or its callback is queued
  asked,         \* what the poll's callback, if it runs, has asked the engine
  edits,         \* number of edits so far
  drift          \* history: why the buffer may differ from the document
                 \* since the window was last filled

engine == <<doc, arrived>>
state == <<complete, total, offset, is_eof_mode, initial_render_done>>
vars == <<engine, state, buf, row, timer, asked, edits, drift>>

Drifts == {"dropped", "blank", "phantom", "rerender"}
half_chunk == chunk_size \div 2

Less(a, b) == IF a < b THEN a ELSE b
More(a, b) == IF a < b THEN b ELSE a

-----------------------------------------------------------------------------
(* What the engine answers.                                                *)

Range0(from, to) == [i \in 1 .. to - from |-> from + i - 1]

(* apply_edit; a number that is negative in Lua is huge in Rust. *)
Edited(start, deleted, lines) ==
  LET at == IF start \in 0 .. Len(doc) THEN start ELSE Len(doc)
  IN  SubSeq(doc, 1, at) \o lines \o SubSeq(doc, at + deleted + 1, Len(doc))

(* The lines of a text: a last one that is empty is lost. *)
TextLines(parts) ==
  IF parts # << >> /\ Last(parts) = EmptyLine THEN Front(parts) ELSE parts

(* fetch_lines: a block that is too long for its buffer is cut off, maybe *)
(* in the middle of its last line.                                         *)
Width(line) == IF line \in Long THEN 2 ELSE 1
Length(block) == FoldSeq(LAMBDA line, length : Width(line) + length, 0, block)
Begun(block, k) == \A j \in 1 .. k - 1 : Length(SubSeq(block, 1, j)) < MaxLen

fetch_lines(start, count) ==
  LET block == IF start < 0 THEN << >>
               ELSE SubSeq(doc, start + 1, Less(start + count, Len(doc)))
      k == Max({n \in 0 .. Len(block) : Begun(block, n)})
      lines == SubSeq(block, 1, k)
  IN  IF Length(lines) > MaxLen THEN [lines EXCEPT ![k] = Cut] ELSE lines

(* nvim_buf_set_lines: a buffer without lines has an empty one. *)
Shown(lines) == IF lines = << >> THEN <<EmptyLine>> ELSE lines
PhantomOf(lines) == IF lines = << >> THEN {"phantom"} ELSE {}

(* log_engine_get_progress: all bytes of the file were read. *)
Progress(done, published) ==
  /\ done => published + Late >= FileLines
  /\ published = FileLines => done

-----------------------------------------------------------------------------
(* finish_indexing, called by setup_dynamic_window: the first window, also *)
(* of a file whose index has only begun. The progress, the total and the   *)
(* lines are asked one after the other.                                    *)
Init ==
  /\ arrived \in 0 .. FileLines /\ doc = Range0(0, arrived)
  /\ total \in 0 .. arrived
  /\ complete \in BOOLEAN /\ \E before \in 0 .. total : Progress(complete, before)
  /\ offset = 0 /\ is_eof_mode = FALSE /\ initial_render_done = FALSE
  /\ buf = Shown(fetch_lines(0, chunk_size)) /\ row = 1
  /\ timer = FALSE /\ asked = "nothing" /\ edits = 0
  /\ drift = PhantomOf(fetch_lines(0, chunk_size))

IndexGrows ==
  /\ arrived' \in arrived + 1 .. FileLines
  /\ doc' = doc \o Range0(arrived, arrived')
  /\ UNCHANGED <<state, buf, row, timer, asked, edits, drift>>

(* Another callback, which begins and ends between two of the poll's. What *)
(* it asks of the engine it asks once; an edit and its total are one step. *)
Callback == asked = "nothing" /\ asked' = asked

(* The row of a line of the document in a window. *)
RowOf(line, new_offset) == line - new_offset + 1

(* The window is filled from new_offset on and the cursor put on the line  *)
(* that has the given number in the document.                              *)
Fill(new_offset, line) ==
  LET new_lines == fetch_lines(new_offset, chunk_size)
  IN  /\ buf' = Shown(new_lines)
      /\ row' = More(1, Less(RowOf(line, new_offset), Len(new_lines)))
      /\ offset' = new_offset
      /\ drift' = PhantomOf(new_lines)

(* jump_to_line, behind its check of the line. *)
Jump(line, lines_known) ==
  LET new_offset == More(0, line - half_chunk)
  IN  /\ Fill(IF complete' /\ new_offset + chunk_size > lines_known
                THEN More(0, lines_known - chunk_size) ELSE new_offset, line)
      /\ is_eof_mode' = FALSE

(* gg, :LogJump, and the line that a search has found. *)
JumpToLine(line) ==
  /\ Callback
  /\ complete \/ line < total
  /\ complete' = complete
  /\ Jump(line, total)
  /\ UNCHANGED <<engine, total, initial_render_done, timer, edits>>

(* G; while the file is indexed, the last lines by their bytes. *)
JumpToEof ==
  /\ Callback
  /\ complete' = complete
  /\ IF complete THEN Jump(More(0, total - 1), total)
     ELSE LET new_lines == Range0(More(0, FileLines - chunk_size), FileLines)
          IN  /\ is_eof_mode' = TRUE
              /\ buf' = Shown(new_lines) /\ row' = More(1, Len(new_lines))
              /\ UNCHANGED <<offset, drift>>
  /\ UNCHANGED <<engine, total, initial_render_done, timer, edits>>

(* The poll of the index asks for the progress, then for the total, while  *)
(* the indexer goes on.                                                    *)
PollProgress ==
  /\ asked = "nothing" /\ ~complete
  /\ asked' = "progress" /\ complete' \in {done \in BOOLEAN : Progress(done, arrived)}
  /\ UNCHANGED <<engine, total, offset, is_eof_mode, initial_render_done>>
  /\ UNCHANGED <<buf, row, timer, edits, drift>>

PollTotal ==
  /\ asked = "progress"
  /\ asked' = "total" /\ total' = Len(doc)
  /\ UNCHANGED <<engine, complete, offset, is_eof_mode, initial_render_done>>
  /\ UNCHANGED <<buf, row, timer, edits, drift>>

(* Then it shows the first lines once, whatever the buffer shows; when the *)
(* index is complete, a view of the end is renumbered.                     *)
PollShow ==
  /\ asked = "total" /\ asked' = "nothing"
  /\ complete' = complete /\ total' = total
  /\ initial_render_done' = (initial_render_done \/ total > 0)
  /\ IF complete /\ is_eof_mode THEN Jump(More(0, total - 1), total)
     ELSE /\ IF ~initial_render_done /\ total > 0
               THEN /\ buf' = Shown(fetch_lines(0, chunk_size))
                    /\ row' = 1
                    /\ drift' = IF offset = 0 THEN {} ELSE {"rerender"}
               ELSE UNCHANGED <<buf, row, drift>>
          /\ UNCHANGED <<offset, is_eof_mode>>
  /\ UNCHANGED <<engine, timer, edits>>

(* The cursor moves: the timer begins anew. *)
CursorMoved ==
  /\ Callback
  /\ row' = 0
  /\ timer' = (timer \/ ~is_eof_mode)
  /\ UNCHANGED <<engine, state, buf, edits, drift>>

AtBottom(r) == r > Len(buf) - margin /\ offset + Len(buf) < total
AtTop(r) == r < margin /\ offset > 0

(* Mutant of BottomOffset: the window moves by its whole length.           *)
BottomOffsetWhole ==
  IF offset + chunk_size + chunk_size > total THEN total - chunk_size ELSE offset + chunk_size

BottomOffset ==
  IF offset + half_chunk + chunk_size > total THEN total - chunk_size ELSE offset + half_chunk

NewOffset(r) ==
  IF AtTop(r) THEN More(0, offset - half_chunk)
  ELSE IF AtBottom(r) THEN BottomOffset ELSE offset

(* The document's line in row r. *)
LineAt(r) == offset + r - 1

(* The timer's callback, with the cursor of the current window in row r: a *)
(* window that may by now show something else.                             *)
Shift(r) ==
  /\ Callback /\ timer
  /\ timer' = FALSE
  /\ IF NewOffset(r) # offset THEN Fill(NewOffset(r), LineAt(r))
     ELSE UNCHANGED <<buf, row, offset, drift>>
  /\ UNCHANGED <<engine, complete, total, is_eof_mode, initial_render_done, edits>>

(* Mutant of EditLine: edits go to the line of the same number in the file.*)
EditLineOfBuffer(first) == first

EditLine(first) == offset + first

(* The user replaces `deleted` lines behind line `first` of the buffer, and *)
(* on_lines tells the engine, unless the file is still indexed.            *)
UserEdit(first, deleted, lines) ==
  LET new_buf == SubSeq(buf, 1, first) \o lines
                 \o SubSeq(buf, first + deleted + 1, Len(buf))
      lost == lines # TextLines(lines) \/ new_buf = << >>
  IN  /\ Callback
      /\ edits < MaxEdits /\ edits' = edits + 1
      /\ first + deleted <= Len(buf) /\ deleted + Len(lines) > 0
      /\ buf' = Shown(new_buf) /\ row' = 0
      /\ IF complete
           THEN /\ doc' = Edited(EditLine(first), deleted, TextLines(lines))
                /\ total' = Len(doc')
                /\ drift' = drift \union (IF lost THEN {"blank"} ELSE {})
           ELSE drift' = drift \union {"dropped"} /\ UNCHANGED <<doc, total>>
      /\ UNCHANGED <<arrived, complete, offset, is_eof_mode, initial_render_done, timer>>

Next ==
  \/ IndexGrows
  \/ PollProgress \/ PollTotal \/ PollShow
  \/ \E line \in 0 .. Len(doc) : JumpToLine(line)
  \/ JumpToEof
  \/ CursorMoved
  \/ \E r \in 1 .. More(Len(buf), chunk_size + 1) : Shift(r)
  \/ \E first \in 0 .. Len(buf), deleted \in 0 .. MaxDelete, lines \in Inserts :
       UserEdit(first, deleted, lines)

Spec == Init /\ [][Next]_vars

-----------------------------------------------------------------------------
TypeOK ==
  /\ arrived \in 0 .. FileLines /\ total \in 0 .. Len(doc)
  /\ complete \in BOOLEAN /\ is_eof_mode \in BOOLEAN /\ initial_render_done \in BOOLEAN
  /\ offset \in -chunk_size .. Len(doc)
  /\ Len(buf) >= 1 /\ row \in 0 .. Len(buf)
  /\ timer \in BOOLEAN /\ asked \in {"nothing", "progress", "total"}
  /\ edits \in 0 .. MaxEdits /\ drift \subseteq Drifts

(* The buffer shows the lines of the document from offset on, whatever was *)
(* typed into it, however the window moved, and whatever arrived behind    *)
(* it: line numbers and edits are those of the document. It drifts only in *)
(* the ways that are listed, and the next jump or shift ends that.         *)
WindowShows ==
  drift = {} /\ ~is_eof_mode =>
    /\ offset >= 0 /\ offset + Len(buf) <= Len(doc)
    /\ \A i \in DOMAIN buf : buf[i] \in {doc[offset + i], Cut}

(* The window is as long as it can be. *)
Whole == Len(buf) = Less(chunk_size, Len(doc) - offset)

(* Wherever the plugin puts the cursor, it is on the line that was meant:  *)
(* when the window moves under the cursor, on the line it was on, if the   *)
(* document has that line, and unless the buffer had been edited down to   *)
(* less than a half and the margin or typed full beyond what the next      *)
(* window reaches; and after a jump to a known line on that line. Windows  *)
(* that are cut off are excepted.                                          *)
CursorLands ==
  [][Whole' =>
       /\ \A r \in 1 .. Len(buf) :
              /\ Shift(r) /\ offset' # offset
              /\ Len(buf) >= half_chunk + margin /\ r <= half_chunk + chunk_size
              /\ offset + r <= Len(doc)
            => offset' + row' = offset + r
       /\ \A line \in 0 .. total - 1 :
            JumpToLine(line) => offset' + row' = line + 1]_vars
=============================================================================
