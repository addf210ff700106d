---------------------------- MODULE AsyncSearch ----------------------------
(***************************************************************************)
(* The search in the background (search_async in src/core.rs and the calls *)
(* of src/c_api.rs) on the pager of a 32-bit build: a thread with copies   *)
(* of the piece table walks the pieces, while the editor thread reads the  *)
(* file, edits, cancels, asks for the status and frees the engine.         *)
(*                                                                         *)
(* Lines of the file are one unit long; a query is the set of lines that   *)
(* it matches, lines of the file (numbers) and typed ones.                 *)
(***************************************************************************)
EXTENDS Pager32

CONSTANTS main, search,  \* the threads
          Documents,     \* the piece tables of an editing session, in order
          Queries,
          MaxCalls       \* bound: calls of the editor before it can only free

ASSUME SearchAssumption == Threads = {main, search} /\ main # search /\ MaxCalls \in Nat

PieceTypes == [kind : {"original", "memory"}, start : Nat, count : Nat]

ASSUME DocumentsAssumption ==
  /\ Documents \in Seq(Range(Documents)) /\ Documents # << >>
  /\ \A d \in Range(Documents) :
       /\ d.pieces \in Seq(PieceTypes)
       /\ \A p \in Range(d.pieces) : p.kind = "original" => p.start + p.count <= Length

VARIABLES
  version,       \* which of the Documents is now the piece table
  calls,         \* number of calls so far
  freed,         \* log_engine_free was called
  is_searching, search_cancel, search_result,
  pc,            \* where the search thread is
  job,           \* what the thread took with it: the piece table, the query
                 \* and the line the search starts from
  piece_idx, current_line,
  cancelled,     \* history: the running search was cancelled
  blind          \* history: a read of the running search failed

flags == <<is_searching, search_cancel, search_result>>
walk == <<piece_idx, current_line>>
editor == <<version, calls, freed>>
history == <<cancelled, blind>>
vars == <<pager, editor, flags, pc, job, walk, history>>

NoJob == [document |-> Documents[1], query |-> {}, start |-> 0]

-----------------------------------------------------------------------------
(* Places in the copied piece table.                                       *)

Pieces == job.document.pieces
LinesBefore(i) == SumFunctionOnSet([k \in DOMAIN Pieces |-> Pieces[k].count], 1 .. i - 1)
TotalLines == LinesBefore(Len(Pieces) + 1)

StartPiece ==
  IF job.start >= TotalLines THEN Len(Pieces) + 1
  ELSE CHOOSE i \in DOMAIN Pieces : LinesBefore(i) <= job.start /\ job.start < LinesBefore(i + 1)

(* Mutant of Offset: every piece is entered where the first one was.       *)
OffsetAlways(i) == job.start - LinesBefore(StartPiece)

(* The line of piece i from which it is searched. *)
Offset(i) == IF i = StartPiece THEN job.start - LinesBefore(i) ELSE 0

Piece == Pieces[piece_idx]
Left == Piece.count - Offset(piece_idx)

(* Lines of piece i whose bytes the thread looks at: of the file, only one *)
(* slice.                                                                  *)
Seen(i) ==
  LET p == Pieces[i]
      first == p.start + Offset(i)
  IN  IF p.kind = "memory" THEN Offset(i) .. p.count - 1
      ELSE {line - p.start : line \in Prefix(first, p.count - Offset(i))}

Line(i, k) ==
  IF Pieces[i].kind = "memory" THEN job.document.memory_buffer[Pieces[i].start + k + 1]
  ELSE Pieces[i].start + k

Hits(i) == {k \in Seen(i) : Line(i, k) \in job.query}

-----------------------------------------------------------------------------
(* The editor thread.                                                      *)

Init ==
  /\ PagerInit
  /\ version = 1 /\ calls = 0 /\ freed = FALSE
  /\ is_searching = FALSE /\ search_cancel = FALSE /\ search_result = -1
  /\ pc = "none" /\ job = NoJob /\ piece_idx = 1 /\ current_line = 0
  /\ cancelled = FALSE /\ blind = FALSE

Editor == ~freed /\ step[main] = "idle"
Calls == Editor /\ calls < MaxCalls /\ calls' = calls + 1 /\ UNCHANGED freed

(* Reads of lines and of single bytes. *)
Read ==
  /\ Calls
  /\ \E from \in 0 .. Length - 1 : Ask(main, "chunk", from)
  /\ UNCHANGED <<version, flags, pc, job, walk, history>>

ReadByte ==
  /\ Calls
  /\ \E from \in 0 .. Length - 1 : Ask(main, "byte", from)
  /\ UNCHANGED <<version, flags, pc, job, walk, history>>

Edit ==
  /\ Calls
  /\ version < Len(Documents) /\ version' = version + 1
  /\ UNCHANGED <<pager, flags, pc, job, walk, history>>

(* A search is refused without a word while another is running. *)
SearchAsync(query, start) ==
  /\ Calls /\ ~is_searching
  /\ is_searching' = TRUE /\ search_cancel' = FALSE /\ search_result' = -1
  /\ job' = [document |-> Documents[version], query |-> query, start |-> start]
  /\ piece_idx' = StartPiece' /\ current_line' = start
  /\ pc' = "piece"
  /\ cancelled' = FALSE /\ blind' = FALSE
  /\ UNCHANGED <<pager, version>>

CancelSearch ==
  /\ Calls
  /\ search_cancel' = TRUE /\ cancelled' = (cancelled \/ is_searching)
  /\ UNCHANGED <<pager, version, is_searching, search_result, pc, job, walk, blind>>

(* The search goes on: only the indexer looks at cancel_token. *)
Free ==
  /\ Editor
  /\ freed' = TRUE
  /\ UNCHANGED <<pager, version, calls, flags, pc, job, walk, history>>

Status == IF is_searching THEN -1 ELSE search_result

-----------------------------------------------------------------------------
(* The search thread.                                                      *)

(* Mutant of AfterCancel: the thread just ends.                            *)
ThreadGone == "none"

AfterCancel == "report"

(* The loop over the pieces: the only place that looks at search_cancel.   *)
NextPiece ==
  /\ pc = "piece"
  /\ IF piece_idx > Len(Pieces)
       THEN pc' = "report" /\ UNCHANGED pager
     ELSE IF search_cancel THEN pc' = AfterCancel /\ UNCHANGED pager
     ELSE IF Piece.kind = "memory" \/ Left = 0 THEN pc' = "match" /\ UNCHANGED pager
     ELSE pc' = "read" /\ Ask(search, "chunk", Piece.start + Offset(piece_idx))
  /\ UNCHANGED <<editor, flags, job, walk, history>>

SearchReads ==
  /\ pc = "read"
  /\ PagerStep(search)
  /\ pc' = IF step'[search] = "idle" THEN "match" ELSE "read"
  /\ blind' = (blind \/ (pc' = "match" /\ slice'[search] = {}))
  /\ UNCHANGED <<editor, flags, job, walk, cancelled>>

(* The piece's bytes are searched; a slice that could not be read is empty. *)
Match ==
  LET hits == IF Piece.kind = "original" /\ slice[search] = {} THEN {} ELSE Hits(piece_idx)
  IN  /\ pc = "match"
      /\ IF hits # {}
           THEN /\ search_result' = current_line + Min(hits) - Offset(piece_idx)
                /\ pc' = "reset" /\ UNCHANGED walk
           ELSE /\ piece_idx' = piece_idx + 1 /\ current_line' = current_line + Left
                /\ pc' = "piece" /\ UNCHANGED search_result
      /\ UNCHANGED <<pager, editor, is_searching, search_cancel, job, history>>

(* Not found and cancelled are reported alike. *)
Report ==
  /\ pc = "report"
  /\ search_result' = -2 /\ pc' = "reset"
  /\ UNCHANGED <<pager, editor, is_searching, search_cancel, job, walk, history>>

(* The flag is the last thing the thread touches. *)
Reset ==
  /\ pc = "reset"
  /\ is_searching' = FALSE /\ pc' = "none"
  /\ Unpin(search) /\ piece_idx' = 1 /\ current_line' = 0
  /\ UNCHANGED <<editor, search_cancel, search_result, job, history>>

SearchThread == NextPiece \/ SearchReads \/ Match \/ Report \/ Reset

MainReads ==
  /\ PagerStep(main)
  /\ UNCHANGED <<editor, flags, pc, job, walk, history>>

Next ==
  \/ Read \/ ReadByte \/ MainReads
  \/ Edit \/ CancelSearch \/ Free
  \/ \E query \in Queries, start \in 0 .. Length : SearchAsync(query, start)
  \/ SearchThread

Fairness == WF_vars(SearchThread)

Spec == Init /\ [][Next]_vars /\ Fairness

-----------------------------------------------------------------------------
(* The lines of the searched document. *)
Doc == FlattenSeq([i \in DOMAIN Pieces |-> [k \in 1 .. Pieces[i].count |-> Line(i, k - 1)]])

Matches == {line \in job.start .. TotalLines - 1 : Doc[line + 1] \in job.query}

(* Lines behind the end of the window in which the search of their piece   *)
(* begins: on 32-bit builds they are not looked at.                        *)
Unseen ==
  UNION {{LinesBefore(i) + k : k \in (Offset(i) .. Pieces[i].count - 1) \ Seen(i)} :
           i \in StartPiece .. Len(Pieces)}

(* When a search ends, its answer is the first matching line of the        *)
(* document as it was when the search began, however it was edited since   *)
(* and whoever else used the pager; or it has none because there is none,  *)
(* all are behind the end of a window, or it was cancelled.                *)
SearchAnswer ==
  job # NoJob /\ ~is_searching /\ ~blind =>
    IF Matches \ Unseen = {} THEN Status = -2
    ELSE Status = Min(Matches \ Unseen) \/ (cancelled /\ Status = -2)

(* A save copies each piece of the file in strides that divide a window:   *)
(* it loses nothing of a piece that begins at a stride, as that of an      *)
(* unedited file; of another piece, what a stride has in the next window.  *)
SaveCopies ==
  \A p \in Range(Documents[version].pieces),
     stride \in {s \in 1 .. WINDOW_SIZE : WINDOW_SIZE % s = 0} :
    p.kind = "original" =>
      LET bytes == p.start .. p.start + p.count - 1
          lost == bytes \ Copied(p.start, p.start + p.count, stride)
          StrideOf(b) == b - ((b - p.start) % stride)
      IN  /\ p.start % stride = 0 => lost = {}
          /\ lost = {b \in bytes : WindowOf(StrideOf(b)) # WindowOf(b)}

(* Every search ends, cancelled or not, also when the engine is freed.     *)
SearchEnds == is_searching ~> ~is_searching
=============================================================================
