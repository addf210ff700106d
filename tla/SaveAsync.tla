----------------------------- MODULE SaveAsync -----------------------------
(***************************************************************************)
(* :w of a file that is too large to wait for. BufWriteCmd                 *)
(* (lua/juanlog/handlers.lua) asks the engine to save (save_async,         *)
(* src/core.rs): the piece table is cloned and a thread writes it to       *)
(* <path>.tmp and renames that over <path>. A timer asks whether the       *)
(* thread is done and then clears 'modified', unless the text has changed  *)
(* since. The mapped file, the index and the pieces may grow meanwhile,    *)
(* writes may fail, and the editor may be closed or killed at any time.    *)
(*                                                                         *)
(* A file is a sequence of items: blocks of the original file, lines that  *)
(* edits brought, and line ends that the save adds. The file system knows  *)
(* inodes, so that a name can be removed or given away under an open file. *)
(***************************************************************************)
EXTENDS Integers, SequencesExt

CONSTANTS Engines,      \* engines that can be made
          File,         \* the blocks of the file that is opened first
          Terminated,   \* blocks and lines that end with a line feed
          Text,         \* a line that an edit brings
          Large,        \* blocks and lines that the BufWriter does not hold
          BufferSize,   \* items other than these that it holds
          Faults,       \* calls of the operating system that may fail
          MaxOpens,     \* bound: times the file is opened
          MaxSaves,     \* bound: times it is saved
          MaxLazy,      \* bound: how many of them may be lazy (config.lazy)
          MaxTick       \* bound: changes of the text of the buffer, openings included

ASSUME SaveAssumption ==
  /\ Faults \subseteq {"open", "write", "newline", "flush", "rename"}
  /\ IsFiniteSet(Engines) /\ File \in Seq(Range(File))
  /\ BufferSize \in Nat \ {0} /\ MaxTick \in Nat
  /\ MaxOpens \in Nat /\ MaxSaves \in Nat /\ MaxLazy \in Nat

VARIABLES
  engine,     \* per engine: the mapped file, how far it is indexed, the pieces
  is_saving,  \* per engine: the atomic flag
  thread,     \* per engine: the thread that save_async spawned
  attached,   \* engines whose callbacks the buffer has, oldest first
  editor,     \* per engine: the Lua state table of the buffer
  buffer,     \* the buffer: changedtick and 'modified'
  target, tmp, content,  \* the two names, and what their inodes hold
  late,       \* per engine: the writer of a failed save that is not dropped yet
  opens, saves,  \* history: times the file was opened, and saved
  mishaps     \* history: what no save can be blamed for, see the properties

ui == <<attached, editor, buffer>>
disk == <<target, tmp, content, late>>
counts == <<opens, saves>>
history == <<counts, mishaps>>
vars == <<engine, is_saving, thread, ui, disk, history>>

LineEnd == "nl"
Inodes == 1 .. 2 + 3 * Cardinality(Engines)
NoFile == 0

Original(from, to) == [kind |-> "original", from |-> from, to |-> to]
Memory(lines) == [kind |-> "memory", lines |-> lines]

-----------------------------------------------------------------------------
(* What a save writes.                                                     *)

(* calc_offset, in blocks. A line that is not published yet is taken to be *)
(* where the indexer is.                                                   *)
calc_offset(e, line) ==
  IF line < engine[e].published THEN line
  ELSE IF engine[e].finished THEN Len(engine[e].original) ELSE engine[e].processed

Unterminated(blocks) == blocks # << >> /\ Last(blocks) \notin Terminated \cup {LineEnd}

MemoryItems(lines) == FlattenSeq([i \in 1 .. Len(lines) |-> <<lines[i], LineEnd>>])

(* A piece of the original gets the line feed that the end of the file may *)
(* lack; a line of an edit has none.                                       *)
OriginalItems(blocks) == IF Unterminated(blocks) THEN Append(blocks, LineEnd) ELSE blocks

(* All the pieces; lines that are not published begin at `first` and end   *)
(* at `last`.                                                              *)
Output(e, pieces, published, first, last) ==
  LET At(line, open) == IF line < published THEN line ELSE open
      Items(p) ==
        IF p.kind = "memory" THEN MemoryItems(p.lines)
        ELSE OriginalItems(SubSeq(engine[e].original, At(p.from, first) + 1, At(p.to, last)))
  IN  FlattenSeq([i \in 1 .. Len(pieces) |-> Items(pieces[i])])

(* What has arrived goes to the last piece if that is where it ends.       *)
Extended(e, upto) ==
  LET pieces == engine[e].pieces
      synced == engine[e].synced
  IN  IF upto <= synced THEN pieces
      ELSE IF pieces # << >> /\ Last(pieces).kind = "original" /\ Last(pieces).to = synced
      THEN [pieces EXCEPT ![Len(pieces)].to = upto]
      ELSE Append(pieces, Original(synced, upto))

(* Mutant of Arrived: what the indexer has read, published or not.         *)
ArrivedBytes(e) == engine[e].processed

Arrived(e) == engine[e].published

(* sync_pieces *)
SyncedPieces(e) == Extended(e, Arrived(e))

Synced(e, pieces) == [engine EXCEPT ![e].pieces = pieces, ![e].synced = Arrived(e)]

(* What the user takes for the file: all of it, with the edits. *)
Document(e) ==
  LET all == Len(engine[e].original)
  IN  Output(e, Extended(e, all), all, all, all)

-----------------------------------------------------------------------------
(* Opening and closing the file.                                           *)

NoThread == [pc |-> "none", pieces |-> << >>, todo |-> << >>, start |-> 0, closing |-> FALSE,
             fd |-> NoFile, pos |-> 0, unwritten |-> << >>,
             outputs |-> {}, document |-> << >>]  \* the last two are histories
NoWriter == [fd |-> NoFile, pos |-> 0, unwritten |-> << >>]
NoEditor == [complete |-> FALSE, saving |-> FALSE, save_tick |-> 0]
NoEngine == [original |-> << >>, mapped |-> NoFile, processed |-> 0, published |-> 0,
             finished |-> FALSE, synced |-> 0, pieces |-> << >>]

(* LogEngine::new, and its first synchronisation by log_engine_total_lines. *)
NewEngine(lazy) ==
  LET original == content[target]
      all == IF lazy THEN 0 ELSE Len(original)
  IN  [original |-> original, mapped |-> target, processed |-> all, published |-> all,
       finished |-> ~lazy, synced |-> all,
       pieces |-> <<Original(0, all)>>]

Idle(e) == thread[e].pc = "none" /\ ~is_saving[e]

(* Somebody who opened the file before is still able to write <path>.tmp. *)
OthersAbout == attached # << >> \/ \E e \in Engines : ~Idle(e) \/ late[e] # NoWriter

Init ==
  /\ engine = [e \in Engines |-> NoEngine]
  /\ is_saving = [e \in Engines |-> FALSE]
  /\ thread = [e \in Engines |-> NoThread]
  /\ attached = << >>
  /\ editor = [e \in Engines |-> NoEditor]
  /\ buffer = [changedtick |-> 0, modified |-> FALSE]
  /\ target = 1 /\ tmp = NoFile
  /\ content = [i \in Inodes |-> IF i = 1 THEN File ELSE << >>]
  /\ late = [e \in Engines |-> NoWriter]
  /\ opens = 0 /\ saves = 0 /\ mishaps = {}

(* attach_to_buffer, also of a buffer that is attached (:e!): the new      *)
(* engine gets callbacks of its own beside those of the engine before. (A  *)
(* new buffer has its own changedtick; only equality matters.)             *)
Attach(e, lazy) ==
  /\ opens < MaxOpens /\ buffer.changedtick < MaxTick /\ (lazy => opens < MaxLazy)
  /\ e \notin Range(attached) /\ Idle(e)
  /\ engine' = [engine EXCEPT ![e] = NewEngine(lazy)]
  /\ editor' = [editor EXCEPT ![e] = [NoEditor EXCEPT !.complete = ~lazy]]
  /\ attached' = Append(attached, e)
  /\ buffer' = [changedtick |-> buffer.changedtick + 1, modified |-> FALSE]
  /\ opens' = opens + 1
  /\ mishaps' = IF OthersAbout THEN mishaps \cup {"reopened"} ELSE {}
  /\ UNCHANGED <<is_saving, thread, disk, saves>>

(* BufWipeout: the callbacks go with the buffer, and so does the engine,   *)
(* except for what the thread of a save has clones of. (IndexPoll shows    *)
(* when the engine is not freed: then nothing here can tell.)              *)
Wipeout ==
  /\ attached # << >>
  /\ attached' = << >>
  /\ editor' = [e \in Engines |-> NoEditor]
  /\ buffer' = [buffer EXCEPT !.modified = FALSE]
  /\ engine' = [e \in Engines |-> IF Idle(e) THEN NoEngine ELSE engine[e]]
  /\ UNCHANGED <<is_saving, thread, disk, history>>

(* The editor exits or is killed. What has a name on disk stays. *)
Exit ==
  /\ OthersAbout
  /\ attached' = << >>
  /\ engine' = [e \in Engines |-> NoEngine]
  /\ is_saving' = [e \in Engines |-> FALSE]
  /\ thread' = [e \in Engines |-> NoThread]
  /\ editor' = [e \in Engines |-> NoEditor]
  /\ buffer' = [buffer EXCEPT !.modified = FALSE]
  /\ content' = [i \in Inodes |-> IF i \in {target, tmp} THEN content[i] ELSE << >>]
  /\ late' = [e \in Engines |-> NoWriter]
  /\ UNCHANGED <<target, tmp, history>>

-----------------------------------------------------------------------------
(* The indexer and the poll of its progress, as far as a save meets them   *)
(* (see LineIndex and IndexPoll).                                          *)

(* Lines are published, so what is behind the last line end waits.         *)
LineEnds(e, upto) ==
  Max({0} \cup {k \in 1 .. upto : ~Unterminated(SubSeq(engine[e].original, 1, k))})

IndexCount(e) ==
  /\ e \in Range(attached)     \* the cancel token, before each chunk
  /\ engine[e].published = LineEnds(e, engine[e].processed)
  /\ engine[e].processed < Len(engine[e].original)
  /\ engine' = [engine EXCEPT ![e].processed = @ + 1]
  /\ UNCHANGED <<is_saving, thread, ui, disk, history>>

IndexPublish(e) ==
  /\ engine[e].published < LineEnds(e, engine[e].processed)
  /\ engine' = [engine EXCEPT ![e].published = LineEnds(e, engine[e].processed)]
  /\ UNCHANGED <<is_saving, thread, ui, disk, history>>

IndexFinish(e) ==
  /\ engine[e].mapped # NoFile /\ ~engine[e].finished
  /\ engine[e].processed = Len(engine[e].original)
  /\ engine[e].published = LineEnds(e, engine[e].processed)
  /\ engine' = [engine EXCEPT ![e].published = engine[e].processed, ![e].finished = TRUE]
  /\ UNCHANGED <<is_saving, thread, ui, disk, history>>

(* Asks for progress, then for the number of lines. *)
PollIndex(e) ==
  /\ e \in Range(attached) /\ ~editor[e].complete
  /\ editor' = [editor EXCEPT
       ![e].complete = engine[e].processed = Len(engine[e].original)]
  /\ engine' = Synced(e, SyncedPieces(e))
  /\ UNCHANGED <<is_saving, thread, attached, buffer, disk, history>>

-----------------------------------------------------------------------------
(* The user.                                                               *)

WithoutFirst(pieces) ==
  IF pieces = << >> THEN << >>
  ELSE LET first == Head(pieces)
       IN  IF first.kind = "original" /\ first.from + 1 < first.to
           THEN <<Original(first.from + 1, first.to)>> \o Tail(pieces)
           ELSE Tail(pieces)

(* on_lines of the engine that was attached last. Edits are dropped until  *)
(* the file is indexed; 'modified' is set by the editor all the same.      *)
(* The piece table itself is the subject of PieceTable: here an edit puts  *)
(* a line in front of all others, or deletes the first block or piece.     *)
Edit(e) ==
  /\ attached # << >> /\ e = Last(attached)
  /\ buffer.changedtick < MaxTick
  /\ buffer' = [changedtick |-> buffer.changedtick + 1, modified |-> TRUE]
  /\ IF editor[e].complete
     THEN /\ \E pieces \in {<<Memory(<<Text>>)>> \o SyncedPieces(e),
                           WithoutFirst(SyncedPieces(e))} : engine' = Synced(e, pieces)
          /\ UNCHANGED mishaps
     ELSE mishaps' = mishaps \cup {"unindexed"} /\ UNCHANGED engine
  /\ UNCHANGED <<is_saving, thread, attached, editor, disk, counts>>

(* The window moves over the file: other lines are shown, and 'modified'   *)
(* is put back to what it was.                                             *)
ShiftWindow(e) ==
  /\ attached # << >> /\ e = Last(attached)
  /\ buffer.changedtick < MaxTick
  /\ buffer' = [buffer EXCEPT !.changedtick = @ + 1]
  /\ engine' = Synced(e, SyncedPieces(e))
  /\ UNCHANGED <<is_saving, thread, attached, editor, disk, history>>

(* What a save that is asked for now may write, the index growing until then. *)
Outputs(e) ==
  LET open == {engine[e].published} \cup engine[e].processed .. Len(engine[e].original)
  IN  {Output(e, engine[e].pieces, engine[e].published, first, last) : first, last \in open}

(* :w. Every attached engine that is not already saving saves. The save    *)
(* writes the pieces as they are, without a synchronisation.               *)
Write ==
  LET asked == {e \in Range(attached) : ~editor[e].saving}
      saved == {e \in asked : ~is_saving[e]}
  IN  /\ asked # {} /\ saves < MaxSaves
      /\ saves' = saves + 1
      /\ is_saving' = [e \in Engines |-> is_saving[e] \/ e \in saved]
      /\ thread' = [e \in Engines |->
           IF e \in saved
           THEN [NoThread EXCEPT !.pc = "open", !.pieces = engine[e].pieces,
                                 !.outputs = Outputs(e), !.document = Document(e)]
           ELSE thread[e]]
      /\ editor' = [e \in Engines |->
           IF e \in asked
           THEN [editor[e] EXCEPT !.save_tick = buffer.changedtick, !.saving = e \in saved]
           ELSE editor[e]]
      /\ mishaps' = mishaps \cup
           (IF \E e \in saved : engine[e].synced < Len(engine[e].original)
            THEN {"unindexed"} ELSE {})
      /\ UNCHANGED <<engine, attached, buffer, disk, opens>>

(* Mutant of SaveEnded: a save that has written everything has ended.      *)
SaveWritten(e) == thread[e].pc \in {"none", "rename", "reset"}

(* log_engine_get_save_progress < 0 *)
SaveEnded(e) == ~is_saving[e]

(* Mutant of Unchanged: whatever the user typed since is forgotten.        *)
AssumeUnchanged(e) == TRUE

Unchanged(e) == buffer.changedtick = editor[e].save_tick

(* The timer of a save, every 100 ms while state.save_progress >= 0. (A    *)
(* callback that runs after the buffer is gone does nothing.)              *)
PollSave(e) ==
  /\ editor[e].saving
  /\ SaveEnded(e)
  /\ editor' = [editor EXCEPT ![e].saving = FALSE]
  /\ buffer' = [buffer EXCEPT !.modified = @ /\ ~Unchanged(e)]
  /\ UNCHANGED <<engine, is_saving, thread, attached, disk, history>>

-----------------------------------------------------------------------------
(* The thread that save_async spawned.                                     *)

FreshInode ==
  CHOOSE i \in Inodes :
    i \notin {target, tmp} \cup
               UNION {{thread[e].fd, engine[e].mapped, late[e].fd} : e \in Engines}

(* Write at a position; what lies before it and was never written is a hole.*)
Put(old, pos, items) ==
  [i \in 1 .. (IF pos + Len(items) > Len(old) THEN pos + Len(items) ELSE Len(old)) |->
     IF pos < i /\ i <= pos + Len(items) THEN items[i - pos]
     ELSE IF i <= Len(old) THEN old[i] ELSE "hole"]

(* What the BufWriter w holds goes to its file, with some more. *)
WriteOut(w, more) ==
  content' = [content EXCEPT ![w.fd] = Put(@, w.pos, w.unwritten \o more)]

Written(t, more) ==
  [t EXCEPT !.pos = @ + Len(t.unwritten) + Len(more), !.unwritten = << >>]

(* The clones of a thread that ends are the last if the buffer is gone.    *)
Released(e) == IF e \in Range(attached) THEN engine[e] ELSE NoEngine

(* Mutant of OpensTarget: written in place, there is no name for later.    *)
OpensInPlace == TRUE

OpensTarget == FALSE

(* Create <path>.tmp, or truncate the one that was left behind; the writer *)
(* of the save that left it may still hold something for it.               *)
Open(e) ==
  /\ thread[e].pc = "open"
  /\ LET inode == IF OpensTarget THEN target ELSE IF tmp # NoFile THEN tmp ELSE FreshInode
     IN  /\ tmp' = inode
         /\ content' = [content EXCEPT ![inode] = << >>]
         /\ thread' = [thread EXCEPT ![e].pc = "write", ![e].fd = inode]
         /\ mishaps' = IF \E f \in Engines : late[f].fd = inode
                       THEN mishaps \cup {"leftover"} ELSE mishaps
  /\ UNCHANGED <<engine, is_saving, ui, target, late, counts>>

(* Mutant of SavingAfterOpenError: the early return forgets the flag.      *)
StillSaving == TRUE

SavingAfterOpenError == FALSE

OpenFails(e) ==
  /\ "open" \in Faults /\ thread[e].pc = "open"
  /\ thread' = [thread EXCEPT ![e] = NoThread]
  /\ is_saving' = [is_saving EXCEPT ![e] = SavingAfterOpenError]
  /\ mishaps' = mishaps \cup {"fault"}
  /\ engine' = [engine EXCEPT ![e] = Released(e)]
  /\ UNCHANGED <<ui, disk, counts>>

(* The lines of an edit, or where a piece of the original begins ...       *)
NextPiece(e) ==
  /\ thread[e].pc = "write" /\ thread[e].todo = << >> /\ thread[e].pieces # << >>
  /\ LET t == thread[e]
         piece == Head(t.pieces)
     IN  thread' = [thread EXCEPT ![e] =
           IF piece.kind = "memory"
           THEN [t EXCEPT !.pieces = Tail(t.pieces), !.todo = MemoryItems(piece.lines),
                          !.closing = FALSE]
           ELSE [t EXCEPT !.pc = "end", !.start = calc_offset(e, piece.from)]]
  /\ UNCHANGED <<engine, is_saving, ui, disk, history>>

(* ... and where it ends, the index having grown meanwhile.                *)
PieceEnd(e) ==
  /\ thread[e].pc = "end"
  /\ LET t == thread[e]
         piece == Head(t.pieces)
         blocks == SubSeq(engine[e].original, t.start + 1, calc_offset(e, piece.to))
     IN  thread' = [thread EXCEPT ![e] =
           [t EXCEPT !.pc = "write", !.pieces = Tail(t.pieces), !.start = 0,
                     !.todo = OriginalItems(blocks), !.closing = Unterminated(blocks)]]
  /\ UNCHANGED <<engine, is_saving, ui, disk, history>>

(* When there is no room for an item, what the BufWriter holds is written  *)
(* to the file, and then the item as well if it would fill the BufWriter.  *)
Spills(e) ==
  Head(thread[e].todo) \in Large \/ Len(thread[e].unwritten) = BufferSize

WriteItem(e) ==
  /\ thread[e].pc = "write" /\ thread[e].todo # << >>
  /\ LET item == <<Head(thread[e].todo)>>
         rest == [thread[e] EXCEPT !.todo = Tail(thread[e].todo)]
         through == IF Head(thread[e].todo) \in Large THEN item ELSE << >>
         kept == IF Head(thread[e].todo) \in Large THEN << >> ELSE item
     IN  IF Spills(e)
         THEN /\ thread' = [thread EXCEPT
                    ![e] = [Written(rest, through) EXCEPT !.unwritten = kept]]
              /\ WriteOut(thread[e], through)
         ELSE /\ thread' = [thread EXCEPT ![e] = [rest EXCEPT !.unwritten = @ \o item]]
              /\ UNCHANGED content
  /\ UNCHANGED <<engine, is_saving, ui, target, tmp, late, history>>

(* Mutant of TmpAfterWriteError: the incomplete file keeps its name.       *)
TmpKept == tmp

TmpAfterWriteError == NoFile

(* `break` leaves the innermost loop: the rest of the piece is skipped,    *)
(* but not the line feed that closes a piece of the original, and not the  *)
(* next piece. They are written to a file without a name.                  *)
WriteFails(e) ==
  /\ "write" \in Faults
  /\ thread[e].pc = "write" /\ thread[e].todo # << >>
  /\ Spills(e)
  /\ thread[e].closing => Len(thread[e].todo) > 1
  /\ tmp' = TmpAfterWriteError
  /\ thread' = [thread EXCEPT
       ![e].todo = IF thread[e].closing THEN <<LineEnd>> ELSE << >>]
  /\ mishaps' = mishaps \cup {"fault"}
  /\ UNCHANGED <<engine, is_saving, ui, target, content, late, counts>>

(* The line feed that closes a piece of the original: the error is ignored. *)
NewlineFails(e) ==
  /\ "newline" \in Faults
  /\ thread[e].pc = "write" /\ thread[e].closing /\ Len(thread[e].todo) = 1
  /\ Spills(e)
  /\ thread' = [thread EXCEPT ![e].todo = << >>]
  /\ mishaps' = mishaps \cup {"newline"}
  /\ UNCHANGED <<engine, is_saving, ui, disk, counts>>

AllWritten(e) ==
  /\ thread[e].pc = "write" /\ thread[e].todo = << >> /\ thread[e].pieces = << >>
  /\ thread' = [thread EXCEPT ![e].pc = "flush"]
  /\ UNCHANGED <<engine, is_saving, ui, disk, history>>

Flush(e) ==
  /\ thread[e].pc = "flush"
  /\ thread' = [thread EXCEPT
       ![e] = [Written(thread[e], << >>) EXCEPT !.pc = "rename"]]
  /\ WriteOut(thread[e], << >>)
  /\ UNCHANGED <<engine, is_saving, ui, target, tmp, late, history>>

(* What could not be written stays in the BufWriter. (A bound: not while   *)
(* the writer of an earlier save of this engine lingers for that reason.)  *)
FlushFails(e) ==
  /\ "flush" \in Faults /\ thread[e].pc = "flush" /\ thread[e].unwritten # << >>
  /\ late[e] = NoWriter
  /\ thread' = [thread EXCEPT ![e].pc = "reset"]
  /\ mishaps' = mishaps \cup {"fault"}
  /\ UNCHANGED <<engine, is_saving, ui, disk, counts>>

(* Without <path>.tmp there is nothing to rename; the result is not looked *)
(* at.                                                                     *)
Rename(e) ==
  /\ thread[e].pc = "rename"
  /\ \/ /\ tmp # NoFile
        /\ target' = tmp /\ tmp' = NoFile
        /\ UNCHANGED mishaps
     \/ /\ tmp = NoFile
        /\ UNCHANGED <<target, tmp, mishaps>>
     \/ /\ "rename" \in Faults /\ tmp # NoFile
        /\ mishaps' = mishaps \cup {"fault"}
        /\ UNCHANGED <<target, tmp>>
  /\ thread' = [thread EXCEPT ![e].pc = "reset"]
  /\ UNCHANGED <<engine, is_saving, ui, content, late, counts>>

(* The flag is reset: from here on the next save may begin. What a failed  *)
(* flush has left is still in the BufWriter.                               *)
Reset(e) ==
  /\ thread[e].pc = "reset"
  /\ is_saving' = [is_saving EXCEPT ![e] = FALSE]
  /\ thread' = [thread EXCEPT ![e] = NoThread]
  /\ late' = [late EXCEPT
       ![e] = IF thread[e].unwritten = << >> THEN @
              ELSE [fd |-> thread[e].fd, pos |-> thread[e].pos,
                    unwritten |-> thread[e].unwritten]]
  /\ engine' = [engine EXCEPT ![e] = Released(e)]
  /\ UNCHANGED <<ui, target, tmp, content, history>>

(* At the end of the closure the BufWriter is dropped, which tries once    *)
(* more to write what it holds.                                            *)
Drop(e) ==
  /\ late[e] # NoWriter
  /\ WriteOut(late[e], << >>) \/ UNCHANGED content
  /\ late' = [late EXCEPT ![e] = NoWriter]
  /\ UNCHANGED <<engine, is_saving, thread, ui, target, tmp, history>>

-----------------------------------------------------------------------------
SaveThread(e) ==
  \/ Open(e) \/ OpenFails(e) \/ NextPiece(e) \/ PieceEnd(e)
  \/ WriteItem(e) \/ WriteFails(e) \/ NewlineFails(e) \/ AllWritten(e)
  \/ Flush(e) \/ FlushFails(e) \/ Rename(e) \/ Reset(e)

Next ==
  \/ Write \/ Wipeout \/ Exit
  \/ \E e \in Engines :
       \/ \E lazy \in BOOLEAN : Attach(e, lazy)
       \/ Edit(e) \/ ShiftWindow(e)
       \/ IndexCount(e) \/ IndexPublish(e) \/ IndexFinish(e) \/ PollIndex(e)
       \/ PollSave(e) \/ SaveThread(e) \/ Drop(e)

(* A thread is scheduled by the operating system; timers fire and the main *)
(* loop of the editor gets round to their callbacks. The user need not do  *)
(* anything.                                                               *)
Spec ==
  /\ Init /\ [][Next]_vars
  /\ \A e \in Engines : WF_vars(SaveThread(e)) /\ WF_vars(PollSave(e)) /\ WF_vars(Drop(e))

-----------------------------------------------------------------------------
(* Only two saves of one file leave a hole in what they write.             *)
SaveTypeOK ==
  /\ target \in Inodes /\ tmp \in Inodes \cup {NoFile}
  /\ is_saving \in [Engines -> BOOLEAN]
  /\ \A e \in Engines :
       /\ engine[e].mapped \in Inodes \cup {NoFile}
       /\ engine[e].synced <= engine[e].published
       /\ engine[e].published <= engine[e].processed
       /\ engine[e].processed <= Len(engine[e].original)
       /\ thread[e].pc \in {"none", "open", "write", "end", "flush", "rename", "reset"}
       /\ thread[e].fd \in Inodes \cup {NoFile}
       /\ late[e] = NoWriter <=> late[e].fd \notin Inodes
       /\ thread[e].fd # NoFile /\ "reopened" \notin mishaps =>
            thread[e].pos <= Len(content[thread[e].fd])
  /\ Range(attached) \subseteq Engines
  /\ buffer.changedtick \in 0 .. MaxTick /\ buffer.modified \in BOOLEAN
  /\ mishaps \subseteq {"fault", "newline", "unindexed", "reopened", "leftover"}

(* Whatever fails and whenever the editor dies, the content of the file    *)
(* only changes, at once, to all that one save had to write. Left out: a   *)
(* file that is open twice, a lost line feed, whose error the code         *)
(* ignores, and a save that overtakes the writer of a failed one: it       *)
(* truncates the <path>.tmp that the failed save left and renames it, and  *)
(* then the old writer puts its leftover into what is the file by now.     *)
TargetAtomic ==
  [][/\ mishaps \cap {"reopened", "newline", "leftover"} = {}
     /\ content'[target'] # content[target]
     => \E e \in Engines : content'[target'] \in thread[e].outputs]_vars

(* What the engine has mapped and still reads is never truncated or        *)
(* written, even though a save replaces it.                                *)
MappedFileUntouched ==
  "reopened" \notin mishaps =>
    \A e \in Engines :
      engine[e].mapped # NoFile => content[engine[e].mapped] = engine[e].original

(* save_async is never asked while it would refuse: the shield in Lua is   *)
(* up as long as the flag of the engine.                                   *)
ShieldUp == \A e \in Range(attached) : is_saving[e] => editor[e].saving

SameText(a, b) == a = b \/ Append(a, LineEnd) = b

UnmodifiedMeansSaved ==
  attached # << >> /\ ~buffer.modified =>
    SameText(content[target], Document(Last(attached)))

(* A buffer without 'modified' shows what is on disk, whatever the user    *)
(* typed during a save. Left out: the mishaps for which the refuted        *)
(* properties show the contrary.                                           *)
ModifiedHonest == mishaps = {} => UnmodifiedMeansSaved

(* Every save is reported, also one that failed, unless the buffer goes.   *)
SaveReported ==
  \A e \in Engines : editor[e].saving ~> ~editor[e].saving \/ e \notin Range(attached)

(* Refuted: "when you save, we stitch it all together and atomic-swap the  *)
(* file": without any failure, a file that is saved while it is indexed    *)
(* loses what the index has not reached.                                   *)
SavesWholeDocument ==
  \A e \in Engines :
    thread[e].pc = "reset" /\ mishaps \cap {"fault", "newline", "reopened"} = {} =>
      content[target] = thread[e].document

(* Refuted: a save "to prevent data loss" that clears 'modified' and says  *)
(* "Save complete." has saved.                                             *)
SaveCompleteMeansSaved == mishaps \subseteq {"fault", "newline"} => UnmodifiedMeansSaved

(* Refuted: "anti-spam shield. one save at a time."                        *)
OneSaveAtATime == \A e, f \in Engines : is_saving[e] /\ is_saving[f] => e = f
=============================================================================
