------------------------------ MODULE IndexPoll ------------------------------
(***************************************************************************)
(* The editor's side of indexing (lua/juanlog/handlers.lua): after a file  *)
(* is opened, a repeating timer asks the engine how far the indexer is and *)
(* how many lines there are, until the indexer is done; a wiped buffer     *)
(* frees the engine. All of it runs on the editor's main thread, the       *)
(* indexer beside it. Timer callbacks are queued (vim.schedule_wrap) and   *)
(* may run after the buffer they were meant for is gone.                   *)
(*                                                                         *)
(* A timer of libuv that is closed must not be closed again: its close     *)
(* raises an error, which is why the code calls it under pcall where it    *)
(* expects that.                                                           *)
(***************************************************************************)
EXTENDS LineIndex

CONSTANTS Mantissa,   \* an f32 tells all numbers below this one apart (2^24)
          MaxQueued   \* bound: callbacks waiting at the same time

ASSUME PollAssumption ==
  Mantissa \in Nat \ {0} /\ Mantissa % 2 = 0 /\ MaxQueued \in Nat

VARIABLES
  step,              \* where the main thread is
  valid,             \* the buffer exists
  complete,          \* state.indexing_progress >= 1.0
  total,             \* state.total
  timer,             \* state.poll_timer: "none" | "running" | "closed"
  queued,            \* callbacks of the timer in the editor's queue
  is_eof_mode,       \* state.is_eof_mode: the end is shown without numbers
  initial_render_done,
  announced,         \* "Indexing complete. Total lines: " was shown
  saw_finished       \* history: is_finished when progress was last asked

buffer == <<valid, complete, total, is_eof_mode, initial_render_done>>
history == <<announced, saw_finished>>
engine == <<opened, index, bytes_processed, indexer, reader>>
pollVars == <<vars, step, buffer, timer, queued, history>>

-----------------------------------------------------------------------------
(* What the main thread calls.                                             *)

PowerOf2(u) == \A d \in 2 .. u : u % d = 0 => d % 2 = 0

(* How far the f32 next to n are from each other. *)
Ulp(n) == Max({1} \union {u \in 1 .. n : PowerOf2(u) /\ u * Mantissa <= 2 * n})

(* `n as f32`: the next f32, the even one of two.                          *)
F32(n) ==
  LET below == n \div Ulp(n)
      rest == n % Ulp(n)
      down == 2 * rest < Ulp(n) \/ (2 * rest = Ulp(n) /\ below % 2 = 0)
  IN  (IF down THEN below ELSE below + 1) * Ulp(n)

(* Lengths are told apart that are a chunk of the thread apart: with five  *)
(* megabytes, up to a length of 2^46.                                      *)
ASSUME FloatAssumption == \A f \in Files : Ulp(Len(f)) <= ChunkSize

(* log_engine_get_progress >= 1.0. The quotient of two f32 is 1 only if    *)
(* they are equal.                                                         *)
ProgressComplete == is_finished \/ F32(bytes_processed) >= F32(Len(file))

GetProgress ==
  /\ complete' = ProgressComplete
  /\ saw_finished' = is_finished

(* Mutant of TotalLines: what an earlier call returned is used again.      *)
TotalLinesCached == total

(* log_engine_total_lines of a buffer without edits. *)
TotalLines == original_total_lines

-----------------------------------------------------------------------------
PollInit ==
  /\ Init
  /\ step = "attach" /\ valid = TRUE
  /\ complete = FALSE /\ total = 0
  /\ timer = "none" /\ queued = 0
  /\ is_eof_mode = FALSE /\ initial_render_done = FALSE
  /\ announced = FALSE /\ saw_finished = FALSE

(* attach_to_buffer and the beginning of setup_dynamic_window. *)
Attach ==
  /\ step = "attach"
  /\ total' = TotalLines
  /\ GetProgress
  /\ step' = "setup"
  /\ UNCHANGED <<engine, cancel, valid, is_eof_mode, initial_render_done, timer, queued,
                 announced>>

(* finish_indexing renders and announces; the timer is only started when   *)
(* the progress asked for before was not complete.                         *)
Setup ==
  /\ step = "setup"
  /\ total' = TotalLines
  /\ announced' = complete
  /\ timer' = IF complete THEN "none" ELSE "running"
  /\ step' = "idle"
  /\ UNCHANGED <<engine, cancel, valid, complete, is_eof_mode, initial_render_done, queued,
                 saw_finished>>

(* Mutant of TimerAfter: a timer without a repeat interval fires once.     *)
TimerOnce == "fired"

TimerAfter == "running"

(* The timer fires between two callbacks, and again if the editor does not *)
(* get to the first (a prompt).                                            *)
TimerFires ==
  /\ timer = "running" /\ step = "idle" /\ queued < MaxQueued
  /\ queued' = queued + 1
  /\ timer' = TimerAfter
  /\ UNCHANGED <<engine, cancel, step, buffer, history>>

(* Mutant of BufferIsValid: the callback does not ask. *)
BufferAssumed == TRUE

BufferIsValid == valid

(* The callback of a buffer that is gone stops the timer, if it can. *)
PollGone ==
  /\ step = "idle" /\ queued > 0 /\ ~BufferIsValid
  /\ queued' = queued - 1
  /\ timer' = "closed"
  /\ UNCHANGED <<engine, cancel, step, buffer, history>>

(* Otherwise it asks for the progress first ... *)
PollProgress ==
  /\ step = "idle" /\ queued > 0 /\ BufferIsValid
  /\ queued' = queued - 1
  /\ GetProgress
  /\ step' = "polled"
  /\ UNCHANGED <<engine, cancel, valid, total, is_eof_mode, initial_render_done, timer,
                 announced>>

(* ... then for the number of lines, and shows the first ones. *)
PollTotal ==
  /\ step = "polled"
  /\ total' = TotalLines
  /\ initial_render_done' = (initial_render_done \/ total' > 0)
  /\ step' = IF complete THEN "done" ELSE "idle"
  /\ UNCHANGED <<engine, cancel, valid, complete, is_eof_mode, timer, queued, history>>

(* Mutant of EofModeAfter: the view is left as it is. *)
EofModeKept == is_eof_mode

EofModeAfter == FALSE   \* jump_to_eof goes to the last line by its number

(* Complete: the timer is closed, the number announced, and a view of the  *)
(* end gets its line numbers.                                              *)
PollDone ==
  /\ step = "done"
  /\ timer' = "closed"
  /\ announced' = TRUE
  /\ is_eof_mode' = EofModeAfter
  /\ step' = "idle"
  /\ UNCHANGED <<engine, cancel, valid, complete, total, initial_render_done, queued,
                 saw_finished>>

(* G: the end of the file, by bytes while its line numbers are unknown. *)
JumpToEof ==
  /\ step = "idle" /\ valid
  /\ is_eof_mode' = ~complete
  /\ UNCHANGED <<engine, cancel, step, valid, complete, total, initial_render_done, timer,
                 queued, history>>

(* gg, or a jump to a line that is indexed. *)
JumpToLine ==
  /\ step = "idle" /\ valid /\ is_eof_mode
  /\ is_eof_mode' = FALSE
  /\ UNCHANGED <<engine, cancel, step, valid, complete, total, initial_render_done, timer,
                 queued, history>>

(* BufWipeout. Closing a closed timer ends the callback with an error      *)
(* before the engine is freed.                                             *)
Wipeout ==
  /\ step = "idle" /\ valid
  /\ valid' = FALSE
  /\ IF timer = "closed" THEN UNCHANGED <<timer, cancel>>
     ELSE /\ timer' = IF timer = "none" THEN "none" ELSE "closed"
          /\ cancel' = TRUE
  /\ UNCHANGED <<engine, step, complete, total, is_eof_mode, initial_render_done, queued,
                 history>>

MainThread == Attach \/ Setup \/ PollGone \/ PollProgress \/ PollTotal \/ PollDone

IndexerThread == Indexer /\ UNCHANGED <<step, buffer, timer, queued, history>>

PollNext ==
  \/ IndexerThread
  \/ MainThread \/ TimerFires
  \/ JumpToEof \/ JumpToLine \/ Wipeout

(* The indexer thread runs, the timer fires while it is running, and the   *)
(* editor's main loop gets round to what is queued.                        *)
PollSpec ==
  /\ PollInit /\ [][PollNext]_pollVars
  /\ WF_pollVars(IndexerThread) /\ WF_pollVars(MainThread) /\ WF_pollVars(TimerFires)

-----------------------------------------------------------------------------
PollTypeOK ==
  /\ TypeOK
  /\ step \in {"attach", "setup", "idle", "polled", "done"}
  /\ valid \in BOOLEAN /\ complete \in BOOLEAN /\ queued \in 0 .. MaxQueued
  /\ total \in 0 .. Len(file) + 1
  /\ timer \in {"none", "running", "closed"}
  /\ is_eof_mode \in BOOLEAN /\ initial_render_done \in BOOLEAN
  /\ announced \in BOOLEAN /\ saw_finished \in BOOLEAN

FinalTotal == AllLines

(* A queued callback never touches an engine that was freed meanwhile.     *)
NoUseAfterFree == step \in {"setup", "polled", "done"} => ~cancel

(* Progress is asked for before the number of lines: once the indexer is   *)
(* seen to be finished, the announced number is the final one.             *)
(* (What the scanners miscount or do not see is left out, see ScanCounts.) *)
AnnouncedAfterFinish ==
  announced /\ saw_finished /\ step = "idle" /\ NoTabs /\ OneWindow =>
    total = FinalTotal

LastChunkStart == IF file = << >> THEN 0 ELSE ((Len(file) - 1) \div ChunkSize) * ChunkSize

(* Behind this position are the chunks that may not be published when      *)
(* progress is complete: the last one, and the one before it if the        *)
(* beginning of the last is the same f32 as the end of the file.           *)
LastMissing ==
  IF F32(LastChunkStart) < F32(Len(file)) THEN LastChunkStart
  ELSE IF LastChunkStart < ChunkSize THEN 0 ELSE LastChunkStart - ChunkSize

(* If the indexer was only seen to have read the whole file, to the        *)
(* precision of f32, the announced number lacks at most the lines of the   *)
(* last chunk, or of the last two where f32 does not tell that the last is *)
(* still to be read. (Left out: bytes that the scanners miscount, files    *)
(* that are not cut at their line feeds, more than one window.)            *)
OnlyLastChunksMissing ==
  announced /\ NoTabs /\ OneWindow =>
    /\ ~is_fixed_width => total >= count_newlines(0, LastMissing)
    /\ total <= FinalTotal

(* Whoever waits at the end of a file that is being indexed gets back to   *)
(* numbered lines when the number is announced.                            *)
EofModeEnds == announced /\ step = "idle" => ~is_eof_mode

(* Every buffer that stays open hears of the end of indexing (but see      *)
(* IndexerEnds).                                                           *)
IndexingAnnounced == Indexable => <>(announced \/ ~valid)

(* Refuted: "Indexing complete. Total lines: " names the number of lines.  *)
AnnouncedTotalIsFinal == announced => total = FinalTotal

(* Refuted: wiping the buffer frees the engine ("trigger the cyanide pill  *)
(* in rust").                                                              *)
WipeoutFrees == ~valid => cancel
=============================================================================
