# Verification of juan-logs.nvim

TLA+ models of juan-logs.nvim, a Neovim plugin that opens files of many gigabytes: a Rust engine (`src/src/`) maps
the file, indexes its lines in a thread and keeps edits in a piece table; Lua (`src/lua/juanlog/`) shows a window of
it in a buffer and calls the engine through a C interface. TLC checks the models on small instances. TLAPS proves, for
every value of the constants, every safety property that the passing runs check, the refinement of the abstract
document among them; liveness is model-checked.

To check: `tlc -workers 2 -config MCPieceTable.cfg MCPieceTable` (and so on for the other configurations) and
`tlapm PieceTableProofs.tla` (and so on for `ListLemmas`, `DocumentProofs`, `LineIndexProofs`, `IndexPollProofs`,
`SaveAsyncProofs`, `ViewportProofs` and `Pager32Proofs`).

## 1. Inventory

| Component | State | Operations | Correct when |
|---|---|---|---|
| Piece table (`core.rs` 481-771) | `pieces`, `indexed_lines_added`, `memory_buffer`, `wasted_memory_lines` | `sync_pieces`, `apply_edit`, `split_piece_at`, `compact_memory`, `get_block`, `total_lines` | it stands for the lines of the file with the edits made, whatever the indexer publishes meanwhile |
| Line index (`core.rs` 290-587) | `IndexState` behind a lock, the atomics `bytes_processed` and `cancel_token` | `build_index_sequential` (thread), `build_index_rayon`, `calc_offset`, `get_original_bytes`, `log_engine_free` | it counts the lines, and a line number leads to where the line begins |
| Poll and life of the engine (`handlers.lua` 137-339, `core.lua` 91-147) | `state` of a buffer, timers, queued callbacks, `indexing_progress`, `is_eof_mode` | attach, `finish_indexing`, poll callback, `jump_to_eof`, `jump_to_line`, `BufWipeout` | the end of indexing is announced, with the right number; nothing is used after it was freed; wiping frees |
| Asynchronous save (`core.rs` 880-1010, `handlers.lua` 27-71) | `is_saving`, `save_progress`, `save_tick`, `changedtick`, `modified`, `<path>.tmp`, the file, the mapping | `BufWriteCmd`, `save_async` and its thread, save timer | the file changes atomically, to the whole document; the user is told the truth |
| Edit bridge and viewport (`handlers.lua` 12-25, 73-134, `core.lua` 29-124) | `offset`, `total`, `updating`, the lines of the buffer | `on_lines`, window shift, `fetch_lines`, `jump_to_line` | the buffer shows the lines `offset ..` of the document |
| Search (`c_api.rs` 194-326, `commands.lua`) | `last_query` and its limits | forward, backward, the nearer match, `n`, `N` | the nearest matching line within the limits |
| Asynchronous search (`core.rs` 1012-1103) | `is_searching`, `search_cancel`, `search_result` | start, cancel, status | a search reports the first match of the document it began with, and ends |
| Fixed-width mode (`core.rs` 115-265, 333-345, 510-517) | `is_fixed_width` | `is_monster_line`, `find_safe_cut` | cuts are monotone and cover the file, and searches agree with them |
| Byte scanning (`core.rs` 38-265) | none | AVX2 and SWAR counts, monster lines, cuts | both find what they look for |
| Pagers (`pager_64.rs`, `pager_32.rs`) | mapping, or a cache of four windows and pinned slices | `get_chunk`, `get_byte` | the bytes asked for, valid while they are used |
| Synchronous save (`core.rs` 823-878) | none | `log_engine_save` | as the asynchronous one; exported, but Lua no longer calls it |
| Loader, configuration, build scripts | none that lasts | - | - |

How they interact. The main thread of the editor runs all Lua callbacks one after another; only there do the piece
table, Lua state and buffer change. Timers of libuv queue callbacks for it (`vim.schedule_wrap`), so a callback may run
after what it was queued for is gone. The indexer thread shares the index (`RwLock`), `bytes_processed` and
`cancel_token` with it. A save runs in a thread with clones of the piece table and shares the index, `is_saving` and
the file system. A search in the background runs in a thread with such clones, too, and shares three
atomics. On 32-bit builds all threads share the windows of the pager. There is no other channel: Lua learns of the
threads by polling.

What is hard: the index grows between any two steps of the main thread, also in the middle of an edit (`sync_pieces` is
called twice); progress, lines and the finished flag are published at different moments; a save outlives the buffer and
may meet a second engine; every system call of a save may fail, and the editor may die at any moment. `PROJECT.json`
lists each such place with its line and the properties that watch it.

## 2. Plan

Done, in the order of importance: `PieceTable` with its abstract specification `Document` and its proofs; `LineIndex`;
`IndexPoll`, which composes the index with the editor; `SaveAsync`; `Viewport`; `Search` on the piece table; `ByteScan`
and `FileBlocks` with the fixed-width mode; `Pager32` and `AsyncSearch`, which composes the search thread with it.

The proofs followed the runs, in the same order: the piece table and its refinement, the index, the poll, the saves, the
viewport, the searches.

To do:

1. What a save writes for an edited line of a file of fixed width, with what a reader of that file then sees.
2. The undo history of the editor over a swap of the window (section 6), if the plugin comes to handle it.
3. The reads of `Pager32` under `SaveAsync`: that a save on a 32-bit build writes what `SaveCopies` says of a piece is
   shown for the pieces, not for the file.

## 3. Modules

**Document** is what the user is promised: a list of lines to which the lines of the file arrive at the end, and to
which each edit applies at once: `num_deleted` lines from `start_line` make way for the new ones, and an edit that is
asked for is made.

**PieceTable** has the fields of `LogEngine` as variables, with their names. `apply_edit` is a sequence of steps
(`pc`): synchronise, locate, synchronise again and split (`split_piece_at`), delete piece by piece, insert, compact
piece by piece, return. Between any two steps `IndexGrows` may publish lines: that is all the thread can do to the
table. Reads (`get_block`, `total_lines`) are single steps, because only the main thread changes what they use, and
the index they read does not change what a line number means (`OffsetStable` below); they synchronise, which is the
change they make. A line is a value of `Text` or a number, its position in the file. Lines of the file are not bytes
here: those are the subject of `LineIndex`.

**ByteScan** has the scanners, once as AVX2 and once as SWAR (`avx2` is chosen with the file). They are exact but for
the borrow of the zero test of SWAR, `(x - 0x01..01) & ~x & 0x80..80`: a byte that differs from what is looked for in
its lowest bit alone and lies right behind a hit in the same word is a hit as well. `Miscounted` says which bytes those
are, in the words between the first and the last aligned address; so the kinds of bytes are those that this tells
apart: a line feed, `vt` (0x0B, which it is confused with), a carriage return, a separator (comma, space, bracket,
brace, as one), `next` (the byte it is confused with) and another. A monster line is a run of lanes or words, a safe
cut the place behind the last separator in reach.

**LineIndex** is over these bytes. The file is any of `Files`; it is indexed at
once (`AtOnce`, `config.lazy = false`) or by the thread, one action for each look at the token, each count with the
store of `bytes_processed`, each publication under the lock, and the end. `calc_offset` is an operator, its loops
recursive functions with the arithmetic of the code; a read takes the lock twice (`ReadFirst`, `ReadLast`), with the
thread in between. A file that begins with a monster line (`Monstrous`) has no index: `FixedWidth` is the third way to
begin, and `FixedOffset` the first branch of `calc_offset`. `narrow` is a build for 32 bits, which reads through
`Pager32`: `get_chunk` stops at the end of a window (`ChunkEnd`), and a length is taken modulo `Usize` where the code
casts it (`AsUsize`). No caller looks at how much it got. The thread counts what lies in the window and goes on behind the
whole chunk (`IndexCount`; `core.rs` 390-401), so that line feeds are lost (`Hidden`): 256 MB are no multiple of its 5 MB.
`calc_offset` likewise goes on behind a slice of 8192 bytes of which it saw a part (`Seen`). What is left of a file of
4 GiB or more may be a `take` of 0: then the thread goes round for ever (`core.rs` 385), and `IndexerEnds` is stated for
what is shorter (`Indexable`).

**FileBlocks** (extends `LineIndex`) has what is read of the file by bytes: the lines of a file of fixed width as
`get_block` shows and `save` writes them, the line a search reports for a match in it, and `get_eof_block`, which walks
back from the end of the file without the index.

**IndexPoll** extends `LineIndex` with the editor: `Attach` and `Setup` are the two parts of attaching between which the
indexer may run, and a poll is three (`PollProgress`, `PollTotal`, `PollDone`), one for each time it asks the engine.
`queued` counts callbacks that wait for the main loop. Reads of the engine by `G`, `gg` are not repeated here.
The progress is the quotient of two f32, which tell numbers below `Mantissa` (2^24) apart and round greater ones to
the next multiple of a power of two, the even one of two (`F32`): in a file over 16 MB it may be 1.0 before the last
bytes are read, and with a short last chunk before that chunk is read. `FloatAssumption` says what is needed of that
rounding: that it confuses no lengths further apart than a chunk of the thread.

**SaveAsync** models lines as blocks of the file that are indexed and written as one. The thread of each engine has its
own `pc`, copy of the pieces and `BufWriter`; the file system is a content for each inode, and a name for two of them
(`target` and `tmp`), so that a mapping keeps the inode it was made of. `Put` writes at a position, which is what two
threads that write one file do to each other. `Faults` says which calls may fail. The end of the closure is two steps:
`Reset` lowers the flag (`core.rs` 1006), and `Drop` gives up the `BufWriter` (1007), which tries once more to write what
a failed flush has left (`late`). A new `:w` may come between them, truncate the same `<path>.tmp` and rename it, so that
the old writer writes into the new file: the mishap `leftover`. `Exit` is the end of the editor at any moment, and
`Attach` may come again, for a new buffer or by `:e!` for one that is attached. `mishaps` is a history of what has gone
wrong, from which the properties say what they are about; `outputs` and `document` are what a save had
to write when it was asked for. Abstractions: an edit is a line in front of all others or the deletion of the first
piece or block (all edits are in `PieceTable`); the progress in percent has no effect and is left out; the save timer
fires at any time while the buffer is there, and a callback that comes later does nothing, as `IndexPoll` shows for
its twin; a crash is of the
process, so that what was written to the file system is there afterwards (the code calls no `fsync`, so that nothing
can be said of a loss of power).

**Search** (extends `PieceTable`) has the walks of `log_engine_search` and `log_engine_search_backward` over the pieces
as recursive functions, with their limits and their saturating subtractions, and the choice of `do_search`. They change
nothing but to synchronise the table, so they are asked of every table that `PieceTable` reaches.

The engine searches the bytes from the offset of one line to that of another, and a line of the file is here what lies
between its offset and the next, wherever that is. Offsets may lie in the middle of a text line: at the cuts of a file of
fixed width (`find_safe_cut`), and where a chunk of the index begins in the middle of a line (section 7). A match may
therefore lie in two lines, so a query is a record of the lines it matches in (`lines`) and of the lines of the file in
which a match begins that ends in the next (`over`); an edit that comes between the two, or a limit, hides such a match.
What the engine makes of the position of a match is a number of lines: with a division by 4096 in a file of fixed
width (`c_api.rs` 233, 302), off by one to either side (`FoundNearby`), else by counting line feeds, one too many for
a line that begins at such a chunk. `slip` is that difference, between -1 and 1 (`Slips`), and `Reported` what is answered.
The last published line of a file that is still indexed is read on to `bytes_processed` and beyond: `extra` is the
number of lines seen there. `ForwardFirst`, `BackwardLast` and `NearestMatch` say which match is reported and under
which numbers (`Numbers`): its own or the neighbour's that the slip leads to.

**Viewport** has the fields of the Lua `state`, the buffer and the cursor (`row`, 0 when the user has moved it since), on
a document that changes as `Document` says; `PieceTable` shows that the engine does that. Each callback of the main
thread is an action: an edit (`on_lines`), a jump, a move of the cursor, which starts the timer, and the timer
(`Shift`), which may find another window than the one it was started for. Only the poll is three (`PollProgress`,
`PollTotal`, `PollShow`), between which lines may arrive: it asks for the progress, then for the total, then for lines
(`handlers.lua` 240-248), and `finish_indexing` asks in the same order (`Init`). Lines are one unit long but for `Long` ones,
and `fetch_lines` has room for `MaxLen`; what is left of a line that was cut is `Cut`, which the properties let stand
for any. `drift` is a history: why the buffer need not show the document until it is filled again. Those reasons are
what the code does, and the run shows that there are no others as long as the engine keeps to `Document`. It does so by
lines of the file, and not by their text where a line has its offset in the middle (`LineBeginsAtItsOffset`, section
7): after an edit next to such a line the engine answers with its two halves as two lines, which the buffer showed as
one, and nothing in this module sees that.

- `dropped`: an edit while the file is indexed is not sent to the engine (`handlers.lua:14`);
- `blank`: a trailing blank line of an edit is not inserted (`core.rs:675`);
- `phantom`: a window without lines shows the one empty line that a buffer always has. A document that was edited
  to less than `chunk_size` lines can get there by scrolling: the window goes to `total - chunk_size`, which is negative
  (`handlers.lua:101`), the engine finds no such line, and the buffer is empty until the next jump;
- `rerender`: the poll shows the first lines without resetting `offset` (`handlers.lua:244`), which matters when
  a jump came before it.

**Pager32** has the windows in memory as records of a number and an address; an address is free as soon as neither the
cache nor a thread holds it, and may be given to the next window. A call is a sequence of steps: look up under the read
lock, fetch under the write lock (found after all, read, or failed after the eviction), pin. **AsyncSearch** composes it
with `search_async`: a thread that walks copies of the pieces, and the editor thread that reads, edits, cancels, asks
and frees meanwhile. The documents of the editing session are a constant (how edits change them is in `PieceTable`),
and a line of the file is one unit of the pager. `cancelled` and `blind` (a read failed) are histories.

The proofs are in modules of their own, named after what they are about: **PieceTableProofs**; **DocumentProofs**, which
extends it with the refinement and the searches; **LineIndexProofs** (with `ByteScan` and `FileBlocks`), on which
**IndexPollProofs** builds; **SaveAsyncProofs**; **ViewportProofs**; **Pager32Proofs** (with `AsyncSearch`). **ListLemmas**
has what they share: what the folds and sums of the community modules compute for a list of any length.

## 4. Runs

| Run | Instance | Shows |
|---|---|---|
| `piece_table` | 2 lines in the file, inserts of up to 2 lines, deletions of up to 2 (also past the end), compaction after 2 wasted lines, at most 3 typed lines in memory | well-formed pieces (`PiecesInBounds`, `OriginalsInOrder`, `MemoryNotShared`), an exact count of waste (`WastedExact`), reads that return the lines asked for (`BlockCorrect`), searches in both directions and the nearer match (`ForwardFirst`, `BackwardLast`, `NearestMatch`) of four queries, with every slip, and `RefinesDocument` |
| `line_index` | all files of up to 7 bytes (6 with vertical tabs), chunks of 3 in the thread and 1 in parallel, both processors with lanes of 3 and words of 2; files of fixed width of up to 18 bytes; builds for 32 bits with windows of 8 bytes and a usize of 16 values, and files beyond either | counts, search, offsets, reads (`CountCorrect`, `ScanCounts`, `SearchFindsLastChunk`, `OffsetExact`, `OffsetStable`, `ReadCovers`), `IndexerEnds`; lines of fixed width (`FixedLinesCover`, `FoundNearby`) and the end of the file (`EofBlockIsTail`) |
| `index_poll` | all files of up to 5 bytes in chunks of 2, floats that do not tell 4 from 5, up to 2 queued callbacks | `NoUseAfterFree`, `AnnouncedAfterFinish`, `OnlyLastChunksMissing` (files of one window), `EofModeEnds`, `IndexingAnnounced` |
| `save_async` | two blocks, the second without a line feed, one engine made twice, two saves, three changes of the buffer, every failure | `TargetAtomic`, `MappedFileUntouched`, `ShieldUp`, `ModifiedHonest`, `SaveReported` |
| `viewport` | 6 lines, the last of which may be published after the progress is complete, windows of 4 with a margin of 2, a long line that cuts a window off, edits of up to 2 lines, twice | `WindowShows`; `CursorLands`, unless the row is beyond what the next window reaches |
| `search_32` | a file of 5 lines in windows of 2, of which 2 are kept, three documents of a session, 5 calls of the editor | `SliceAlive`, `SaveCopies`, `SearchAnswer`, `SearchEnds` |
| `line_begins`, `index_total`, `index_wipeout`, `save_unindexed`, `save_failed`, `save_twice` | smaller instances of the same modules | what the code says of itself and does not do, see section 7 |

Why the bounds are enough. *Piece table*: two lines of the file and two typed lines are what it takes to split a piece of
each kind, to delete the tail before later lines arrive, to delete over three pieces and to compact a piece that is not
the first; what depends on longer lists is proved. *Line index*: seven bytes in chunks of three are three chunks, one of
them short: lines across a boundary, chunks without a line feed, `\r\n` across a boundary, an end at a boundary and
not. A window of 8 bytes ends inside of a chunk of three, so that a line feed hides behind it, and inside of a slice of
four; the longest files have a byte less than the usize has values, as many, or a few more, so that the sample may be
empty and `take` 0.
*Poll*: three chunks make the last one and the one before it different from the others; the last byte of five is what a
float with two bits of mantissa does not tell from the end; two callbacks are one that runs and one that is late.
A vertical tab needs a line feed before it in a word, single bytes before and behind: six bytes have them. A file of
fixed width has two cuts inside, so that one may overtake the other, with separators in and out of reach.
*Search*: the four queries match typed lines, those and a line of the file, only a place that goes over from one line
of the file to the next, and that with typed lines; all three slips are tried with each.
*Viewport*: six lines in windows of four are the least in which a window can be at the top, at the bottom and between,
with half a window of overlap; two edits are what it takes to make the document shorter than a window and then edit at
the wrong place. *Pager*: two kept windows of three make every read of a third throw one out that the other thread may
hold; a piece of five lines ends two windows further on.
*Save*: `Large` and `BufferSize` let an item go to the file directly, stay in the buffer, and push out what is
there; two openings are what it takes for a thread to outlive its engine; only `save_twice` needs two engines. `MaxSaves`
is two, a save that fails and the one that meets its leftover; one writer lingers of each engine at a time (the guard
of `FlushFails`). `MaxTick`, `MaxOpens`, `MaxLazy`, `MaxQueued` and `MaxMemory` bound what the user could go on doing.

Deadlock is not checked in `line_index`, `index_poll`, `save_async` and `search_32`: a file that is indexed and freed, an
editor that has exited, and an engine that was freed do nothing more. The piece table and the viewport never stop, and
are checked.

Fairness. `WF(EditStep)`: an edit that was called runs to its end, in one callback without waiting. `WF(Indexer)`: the
operating system schedules the thread and its loop has no condition to wait for. `WF(TimerFires)` and `WF(MainThread)`:
a repeating timer fires, and the main loop gets round to what is queued. `WF(SaveThread)`, `WF(Drop)`, `WF(PollSave)`:
likewise, the thread to the end of its closure. `WF(SearchThread)`: its loop has no condition to wait for but the lock of
the pager, which is never held across a step of another thread. The user is never required to do anything, and no failure is required to happen or to stop happening.

## 5. Theorems

`PROJECT.json` lists the theorems that a reader should know of, each with the property it proves. An invariant of a run
is seldom inductive; what follows says by what it was strengthened and why that is preserved.

### From which assumptions

The named ones of the modules and nothing else. Counts and bounds are natural numbers; sizes of chunks, windows, lanes,
words and buffers are positive; a file is a sequence of bytes, an insertion one of lines; the margin of the viewport is
between 1 and half a window, as `config.lua` and `core.lua` have it. These say more than a type:

- `ScanAssumption`: the bytes in which a safe cut is looked for (128) are a positive multiple of a lane and of a word;
- `ChunkAssumption`: they are fewer than the width of a line (`core.rs` has 128 and 4096);
- `PagerAssumption`: on a build for 32 bits the sample (64 KB) fits in a window (256 MB), the chunks of the parallel
  builder (2 MB) and the width of a line (4096) divide it, and a usize holds twice its size (2^32);
- `PollAssumption` and `FloatAssumption`: the number of floats that f32 tells apart is even (2^24), and lengths that it
  takes for the same are at most a chunk of the thread apart; with chunks of 5 MB that is so up to a length of 2^46;
- `QueriesAssumption`: a match lies in a line, or begins in a line of the file and ends in the next;
- `SaveAssumption`: there are finitely many engines, so that there is an inode for the next file;
- `DocumentsAssumption`: the documents of a session have pieces that lie in the file, which is `PiecesInBounds` of
  `PieceTable`.

### Induction and loops

Many definitions add up, concatenate or walk a list. The prover cannot cite an induction principle that takes an
operator, so `ListLemmas` states induction for a *set* of numbers (`SetInduction`, by the well-foundedness of `<` on the
naturals), and each use defines the set of those lengths for which the claim holds. `Recursion` gives a function that is
defined by recursion over the naturals its equations, and `Chain` says where a loop ends that is written as such a function.
From these follow the laws of `FlattenSeq` and of sums that all the modules below cite.

### The piece table and the document

**PieceTableProofs**: `TypeOK`, `PiecesInBounds`, `OriginalsInOrder` and `MemoryNotShared`. `IInv` adds to them:

- `Position`: while an edit is before its second synchronisation or its split, `piece_idx` is a piece of the table,
  although lines may have arrived since it was found: an arrival only ever makes the last piece longer or appends one;
- `NothingToDelete`: before the deletion begins `remaining_delete` is 0, so that a new call, whose number of lines to
  delete may be smaller, keeps the bound that `TypeOK` states;
- `NotCompacting`: outside of compaction the cursor is at 1 and the new buffer is empty, so that no piece is taken for
  one that points into the new buffer.

Action by action: lines that arrive are behind all lines synchronised before, so that a longer last piece or a new one
keeps order and bounds; a split makes two parts of one piece, which lie where it lay; a deletion drops pieces or the
front of one; a typed line gets a new place at the end of `memory_buffer`, which no piece reaches; compaction copies the
lines of one piece behind those of the pieces before it.

`WastedExact` (`WastedCorrect`) needs to know in the middle of a compaction how much was copied: `WInv` adds that the new
buffer is as long as the pieces before the cursor have lines. A split changes no sum, a deletion moves lines from one side
of the equation to the other.

**DocumentProofs**: the table implements the document (`TableIsDocument`) and a block is a part of it (`BlocksCorrect`).
`DocInv` adds to `IInv` where an edit is: the place found for it holds its line until the split (`Placed`), and the
insertion comes when all was deleted (`DeletedAll`). Lines are what the pieces of a list stand for (`Shown`), and a list
of pieces is cut at an index into what is above and below; each operation changes the lines at one place and leaves both
sides alone. For the document the whole edit happens with the split, when its place is fixed and the last lines that can
get behind it are in: what is still to be deleted and inserted is counted as done (`Pending`), so that the later steps
are stutters, and a synchronisation is an arrival of lines. Proved is `Doc!Init /\ [][Doc!Next]_docVars`; that the edit ends, `Document`'s fairness, is
checked by the run.

The synchronous searches are walks over the pieces. What a search sees in one piece is what of the document matches
within the limits (`HitsInPiece`, `Matched`), a match that goes over to the next line included if that line is of the
same piece and wanted, and the number it is given is its own or the one the slip leads to (`ReportedIs`). Both are proved from the end of the walk backwards: *if the rest
of the pieces answers right for the lines below, then so does this piece for its own lines and those* (the round of the
loop), by induction over the pieces that are left. `FirstMatchIsFound` and `LastMatchIsFound` state it for the start the
walk is given; `NearestMatchIsFound` combines the two walks as `do_search` does.

### The index and the editor beside it

**LineIndexProofs**: `Counted` (`IndexCounts`) says that `current_line` is the number of line feeds before `offset`, and
that only a finished thread calls the index finished; a chunk preserves it because the line feeds of two adjacent ranges
are disjoint, so that their cardinalities add up. From it follows `CountCorrect` for `Plain` files, in which no read is cut short. `Scanned` is the same for any file, with
the vertical tabs that may be counted as well and without the line feeds that a chunk hides behind the end of a window,
and gives `ScanCounts`: each line feed lies in one chunk, and there either in the slice or in `Hidden`.

`Indexed` (`IndexInvariant`) is about the lists: chunks are in the order of the file and of their lines, and the chunk
that is about to be published begins with the published total as its line. So the line of a published chunk never
changes, the last chunk that begins at or before a published line is the same after a publication, and the offset found
from it too: `OffsetStable`. That the branchless search finds that chunk (`SearchFindsLastChunk`) is an induction over
its rounds: the chunk looked for is in the window that is halved. `Reading` adds what a reader has that is between two
looks, and gives with `Exact` (without vertical tabs a chunk is listed with the number of line feeds before it)
`OffsetExact` and `ReadCovers`. The latter leaves out files with vertical tabs on purpose: a chunk with more counted lines
than terminators leads the second look over the beginning of the next chunk, and `end - start` (`core.rs:74`) wraps.

Files of fixed width: `FixedKnown` says that nothing but opening the file decides their number of lines; a cut is behind
the end of the previous line and less than `Lookback` before its multiple of the width (`CutReach`, `LineWidth`), so that
the lines lie side by side (`FixedLinesCover`) and a division is off by one at most (`FoundNearby`). `EofBlockIsTail` rests
on where the walk back from the end stops (`EofStartIs`): at the line feed with as many behind it as were asked for, or at
the beginning of the file.

**IndexPollProofs**: `PollInv` has `EngineHeld` (an engine that the state of a buffer still holds was not freed, although
callbacks of the timer may be queued after `BufWipeout`) and `TotalKnown` (a finished index changes no more); they give
`NoUseAfterFree` and `AnnouncedAfterFinish`. `OnlyLastChunksMissing` needs to know the thread when the editor sees it:
`Marks` says that chunks begin at multiples of their size and the one that is being published ends where the thread is,
`Editor` that progress that was complete still is, and that a total asked for after it has all lines up to
`LastMissing`. That rounding to f32 is monotone (`F32Grows`) makes the first true; for the second (`Reached`), bytes that
round to the length of the file are less than a chunk away from its end by `FloatAssumption`, so that they end the last
chunk, or begin it where f32 takes that place for the end.

### Saves

**SaveAsyncProofs**: `ShieldUp`, while the engine of an attached buffer saves, `state.saving` is set. The thread only
lowers the flag of the engine, and the timer lowers the shield only after it has seen that.

`Mapped` (`FilesKeptApart`) is about the file system: the two names stand for different files, each that is mapped or
written exists, a new inode is always free (there are more inodes than names, mappings and writers), and as long as no
second engine was made the one engine maps neither the temporary file nor what its thread, or the writer of a failed save
that lingers, writes (`Alone`). This gives
`MappedFileUntouched`. `Atomic` follows the thread: at each `pc` what is in the file and the `BufWriter`, with the items
still to come, is what the save had to write, so that at the rename the temporary file is the whole; before it nothing
writes to the file (`TargetAtomic`). `Apart` says that, unless a save has truncated its file, a writer that lingers holds
a file that no thread writes and that is not the target, so that dropping it changes neither. `Honest` says, of the engine that is the buffer's, that as long as nothing failed
and `changedtick` is what it was at the `:w`, the thread's output is the document, and that a buffer whose `modified` is
off has its document in the file (`ModifiedHonest`).

### The window

**ViewportProofs**: `ViewInv` is `TypeOK`, that document and buffer are lists of lines, and that a window that has not
drifted lies in the document and shows it. What `fetch_lines` answers is of the document whatever was cut off (`Fetched`);
an edit in the window does the same to the document behind the window's beginning as to the buffer (`EditShows`); lines
that arrive are behind the window. `CursorLands` is an action property from the same invariant: a jump chooses an offset
from which the line is in the window (`JumpOffsetIs`), a shift one from which the row still is.

### The pager and the search in the background

**Pager32Proofs**: what makes `SliceAlive` inductive is `SlicesPinned`: a slice of a thread lies in the window that the
thread has pinned, and its pin changes only together with the slice; a thread in `fetch_window` holds neither the lock nor
a window; and addresses tell the windows apart that anyone holds. A new window gets an address that nobody holds, so it
cannot take the memory of a slice; an eviction takes a window out of the cache, but not out of the slots of threads.

`SearchInv` (`SearchInvariant`) follows the search thread between two pieces: `current_line` is the first line of what is
left, and nothing that matches and can be seen is before it. A piece with a hit has the first such line (the lines of
pieces do not overlap, and what is hidden in one is hidden in no other: `HitsAreVisible`); a piece without one is passed
over, and so is a piece without a slice, which only a failed read can do to one with hits. The editor changes none of it:
the thread has its own copy of the table, and its slice is pinned. At the end this is `SearchAnswer`.

`SaveCopies` is arithmetic: a stride that divides the window and begins at a multiple of itself lies in one window
(`AlignedStride`), another is cut at the window's end, and two places are in one window just when the quotients agree
(`SameWindow`).

### Only model-checked

Liveness (`IndexerEnds`, `IndexingAnnounced`, `SaveReported`, `SearchEnds`) and the fairness that `RefinesDocument`
implies: the proof system has no rules for fairness and `ENABLED`. Their runs are small, and their threads have loops that
end with the file or the list. The theorems are about the same definitions as the runs, with any constants; what
both leave out is in section 6.


## 6. Not modelled

- The synchronous save, which Lua does not call, but for its loop over lines of fixed width: in one call it writes the
  bytes that `save_async` writes in a thread. What both write for an edited line of such a file (no line feed).
- The undo history of the editor. Undo goes back over a swap of the window and would send the old window's text to the
  engine at the new offset; nothing in the code prevents it, and no property of this project says anything of it.
- In `AsyncSearch`: the reads of the pager by `calc_offset` on the way to a piece, matches across the end of a window
  (a line is one unit of the pager), and equal times of last access. In `SaveAsync`: the short reads of `Pager32`;
  `SaveCopies` says what they lose: the strides of 2 MB of a piece that does not begin at a multiple of 2 MB, as
  after any edit in front of it, cross the end of a window of 256 MB, and what lies behind it in the stride is not
  written. `pager_trait.rs:11` asks callers to loop; none does. A search in the background likewise sees of a piece what
  lies in the window it begins in.
- `log_engine_search_backward` on a table from which every line was deleted (it indexes the last piece of none,
  `c_api.rs:279`) and with the empty piece of a file that was edited before its first line was indexed.
- In `Search`: matches longer than two lines, and what a search makes of lone carriage returns, of bytes that the
  scanners miscount and of slices that the pager of a 32-bit build cuts short (the index of such files is in `LineIndex`,
  what a save and a search in the background lose in `Pager32` and `AsyncSearch`).
- On a build for 32 bits: reads of the file that fail while it is indexed (`LineIndex` counts what a successful
  `get_chunk` returns), and a file of 4 GiB or more that is indexed at once (`AtOnce`), whose offsets are products that
  wrap around. That the thread never ends for such a file when a multiple of 4 GiB is left is in the model as a thread that
  stays where it is; the empty chunks it goes on to publish are not.
- In `PieceTable` and `Viewport` a line of the file is its number: that the bytes between two offsets are the line is the
  subject of `LineIndex` (`OffsetExact`, with the exception of `LineBeginsAtItsOffset`). In `Viewport` an edit and the total
  it asks for afterwards (`handlers.lua:16-23`) are one step.
- `log_engine_get_stats`, the progress bar, the status line, `:Logstats`, the syntax of search limits, the lookup of
  the library, the build and the release scripts have no state that a property could be about. What happens to a mapping
  when another program truncates the file is the operating system's.

## 7. Disagreements between the code and what it says

Each is a run that TLC refutes, and a finding in `PROJECT.json` with the lines:

- `LineBeginsAtItsOffset`: a line that crosses a boundary of the index is looked up in the middle;
- `AnnouncedTotalIsFinal`: "Indexing complete. Total lines: " may name a number that lacks the last chunk, for good.
  That happens to whoever asks between the store of `bytes_processed` and the publication: `attach_to_buffer`
  (`handlers.lua:202`) as well as the timer. What does hold, in files without vertical tabs (of one window, on a build
  for 32 bits): a number that was announced after the index was seen to be finished is right (`AnnouncedAfterFinish`); any
  other lacks the lines of the last chunk at most, or of the last two where f32 does not tell the beginning of the last
  from the end of the file, as long as f32 tells lengths apart that are more than a chunk apart (`OnlyLastChunksMissing`);
- `WipeoutFrees`: a buffer whose file was indexed by the timer is wiped without freeing the engine, because a closed
  timer is closed again;
- `SavesWholeDocument`: `:w` while the file is indexed replaces it by the part that was known;
- `SaveCompleteMeansSaved`: a save that failed is reported as complete. "Atomic-swap" (`src/README.md:31`) fails in one
  such case, too: a `:w` between `core.rs:1006` and `1007` after a failed flush truncates the temporary file that the old
  `BufWriter` still writes to (the mishap `leftover`, which `TargetAtomic` excepts);
- `OneSaveAtATime`: after `:e!`, two engines save into one temporary file.

Without a run of its own, because the properties of passing runs state it exactly: `pager_trait.rs:9-11` says that the
caller of `get_chunk` must loop if it receives less than it asked for, and no caller does. On a build for 32 bits the
index loses line feeds (`ScanCounts`, `Hidden`), a save bytes (`SaveCopies`) and a search in the background matches
(`SearchAnswer`) that lie behind the end of a window.
