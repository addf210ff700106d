--------------------------- MODULE MCAsyncSearch ---------------------------
(* A file of five lines in windows of two, of which two are kept; a line   *)
(* is typed into it, then the first line deleted and the buffer compacted. *)
EXTENDS AsyncSearch
CONSTANTS old, typed
P(kind, start, count) == [kind |-> kind, start |-> start, count |-> count]
MCThreads == {main, search}
MCAddress == 1 .. 7
MCDocuments == <<
  [pieces |-> << P("original", 0, 5) >>, memory_buffer |-> << >>],
  [pieces |-> << P("original", 0, 3), P("memory", 1, 1), P("original", 3, 2) >>,
   memory_buffer |-> <<old, typed>>],
  [pieces |-> << P("original", 1, 2), P("memory", 0, 1), P("original", 3, 2) >>,
   memory_buffer |-> <<typed>>] >>
MCQueries == {{2, 4}, {typed}}
=============================================================================
