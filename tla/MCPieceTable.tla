---------------------------- MODULE MCPieceTable ----------------------------
(* A file of two lines, typed lines that are blank or not, and a buffer    *)
(* small enough that compaction happens after one wasted line.             *)
EXTENDS Search
CONSTANTS blank, typed
MCText == {blank, typed}

(* Typed lines, with or without a line of the file, and a match that goes  *)
(* from one line of the file over to the next.                             *)
Query(lines, over) == [lines |-> lines, over |-> over]
MCQueries == {Query({typed}, {}), Query({1, typed}, {}), Query({}, {0}), Query({typed}, {0})}
=============================================================================
