----------------------------- MODULE MCViewport -----------------------------
(* A file of six lines in windows of four; one line is so long that a      *)
(* window with it is cut off, in that line or behind it; edits that leave  *)
(* nothing, a line, or a line and a blank one.                             *)
EXTENDS Viewport
CONSTANTS blank, typed
MCText == {blank, typed}
MCInserts == {<< >>, <<typed>>, <<typed, blank>>}
=============================================================================
