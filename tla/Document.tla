------------------------------ MODULE Document ------------------------------
(***************************************************************************)
(* What the piece table promises to its caller: a sequence of lines that   *)
(* the background indexer extends with the lines of the file, in the order *)
(* of the file, and that an edit changes in one step. Lines of the file    *)
(* are named by their number; the lines an edit brings are members of      *)
(* Text.                                                                   *)
(***************************************************************************)
EXTENDS Integers, Sequences

CONSTANTS FileLines,    \* number of lines the finished index will report
          Text          \* contents of the lines that edits bring

VARIABLES doc,          \* the lines the caller sees
          arrived,      \* how many lines of the file have been appended
          request       \* the edit that was requested and not yet made

docVars == <<doc, arrived, request>>

Edits == [start : Nat, deleted : Nat, lines : Seq(Text)]

\* No edit is waiting.
None == [start |-> 0, deleted |-> 0, lines |-> << >>, none |-> TRUE]

FileRange(from, to) == [i \in 1 .. (to - from) |-> from + i - 1]

-----------------------------------------------------------------------------

(* The file is empty so far, or was indexed before the engine was returned. *)
Init == /\ arrived \in {0, FileLines}
        /\ doc = FileRange(0, arrived)
        /\ request = None

(* The next lines of the file appear at the end of the document. *)
Arrive == /\ arrived' \in arrived + 1 .. FileLines
          /\ doc' = doc \o FileRange(arrived, arrived')
          /\ UNCHANGED request

Submit == /\ request = None
          /\ request' \in Edits
          /\ UNCHANGED <<doc, arrived>>

(* Past the end, an edit appends; a deletion that is too long stops at the  *)
(* last line.                                                               *)
Apply == /\ request # None
         /\ LET at == IF request.start < Len(doc) THEN request.start ELSE Len(doc)
            IN  doc' = SubSeq(doc, 1, at) \o request.lines
                         \o SubSeq(doc, at + request.deleted + 1, Len(doc))
         /\ request' = None
         /\ UNCHANGED arrived

Next == Arrive \/ Submit \/ Apply

Spec == Init /\ [][Next]_docVars /\ WF_docVars(Apply)
=============================================================================
