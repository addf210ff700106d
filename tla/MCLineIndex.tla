----------------------------- MODULE MCLineIndex -----------------------------
(* All files of a few bytes, scanned three bytes at a time in the          *)
(* background and one at a time in parallel: a CRLF fits in a chunk, lies  *)
(* across two, and a line can be longer than a chunk. Files with vertical  *)
(* tabs are at most as long as two chunks. Files of fixed width have two   *)
(* cuts inside, the second with a few choices of separators near by. The   *)
(* windows of the pager for 32 bits have eight bytes: files of up to seven *)
(* lie in one, a few longer ones have a chunk and a line across its end,   *)
(* and the longest have as many bytes as a usize has values, or more.      *)
EXTENDS FileBlocks
CONSTANTS MaxBytes, MaxTabBytes, MaxWide

Strings(letters, lengths) == UNION {[1 .. n -> letters] : n \in lengths}

MCFixedFiles ==
  {<<"other", "other", "other", "other">> \o near \o <<"other", "other", "other", "other">>
     \o second \o tail :
     near \in Strings({"sep", "next", "other"}, {4}),
     second \in {<<"sep", "next", "other", "other">>, <<"other", "other", "other", "sep">>,
                 <<"next", "next", "next", "next">>},
     tail \in {<< >>, <<"other">>, <<"nl">>, <<"sep", "nl">>}}

MCWideFiles ==
  {<<"other", "nl", "other", "nl", "other">> \o rest :
     rest \in Strings({"nl", "other"}, 0 .. MaxWide)}
    \union {<<"other", "other", "nl">> \o [i \in 1 .. n |-> "other"] : n \in 12 .. 15}

MCFiles == Strings({"nl", "cr", "other"}, 0 .. MaxBytes)
             \union Strings({"nl", "vt", "other"}, 0 .. MaxTabBytes)
             \union MCFixedFiles \union MCWideFiles
=============================================================================
