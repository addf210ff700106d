---------------------------- MODULE MCSaveAsync ----------------------------
(* A file of two blocks, the last of which lacks its line feed.            *)
EXTENDS SaveAsync

MCFile == <<"head", "tail">>
MCTerminated == {"head"}
MCLarge == {"head", "tail"}
=============================================================================
