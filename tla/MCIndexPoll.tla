----------------------------- MODULE MCIndexPoll -----------------------------
(* Files of at most five bytes without carriage returns, scanned two bytes *)
(* at a time: none to three chunks. An f32 does not tell four from five,   *)
(* so the last chunk of five bytes is not missed by the progress.          *)
EXTENDS IndexPoll
CONSTANT MaxBytes
MCFiles == UNION {[1 .. n -> {"nl", "other"}] : n \in 0 .. MaxBytes}
=============================================================================
