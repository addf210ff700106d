------------------------------ MODULE ByteScan ------------------------------
(***************************************************************************)
(* The byte scanners of src/core.rs. Each exists twice: with AVX2, which   *)
(* compares Lane bytes at a time, and as SWAR ("SIMD within a register"),  *)
(* which tests the Word bytes of a register for zero at once:              *)
(*     (x - 0x01..01) & ~x & 0x80..80   with x = block ^ target            *)
(* The subtraction borrows: a byte that follows a hit in the same word and *)
(* differs from the target in the lowest bit alone (x = 1) is a hit too.   *)
(* That byte is "vt" for a line feed and "next" for a separator.           *)
(*                                                                         *)
(* s is a sequence of bytes; a position is the number of bytes before it.  *)
(***************************************************************************)
EXTENDS Integers, FiniteSets, SequencesExt

CONSTANTS Lane,        \* bytes of an AVX2 register
          Word,        \* bytes of a general register
          MonsterRun,  \* bytes without a line feed that make a monster line
          Lookback     \* bytes searched for a place to cut

ASSUME ScanAssumption ==
  /\ Lane \in Nat \ {0} /\ Word \in Nat \ {0}
  /\ MonsterRun \in Nat \ {0} /\ Lookback \in Nat \ {0}
  /\ Lookback % Lane = 0 /\ Lookback % Word = 0

Bytes == {"nl", "cr", "vt", "sep", "next", "other"}

-----------------------------------------------------------------------------
(* The borrow reaches byte i of the word that begins behind `start`.       *)
Borrowed(s, target, successor, start, i) ==
  \E j \in 1 .. i - 1 :
    start < j /\ s[j] = target /\ \A k \in j + 1 .. i : s[k] = successor

(* count_newlines of the bytes behind `from` up to `to`: whole lanes are   *)
(* exact; what follows is read in aligned words, with single bytes in      *)
(* front of the first and behind the last.                                 *)
SwarFrom(avx2, from, to) == IF avx2 THEN from + ((to - from) \div Lane) * Lane ELSE from

(* Mutant of Miscounted: the borrow is not looked at.                      *)
MiscountedAny(s, avx2, from, to, i) == s[i] = "vt"

Miscounted(s, avx2, from, to, i) ==
  LET start == ((i - 1) \div Word) * Word
  IN  /\ s[i] = "vt"
      /\ SwarFrom(avx2, from, to) <= start /\ start + Word <= to
      /\ Borrowed(s, "nl", "vt", start, i)

CountNewlines(s, avx2, from, to) ==
  Cardinality({i \in 1 .. Len(s) :
                 from < i /\ i <= to /\ (s[i] = "nl" \/ Miscounted(s, avx2, from, to, i))})

-----------------------------------------------------------------------------
(* is_monster_line: enough consecutive lanes or words without a line feed. *)
(* AVX2 ignores what is behind the last lane; SWAR goes on byte by byte.   *)
(* The sample begins at an aligned address.                                *)
Stops(n, avx2) ==
  {p \in 0 .. n : IF avx2 THEN p % Lane = 0 ELSE p % Word = 0 \/ p > (n \div Word) * Word}

IsMonsterLine(s, avx2) ==
  \E a, b \in Stops(Len(s), avx2) :
    b - a >= MonsterRun /\ \A i \in a + 1 .. b : s[i] # "nl"

(* Mutant of Reach: the whole file in front of the cut is searched.        *)
ReachAll(s, base) == 1 .. base

(* The bytes in front of `base` that are searched for a separator. *)
Reach(s, base) == {i \in 1 .. base : base - Lookback < i}

(* find_safe_cut: behind the last separator, else where it was asked for.  *)
(* The words are counted from base downwards.                              *)
FindSafeCut(s, avx2, base) ==
  LET start(i) == base - ((base - i) \div Word + 1) * Word
      cuts == {i \in Reach(s, base) :
                 s[i] = "sep" \/ (~avx2 /\ Borrowed(s, "sep", "next", start(i), i))}
  IN  IF cuts = {} THEN base ELSE Max(cuts)
=============================================================================
