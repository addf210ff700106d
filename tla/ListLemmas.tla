----------------------------- MODULE ListLemmas -----------------------------
(***************************************************************************)
(* What the operators on lists that the models use compute for every list: *)
(* FlattenSeq, which puts lists behind one another, and the sums of the    *)
(* numbers in a list. Both are recursive; their recursion equations and    *)
(* the laws of concatenation are proved here by induction over the length. *)
(* (Induction is stated for a set of numbers, so that a citation of it     *)
(* need not find an operator.)                                             *)
(***************************************************************************)
EXTENDS Integers, SequencesExt, FiniteSetTheorems, WellFoundedInduction, TLAPS

(* A set of numbers that has 0 and, with a number, the next, has them all. *)
LEMMA SetInduction ==
  ASSUME NEW S, 0 \in S, \A n \in Nat : n \in S => n + 1 \in S
  PROVE  \A n \in Nat : n \in S
<1> DEFINE R == OpToRel(<, Nat)
           T == Nat \ S
<1> SUFFICES ASSUME T # {} PROVE FALSE
  OBVIOUS
<1>1. IsWellFoundedOn(R, Nat)
  BY NatLessThanWellFounded
<1> HIDE DEF R
<1>2. PICK x \in T : \A y \in T : <<y, x>> \notin R
  BY <1>1, WFMin
<1>3. \A y \in T : ~(y < x)
  <2>1. ASSUME NEW y \in T, y < x PROVE <<y, x>> \in R
    BY <2>1 DEF R, OpToRel
  <2>2. QED
    BY <1>2, <2>1
<1>4. x # 0 /\ x - 1 \in Nat /\ x - 1 < x
  BY <1>2
<1>5. x - 1 \in S
  BY <1>3, <1>4
<1>6. QED
  BY <1>2, <1>4, <1>5

-----------------------------------------------------------------------------
(* FlattenSeq.                                                             *)

(* f runs along ss: its i-th value is the concatenation of the first i.    *)
Runs(f, ss, n) == f = [i \in 1 .. n |-> IF i = 1 THEN ss[i] ELSE f[i - 1] \o ss[i]]

(* One more list can always be put behind the ones before.                 *)
LEMMA RunExtends ==
  ASSUME NEW ss, NEW m \in Nat, NEW f, Runs(f, ss, m)
  PROVE  \E g : Runs(g, ss, m + 1)
<1> DEFINE last == IF m + 1 = 1 THEN ss[m + 1] ELSE f[m] \o ss[m + 1]
           g == [i \in 1 .. m + 1 |-> IF i = m + 1 THEN last ELSE f[i]]
<1>1. \A i \in 1 .. m : f[i] = IF i = 1 THEN ss[i] ELSE f[i - 1] \o ss[i]
  BY Zenon DEF Runs
<1> HIDE DEF last
<1>2. \A i \in 1 .. m : i \in 1 .. m + 1 /\ i # m + 1
  OBVIOUS
<1>3. \A i \in 1 .. m + 1 : i # 1 => i - 1 \in 1 .. m /\ i - 1 \in 1 .. m + 1
  OBVIOUS
<1>4. ASSUME NEW i \in 1 .. m + 1
      PROVE  g[i] = IF i = 1 THEN ss[i] ELSE g[i - 1] \o ss[i]
  <2>1. CASE i = m + 1 /\ i = 1
    BY <2>1 DEF last
  <2>2. CASE i = m + 1 /\ i # 1
    <3>1. g[i - 1] = f[m] /\ m + 1 # 1 /\ g[i] = last
      BY <1>2, <1>3, <2>2
    <3>2. QED
      BY <2>2, <3>1, Zenon DEF last
  <2>3. CASE i # m + 1
    <3>1. i \in 1 .. m /\ g[i] = f[i]
      BY <2>3
    <3>2. i # 1 => g[i - 1] = f[i - 1]
      BY <1>2, <1>3, <3>1
    <3>3. QED
      BY <1>1, <3>1, <3>2, Zenon
  <2>4. QED
    BY <2>1, <2>2, <2>3
<1>5. g = [i \in 1 .. m + 1 |-> g[i]]
  OBVIOUS
<1> HIDE DEF g
<1>6. [i \in 1 .. m + 1 |-> g[i]]
        = [i \in 1 .. m + 1 |-> IF i = 1 THEN ss[i] ELSE g[i - 1] \o ss[i]]
  BY <1>4, Zenon
<1>7. QED
  BY <1>5, <1>6, Zenon DEF Runs

(* So there is one along any list of lists. *)
LEMMA RunExists ==
  ASSUME NEW ss, NEW n \in Nat
  PROVE  \E f : Runs(f, ss, n)
<1> DEFINE S == {m \in Nat : \E f : Runs(f, ss, m)}
<1>1. 0 \in S
  <2> DEFINE f == [i \in 1 .. 0 |-> ss[i]]
  <2>1. 1 .. 0 = {}
    BY SMT
  <2>2. Runs(f, ss, 0)
    BY <2>1, Zenon DEF Runs
  <2>3. QED
    BY <2>2
<1>2. ASSUME NEW m \in Nat, m \in S PROVE m + 1 \in S
  BY <1>2, RunExtends
<1> HIDE DEF S
<1>3. n \in S
  BY <1>1, <1>2, SetInduction
<1>4. QED
  BY <1>3 DEF S

(* FlattenSeq is the last value of a run. *)
LEMMA FlattenRun ==
  ASSUME NEW S, NEW ss \in Seq(S), ss # << >>
  PROVE  \E f : Runs(f, ss, Len(ss)) /\ FlattenSeq(ss) = f[Len(ss)]
<1> DEFINE f == CHOOSE g : Runs(g, ss, Len(ss))
<1>1. Len(ss) \in Nat /\ Len(ss) # 0
  BY SMT
<1>2. \E g : Runs(g, ss, Len(ss))
  BY <1>1, RunExists
<1>3. Runs(f, ss, Len(ss))
  BY <1>2, Zenon
<1>4. FlattenSeq(ss) = f[Len(ss)]
  BY <1>1, Zenon DEF FlattenSeq, Runs
<1>5. QED
  BY <1>3, <1>4

(* Each entry of a running concatenation is the one before it with a list added. *)
LEMMA RunStep ==
  ASSUME NEW ss, NEW n \in Nat, NEW f, Runs(f, ss, n)
  PROVE  \A i \in 1 .. n : f[i] = IF i = 1 THEN ss[i] ELSE f[i - 1] \o ss[i]
BY Zenon DEF Runs

(* Two runs along lists with the same beginning agree there.               *)
LEMMA RunsAgree ==
  ASSUME NEW T, NEW ss \in Seq(T), NEW tt \in Seq(T), NEW m \in Nat, NEW n \in Nat, m <= n,
         \A i \in 1 .. m : ss[i] = tt[i],
         NEW f, Runs(f, ss, m), NEW g, Runs(g, tt, n)
  PROVE  \A i \in 1 .. m : f[i] = g[i]
<1> DEFINE S == {k \in Nat : k \in 1 .. m => f[k] = g[k]}
<1>1. 0 \in S
  OBVIOUS
<1>2. ASSUME NEW k \in Nat, k \in S PROVE k + 1 \in S
  <2> SUFFICES ASSUME k + 1 \in 1 .. m PROVE f[k + 1] = g[k + 1]
    OBVIOUS
  <2>1. /\ k + 1 \in 1 .. n /\ k + 1 - 1 = k
        /\ k + 1 # 1 => k \in 1 .. m
    OBVIOUS
  <2>2. f[k + 1] = IF k + 1 = 1 THEN ss[k + 1] ELSE f[k + 1 - 1] \o ss[k + 1]
    BY RunStep
  <2>3. g[k + 1] = IF k + 1 = 1 THEN tt[k + 1] ELSE g[k + 1 - 1] \o tt[k + 1]
    BY <2>1, RunStep
  <2>4. k + 1 # 1 => f[k] = g[k]
    BY <1>2, <2>1
  <2>5. QED
    BY <2>1, <2>2, <2>3, <2>4, Zenon
<1> HIDE DEF S
<1>3. \A k \in Nat : k \in S
  BY <1>1, <1>2, SetInduction
<1>4. QED
  BY <1>3 DEF S

(* The elements of a list with one more. *)
LEMMA AppendElements ==
  ASSUME NEW T, NEW s \in Seq(T), NEW x \in T
  PROVE  /\ Append(s, x) \in Seq(T) /\ Append(s, x) # << >>
         /\ Len(s) \in Nat /\ Len(Append(s, x)) = Len(s) + 1
         /\ Append(s, x)[Len(s) + 1] = x
         /\ \A i \in 1 .. Len(s) : s[i] = Append(s, x)[i]
BY SMT

(* A sequence has a length. *)
LEMMA LenInNat == ASSUME NEW T, NEW s \in Seq(T) PROVE Len(s) \in Nat
BY SMT

(* No list gives the empty list, and one more list goes behind the others. *)
LEMMA FlattenEmpty == FlattenSeq(<< >>) = << >>
BY DEF FlattenSeq

(* FlattenSeq of a list with one more element. *)
LEMMA FlattenLonger ==
  ASSUME NEW T, NEW ss \in Seq(T), NEW x \in T
  PROVE  FlattenSeq(Append(ss, x)) = IF ss = << >> THEN x ELSE FlattenSeq(ss) \o x
<1> DEFINE tt == Append(ss, x)
           n == Len(ss)
<1>1. n \in Nat /\ n <= n + 1 /\ n + 1 \in Nat /\ tt \in Seq(T) /\ tt # << >> /\ Len(tt) = n + 1
  BY AppendElements
<1>2. tt[n + 1] = x /\ \A i \in 1 .. n : ss[i] = tt[i]
  BY AppendElements
<1> HIDE DEF tt
<1>3. PICK g : Runs(g, tt, n + 1) /\ FlattenSeq(tt) = g[n + 1]
  BY <1>1, FlattenRun
<1>4. n + 1 \in 1 .. n + 1 /\ n + 1 - 1 = n
  BY <1>1
<1>5. g[n + 1] = IF n + 1 = 1 THEN x ELSE g[n] \o x
  <2>1. g[n + 1] = IF n + 1 = 1 THEN tt[n + 1] ELSE g[n + 1 - 1] \o tt[n + 1]
    BY <1>1, <1>3, <1>4, RunStep
  <2>2. QED
    BY <1>2, <1>4, <2>1
<1>6. CASE ss = << >>
  <2>1. n = 0
    BY <1>6, SMT
  <2>2. QED
    BY <1>3, <1>5, <1>6, <2>1 DEF tt
<1>7. CASE ss # << >>
  <2>1. n # 0 /\ n \in 1 .. n /\ n + 1 # 1
    BY <1>1, <1>7, SMT
  <2>2. PICK f : Runs(f, ss, n) /\ FlattenSeq(ss) = f[n]
    BY <1>7, FlattenRun
  <2> HIDE DEF n
  <2>3. \A i \in 1 .. n : f[i] = g[i]
    BY <1>1, <1>2, <1>3, <2>2, RunsAgree
  <2>4. QED
    BY <1>3, <1>5, <1>7, <2>1, <2>2, <2>3 DEF tt
<1>8. QED
  BY <1>6, <1>7

(* The same for lists of sequences, where the empty list is no exception. *)
LEMMA FlattenAppend ==
  ASSUME NEW S, NEW ss \in Seq(Seq(S)), NEW x \in Seq(S)
  PROVE  FlattenSeq(Append(ss, x)) = FlattenSeq(ss) \o x
<1>1. FlattenSeq(Append(ss, x)) = IF ss = << >> THEN x ELSE FlattenSeq(ss) \o x
  BY FlattenLonger, Zenon
<1>2. << >> \o x = x
  BY SMT
<1>3. QED
  BY <1>1, <1>2, FlattenEmpty

(* A list of lists that is not empty is a shorter one and a last one.      *)
LEMMA LastOfList ==
  ASSUME NEW S, NEW s \in Seq(S), NEW n \in Nat, Len(s) = n + 1
  PROVE  \E t \in Seq(S), x \in S : s = Append(t, x) /\ Len(t) = n
<1> DEFINE t == SubSeq(s, 1, n)
           x == s[n + 1]
<1>1. t \in Seq(S) /\ Len(t) = n /\ x \in S /\ \A i \in 1 .. n : t[i] = s[i]
  BY SMT
<1> HIDE DEF t
<1>2. s = Append(t, x)
  BY <1>1, SMT
<1>3. QED
  BY <1>1, <1>2

(* A concatenation of sequences is a sequence. *)
LEMMA FlattenType ==
  ASSUME NEW S, NEW ss \in Seq(Seq(S))
  PROVE  FlattenSeq(ss) \in Seq(S)
<1> DEFINE N == {n \in Nat : \A tt \in Seq(Seq(S)) : Len(tt) = n => FlattenSeq(tt) \in Seq(S)}
<1>1. 0 \in N
  <2>1. ASSUME NEW tt \in Seq(Seq(S)), Len(tt) = 0 PROVE FlattenSeq(tt) \in Seq(S)
    <3>1. tt = << >>
      BY <2>1, SMT
    <3>2. << >> \in Seq(S)
      BY SMT
    <3>3. QED
      BY <3>1, <3>2, FlattenEmpty
  <2>2. QED
    BY <2>1
<1>2. ASSUME NEW n \in Nat, n \in N PROVE n + 1 \in N
  <2>1. ASSUME NEW tt \in Seq(Seq(S)), Len(tt) = n + 1 PROVE FlattenSeq(tt) \in Seq(S)
    <3>1. PICK uu \in Seq(Seq(S)), x \in Seq(S) : tt = Append(uu, x) /\ Len(uu) = n
      BY <2>1, LastOfList, Zenon
    <3>2. FlattenSeq(uu) \in Seq(S)
      BY <1>2, <3>1
    <3>3. FlattenSeq(tt) = FlattenSeq(uu) \o x
      BY <3>1, FlattenAppend
    <3>4. QED
      BY <3>2, <3>3, SMT
  <2>2. QED
    BY <2>1
<1> HIDE DEF N
<1>3. Len(ss) \in N
  BY <1>1, <1>2, SetInduction, LenInNat, Zenon
<1>4. QED
  BY <1>3 DEF N

(* What is flattened in two parts is flattened at once.                    *)
LEMMA FlattenConcat ==
  ASSUME NEW S, NEW ss \in Seq(Seq(S)), NEW tt \in Seq(Seq(S))
  PROVE  FlattenSeq(ss \o tt) = FlattenSeq(ss) \o FlattenSeq(tt)
<1> DEFINE N == {n \in Nat : \A uu \in Seq(Seq(S)) :
                   Len(uu) = n => FlattenSeq(ss \o uu) = FlattenSeq(ss) \o FlattenSeq(uu)}
<1>1. 0 \in N
  <2>1. ASSUME NEW uu \in Seq(Seq(S)), Len(uu) = 0
        PROVE  FlattenSeq(ss \o uu) = FlattenSeq(ss) \o FlattenSeq(uu)
    <3>1. uu = << >> /\ ss \o uu = ss
      BY <2>1, SMT
    <3>2. FlattenSeq(ss) \o << >> = FlattenSeq(ss)
      BY FlattenType, SMT
    <3>3. QED
      BY <3>1, <3>2, FlattenEmpty
  <2>2. QED
    BY <2>1
<1>2. ASSUME NEW n \in Nat, n \in N PROVE n + 1 \in N
  <2>1. ASSUME NEW uu \in Seq(Seq(S)), Len(uu) = n + 1
        PROVE  FlattenSeq(ss \o uu) = FlattenSeq(ss) \o FlattenSeq(uu)
    <3>1. PICK vv \in Seq(Seq(S)), x \in Seq(S) : uu = Append(vv, x) /\ Len(vv) = n
      BY <2>1, LastOfList, Zenon
    <3>2. FlattenSeq(ss \o vv) = FlattenSeq(ss) \o FlattenSeq(vv)
      BY <1>2, <3>1
    <3>3. ss \o uu = Append(ss \o vv, x) /\ ss \o vv \in Seq(Seq(S))
      BY <3>1, SMT
    <3>4. FlattenSeq(ss \o uu) = FlattenSeq(ss \o vv) \o x /\ FlattenSeq(uu) = FlattenSeq(vv) \o x
      BY <3>1, <3>3, FlattenAppend
    <3>5. FlattenSeq(ss) \in Seq(S) /\ FlattenSeq(vv) \in Seq(S)
      BY FlattenType
    <3> HIDE DEF N
    <3>6. (FlattenSeq(ss) \o FlattenSeq(vv)) \o x = FlattenSeq(ss) \o (FlattenSeq(vv) \o x)
      BY <3>5, SMT
    <3>7. QED
      BY <3>2, <3>4, <3>6
  <2>2. QED
    BY <2>1
<1> HIDE DEF N
<1>3. Len(tt) \in N
  BY <1>1, <1>2, SetInduction, LenInNat, Zenon
<1>4. QED
  BY <1>3 DEF N

-----------------------------------------------------------------------------
(* SumFunctionOnSet, which adds the values of a function in any order.     *)

(* f adds up the values of h at all subsets of S with at most n elements.  *)
Small(S, n) == {s \in SUBSET S : IsFiniteSet(s) /\ Cardinality(s) <= n}

Pick(s) == CHOOSE x \in s : TRUE

Adds(f, h, D) == f = [s \in D |-> IF s = {} THEN 0 ELSE h[Pick(s)] + f[s \ {Pick(s)}]]

(* What is left of a set without one element is smaller.                   *)
LEMMA WithoutOne ==
  ASSUME NEW s, IsFiniteSet(s), NEW x \in s
  PROVE  /\ IsFiniteSet(s \ {x}) /\ Cardinality(s) \in Nat /\ Cardinality(s \ {x}) \in Nat
         /\ Cardinality(s \ {x}) = Cardinality(s) - 1
BY FS_RemoveElement, FS_CardinalityType

(* Pick takes an element of the set. *)
LEMMA Picked == ASSUME NEW s, s # {} PROVE Pick(s) \in s
BY Zenon DEF Pick

(* The equation that a function which adds up obeys. *)
LEMMA AddsStep ==
  ASSUME NEW f, NEW h, NEW D, Adds(f, h, D), NEW s \in D
  PROVE  f[s] = IF s = {} THEN 0 ELSE h[Pick(s)] + f[s \ {Pick(s)}]
BY Zenon DEF Adds

(* Such a function for sets of n elements gives one for sets of n + 1. *)
LEMMA AdderExtends ==
  ASSUME NEW h, NEW S, NEW n \in Nat, NEW f, Adds(f, h, Small(S, n))
  PROVE  \E g : Adds(g, h, Small(S, n + 1))
<1> DEFINE D == Small(S, n)
           E == Small(S, n + 1)
           value(s) == IF s = {} THEN 0 ELSE h[Pick(s)] + f[s \ {Pick(s)}]
           g == [s \in E |-> value(s)]
<1>1. \A s \in D : f[s] = value(s)
  BY AddsStep
<1>2. D \subseteq E
  BY FS_CardinalityType, SMT DEF Small
<1>3. \A s \in E : s # {} => s \ {Pick(s)} \in D
  <2>1. ASSUME NEW s \in E, s # {} PROVE s \ {Pick(s)} \in D
    <3>1. IsFiniteSet(s) /\ s \in SUBSET S /\ Cardinality(s) <= n + 1 /\ Pick(s) \in s
      BY <2>1, Picked DEF Small
    <3>2. /\ IsFiniteSet(s \ {Pick(s)}) /\ Cardinality(s) \in Nat
          /\ Cardinality(s \ {Pick(s)}) = Cardinality(s) - 1
      BY <3>1, WithoutOne
    <3>3. Cardinality(s \ {Pick(s)}) <= n
      BY <3>1, <3>2, SMT
    <3>4. s \ {Pick(s)} \in SUBSET S
      BY <3>1
    <3>5. QED
      BY <3>2, <3>3, <3>4 DEF Small
  <2>2. QED
    BY <2>1
<1> HIDE DEF D, E, value
<1>4. \A s \in D : g[s] = f[s]
  BY <1>1, <1>2
<1>5. \A s \in E : s # {} => g[s \ {Pick(s)}] = f[s \ {Pick(s)}]
  BY <1>3, <1>4
<1>6. \A s \in E : value(s) = IF s = {} THEN 0 ELSE h[Pick(s)] + g[s \ {Pick(s)}]
  BY <1>5, Zenon DEF value
<1>7. g = [s \in E |-> IF s = {} THEN 0 ELSE h[Pick(s)] + g[s \ {Pick(s)}]]
  <2> DEFINE k == g
  <2>1. k = [s \in E |-> value(s)]
    OBVIOUS
  <2>2. \A s \in E : value(s) = IF s = {} THEN 0 ELSE h[Pick(s)] + k[s \ {Pick(s)}]
    BY <1>6
  <2> HIDE DEF k
  <2>3. k = [s \in E |-> IF s = {} THEN 0 ELSE h[Pick(s)] + k[s \ {Pick(s)}]]
    BY <2>1, <2>2, Zenon
  <2>4. QED
    BY <2>3 DEF k
<1>8. Adds(g, h, E)
  BY <1>7, Zenon DEF Adds
<1>9. QED
  BY <1>8 DEF E

(* So there is one for all subsets of a finite set. *)
LEMMA AdderExists ==
  ASSUME NEW h, NEW S, IsFiniteSet(S)
  PROVE  \E f : Adds(f, h, SUBSET S)
<1> DEFINE N == {n \in Nat : \E f : Adds(f, h, Small(S, n))}
<1>1. 0 \in N
  <2> DEFINE f == [s \in Small(S, 0) |-> 0]
  <2>1. \A s \in Small(S, 0) : s = {}
    BY FS_EmptySet, FS_CardinalityType, SMT DEF Small
  <2>2. Adds(f, h, Small(S, 0))
    BY <2>1, Zenon DEF Adds
  <2>3. QED
    BY <2>2
<1>2. ASSUME NEW n \in Nat, n \in N PROVE n + 1 \in N
  BY <1>2, AdderExtends
<1> HIDE DEF N
<1>3. Cardinality(S) \in N
  BY <1>1, <1>2, SetInduction, FS_CardinalityType
<1>4. Small(S, Cardinality(S)) = SUBSET S
  BY FS_Subset DEF Small
<1>5. QED
  BY <1>3, <1>4 DEF N

Adder(h, S) == CHOOSE f : Adds(f, h, SUBSET S)

(* SumFunctionOnSet is what it computes. *)
LEMMA SumAdds ==
  ASSUME NEW h, NEW S, IsFiniteSet(S)
  PROVE  /\ SumFunctionOnSet(h, S) = Adder(h, S)[S]
         /\ \A s \in SUBSET S :
              Adder(h, S)[s] = IF s = {} THEN 0 ELSE h[Pick(s)] + Adder(h, S)[s \ {Pick(s)}]
<1>1. Adds(Adder(h, S), h, SUBSET S)
  BY AdderExists, Zenon DEF Adder
<1>2. SumFunctionOnSet(h, S) = Adder(h, S)[S]
  BY Zenon DEF SumFunctionOnSet, FoldFunctionOnSet, MapThenFoldSet, Adds, Pick, Adder
<1>3. \A s \in SUBSET S :
        Adder(h, S)[s] = IF s = {} THEN 0 ELSE h[Pick(s)] + Adder(h, S)[s \ {Pick(s)}]
  BY <1>1, AddsStep
<1>4. QED
  BY <1>2, <1>3

(* Adders of functions that agree on a set agree there.                    *)
Agree(h, k, S) == \A x \in S : h[x] = k[x]

(* On one set, two of them agree if what they add up agrees. *)
LEMMA AddersAgree ==
  ASSUME NEW h, NEW S, IsFiniteSet(S), NEW k, NEW T, IsFiniteSet(T), T \subseteq S, Agree(h, k, T)
  PROVE  Adder(h, S)[T] = Adder(k, T)[T]
<1> DEFINE f == Adder(h, S)
           g == Adder(k, T)
           N == {n \in Nat : \A s \in SUBSET T :
                   IsFiniteSet(s) /\ Cardinality(s) = n => f[s] = g[s]}
<1>1. \A s \in SUBSET T : f[s] = IF s = {} THEN 0 ELSE h[Pick(s)] + f[s \ {Pick(s)}]
  BY SumAdds
<1>2. \A s \in SUBSET T : g[s] = IF s = {} THEN 0 ELSE k[Pick(s)] + g[s \ {Pick(s)}]
  BY SumAdds
<1> HIDE DEF f, g
<1>3. 0 \in N
  BY <1>1, <1>2, FS_EmptySet
<1>4. ASSUME NEW n \in Nat, n \in N PROVE n + 1 \in N
  <2>1. ASSUME NEW s \in SUBSET T, IsFiniteSet(s), Cardinality(s) = n + 1
        PROVE  f[s] = g[s]
    <3>1. s # {}
      BY <2>1, FS_EmptySet, SMT
    <3>2. Pick(s) \in s
      BY <3>1, Picked
    <3> DEFINE t == s \ {Pick(s)}
    <3>3. IsFiniteSet(t) /\ Cardinality(t) = n /\ t \in SUBSET T
      BY <2>1, <3>2, WithoutOne, SMT
    <3> HIDE DEF t
    <3>4. f[t] = g[t]
      BY <1>4, <3>3
    <3>5. h[Pick(s)] = k[Pick(s)]
      BY <3>2 DEF Agree
    <3>6. f[s] = h[Pick(s)] + f[t] /\ g[s] = k[Pick(s)] + g[t]
      BY <1>1, <1>2, <3>1 DEF t
    <3>7. QED
      BY <3>4, <3>5, <3>6
  <2>2. QED
    BY <2>1
<1> HIDE DEF N
<1>5. Cardinality(T) \in N
  BY <1>3, <1>4, SetInduction, FS_CardinalityType
<1>6. T \in SUBSET T
  OBVIOUS
<1>7. QED
  BY <1>5, <1>6 DEF N, f, g

(* Nothing adds up to zero. *)
LEMMA SumEmpty == ASSUME NEW h PROVE SumFunctionOnSet(h, {}) = 0
<1>1. SumFunctionOnSet(h, {}) = Adder(h, {})[{}] /\ {} \in SUBSET {}
  BY SumAdds, FS_EmptySet
<1>2. QED
  BY <1>1, SumAdds, FS_EmptySet

(* The sum is that of the values: it does not matter what function has     *)
(* them, ...                                                               *)
LEMMA SumAgrees ==
  ASSUME NEW h, NEW k, NEW S, IsFiniteSet(S), Agree(h, k, S)
  PROVE  SumFunctionOnSet(h, S) = SumFunctionOnSet(k, S)
<1>1. Adder(h, S)[S] = Adder(k, S)[S]
  BY AddersAgree
<1>2. QED
  BY <1>1, SumAdds

(* A sum is the picked element and the sum of the others. *)
LEMMA SumPicks ==
  ASSUME NEW h, NEW S, IsFiniteSet(S), S # {}
  PROVE  SumFunctionOnSet(h, S) = h[Pick(S)] + SumFunctionOnSet(h, S \ {Pick(S)})
<1> DEFINE T == S \ {Pick(S)}
<1>1. IsFiniteSet(T) /\ T \subseteq S /\ S \in SUBSET S /\ Agree(h, h, T)
  BY Picked, WithoutOne DEF Agree
<1>2. SumFunctionOnSet(h, S) = Adder(h, S)[S] /\ Adder(h, S)[S] = h[Pick(S)] + Adder(h, S)[T]
  BY <1>1, SumAdds
<1> HIDE DEF T
<1>3. SumFunctionOnSet(h, T) = Adder(h, T)[T] /\ Adder(h, S)[T] = Adder(h, T)[T]
  BY <1>1, SumAdds, AddersAgree
<1>4. QED
  BY <1>2, <1>3 DEF T

(* ... it is a natural number if they all are, ...                         *)
LEMMA SumType ==
  ASSUME NEW h, NEW S, IsFiniteSet(S), \A y \in S : h[y] \in Nat
  PROVE  SumFunctionOnSet(h, S) \in Nat
<1> DEFINE N == {n \in Nat : \A T \in SUBSET S :
                   IsFiniteSet(T) /\ Cardinality(T) = n => SumFunctionOnSet(h, T) \in Nat}
<1>1. 0 \in N
  BY FS_EmptySet, SumEmpty
<1>2. ASSUME NEW n \in Nat, n \in N PROVE n + 1 \in N
  <2>1. ASSUME NEW T \in SUBSET S, IsFiniteSet(T), Cardinality(T) = n + 1
        PROVE  SumFunctionOnSet(h, T) \in Nat
    <3> DEFINE U == T \ {Pick(T)}
    <3>1. T # {}
      BY <2>1, FS_EmptySet, SMT
    <3>2. Pick(T) \in T
      BY <3>1, Picked
    <3>3. IsFiniteSet(U) /\ Cardinality(U) = n /\ U \in SUBSET S
      BY <2>1, <3>2, WithoutOne, SMT
    <3>4. SumFunctionOnSet(h, T) = h[Pick(T)] + SumFunctionOnSet(h, U)
      BY <2>1, <3>1, SumPicks
    <3> HIDE DEF U
    <3>5. SumFunctionOnSet(h, U) \in Nat /\ h[Pick(T)] \in Nat
      BY <1>2, <3>2, <3>3
    <3>6. QED
      BY <3>4, <3>5
  <2>2. QED
    BY <2>1
<1> HIDE DEF N
<1>3. Cardinality(S) \in N
  BY <1>1, <1>2, SetInduction, FS_CardinalityType
<1>4. S \in SUBSET S
  OBVIOUS
<1>5. QED
  BY <1>3, <1>4 DEF N

(* ... and any value may be added last.                                    *)
LEMMA SumTakesOut ==
  ASSUME NEW h, NEW S, IsFiniteSet(S), \A y \in S : h[y] \in Nat, NEW z \in S
  PROVE  SumFunctionOnSet(h, S) = h[z] + SumFunctionOnSet(h, S \ {z})
<1> DEFINE sum(T) == SumFunctionOnSet(h, T)
           Good(T) == \A x \in T : sum(T) = h[x] + sum(T \ {x})
           N == {n \in Nat : \A T \in SUBSET S : IsFiniteSet(T) /\ Cardinality(T) = n => Good(T)}
<1>1. \A T \in SUBSET S : sum(T) \in Nat
  <2>1. ASSUME NEW T \in SUBSET S PROVE sum(T) \in Nat
    <3>1. IsFiniteSet(T)
      BY FS_Subset
    <3>2. QED
      BY <3>1, SumType
  <2>2. QED
    BY <2>1
<1>2. 0 \in N
  <2>1. ASSUME NEW T \in SUBSET S, IsFiniteSet(T), Cardinality(T) = 0 PROVE Good(T)
    BY <2>1, FS_EmptySet
  <2>2. QED
    BY <2>1
<1>3. ASSUME NEW n \in Nat, n \in N PROVE n + 1 \in N
  <2>1. ASSUME NEW T \in SUBSET S, IsFiniteSet(T), Cardinality(T) = n + 1, NEW x \in T
        PROVE  sum(T) = h[x] + sum(T \ {x})
    <3> DEFINE p == Pick(T)
    <3>1. T # {}
      OBVIOUS
    <3>2. p \in T
      BY <3>1, Picked
    <3>3. sum(T) = h[p] + sum(T \ {p})
      BY <2>1, <3>1, SumPicks
    <3> HIDE DEF p
    <3>4. CASE x = p
      BY <3>3, <3>4
    <3>5. CASE x # p
      <4>1. /\ IsFiniteSet(T \ {x}) /\ Cardinality(T \ {x}) = n /\ T \ {x} \in SUBSET S
            /\ IsFiniteSet(T \ {p}) /\ Cardinality(T \ {p}) = n /\ T \ {p} \in SUBSET S
        BY <2>1, <3>2, WithoutOne, SMT
      <4>2. x \in T \ {p} /\ p \in T \ {x} /\ (T \ {p}) \ {x} = (T \ {x}) \ {p}
        BY <3>2, <3>5
      <4>3. Good(T \ {x}) /\ Good(T \ {p})
        BY <1>3, <4>1
      <4> DEFINE rest == sum((T \ {x}) \ {p})
      <4>4. sum(T \ {p}) = h[x] + rest /\ sum(T \ {x}) = h[p] + rest
        BY <4>2, <4>3
      <4>5. rest \in Nat /\ h[x] \in Nat /\ h[p] \in Nat
        <5>1. (T \ {x}) \ {p} \in SUBSET S /\ x \in S /\ p \in S
          BY <3>2
        <5> HIDE DEF sum
        <5>2. QED
          BY <1>1, <5>1
      <4> HIDE DEF rest, sum
      <4>6. QED
        BY <3>3, <4>4, <4>5
    <3>6. QED
      BY <3>4, <3>5
  <2>2. QED
    BY <2>1
<1> HIDE DEF N
<1>4. Cardinality(S) \in N
  BY <1>2, <1>3, SetInduction, FS_CardinalityType
<1>5. S \in SUBSET S
  OBVIOUS
<1>6. QED
  BY <1>4, <1>5 DEF N

(* Where the values are 0, nothing is added.                               *)
LEMMA SumSkipsZeros ==
  ASSUME NEW h, NEW S, IsFiniteSet(S), \A y \in S : h[y] \in Nat,
         NEW T, T \subseteq S, \A y \in S \ T : h[y] = 0
  PROVE  SumFunctionOnSet(h, S) = SumFunctionOnSet(h, T)
<1> DEFINE N == {n \in Nat : \A U \in SUBSET (S \ T) :
                   IsFiniteSet(U) /\ Cardinality(U) = n
                     => SumFunctionOnSet(h, T \cup U) = SumFunctionOnSet(h, T)}
<1>1. IsFiniteSet(T) /\ IsFiniteSet(S \ T)
  BY FS_Subset
<1>2. 0 \in N
  <2>1. ASSUME NEW U \in SUBSET (S \ T), IsFiniteSet(U), Cardinality(U) = 0
        PROVE  SumFunctionOnSet(h, T \cup U) = SumFunctionOnSet(h, T)
    <3>1. U = {}
      BY <2>1, FS_EmptySet
    <3>2. T \cup U = T
      BY <3>1
    <3>3. QED
      BY <3>2
  <2>2. QED
    BY <2>1
<1>3. ASSUME NEW n \in Nat, n \in N PROVE n + 1 \in N
  <2>1. ASSUME NEW U \in SUBSET (S \ T), IsFiniteSet(U), Cardinality(U) = n + 1
        PROVE  SumFunctionOnSet(h, T \cup U) = SumFunctionOnSet(h, T)
    <3>1. U # {}
      BY <2>1, FS_EmptySet, SMT
    <3>2. PICK x \in U : TRUE
      BY <3>1
    <3> DEFINE V == U \ {x}
    <3>3. IsFiniteSet(V) /\ Cardinality(V) = n /\ V \in SUBSET (S \ T)
      BY <2>1, <3>2, WithoutOne, SMT
    <3>4. IsFiniteSet(T \cup U) /\ T \cup U \subseteq S /\ IsFiniteSet(T \cup V)
      BY <1>1, <2>1, <3>3, FS_Union
    <3>5. x \in T \cup U /\ (T \cup U) \ {x} = T \cup V /\ h[x] = 0
      BY <3>2
    <3>6. \A y \in T \cup U : h[y] \in Nat
      BY <3>4
    <3>7. SumFunctionOnSet(h, T \cup U) = h[x] + SumFunctionOnSet(h, (T \cup U) \ {x})
      <4> DEFINE W == T \cup U
      <4>1. IsFiniteSet(W) /\ x \in W /\ \A y \in W : h[y] \in Nat
        BY <3>4, <3>5, <3>6
      <4> HIDE DEF W
      <4>2. SumFunctionOnSet(h, W) = h[x] + SumFunctionOnSet(h, W \ {x})
        BY <4>1, SumTakesOut
      <4>3. QED
        BY <4>2 DEF W
    <3>8. SumFunctionOnSet(h, T \cup V) = SumFunctionOnSet(h, T)
      BY <1>3, <3>3
    <3> HIDE DEF V
    <3>9. SumFunctionOnSet(h, T) \in Nat
      BY <1>1, SumType
    <3>10. QED
      BY <3>5, <3>7, <3>8, <3>9
  <2>2. QED
    BY <2>1
<1> HIDE DEF N
<1>4. Cardinality(S \ T) \in N
  BY <1>1, <1>2, <1>3, SetInduction, FS_CardinalityType
<1>5. S \ T \in SUBSET (S \ T) /\ T \cup (S \ T) = S
  OBVIOUS
<1>6. QED
  BY <1>1, <1>4, <1>5 DEF N

(* The sum over the first numbers grows with the number of them.           *)
LEMMA SumOfFirst ==
  ASSUME NEW h, NEW n \in Nat, \A i \in 1 .. n : h[i] \in Nat
  PROVE  /\ SumFunctionOnSet(h, 1 .. n) \in Nat
         /\ n = 0 => SumFunctionOnSet(h, 1 .. n) = 0
         /\ n # 0 => SumFunctionOnSet(h, 1 .. n) = SumFunctionOnSet(h, 1 .. n - 1) + h[n]
<1>1. IsFiniteSet(1 .. n) /\ IsFiniteSet(1 .. n - 1)
  BY FS_Interval
<1>2. SumFunctionOnSet(h, 1 .. n) \in Nat
  BY <1>1, SumType
<1>3. CASE n = 0
  <2>1. 1 .. n = {}
    BY <1>3, SMT
  <2>2. QED
    BY <1>3, <2>1, SumEmpty
<1>4. CASE n # 0
  <2>1. n \in 1 .. n /\ (1 .. n) \ {n} = 1 .. n - 1 /\ \A i \in 1 .. n - 1 : h[i] \in Nat
    BY <1>4, SMT
  <2>2. SumFunctionOnSet(h, 1 .. n) = h[n] + SumFunctionOnSet(h, (1 .. n) \ {n})
    BY <1>1, <2>1, SumTakesOut
  <2>3. SumFunctionOnSet(h, 1 .. n - 1) \in Nat
    BY <1>1, <2>1, SumType
  <2>4. h[n] \in Nat
    BY <2>1
  <2> DEFINE a == SumFunctionOnSet(h, 1 .. n)
             b == SumFunctionOnSet(h, 1 .. n - 1)
  <2>5. a = h[n] + b /\ a \in Nat /\ b \in Nat
    BY <1>2, <2>1, <2>2, <2>3, Zenon
  <2> HIDE DEF a, b
  <2>6. a = b + h[n]
    BY <2>4, <2>5
  <2>7. QED
    BY <1>2, <1>4, <2>6 DEF a, b
<1>5. QED
  BY <1>2, <1>3, <1>4

(* The sum of a list of numbers.                                           *)
Total(s) == SumFunctionOnSet(s, 1 .. Len(s))

(* The total of a list with one more number. *)
LEMMA TotalAppend ==
  ASSUME NEW s \in Seq(Nat), NEW x \in Nat
  PROVE  /\ Total(s) \in Nat /\ Total(<< >>) = 0
         /\ Total(Append(s, x)) = Total(s) + x
<1> DEFINE t == Append(s, x)
           n == Len(s)
<1>1. n \in Nat /\ n + 1 \in Nat /\ n + 1 # 0 /\ n + 1 - 1 = n
  BY LenInNat
<1>2. t \in Seq(Nat) /\ Len(t) = n + 1 /\ t[n + 1] = x /\ \A i \in 1 .. n : s[i] = t[i]
  BY AppendElements
<1>3. (\A i \in 1 .. n : s[i] \in Nat) /\ \A i \in 1 .. n + 1 : t[i] \in Nat
  <2> HIDE DEF t
  <2>1. QED
    BY <1>2, SMT
<1>4. Total(s) \in Nat
  BY <1>1, <1>3, SumOfFirst DEF Total
<1>5. Total(<< >>) = 0
  <2>1. Len(<< >>) = 0 /\ 1 .. 0 = {}
    BY SMT
  <2>2. QED
    BY <2>1, SumEmpty DEF Total
<1> HIDE DEF t, n
<1>6. SumFunctionOnSet(t, 1 .. n + 1) = SumFunctionOnSet(t, 1 .. n) + x
  BY <1>1, <1>2, <1>3, SumOfFirst
<1>7. SumFunctionOnSet(t, 1 .. n) = SumFunctionOnSet(s, 1 .. n)
  <2>1. IsFiniteSet(1 .. n)
    BY <1>1, FS_Interval
  <2>2. Agree(t, s, 1 .. n)
    BY <1>2 DEF Agree
  <2>3. QED
    BY <2>1, <2>2, SumAgrees
<1>8. QED
  BY <1>2, <1>4, <1>5, <1>6, <1>7 DEF Total, t, n

(* The total of two lists is the sum of their totals. *)
LEMMA TotalConcat ==
  ASSUME NEW s \in Seq(Nat), NEW t \in Seq(Nat)
  PROVE  Total(s \o t) = Total(s) + Total(t)
<1> DEFINE N == {n \in Nat : \A u \in Seq(Nat) :
                   Len(u) = n => Total(s \o u) = Total(s) + Total(u)}
<1>1. 0 \in N
  <2>1. ASSUME NEW u \in Seq(Nat), Len(u) = 0 PROVE Total(s \o u) = Total(s) + Total(u)
    <3>1. u = << >> /\ s \o u = s
      BY <2>1, SMT
    <3>2. Total(s) \in Nat /\ Total(u) = 0
      BY <3>1, TotalAppend
    <3>3. QED
      BY <3>1, <3>2
  <2>2. QED
    BY <2>1
<1>2. ASSUME NEW n \in Nat, n \in N PROVE n + 1 \in N
  <2>1. ASSUME NEW u \in Seq(Nat), Len(u) = n + 1 PROVE Total(s \o u) = Total(s) + Total(u)
    <3>1. PICK v \in Seq(Nat), x \in Nat : u = Append(v, x) /\ Len(v) = n
      BY <2>1, LastOfList, Zenon
    <3>2. Total(s \o v) = Total(s) + Total(v)
      BY <1>2, <3>1
    <3> HIDE DEF N
    <3>3. s \o u = Append(s \o v, x) /\ s \o v \in Seq(Nat)
      BY <3>1, SMT
    <3>4. Total(s \o u) = Total(s \o v) + x /\ Total(u) = Total(v) + x
      BY <3>1, <3>3, TotalAppend
    <3>5. Total(s) \in Nat /\ Total(v) \in Nat
      BY TotalAppend
    <3>6. QED
      BY <3>2, <3>4, <3>5
  <2>2. QED
    BY <2>1
<1> HIDE DEF N
<1>3. Len(t) \in N
  BY <1>1, <1>2, SetInduction, LenInNat, Zenon
<1>4. QED
  BY <1>3 DEF N

(* The length of what is flattened is the sum of the lengths.              *)
LEMMA FlattenLen ==
  ASSUME NEW S, NEW ss \in Seq(Seq(S))
  PROVE  Len(FlattenSeq(ss)) = Total([i \in 1 .. Len(ss) |-> Len(ss[i])])
<1> DEFINE lens(tt) == [i \in 1 .. Len(tt) |-> Len(tt[i])]
           N == {n \in Nat : \A tt \in Seq(Seq(S)) :
                   Len(tt) = n => Len(FlattenSeq(tt)) = Total(lens(tt))}
<1>1. 0 \in N
  <2>1. ASSUME NEW tt \in Seq(Seq(S)), Len(tt) = 0
        PROVE  Len(FlattenSeq(tt)) = Total(lens(tt))
    <3>1. tt = << >> /\ lens(tt) = << >> /\ Len(<< >>) = 0 /\ << >> \in Seq(Nat)
      BY <2>1, SMT
    <3>2. Total(<< >>) = 0
      BY <3>1, TotalAppend
    <3>3. QED
      BY <3>1, <3>2, FlattenEmpty
  <2>2. QED
    BY <2>1
<1>2. ASSUME NEW n \in Nat, n \in N PROVE n + 1 \in N
  <2>1. ASSUME NEW tt \in Seq(Seq(S)), Len(tt) = n + 1
        PROVE  Len(FlattenSeq(tt)) = Total(lens(tt))
    <3>1. PICK uu \in Seq(Seq(S)), x \in Seq(S) : tt = Append(uu, x) /\ Len(uu) = n
      BY <2>1, LastOfList, Zenon
    <3>2. Len(FlattenSeq(uu)) = Total(lens(uu))
      BY <1>2, <3>1
    <3> HIDE DEF N
    <3>3. FlattenSeq(tt) = FlattenSeq(uu) \o x
      BY <3>1, FlattenAppend
    <3>4. Len(FlattenSeq(tt)) = Len(FlattenSeq(uu)) + Len(x)
      BY <3>3, FlattenType, SMT
    <3>5. lens(uu) \in Seq(Nat) /\ Len(x) \in Nat /\ lens(tt) = Append(lens(uu), Len(x))
      BY <3>1, SMT
    <3> HIDE DEF lens
    <3>6. Total(lens(tt)) = Total(lens(uu)) + Len(x)
      BY <3>5, TotalAppend
    <3>7. QED
      BY <3>2, <3>4, <3>6
  <2>2. QED
    BY <2>1
<1> HIDE DEF N
<1>3. Len(ss) \in N
  BY <1>1, <1>2, SetInduction, LenInNat, Zenon
<1>4. QED
  BY <1>3 DEF N

-----------------------------------------------------------------------------
(* Parts of lists.                                                         *)

Behind(s, n) == SubSeq(s, n + 1, Len(s))
UpTo(s, n) == SubSeq(s, 1, n)

(* Two lists of the same length and elements are the same.                 *)
LEMMA SameList ==
  ASSUME NEW S, NEW s \in Seq(S), NEW t \in Seq(S), Len(s) = Len(t),
         \A i \in 1 .. Len(s) : s[i] = t[i]
  PROVE  s = t
BY SMT

(* The elements of two lists, one behind the other.                        *)
LEMMA ConcatElements ==
  ASSUME NEW S, NEW a \in Seq(S), NEW b \in Seq(S)
  PROVE  /\ a \o b \in Seq(S)
         /\ Len(a \o b) = Len(a) + Len(b)
         /\ \A j \in 1 .. Len(a) + Len(b) :
              (a \o b)[j] = IF j <= Len(a) THEN a[j] ELSE b[j - Len(a)]
BY SMT

(* A part of a list is a list.                                             *)
LEMMA SliceElements ==
  ASSUME NEW S, NEW s \in Seq(S), NEW a \in Nat, NEW k \in Nat, a + k <= Len(s)
  PROVE  /\ SubSeq(s, a + 1, a + k) \in Seq(S) /\ Len(SubSeq(s, a + 1, a + k)) = k
         /\ \A j \in 1 .. k : SubSeq(s, a + 1, a + k)[j] = s[a + j]
BY SMT

(* What is where after an insertion into a list.                           *)
LEMMA InsertAtElements ==
  ASSUME NEW S, NEW s \in Seq(S), NEW e \in S, NEW i \in 1 .. Len(s) + 1
  PROVE  /\ InsertAt(s, i, e) \in Seq(S)
         /\ Len(InsertAt(s, i, e)) = Len(s) + 1
         /\ \A j \in 1 .. Len(s) + 1 :
              InsertAt(s, i, e)[j] = IF j < i THEN s[j] ELSE IF j = i THEN e ELSE s[j - 1]
<1> DEFINE a == SubSeq(s, 1, i - 1)
           b == SubSeq(s, i, Len(s))
<1>1. a \in Seq(S) /\ Len(a) = i - 1 /\ \A j \in 1 .. i - 1 : a[j] = s[j]
  BY SMT
<1>2. b \in Seq(S) /\ Len(b) = Len(s) - i + 1 /\ \A j \in 1 .. Len(s) - i + 1 : b[j] = s[i + j - 1]
  BY SMT
<1>3. InsertAt(s, i, e) = (a \o <<e>>) \o b
  BY DEF InsertAt
<1> HIDE DEF a, b
<1>4. /\ (a \o <<e>>) \in Seq(S) /\ Len(a \o <<e>>) = i
      /\ \A j \in 1 .. i : (a \o <<e>>)[j] = IF j < i THEN s[j] ELSE e
  BY <1>1, SMT
<1> DEFINE c == a \o <<e>>
<1>5. /\ c \in Seq(S) /\ Len(c) = i
      /\ \A j \in 1 .. i : c[j] = IF j < i THEN s[j] ELSE e
  BY <1>4
<1>6. InsertAt(s, i, e) = c \o b
  BY <1>3
<1> HIDE DEF c
<1>7. /\ c \o b \in Seq(S) /\ Len(c \o b) = Len(c) + Len(b)
      /\ \A j \in 1 .. Len(c) + Len(b) :
           (c \o b)[j] = IF j <= Len(c) THEN c[j] ELSE b[j - Len(c)]
  BY <1>2, <1>5, ConcatElements
<1>8. Len(InsertAt(s, i, e)) = Len(s) + 1
  BY <1>2, <1>5, <1>6, <1>7, SMT
<1>9. ASSUME NEW j \in 1 .. Len(s) + 1
      PROVE  InsertAt(s, i, e)[j] = IF j < i THEN s[j] ELSE IF j = i THEN e ELSE s[j - 1]
  BY <1>2, <1>5, <1>6, <1>7, SMT
<1>10. QED
  BY <1>6, <1>7, <1>8, <1>9

(* What is where after a removal from a list.                              *)
LEMMA RemoveAtElements ==
  ASSUME NEW S, NEW s \in Seq(S), NEW i \in 1 .. Len(s)
  PROVE  /\ RemoveAt(s, i) \in Seq(S)
         /\ Len(RemoveAt(s, i)) = Len(s) - 1
         /\ \A j \in 1 .. Len(s) - 1 :
              RemoveAt(s, i)[j] = IF j < i THEN s[j] ELSE s[j + 1]
<1> DEFINE a == SubSeq(s, 1, i - 1)
           b == SubSeq(s, i + 1, Len(s))
<1>1. a \in Seq(S) /\ Len(a) = i - 1 /\ \A j \in 1 .. i - 1 : a[j] = s[j]
  BY SMT
<1>2. b \in Seq(S) /\ Len(b) = Len(s) - i /\ \A j \in 1 .. Len(s) - i : b[j] = s[i + j]
  BY SMT
<1>3. RemoveAt(s, i) = a \o b
  BY DEF RemoveAt
<1> HIDE DEF a, b
<1>4. /\ a \o b \in Seq(S) /\ Len(a \o b) = Len(a) + Len(b)
      /\ \A j \in 1 .. Len(a) + Len(b) :
           (a \o b)[j] = IF j <= Len(a) THEN a[j] ELSE b[j - Len(a)]
  BY <1>1, <1>2, ConcatElements
<1>5. Len(RemoveAt(s, i)) = Len(s) - 1
  BY <1>1, <1>2, <1>3, <1>4, SMT
<1>6. ASSUME NEW j \in 1 .. Len(s) - 1
      PROVE  RemoveAt(s, i)[j] = IF j < i THEN s[j] ELSE s[j + 1]
  <2>1. CASE j < i
    BY <1>1, <1>2, <1>3, <1>4, <2>1, SMT
  <2>2. CASE j >= i
    <3>1. j - (i - 1) \in 1 .. Len(s) - i /\ i + (j - (i - 1)) = j + 1
      BY <2>2, SMT
    <3>2. (a \o b)[j] = b[j - (i - 1)]
      BY <1>1, <1>2, <1>4, <2>2, SMT
    <3>3. b[j - (i - 1)] = s[j + 1]
      BY <1>2, <3>1
    <3>4. QED
      BY <1>3, <2>2, <3>2, <3>3, SMT
  <2>3. QED
    BY <2>1, <2>2, SMT
<1>7. QED
  BY <1>3, <1>4, <1>5, <1>6

(* A part of a part is a part.                                             *)
Slice(s, a, n) == SubSeq(s, a + 1, a + n)

(* The front and the rest of a slice are slices. *)
LEMMA SliceOfSlice ==
  ASSUME NEW S, NEW s \in Seq(S), NEW a \in Nat, NEW n \in Nat, NEW k \in Nat,
         a + n <= Len(s), k <= n
  PROVE  /\ UpTo(Slice(s, a, n), k) = Slice(s, a, k)
         /\ Behind(Slice(s, a, n), k) = Slice(s, a + k, n - k)
<1> DEFINE f == SubSeq(s, a + 1, a + n)
           g == SubSeq(s, a + 1, a + k)
           h == SubSeq(s, a + k + 1, a + k + (n - k))
<1>1. f \in Seq(S) /\ Len(f) = n /\ \A i \in 1 .. n : f[i] = s[a + i]
  BY SMT
<1>2. g \in Seq(S) /\ Len(g) = k /\ \A i \in 1 .. k : g[i] = s[a + i]
  <2>1. a + k <= Len(s)
    BY SMT
  <2>2. QED
    BY <2>1, SMT
<1>3. h \in Seq(S) /\ Len(h) = n - k /\ \A i \in 1 .. n - k : h[i] = s[a + k + i]
  BY SMT
<1> HIDE DEF f, g, h
<1>4. UpTo(f, k) \in Seq(S) /\ Len(UpTo(f, k)) = k /\ \A i \in 1 .. k : UpTo(f, k)[i] = f[i]
  BY <1>1, SMT DEF UpTo
<1>5. /\ Behind(f, k) \in Seq(S) /\ Len(Behind(f, k)) = n - k
      /\ \A i \in 1 .. n - k : Behind(f, k)[i] = f[k + i]
  BY <1>1, SMT DEF Behind
<1>6. UpTo(f, k) = g
  <2>1. \A i \in 1 .. k : i \in 1 .. n
    BY SMT
  <2>2. \A i \in 1 .. k : UpTo(f, k)[i] = g[i]
    BY <1>1, <1>2, <1>4, <2>1
  <2>3. QED
    BY <1>2, <1>4, <2>2, SameList
<1>7. Behind(f, k) = h
  <2>1. \A i \in 1 .. n - k : k + i \in 1 .. n /\ a + (k + i) = a + k + i
    BY SMT
  <2>2. \A i \in 1 .. n - k : Behind(f, k)[i] = h[i]
    BY <1>1, <1>3, <1>5, <2>1
  <2>3. QED
    BY <1>3, <1>5, <2>2, SameList
<1>8. QED
  BY <1>6, <1>7 DEF f, g, h, Slice

(* The two parts of a list make the list.                                  *)
LEMMA CutList ==
  ASSUME NEW S, NEW s \in Seq(S), NEW n \in 0 .. Len(s)
  PROVE  /\ UpTo(s, n) \in Seq(S) /\ Len(UpTo(s, n)) = n
         /\ Behind(s, n) \in Seq(S) /\ Len(Behind(s, n)) = Len(s) - n
         /\ UpTo(s, n) \o Behind(s, n) = s
<1>1. Len(s) \in Nat
  BY SMT
<1>2. /\ UpTo(s, n) \in Seq(S) /\ Len(UpTo(s, n)) = n
      /\ \A i \in 1 .. n : UpTo(s, n)[i] = s[i]
  BY SMT DEF UpTo
<1>3. /\ Behind(s, n) \in Seq(S) /\ Len(Behind(s, n)) = Len(s) - n
      /\ \A i \in 1 .. Len(s) - n : Behind(s, n)[i] = s[n + i]
  BY SMT DEF Behind
<1> DEFINE a == UpTo(s, n)
           b == Behind(s, n)
<1> HIDE DEF a, b
<1>4. /\ a \o b \in Seq(S) /\ Len(a \o b) = Len(s)
      /\ \A i \in 1 .. Len(s) : (a \o b)[i] = s[i]
  <2>1. /\ a \in Seq(S) /\ Len(a) = n /\ b \in Seq(S) /\ Len(b) = Len(s) - n
        /\ \A i \in 1 .. n : a[i] = s[i]
        /\ \A i \in 1 .. Len(s) - n : b[i] = s[n + i]
    BY <1>2, <1>3 DEF a, b
  <2>2. /\ a \o b \in Seq(S) /\ Len(a \o b) = Len(a) + Len(b)
        /\ \A j \in 1 .. Len(a) + Len(b) :
             (a \o b)[j] = IF j <= Len(a) THEN a[j] ELSE b[j - Len(a)]
    BY <2>1, ConcatElements
  <2>3. ASSUME NEW i \in 1 .. Len(s) PROVE (a \o b)[i] = s[i]
    <3>1. CASE i <= n
      BY <1>1, <2>1, <2>2, <3>1, SMT
    <3>2. CASE i > n
      <4>1. i - n \in 1 .. Len(s) - n /\ n + (i - n) = i
        BY <1>1, <3>2, SMT
      <4>2. (a \o b)[i] = b[i - n]
        BY <1>1, <2>1, <2>2, <3>2, SMT
      <4>3. QED
        BY <2>1, <4>1, <4>2
    <3>3. i <= n \/ i > n
      BY <1>1, SMT
    <3>4. QED
      BY <3>1, <3>2, <3>3
  <2>4. QED
    BY <1>1, <2>1, <2>2, <2>3, SMT
<1>5. a \o b = s
  BY <1>4, SameList
<1>6. QED
  BY <1>2, <1>3, <1>5 DEF a, b

(* What comes after a place of a concatenation.                            *)
LEMMA BehindConcat ==
  ASSUME NEW S, NEW a \in Seq(S), NEW b \in Seq(S), NEW n \in Nat
  PROVE  /\ n <= Len(a) => Behind(a \o b, n) = Behind(a, n) \o b
         /\ Behind(a \o b, Len(a) + n) = Behind(b, n)
         /\ UpTo(a \o b, Len(a)) = a
         /\ Behind(a, 0) = a
         /\ n >= Len(a) => Behind(a, n) = << >>
<1>1. a \o b \in Seq(S) /\ Len(a \o b) = Len(a) + Len(b) /\ Len(a) \in Nat /\ Len(b) \in Nat
  BY SMT
<1>2. ASSUME n <= Len(a) PROVE Behind(a \o b, n) = Behind(a, n) \o b
  <2> DEFINE c == Behind(a, n)
  <2>1. c \in Seq(S) /\ Len(c) = Len(a) - n /\ \A i \in 1 .. Len(a) - n : c[i] = a[n + i]
    BY <1>1, <1>2, SMT DEF Behind
  <2> DEFINE d == Behind(a \o b, n)
  <2>2. /\ d \in Seq(S) /\ Len(d) = Len(a) + Len(b) - n
        /\ \A i \in 1 .. Len(a) + Len(b) - n : d[i] = (a \o b)[n + i]
    BY <1>1, <1>2, SMT DEF Behind
  <2> HIDE DEF c, d
  <2>3. c \o b \in Seq(S) /\ Len(c \o b) = Len(d)
    BY <1>1, <2>1, <2>2, SMT
  <2>4. ASSUME NEW i \in 1 .. Len(d) PROVE d[i] = (c \o b)[i]
    <3>1. /\ \A j \in 1 .. Len(a) + Len(b) : (a \o b)[j] = IF j <= Len(a) THEN a[j] ELSE b[j - Len(a)]
          /\ \A j \in 1 .. Len(c) + Len(b) : (c \o b)[j] = IF j <= Len(c) THEN c[j] ELSE b[j - Len(c)]
      BY <1>1, <2>1, ConcatElements
    <3>2. /\ n + i \in 1 .. Len(a) + Len(b) /\ i \in 1 .. Len(c) + Len(b)
          /\ i <= Len(c) <=> n + i <= Len(a)
          /\ n + i - Len(a) = i - Len(c)
          /\ i <= Len(c) => i \in 1 .. Len(a) - n
      BY <1>1, <1>2, <2>1, <2>2, SMT
    <3>3. d[i] = (a \o b)[n + i]
      BY <2>2
    <3>4. CASE i <= Len(c)
      BY <2>1, <3>1, <3>2, <3>3, <3>4
    <3>5. CASE ~(i <= Len(c))
      BY <3>1, <3>2, <3>3, <3>5
    <3>6. QED
      BY <3>4, <3>5
  <2>5. d = c \o b
    BY <2>2, <2>3, <2>4, SameList
  <2>6. QED
    BY <2>5 DEF c, d
<1>3. Behind(a \o b, Len(a) + n) = Behind(b, n)
  BY <1>1, SMT DEF Behind
<1>4. UpTo(a \o b, Len(a)) = a
  BY <1>1, SMT DEF UpTo
<1>5. Behind(a, 0) = a
  BY <1>1, SMT DEF Behind
<1>6. ASSUME n >= Len(a) PROVE Behind(a, n) = << >>
  BY <1>1, <1>6, SMT DEF Behind
<1>7. QED
  BY <1>2, <1>3, <1>4, <1>5, <1>6

(* What is dropped within the first list.                                  *)
LEMMA BehindFirst ==
  ASSUME NEW S, NEW a \in Seq(S), NEW b \in Seq(S), NEW n \in Nat, n <= Len(a)
  PROVE  Behind(a \o b, n) = Behind(a, n) \o b
<1>1. n <= Len(a) => Behind(a \o b, n) = Behind(a, n) \o b
  BY BehindConcat
<1>2. QED
  BY <1>1

(* Dropping nothing, and dropping from nothing.                            *)
LEMMA BehindNone ==
  ASSUME NEW S, NEW a \in Seq(S)
  PROVE  Behind(a, 0) = a /\ \A n \in Nat : Behind(<< >>, n) = << >>
<1>1. Behind(a, 0) = a
  BY SMT DEF Behind
<1>2. ASSUME NEW n \in Nat PROVE Behind(<< >>, n) = << >>
  BY SMT DEF Behind
<1>3. QED
  BY <1>1, <1>2

(* A part that begins at a place, and one cut out of the two sides.        *)
LEMMA SliceBehind ==
  ASSUME NEW S, NEW s \in Seq(S), NEW a \in Nat, NEW n \in Nat, a + n <= Len(s)
  PROVE  SubSeq(s, a + 1, a + n) = UpTo(Behind(s, a), n)
<1> DEFINE b == Behind(s, a)
           u == UpTo(b, n)
           v == SubSeq(s, a + 1, a + n)
<1>1. /\ b \in Seq(S) /\ Len(b) = Len(s) - a /\ Len(s) \in Nat
      /\ \A j \in 1 .. Len(s) - a : b[j] = s[a + j]
  BY SMT DEF Behind
<1> HIDE DEF b
<1>2. /\ u \in Seq(S) /\ Len(u) = n /\ \A j \in 1 .. n : u[j] = b[j] /\ j \in 1 .. Len(s) - a
  BY <1>1, SMT DEF UpTo
<1>3. /\ v \in Seq(S) /\ Len(v) = n /\ \A j \in 1 .. n : v[j] = s[a + j]
  BY SMT
<1> HIDE DEF u, v
<1>4. \A j \in 1 .. Len(v) : v[j] = u[j]
  BY <1>1, <1>2, <1>3
<1>5. v = u
  BY <1>2, <1>3, <1>4, SameList
<1>6. QED
  BY <1>5 DEF u, v, b

(* A part of a list within the first of two, and the whole second one.     *)
LEMMA SameSlice ==
  ASSUME NEW S, NEW s \in Seq(S), NEW t \in Seq(S), NEW a \in Nat, NEW n \in Nat,
         a + n <= Len(s)
  PROVE  SubSeq(s \o t, a + 1, a + n) = SubSeq(s, a + 1, a + n)
BY SMT

(* Behind the first of two lists is the second. *)
LEMMA SecondOfTwo ==
  ASSUME NEW S, NEW s \in Seq(S), NEW t \in Seq(S)
  PROVE  SubSeq(s \o t, Len(s) + 1, Len(s) + Len(t)) = t
BY SMT

(* Concatenation is associative and the empty list is neutral.             *)
LEMMA ConcatLaws ==
  ASSUME NEW S, NEW a \in Seq(S), NEW b \in Seq(S), NEW c \in Seq(S)
  PROVE  (a \o b) \o c = a \o (b \o c) /\ a \o << >> = a /\ << >> \o a = a /\ a \o b \in Seq(S)
BY SMT

(* The lists before, at and behind a place of a list of lists.             *)
LEMMA FlattenParts ==
  ASSUME NEW S, NEW ss \in Seq(Seq(S)), NEW n \in 0 .. Len(ss)
  PROVE  /\ FlattenSeq(ss) = FlattenSeq(UpTo(ss, n)) \o FlattenSeq(Behind(ss, n))
         /\ FlattenSeq(UpTo(ss, n)) \in Seq(S) /\ FlattenSeq(Behind(ss, n)) \in Seq(S)
         /\ n < Len(ss) => FlattenSeq(Behind(ss, n)) = ss[n + 1] \o FlattenSeq(Behind(ss, n + 1))
<1>1. /\ UpTo(ss, n) \in Seq(Seq(S)) /\ Behind(ss, n) \in Seq(Seq(S))
      /\ ss = UpTo(ss, n) \o Behind(ss, n)
  BY CutList
<1>2. FlattenSeq(ss) = FlattenSeq(UpTo(ss, n)) \o FlattenSeq(Behind(ss, n))
  BY <1>1, FlattenConcat
<1>3. FlattenSeq(UpTo(ss, n)) \in Seq(S) /\ FlattenSeq(Behind(ss, n)) \in Seq(S)
  BY <1>1, FlattenType
<1>4. ASSUME n < Len(ss)
      PROVE  FlattenSeq(Behind(ss, n)) = ss[n + 1] \o FlattenSeq(Behind(ss, n + 1))
  <2> DEFINE x == ss[n + 1]
  <2>1. n + 1 \in 0 .. Len(ss) /\ x \in Seq(S)
    BY <1>4, SMT
  <2>2. Behind(ss, n + 1) \in Seq(Seq(S))
    BY <2>1, CutList
  <2>3. <<x>> \in Seq(Seq(S)) /\ <<x>> = Append(<< >>, x) /\ << >> \in Seq(Seq(S))
    BY <2>1, SMT
  <2>4. Behind(ss, n) = <<x>> \o Behind(ss, n + 1)
    BY <1>4, <2>1, SMT DEF Behind
  <2> HIDE DEF x
  <2>5. FlattenSeq(<<x>>) = x
    <3>1. FlattenSeq(Append(<< >>, x)) = FlattenSeq(<< >>) \o x
      BY <2>1, <2>3, FlattenAppend
    <3>2. << >> \o x = x
      BY <2>1, SMT
    <3>3. QED
      BY <2>3, <3>1, <3>2, FlattenEmpty
  <2>6. FlattenSeq(<<x>> \o Behind(ss, n + 1)) = FlattenSeq(<<x>>) \o FlattenSeq(Behind(ss, n + 1))
    BY <2>2, <2>3, FlattenConcat
  <2>7. QED
    BY <2>4, <2>5, <2>6 DEF x
<1>5. QED
  BY <1>2, <1>3, <1>4

(* What follows the same list is the same.                                 *)
LEMMA CancelFront ==
  ASSUME NEW S, NEW a \in Seq(S), NEW b \in Seq(S), NEW c \in Seq(S), a \o b = a \o c
  PROVE  b = c
<1>1. Behind(a \o b, Len(a)) = b /\ Behind(a \o c, Len(a)) = c
  <2>1. ASSUME NEW d \in Seq(S) PROVE Behind(a \o d, Len(a)) = d
    <3> DEFINE n == 0
    <3>1. n \in Nat /\ Len(a) + n = Len(a)
      BY SMT
    <3>2. Behind(d, n) = d
      BY BehindConcat, Zenon
    <3> HIDE DEF n
    <3>3. Behind(a \o d, Len(a) + n) = Behind(d, n)
      BY <3>1, BehindConcat
    <3>4. QED
      BY <3>1, <3>2, <3>3
  <2>2. QED
    BY <2>1
<1>2. QED
  BY <1>1

-----------------------------------------------------------------------------
(* The total of a list in which one number is added, taken out or changed. *)

(* An inserted number is added to the total, *)
LEMMA TotalInsert ==
  ASSUME NEW s \in Seq(Nat), NEW x \in Nat, NEW i \in 1 .. Len(s) + 1
  PROVE  Total(InsertAt(s, i, x)) = Total(s) + x /\ Total(s) \in Nat
<1> DEFINE n == i - 1
           a == UpTo(s, n)
           b == Behind(s, n)
<1>1. Len(s) \in Nat /\ n \in 0 .. Len(s) /\ n + 1 = i
  BY SMT
<1>2. InsertAt(s, i, x) = (a \o << x >>) \o b
  BY <1>1 DEF InsertAt, UpTo, Behind
<1> HIDE DEF n
<1>3. a \in Seq(Nat) /\ b \in Seq(Nat) /\ a \o b = s
  BY <1>1, CutList
<1> HIDE DEF a, b
<1>4. a \o << x >> = Append(a, x) /\ Append(a, x) \in Seq(Nat)
  BY <1>3, SMT
<1>5. Total(Append(a, x)) = Total(a) + x /\ Total(a) \in Nat /\ Total(b) \in Nat
  BY <1>3, TotalAppend
<1>6. Total(Append(a, x) \o b) = Total(Append(a, x)) + Total(b)
  BY <1>3, <1>4, TotalConcat
<1>7. Total(a \o b) = Total(a) + Total(b)
  BY <1>3, TotalConcat
<1>8. Total(InsertAt(s, i, x)) = Total(Append(a, x) \o b) /\ Total(s) = Total(a \o b)
  BY <1>2, <1>3, <1>4
<1>9. QED
  <2> DEFINE ta == Total(a)
             tb == Total(b)
  <2>1. ta \in Nat /\ tb \in Nat /\ Total(InsertAt(s, i, x)) = (ta + x) + tb /\ Total(s) = ta + tb
    BY <1>5, <1>6, <1>7, <1>8
  <2> HIDE DEF ta, tb
  <2>2. QED
    BY <2>1

(* a removed one is taken from it, *)
LEMMA TotalRemove ==
  ASSUME NEW s \in Seq(Nat), NEW i \in 1 .. Len(s)
  PROVE  /\ Total(s) = Total(RemoveAt(s, i)) + s[i]
         /\ Total(RemoveAt(s, i)) \in Nat /\ RemoveAt(s, i) \in Seq(Nat)
<1> DEFINE t == RemoveAt(s, i)
           x == s[i]
           u == InsertAt(t, i, x)
<1>1. Len(s) \in Nat /\ x \in Nat
  BY SMT
<1>2. /\ t \in Seq(Nat) /\ Len(t) = Len(s) - 1
      /\ \A j \in 1 .. Len(s) - 1 : t[j] = IF j < i THEN s[j] ELSE s[j + 1]
  BY RemoveAtElements
<1> HIDE DEF t, x
<1>3. i \in 1 .. Len(t) + 1
  BY <1>1, <1>2
<1>4. /\ u \in Seq(Nat) /\ Len(u) = Len(t) + 1
      /\ \A j \in 1 .. Len(t) + 1 : u[j] = IF j < i THEN t[j] ELSE IF j = i THEN x ELSE t[j - 1]
  <2> DEFINE N == Nat
  <2>1. t \in Seq(N) /\ x \in N /\ i \in 1 .. Len(t) + 1
    BY <1>1, <1>2, <1>3
  <2> HIDE DEF N
  <2>2. /\ InsertAt(t, i, x) \in Seq(N) /\ Len(InsertAt(t, i, x)) = Len(t) + 1
        /\ \A j \in 1 .. Len(t) + 1 :
             InsertAt(t, i, x)[j] = IF j < i THEN t[j] ELSE IF j = i THEN x ELSE t[j - 1]
    BY <2>1, InsertAtElements
  <2>3. QED
    BY <2>2 DEF N
<1>5. Total(u) = Total(t) + x /\ Total(t) \in Nat
  BY <1>1, <1>2, <1>3, TotalInsert
<1> HIDE DEF u
<1>6. ASSUME NEW j \in 1 .. Len(s) PROVE s[j] = u[j]
  <2>1. /\ j \in 1 .. Len(t) + 1
        /\ j < i => j \in 1 .. Len(s) - 1
        /\ j > i => j - 1 \in 1 .. Len(s) - 1 /\ ~(j - 1 < i) /\ j - 1 + 1 = j
        /\ j < i \/ j = i \/ (j > i /\ ~(j < i) /\ j # i)
    BY <1>1, <1>2, SMT
  <2>2. CASE j < i
    BY <1>2, <1>4, <2>1, <2>2
  <2>3. CASE j = i
    BY <1>4, <2>1, <2>3 DEF x
  <2>4. CASE j > i /\ ~(j < i) /\ j # i
    BY <1>2, <1>4, <2>1, <2>4
  <2>5. QED
    BY <2>1, <2>2, <2>3, <2>4
<1>7. Len(s) = Len(u)
  BY <1>1, <1>2, <1>4
<1>8. s = u
  BY <1>4, <1>6, <1>7, SameList
<1>9. QED
  BY <1>2, <1>5, <1>8 DEF t, x

(* and a replaced one makes way for another. *)
LEMMA TotalReplace ==
  ASSUME NEW s \in Seq(Nat), NEW x \in Nat, NEW i \in 1 .. Len(s)
  PROVE  Total([s EXCEPT ![i] = x]) + s[i] = Total(s) + x
<1> DEFINE u == [s EXCEPT ![i] = x]
           a == RemoveAt(s, i)
           b == RemoveAt(u, i)
<1>1. /\ u \in Seq(Nat) /\ Len(u) = Len(s) /\ Len(s) \in Nat
      /\ \A j \in 1 .. Len(s) : u[j] = IF j = i THEN x ELSE s[j]
  BY SMT
<1> HIDE DEF u
<1>2. /\ a \in Seq(Nat) /\ Len(a) = Len(s) - 1
      /\ \A j \in 1 .. Len(s) - 1 : a[j] = IF j < i THEN s[j] ELSE s[j + 1]
  BY RemoveAtElements
<1>3. /\ b \in Seq(Nat) /\ Len(b) = Len(s) - 1
      /\ \A j \in 1 .. Len(s) - 1 : b[j] = IF j < i THEN u[j] ELSE u[j + 1]
  <2>1. i \in 1 .. Len(u)
    BY <1>1
  <2>2. QED
    BY <1>1, <2>1, RemoveAtElements
<1>4. Total(s) = Total(a) + s[i] /\ Total(a) \in Nat
  BY TotalRemove
<1>5. Total(u) = Total(b) + u[i]
  <2>1. i \in 1 .. Len(u)
    BY <1>1
  <2>2. QED
    BY <1>1, <2>1, TotalRemove
<1> HIDE DEF a, b
<1>6. ASSUME NEW j \in 1 .. Len(a) PROVE a[j] = b[j]
  <2>1. /\ j \in 1 .. Len(s) - 1 /\ j \in 1 .. Len(s) /\ j + 1 \in 1 .. Len(s)
        /\ j < i => j # i
        /\ ~(j < i) => j + 1 # i
    BY <1>1, <1>2, SMT
  <2>2. QED
    BY <1>1, <1>2, <1>3, <2>1
<1>7. a = b
  BY <1>2, <1>3, <1>6, SameList
<1>8. QED
  BY <1>1, <1>4, <1>5, <1>7, SMT DEF u

-----------------------------------------------------------------------------
(* As many elements of a list as are asked for, or all there are.          *)
AtMost(s, m) == SubSeq(s, 1, IF m < Len(s) THEN m ELSE Len(s))

(* The first m lines of two lists: of the first alone, or all of it and some of the second. *)
LEMMA AtMostOfConcat ==
  ASSUME NEW S, NEW a \in Seq(S), NEW b \in Seq(S), NEW m \in Nat
  PROVE  /\ m <= Len(a) => AtMost(a \o b, m) = UpTo(a, m)
         /\ m > Len(a) => AtMost(a \o b, m) = UpTo(a, Len(a)) \o AtMost(b, m - Len(a))
         /\ AtMost(a, 0) = << >> /\ AtMost(<< >>, m) = << >>
<1> DEFINE c == a \o b
           la == Len(a)
           lb == Len(b)
<1>1. /\ la \in Nat /\ lb \in Nat /\ c \in Seq(S) /\ Len(c) = la + lb
      /\ \A j \in 1 .. la + lb : c[j] = IF j <= la THEN a[j] ELSE b[j - la]
  BY ConcatElements, LenInNat
<1> HIDE DEF c
<1>2. AtMost(a, 0) = << >> /\ AtMost(<< >>, m) = << >>
  BY <1>1, SMT DEF AtMost
<1>3. ASSUME m <= la PROVE AtMost(c, m) = UpTo(a, m)
  <2>1. /\ UpTo(a, m) \in Seq(S) /\ Len(UpTo(a, m)) = m
        /\ \A j \in 1 .. m : UpTo(a, m)[j] = a[j] /\ j \in 1 .. la + lb /\ j <= la
    BY <1>1, <1>3, SMT DEF UpTo
  <2>2. (IF m < Len(c) THEN m ELSE Len(c)) = m
    BY <1>1, <1>3
  <2>3. AtMost(c, m) = UpTo(c, m)
    BY <2>2 DEF AtMost, UpTo
  <2>4. /\ UpTo(c, m) \in Seq(S) /\ Len(UpTo(c, m)) = m
        /\ \A j \in 1 .. m : UpTo(c, m)[j] = c[j]
    BY <1>1, <1>3, SMT DEF UpTo
  <2>5. \A j \in 1 .. Len(UpTo(c, m)) : UpTo(c, m)[j] = UpTo(a, m)[j]
    BY <1>1, <2>1, <2>4
  <2>6. UpTo(c, m) = UpTo(a, m)
    BY <2>1, <2>4, <2>5, SameList
  <2>7. QED
    BY <2>3, <2>6
<1>4. ASSUME m > la PROVE AtMost(c, m) = UpTo(a, la) \o AtMost(b, m - la)
  <2> DEFINE k == IF m - la < lb THEN m - la ELSE lb
             n == la + k
             d == UpTo(b, k)
             e == a \o d
  <2>1. k \in Nat /\ k <= lb /\ n \in Nat /\ n <= la + lb
        /\ (IF m < la + lb THEN m ELSE la + lb) = n
    BY <1>1, <1>4, SMT
  <2>2. AtMost(c, m) = UpTo(c, n) /\ AtMost(b, m - la) = d
    BY <1>1, <2>1 DEF AtMost, UpTo
  <2>3. UpTo(a, la) = a
    BY <1>1, SMT DEF UpTo
  <2> HIDE DEF k, n
  <2>4. /\ UpTo(c, n) \in Seq(S) /\ Len(UpTo(c, n)) = n
        /\ \A j \in 1 .. n : UpTo(c, n)[j] = c[j]
    BY <1>1, <2>1, SMT DEF UpTo
  <2>5. /\ d \in Seq(S) /\ Len(d) = k /\ \A j \in 1 .. k : d[j] = b[j]
    BY <1>1, <2>1, SMT DEF UpTo
  <2> HIDE DEF d
  <2>6. /\ e \in Seq(S) /\ Len(e) = n
        /\ \A j \in 1 .. n : e[j] = IF j <= la THEN a[j] ELSE d[j - la]
    <3>1. e \in Seq(S) /\ Len(e) = la + k
          /\ \A j \in 1 .. la + k : e[j] = IF j <= la THEN a[j] ELSE d[j - la]
      BY <2>5, ConcatElements
    <3>2. QED
      BY <3>1 DEF n
  <2> HIDE DEF e
  <2>7. ASSUME NEW j \in 1 .. Len(UpTo(c, n)) PROVE UpTo(c, n)[j] = e[j]
    <3>1. j \in 1 .. n /\ j \in 1 .. la + lb /\ (~(j <= la) => j - la \in 1 .. k)
      BY <1>1, <2>1, <2>4, SMT DEF n
    <3>2. CASE j <= la
      BY <1>1, <2>4, <2>6, <3>1, <3>2
    <3>3. CASE ~(j <= la)
      BY <1>1, <2>4, <2>5, <2>6, <3>1, <3>3
    <3>4. QED
      BY <3>2, <3>3
  <2>8. UpTo(c, n) = e
    BY <2>4, <2>6, <2>7, SameList
  <2>9. QED
    BY <2>2, <2>3, <2>8 DEF e
<1>5. QED
  BY <1>2, <1>3, <1>4 DEF c

(* A part of two lists that lies in the second one.                        *)
LEMMA PartOfSecond ==
  ASSUME NEW S, NEW a \in Seq(S), NEW b \in Seq(S), NEW off \in Nat, NEW n \in Nat
  PROVE  AtMost(Behind(b, off), n)
           = SubSeq(a \o b, Len(a) + off + 1,
                    IF Len(a) + off + n < Len(a \o b) THEN Len(a) + off + n ELSE Len(a \o b))
<1> DEFINE c == Behind(b, off)
           la == Len(a)
           lb == Len(b)
           k == IF off + n < lb THEN n ELSE IF off < lb THEN lb - off ELSE 0
           last == IF la + off + n < la + lb THEN la + off + n ELSE la + lb
           d == a \o b
           u == SubSeq(c, 1, IF n < Len(c) THEN n ELSE Len(c))
           v == SubSeq(d, la + off + 1, last)
<1>1. la \in Nat /\ lb \in Nat /\ d \in Seq(S) /\ Len(d) = la + lb
      /\ \A j \in 1 .. la + lb : d[j] = IF j <= la THEN a[j] ELSE b[j - la]
  BY ConcatElements, LenInNat
<1>2. /\ c \in Seq(S) /\ Len(c) = IF off < lb THEN lb - off ELSE 0
      /\ \A j \in 1 .. lb - off : c[j] = b[off + j]
  BY SMT DEF Behind
<1> HIDE DEF c, d, la, lb
<1> DEFINE lc == Len(c)
<1>a. lc = IF off < lb THEN lb - off ELSE 0
  BY <1>2
<1> HIDE DEF lc
<1>3. /\ k \in Nat /\ k <= lc /\ last \in Nat /\ lc \in Nat
      /\ k > 0 => off + k <= lb
      /\ (IF n < lc THEN n ELSE lc) = k
      /\ last = la + off + k \/ (k = 0 /\ last <= la + off)
  <2>1. la \in Nat /\ lb \in Nat
    BY <1>1
  <2>2. QED
    BY <1>a, <2>1, SMT
<1>b. lc = Len(c) /\ c \in Seq(S)
  BY <1>2 DEF lc
<1> HIDE DEF k, last
<1>4. /\ u \in Seq(S) /\ Len(u) = k /\ \A j \in 1 .. k : u[j] = c[j]
  <2>1. u = SubSeq(c, 1, k)
    BY <1>3 DEF lc
  <2>2. k \in Nat /\ k <= Len(c)
    BY <1>3, <1>b
  <2> HIDE DEF u
  <2>3. QED
    BY <1>b, <2>1, <2>2, SMT
<1>5. v \in Seq(S) /\ Len(v) = k /\ \A j \in 1 .. k : v[j] = d[la + off + j]
  <2> DEFINE m == la + off
  <2>0. m \in Nat /\ d \in Seq(S) /\ Len(d) = la + lb
    BY <1>1, SMT
  <2>1. CASE k = 0
    <3>1. last <= m
      BY <1>1, <1>3, <2>1
    <3> HIDE DEF m
    <3>2. SubSeq(d, m + 1, last) = << >>
      BY <1>3, <2>0, <3>1, SMT
    <3>3. << >> \in Seq(S) /\ Len(<< >>) = 0 /\ 1 .. 0 = {}
      BY SMT
    <3>4. QED
      BY <2>1, <3>2, <3>3 DEF m
  <2>2. CASE k # 0
    <3>1. last = m + k /\ m + k <= Len(d) /\ k \in Nat
      BY <1>1, <1>3, <2>2
    <3> HIDE DEF m
    <3> HIDE DEF d
    <3>2. SubSeq(d, m + 1, m + k) \in Seq(S) /\ Len(SubSeq(d, m + 1, m + k)) = k
          /\ \A j \in 1 .. k : SubSeq(d, m + 1, m + k)[j] = d[m + j]
      <4>1. d \in Seq(S) /\ m \in Nat /\ k \in Nat /\ m + k <= Len(d)
        BY <2>0, <3>1
      <4>2. QED
        BY <4>1, SliceElements
    <3>3. QED
      BY <3>1, <3>2 DEF m
  <2>3. QED
    BY <2>1, <2>2
<1> HIDE DEF u, v
<1>6. ASSUME NEW j \in 1 .. Len(u) PROVE u[j] = v[j]
  <2>1. /\ j \in 1 .. k /\ j \in 1 .. lb - off /\ la + off + j \in 1 .. la + lb
        /\ ~(la + off + j <= la) /\ la + off + j - la = off + j
    <3>1. k \in Nat /\ j \in 1 .. k /\ off + k <= lb /\ la \in Nat /\ lb \in Nat
      BY <1>1, <1>3, <1>4
    <3>2. QED
      BY <3>1, SMT
  <2>2. u[j] = b[off + j]
    BY <1>2, <1>4, <2>1
  <2>3. v[j] = d[la + off + j]
    BY <1>5, <2>1
  <2>4. d[la + off + j] = b[off + j]
    BY <1>1, <2>1
  <2>5. QED
    BY <2>2, <2>3, <2>4
<1>7. u = v
  BY <1>4, <1>5, <1>6, SameList
<1>8. AtMost(c, n) = u
  BY DEF AtMost, u
<1>9. QED
  BY <1>1, <1>7, <1>8 DEF c, v, d, last, la, lb

-----------------------------------------------------------------------------
(* Recursion over the natural numbers. H gives the n-th value from those   *)
(* before it, as Below says.                                               *)
Earlier(f, g, n) == \A m \in Nat : m < n => f[m] = g[m]
Recurses(H, f, n) == \A m \in Nat : m < n => f[m] = H[m][f]
FromEarlier(H, D) ==
  \A n \in Nat : \A f, g \in [Nat -> D] :
    /\ H[n][f] \in D
    /\ Earlier(f, g, n) => H[n][f] = H[n][g]

(* The values up to some number are settled by the recursion.              *)
LEMMA RecursionAgrees ==
  ASSUME NEW D, NEW H, FromEarlier(H, D), NEW f \in [Nat -> D], NEW g \in [Nat -> D],
         NEW k \in Nat, Recurses(H, f, k), Recurses(H, g, k)
  PROVE  Earlier(f, g, k)
<1> DEFINE S == {n \in Nat : n <= k => Earlier(f, g, n)}
<1>1. 0 \in S
  BY DEF Earlier
<1>2. ASSUME NEW n \in Nat, n \in S PROVE n + 1 \in S
  <2> SUFFICES ASSUME n + 1 <= k PROVE Earlier(f, g, n + 1)
    OBVIOUS
  <2>1. Earlier(f, g, n)
    BY <1>2
  <2>2. f[n] = H[n][f] /\ g[n] = H[n][g]
    BY DEF Recurses
  <2>3. H[n][f] = H[n][g]
    BY <2>1 DEF FromEarlier
  <2>4. ASSUME NEW m \in Nat, m < n + 1 PROVE f[m] = g[m]
    <3>1. m = n \/ m < n
      BY <2>4
    <3>2. QED
      BY <2>1, <2>2, <2>3, <3>1 DEF Earlier
  <2>5. QED
    BY <2>4 DEF Earlier
<1> HIDE DEF S
<1>3. k \in S
  BY <1>1, <1>2, SetInduction
<1>4. QED
  BY <1>3 DEF S

(* Up to any number there is such a function ...                           *)
LEMMA RecursionBegins ==
  ASSUME NEW D, NEW d \in D, NEW H, FromEarlier(H, D)
  PROVE  \A n \in Nat : \E f \in [Nat -> D] : Recurses(H, f, n)
<1> DEFINE S == {n \in Nat : \E f \in [Nat -> D] : Recurses(H, f, n)}
<1>1. 0 \in S
  <2>1. [m \in Nat |-> d] \in [Nat -> D]
    OBVIOUS
  <2>2. Recurses(H, [m \in Nat |-> d], 0)
    BY DEF Recurses
  <2>3. QED
    BY <2>1, <2>2
<1>2. ASSUME NEW n \in Nat, n \in S PROVE n + 1 \in S
  <2>1. PICK f \in [Nat -> D] : Recurses(H, f, n)
    BY <1>2
  <2> DEFINE g == [f EXCEPT ![n] = H[n][f]]
  <2>2. g \in [Nat -> D]
    BY DEF FromEarlier
  <2>3. g[n] = H[n][f] /\ \A m \in Nat : m # n => g[m] = f[m]
    OBVIOUS
  <2> HIDE DEF g
  <2>4. ASSUME NEW m \in Nat, m < n + 1 PROVE g[m] = H[m][g]
    <3>1. Earlier(f, g, m)
      BY <2>3, <2>4 DEF Earlier
    <3>2. H[m][f] = H[m][g]
      BY <2>2, <3>1 DEF FromEarlier
    <3>3. CASE m = n
      BY <2>3, <3>2, <3>3
    <3>4. CASE m # n
      <4>1. m < n /\ f[m] = H[m][f]
        BY <2>1, <2>4, <3>4 DEF Recurses
      <4>2. QED
        BY <2>3, <3>2, <3>4, <4>1
    <3>5. QED
      BY <3>3, <3>4
  <2>5. Recurses(H, g, n + 1)
    BY <2>4 DEF Recurses
  <2>6. QED
    BY <2>2, <2>5
<1> HIDE DEF S
<1>3. \A n \in Nat : n \in S
  BY <1>1, <1>2, SetInduction
<1>4. QED
  BY <1>3 DEF S

(* ... and so there is one for all numbers.                                *)
LEMMA Recursion ==
  ASSUME NEW D, NEW d \in D, NEW H, FromEarlier(H, D)
  PROVE  \E F \in [Nat -> D] : \A n \in Nat : F[n] = H[n][F]
<1> DEFINE part(n) == CHOOSE f : f \in [Nat -> D] /\ Recurses(H, f, n)
           F == [n \in Nat |-> part(n + 1)[n]]
<1>1. ASSUME NEW n \in Nat PROVE part(n) \in [Nat -> D] /\ Recurses(H, part(n), n)
  <2>1. \E f : f \in [Nat -> D] /\ Recurses(H, f, n)
    BY RecursionBegins
  <2>2. QED
    BY <2>1
<1> HIDE DEF part
<1>2. F \in [Nat -> D]
  BY <1>1
<1>3. ASSUME NEW n \in Nat PROVE F[n] = H[n][F]
  <2>1. part(n + 1) \in [Nat -> D] /\ Recurses(H, part(n + 1), n + 1)
    BY <1>1
  <2>2. ASSUME NEW m \in Nat, m < n PROVE F[m] = part(n + 1)[m]
    <3>1. part(m + 1) \in [Nat -> D] /\ Recurses(H, part(m + 1), m + 1) /\ F[m] = part(m + 1)[m]
      BY <1>1
    <3>2. Recurses(H, part(n + 1), m + 1)
      BY <2>1, <2>2 DEF Recurses
    <3>3. Earlier(part(m + 1), part(n + 1), m + 1)
      BY <2>1, <3>1, <3>2, RecursionAgrees
    <3>4. QED
      BY <3>1, <3>3 DEF Earlier
  <2>3. Earlier(F, part(n + 1), n)
    BY <2>2 DEF Earlier
  <2>4. H[n][F] = H[n][part(n + 1)]
    BY <1>2, <2>1, <2>3 DEF FromEarlier
  <2>5. QED
    BY <2>1, <2>4 DEF Recurses
<1>4. QED
  BY <1>2, <1>3

-----------------------------------------------------------------------------
(* Least and greatest numbers.                                             *)

(* A set of numbers up to a bound has a greatest one.                      *)
LEMMA GreatestExists ==
  ASSUME NEW n \in Nat, NEW S \in SUBSET (0 .. n), S # {}
  PROVE  Max(S) \in S /\ \A y \in S : Max(S) >= y
<1> DEFINE T == {k \in Nat : n - k \in S}
           R == OpToRel(<, Nat)
<1>1. T # {}
  <2>1. PICK x \in S : TRUE
    OBVIOUS
  <2>2. x \in 0 .. n
    BY <2>1
  <2>3. n - x \in Nat /\ n - (n - x) = x
    BY <2>2, SMT
  <2>4. QED
    BY <2>1, <2>3
<1>2. IsWellFoundedOn(R, Nat) /\ T \subseteq Nat
  BY NatLessThanWellFounded
<1>3. PICK k \in T : \A m \in T : <<m, k>> \notin R
  <2> HIDE DEF R, T
  <2>1. QED
    BY <1>1, <1>2, WFMin
<1>4. \A m \in T : ~(m < k)
  <2>1. ASSUME NEW m \in T, m < k PROVE <<m, k>> \in R
    BY <2>1 DEF R, OpToRel
  <2>2. QED
    BY <1>3, <2>1
<1>5. \A y \in S : n - k >= y
  <2>1. ASSUME NEW y \in S PROVE n - k >= y
    <3>1. y \in 0 .. n
      OBVIOUS
    <3>2. n - y \in Nat /\ n - (n - y) = y
      BY <3>1, SMT
    <3>3. n - y \in T
      BY <3>2
    <3>4. ~(n - y < k) /\ k \in Nat
      BY <1>3, <1>4, <3>3
    <3>5. QED
      BY <3>1, <3>4, SMT
  <2>2. QED
    BY <2>1
<1>6. \E x \in S : \A y \in S : x >= y
  BY <1>3, <1>5
<1>7. QED
  BY <1>6, Zenon DEF Max

(* A set of natural numbers has a least one.                               *)
LEMMA LeastExists ==
  ASSUME NEW S \in SUBSET Nat, S # {}
  PROVE  Min(S) \in S /\ \A y \in S : Min(S) <= y
<1> DEFINE R == OpToRel(<, Nat)
<1>1. IsWellFoundedOn(R, Nat)
  BY NatLessThanWellFounded
<1>2. PICK k \in S : \A m \in S : <<m, k>> \notin R
  <2> HIDE DEF R
  <2>1. QED
    BY <1>1, WFMin
<1>3. \A m \in S : ~(m < k)
  <2>1. ASSUME NEW m \in S, m < k PROVE <<m, k>> \in R
    BY <2>1 DEF R, OpToRel
  <2>2. QED
    BY <1>2, <2>1
<1>4. \A m \in S : k <= m
  BY <1>3
<1>5. QED
  BY <1>2, <1>4 DEF Min

(* Values that are computed one from the other, a number of times.         *)
LEMMA Chain ==
  ASSUME NEW D, NEW d \in D, NEW n \in Nat, NEW G \in [1 .. n -> [D -> D]]
  PROVE  \E F \in [0 .. n -> D] : F[0] = d /\ \A i \in 1 .. n : F[i] = G[i][F[i - 1]]
<1> DEFINE Is(F, m) == F \in [0 .. m -> D] /\ F[0] = d /\ \A i \in 1 .. m : F[i] = G[i][F[i - 1]]
           S == {m \in Nat : m <= n => \E F : Is(F, m)}
<1>1. 0 \in S
  <2>1. Is([i \in 0 .. 0 |-> d], 0)
    OBVIOUS
  <2>2. QED
    BY <2>1
<1>2. ASSUME NEW m \in Nat, m \in S PROVE m + 1 \in S
  <2> SUFFICES ASSUME m + 1 <= n PROVE \E F : Is(F, m + 1)
    OBVIOUS
  <2>1. PICK F : Is(F, m)
    BY <1>2
  <2> DEFINE x == G[m + 1][F[m]]
             H == [i \in 0 .. m + 1 |-> IF i = m + 1 THEN x ELSE F[i]]
  <2>2. m + 1 \in 1 .. n /\ m \in 0 .. m /\ F[m] \in D
    BY <2>1
  <2>3. x \in D
    BY <2>2
  <2> HIDE DEF x
  <2>4. /\ \A i \in 0 .. m : H[i] = F[i] /\ F[i] \in D /\ i \in 0 .. m + 1 /\ i # m + 1
        /\ H[m + 1] = x /\ m + 1 \in 0 .. m + 1 /\ 0 \in 0 .. m
    BY <2>1, <2>3
  <2>5. H \in [0 .. m + 1 -> D]
    BY <2>1, <2>3
  <2> HIDE DEF H
  <2>6. ASSUME NEW i \in 1 .. m + 1 PROVE H[i] = G[i][H[i - 1]]
    <3>1. i - 1 \in 0 .. m /\ (i = m + 1 \/ i \in 1 .. m) /\ (i = m + 1 => i - 1 = m)
          /\ (i \in 1 .. m => i \in 0 .. m)
      OBVIOUS
    <3>2. CASE i = m + 1
      BY <2>4, <3>1, <3>2 DEF x
    <3>3. CASE i \in 1 .. m
      BY <2>1, <2>4, <3>1, <3>3
    <3>4. QED
      BY <3>1, <3>2, <3>3
  <2>7. QED
    BY <2>1, <2>4, <2>5, <2>6
<1> HIDE DEF S
<1>3. n \in S
  BY <1>1, <1>2, SetInduction
<1>4. QED
  BY <1>3 DEF S

(* The least of a set of numbers is the one that is least. *)
LEMMA LeastIs ==
  ASSUME NEW S \in SUBSET Nat, NEW x \in S, \A y \in S : x <= y
  PROVE  Min(S) = x
<1> DEFINE y == Min(S)
<1>1. y \in S /\ y <= x
  BY LeastExists
<1> HIDE DEF y
<1>2. y = x
  BY <1>1
<1>3. QED
  BY <1>2 DEF y

(* The greatest, too. *)
LEMMA GreatestIs ==
  ASSUME NEW n \in Nat, NEW S \in SUBSET (0 .. n), NEW x \in S, \A y \in S : x >= y
  PROVE  Max(S) = x
<1> DEFINE y == Max(S)
<1>1. y \in S /\ y >= x
  BY GreatestExists
<1> HIDE DEF y
<1>2. y = x
  BY <1>1
<1>3. QED
  BY <1>2 DEF y

(* An element of one of the lists, in the concatenation of all: c gives    *)
(* their lengths.                                                          *)
LEMMA FlattenAt ==
  ASSUME NEW S, NEW ss \in Seq(Seq(S)), NEW c, \A j \in 1 .. Len(ss) : c[j] = Len(ss[j]),
         NEW i \in 1 .. Len(ss), NEW k \in 1 .. Len(ss[i])
  PROVE  /\ SumFunctionOnSet(c, 1 .. i - 1) \in Nat
         /\ FlattenSeq(ss)[SumFunctionOnSet(c, 1 .. i - 1) + k] = ss[i][k]
<1> DEFINE n == i - 1
           tt == UpTo(ss, n)
           g == [j \in 1 .. Len(tt) |-> Len(tt[j])]
           a == FlattenSeq(tt)
           b == FlattenSeq(Behind(ss, n + 1))
           here == ss[i]
<1>1. /\ n \in 0 .. Len(ss) /\ n < Len(ss) /\ n + 1 = i /\ Len(ss) \in Nat /\ n \in Nat
      /\ n + 1 \in 0 .. Len(ss) /\ here \in Seq(S) /\ here = ss[n + 1]
  OBVIOUS
<1> HIDE DEF n
<1>2. /\ FlattenSeq(ss) = a \o FlattenSeq(Behind(ss, n)) /\ a \in Seq(S)
      /\ FlattenSeq(Behind(ss, n)) = here \o b
  BY <1>1, FlattenParts
<1>3. b \in Seq(S)
  <2> DEFINE m == n + 1
  <2>1. m \in 0 .. Len(ss)
    BY <1>1
  <2> HIDE DEF m
  <2>2. FlattenSeq(Behind(ss, m)) \in Seq(S)
    BY <2>1, FlattenParts
  <2>3. QED
    BY <2>2 DEF m
<1>4. tt \in Seq(Seq(S)) /\ Len(tt) = n
  BY <1>1, CutList
<1>5. \A j \in 1 .. n : tt[j] = ss[j] /\ j \in 1 .. Len(ss)
  BY <1>1, SMT DEF UpTo
<1> HIDE DEF tt
<1>6. Len(a) = Total(g)
  BY <1>4, FlattenLen
<1>7. Len(g) = n
  BY <1>1, <1>4, SMT
<1>8. Agree(g, c, 1 .. n)
  <2>1. ASSUME NEW j \in 1 .. n PROVE g[j] = c[j]
    BY <1>4, <1>5
  <2> HIDE DEF g
  <2>2. QED
    BY <2>1 DEF Agree
<1>9. IsFiniteSet(1 .. n)
  BY <1>1, FS_Interval
<1> HIDE DEF g
<1>10. Len(a) = SumFunctionOnSet(c, 1 .. n)
  BY <1>6, <1>7, <1>8, <1>9, SumAgrees DEF Total
<1>11. Len(a) \in Nat /\ Len(b) \in Nat /\ Len(here) \in Nat
  BY <1>1, <1>2, <1>3, LenInNat
<1> DEFINE rest == here \o b
<1> HIDE DEF a, b, here
<1>12. /\ rest \in Seq(S) /\ Len(rest) = Len(here) + Len(b)
       /\ \A j \in 1 .. Len(here) + Len(b) :
            rest[j] = IF j <= Len(here) THEN here[j] ELSE b[j - Len(here)]
  <2>1. here \in Seq(S) /\ b \in Seq(S)
    BY <1>1, <1>3
  <2>2. QED
    BY <2>1, ConcatElements, Zenon
<1> HIDE DEF rest
<1>13. rest \in Seq(S)
  BY <1>12
<1>14. \A j \in 1 .. Len(a) + Len(rest) :
         (a \o rest)[j] = IF j <= Len(a) THEN a[j] ELSE rest[j - Len(a)]
  BY <1>2, <1>13, ConcatElements, Zenon
<1>15. k \in 1 .. Len(here)
  BY DEF here
<1> DEFINE q == Len(a) + k
<1>16. /\ q \in 1 .. Len(a) + Len(rest) /\ ~(q <= Len(a)) /\ q - Len(a) = k
       /\ k \in 1 .. Len(here) + Len(b) /\ k <= Len(here)
  BY <1>11, <1>12, <1>15, SMT
<1> HIDE DEF q
<1>17. (a \o rest)[q] = here[k]
  BY <1>12, <1>14, <1>16
<1>18. FlattenSeq(ss) = a \o rest
  BY <1>2 DEF rest
<1>19. QED
  BY <1>10, <1>11, <1>17, <1>18 DEF q, n, here
=============================================================================
