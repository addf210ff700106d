-------------------------- MODULE PieceTableProofs --------------------------
(***************************************************************************)
(* Proofs about the piece table, for every file length, every text and     *)
(* every bound. The argument: each operation makes a list whose pieces lie *)
(* within pieces of the old list and in the old order (Splitting, Removing)*)
(* or adds lines nobody else has (Inserting, Syncing).                     *)
(***************************************************************************)
EXTENDS PieceTable, ListLemmas, TLAPS

(* A list of pieces over n lines of the file and m typed lines.            *)
Clear(p, q) ==
  /\ IsOriginal(p) /\ IsOriginal(q) => End(p) <= q.start
  /\ IsMemory(p) /\ IsMemory(q) => End(p) <= q.start \/ End(q) <= p.start

Fits(p, n, m) == IF IsOriginal(p) THEN End(p) <= n ELSE End(p) <= m

Table(ps, n, m) ==
  /\ ps \in Seq(Pieces)
  /\ \A i \in 1 .. Len(ps) : Fits(ps[i], n, m)
  /\ \A i, j \in 1 .. Len(ps) : i < j => Clear(ps[i], ps[j])

Within(p, q) == p.kind = q.kind /\ q.start <= p.start /\ End(p) <= End(q)

-----------------------------------------------------------------------------
(* Operations on a table.                                                  *)

(* The fields of a piece are natural numbers.                              *)
LEMMA PieceFields ==
  ASSUME NEW p \in Pieces
  PROVE  p.start \in Nat /\ p.count \in Nat /\ End(p) \in Nat
BY SMT DEF Pieces, End

(* An element of a list of pieces is a piece.                              *)
LEMMA ElementOfList ==
  ASSUME NEW s \in Seq(Pieces), NEW i \in 1 .. Len(s)
  PROVE  s[i] \in Pieces
BY SMT

(* The two parts of a piece lie in the piece, one behind the other.        *)
LEMMA CutFields ==
  ASSUME NEW p \in Pieces, NEW off \in Nat, off < p.count
  PROVE  /\ Resized(p, off) \in Pieces
         /\ Rest(p, off) \in Pieces
         /\ Within(Resized(p, off), p)
         /\ Within(Rest(p, off), p)
         /\ Clear(Resized(p, off), Rest(p, off))
<1>1. Resized(p, off) = [kind |-> p.kind, start |-> p.start, count |-> off]
  BY SMT DEF Resized, Pieces
<1>2. Rest(p, off) = [kind |-> p.kind, start |-> p.start + off, count |-> p.count - off]
  BY SMT DEF Rest, Pieces
<1>3. Resized(p, off) \in Pieces /\ Rest(p, off) \in Pieces
  BY <1>1, <1>2, SMT DEF Pieces
<1>4. QED
  BY <1>1, <1>2, <1>3, SMT DEF Within, Clear, Pieces, IsOriginal, IsMemory, End

(* Parts of pieces that do not overlap do not overlap.                     *)
LEMMA ClearWithin ==
  ASSUME NEW p \in Pieces, NEW q \in Pieces, NEW p1 \in Pieces, NEW q1 \in Pieces,
         Within(p1, p), Within(q1, q), Clear(p, q)
  PROVE  Clear(p1, q1)
BY SMT DEF Within, Clear, Pieces, IsOriginal, IsMemory, End

(* A list whose pieces lie within those of a table, in the same order.     *)
LEMMA Shrinking ==
  ASSUME NEW n \in Nat, NEW m \in Nat, NEW s, Table(s, n, m), NEW t \in Seq(Pieces),
         NEW f \in [1 .. Len(t) -> 1 .. Len(s)],
         \A j \in 1 .. Len(t) : Within(t[j], s[f[j]]),
         \A j, k \in 1 .. Len(t) : j < k => f[j] < f[k] \/ Clear(t[j], t[k])
  PROVE  Table(t, n, m)
<1>1. ASSUME NEW j \in 1 .. Len(t)
      PROVE  t[j] \in Pieces /\ f[j] \in 1 .. Len(s) /\ s[f[j]] \in Pieces
  <2>1. s \in Seq(Pieces)
    BY DEF Table
  <2>2. QED
    BY <2>1, SMT
<1>2. ASSUME NEW j \in 1 .. Len(t) PROVE Fits(t[j], n, m)
  <2>1. Fits(s[f[j]], n, m) /\ Within(t[j], s[f[j]])
    BY <1>1 DEF Table
  <2>2. QED
    BY <1>1, <2>1, SMT DEF Within, Fits, Pieces, IsOriginal, End
<1>3. ASSUME NEW j \in 1 .. Len(t), NEW k \in 1 .. Len(t), j < k PROVE Clear(t[j], t[k])
  <2>1. CASE f[j] < f[k]
    <3>1. Within(t[j], s[f[j]]) /\ Within(t[k], s[f[k]]) /\ Clear(s[f[j]], s[f[k]])
      BY <1>1, <2>1 DEF Table
    <3>2. QED
      BY <1>1, <3>1, ClearWithin
  <2>2. CASE Clear(t[j], t[k])
    BY <2>2
  <2>3. QED
    BY <1>3, <2>1, <2>2
<1>4. QED
  BY <1>2, <1>3 DEF Table

(* split_piece_at leaves a table a table.                                  *)
LEMMA Splitting ==
  ASSUME NEW n \in Nat, NEW m \in Nat, NEW s, Table(s, n, m),
         NEW i \in Nat \ {0}, NEW off \in Nat
  PROVE  /\ Table(Split(s, i, off), n, m)
         /\ Len(s) <= Len(Split(s, i, off))
         /\ i <= Len(s) /\ 0 < off /\ off < s[i].count
              => Len(Split(s, i, off)) = Len(s) + 1
<1> DEFINE u == [s EXCEPT ![i] = Resized(@, off)]
           t == InsertAt(u, i + 1, Rest(s[i], off))
<1>0. s \in Seq(Pieces)
  BY DEF Table
<1>1. CASE off = 0 \/ i > Len(s)
  BY <1>0, <1>1, SMT DEF Split
<1>2. CASE i <= Len(s) /\ off >= s[i].count
  <2>1. s[i].count \in Nat
    BY <1>0, <1>2, ElementOfList, PieceFields, SMT
  <2>2. Split(s, i, off) = s
    BY <1>2 DEF Split
  <2>3. QED
    BY <1>0, <1>2, <2>1, <2>2, SMT
<1>3. CASE i <= Len(s) /\ 0 < off /\ off < s[i].count
  <2>1. s[i] \in Pieces /\ Resized(s[i], off) \in Pieces /\ Rest(s[i], off) \in Pieces
    <3>1. s[i] \in Pieces
      BY <1>0, <1>3, ElementOfList, SMT
    <3>2. QED
      BY <1>3, <3>1, CutFields
  <2>2. /\ Within(Resized(s[i], off), s[i]) /\ Within(Rest(s[i], off), s[i])
        /\ Clear(Resized(s[i], off), Rest(s[i], off))
    BY <1>3, <2>1, CutFields
  <2>3. /\ u \in Seq(Pieces) /\ Len(u) = Len(s)
        /\ \A j \in 1 .. Len(s) : u[j] = IF j = i THEN Resized(s[i], off) ELSE s[j]
    BY <1>0, <2>1, <1>3, SMT
  <2>4. /\ t \in Seq(Pieces) /\ Len(t) = Len(u) + 1
        /\ \A j \in 1 .. Len(u) + 1 :
             t[j] = IF j < i + 1 THEN u[j] ELSE IF j = i + 1 THEN Rest(s[i], off) ELSE u[j - 1]
    <3> HIDE DEF u
    <3>1. i + 1 \in 1 .. Len(u) + 1
      BY <1>3, <2>3, SMT
    <3>2. QED
      BY <2>1, <2>3, <3>1, InsertAtElements
  <2>5. Split(s, i, off) = t
    <3>1. ~(off = 0 \/ i > Len(s)) /\ ~(off >= s[i].count)
      BY <1>0, <1>3, <2>1, PieceFields, SMT
    <3>2. QED
      BY <3>1 DEF Split
  <2> HIDE DEF u, t
  <2> DEFINE f == [j \in 1 .. Len(t) |-> IF j <= i THEN j ELSE j - 1]
  <2>6. f \in [1 .. Len(t) -> 1 .. Len(s)]
    BY <1>3, <2>3, <2>4, SMT
  <2>7. ASSUME NEW j \in 1 .. Len(t)
        PROVE  t[j] = IF j = i THEN Resized(s[i], off)
                      ELSE IF j = i + 1 THEN Rest(s[i], off) ELSE s[f[j]]
    <3>1. CASE j < i + 1
      BY <1>3, <2>3, <2>4, <3>1, SMT
    <3>2. CASE j = i + 1
      BY <2>3, <2>4, <3>2, SMT
    <3>3. CASE j > i + 1
      <4>1. j - 1 \in 1 .. Len(s) /\ j - 1 # i /\ f[j] = j - 1
        BY <2>3, <2>4, <3>3, SMT
      <4>2. t[j] = u[j - 1]
        BY <2>3, <2>4, <3>3, SMT
      <4>3. QED
        BY <2>3, <3>3, <4>1, <4>2, SMT
    <3>4. QED
      BY <3>1, <3>2, <3>3, SMT
  <2>8. ASSUME NEW j \in 1 .. Len(t) PROVE Within(t[j], s[f[j]])
    <3>1. CASE j = i \/ j = i + 1
      BY <2>2, <2>7, <3>1, <1>3, SMT
    <3>2. CASE j # i /\ j # i + 1
      <4>1. t[j] = s[f[j]] /\ s[f[j]] \in Pieces
        BY <1>0, <2>6, <2>7, <3>2, SMT
      <4>2. QED
        BY <4>1, SMT DEF Within, Pieces, End
    <3>3. QED
      BY <3>1, <3>2
  <2>9. ASSUME NEW j \in 1 .. Len(t), NEW k \in 1 .. Len(t), j < k
        PROVE  f[j] < f[k] \/ Clear(t[j], t[k])
    <3>1. CASE j = i /\ k = i + 1
      BY <2>2, <2>7, <3>1, SMT
    <3>2. CASE ~(j = i /\ k = i + 1)
      BY <2>9, <3>2, SMT
    <3>3. QED
      BY <3>1, <3>2
  <2> HIDE DEF f
  <2>10. Table(t, n, m)
    BY <2>4, <2>6, <2>8, <2>9, Shrinking
  <2>11. QED
    BY <1>0, <1>3, <2>3, <2>4, <2>5, <2>10, SMT
<1>4. QED
  <2>1. i > Len(s) \/ i \in 1 .. Len(s)
    BY <1>0, SMT
  <2>2. i \in 1 .. Len(s) => s[i].count \in Nat
    BY <1>0, ElementOfList, PieceFields
  <2>3. QED
    BY <1>0, <1>1, <1>2, <1>3, <2>1, <2>2, SMT

(* A table without one of its pieces is a table.                           *)
LEMMA Removing ==
  ASSUME NEW n \in Nat, NEW m \in Nat, NEW s, Table(s, n, m), NEW i \in 1 .. Len(s)
  PROVE  Table(RemoveAt(s, i), n, m) /\ Len(RemoveAt(s, i)) = Len(s) - 1
<1> DEFINE t == RemoveAt(s, i)
           f == [j \in 1 .. Len(t) |-> IF j < i THEN j ELSE j + 1]
<1>0. s \in Seq(Pieces)
  BY DEF Table
<1>1. /\ t \in Seq(Pieces) /\ Len(t) = Len(s) - 1
      /\ \A j \in 1 .. Len(s) - 1 : t[j] = IF j < i THEN s[j] ELSE s[j + 1]
  BY <1>0, RemoveAtElements
<1> HIDE DEF t
<1>2. f \in [1 .. Len(t) -> 1 .. Len(s)]
  BY <1>0, <1>1, SMT
<1>3. ASSUME NEW j \in 1 .. Len(t) PROVE Within(t[j], s[f[j]])
  <2>1. t[j] = s[f[j]]
    BY <1>1, SMT
  <2>2. s[f[j]] \in Pieces
    BY <1>0, <1>2, SMT
  <2>3. QED
    BY <2>1, <2>2, SMT DEF Within, Pieces, End
<1>4. ASSUME NEW j \in 1 .. Len(t), NEW k \in 1 .. Len(t), j < k PROVE f[j] < f[k]
  BY <1>4, SMT
<1> HIDE DEF f
<1>5. Table(t, n, m)
  BY <1>1, <1>2, <1>3, <1>4, Shrinking
<1>6. QED
  BY <1>1, <1>5 DEF t

(* New lines go to the end of the buffer: no other piece reaches them.     *)
LEMMA Inserting ==
  ASSUME NEW n \in Nat, NEW m \in Nat, NEW s, Table(s, n, m),
         NEW i \in 1 .. Len(s) + 1, NEW k \in Nat
  PROVE  /\ Table(InsertAt(s, i, Memory(m, k)), n, m + k)
         /\ Len(InsertAt(s, i, Memory(m, k))) = Len(s) + 1
<1> DEFINE e == Memory(m, k)
           t == InsertAt(s, i, e)
<1>0. s \in Seq(Pieces)
  BY DEF Table
<1>1. e \in Pieces /\ IsMemory(e) /\ ~IsOriginal(e) /\ e.start = m /\ End(e) = m + k
  BY SMT DEF Memory, Pieces, IsMemory, IsOriginal, End
<1> HIDE DEF e
<1>2. /\ t \in Seq(Pieces) /\ Len(t) = Len(s) + 1
      /\ \A j \in 1 .. Len(s) + 1 :
           t[j] = IF j < i THEN s[j] ELSE IF j = i THEN e ELSE s[j - 1]
  <2>1. i \in 1 .. Len(s) + 1
    OBVIOUS
  <2> HIDE DEF t
  <2>2. t = InsertAt(s, i, e)
    BY DEF t
  <2>3. QED
    BY <1>0, <1>1, <2>1, <2>2, InsertAtElements
<1> HIDE DEF t
<1>3. ASSUME NEW p \in Pieces, Fits(p, n, m) PROVE Fits(p, n, m + k) /\ Clear(p, e) /\ Clear(e, p)
  BY <1>1, <1>3, SMT DEF Fits, Clear, Pieces, IsMemory, IsOriginal, End
<1>4. ASSUME NEW j \in 1 .. Len(t), j # i
      PROVE  \E l \in 1 .. Len(s) : /\ t[j] = s[l] /\ l = (IF j < i THEN j ELSE j - 1)
                                    /\ s[l] \in Pieces /\ Fits(s[l], n, m)
  <2> DEFINE l == IF j < i THEN j ELSE j - 1
  <2>1. l \in 1 .. Len(s)
    BY <1>0, <1>2, <1>4, SMT
  <2>2. t[j] = s[l]
    BY <1>2, <1>4, SMT
  <2>3. s[l] \in Pieces
    BY <1>0, <2>1, SMT
  <2>4. QED
    BY <2>1, <2>2, <2>3 DEF Table
<1>5. ASSUME NEW j \in 1 .. Len(t) PROVE Fits(t[j], n, m + k)
  <2>1. CASE j = i
    BY <1>1, <1>2, <2>1, SMT DEF Fits
  <2>2. CASE j # i
    BY <1>3, <1>4, <2>2
  <2>3. QED
    BY <2>1, <2>2
<1>6. ASSUME NEW j \in 1 .. Len(t), NEW h \in 1 .. Len(t), j < h PROVE Clear(t[j], t[h])
  <2>1. CASE j = i
    <3>1. h # i /\ t[j] = e
      BY <1>2, <1>6, <2>1, SMT
    <3>2. QED
      BY <1>3, <1>4, <3>1
  <2>2. CASE h = i
    <3>1. j # i /\ t[h] = e
      BY <1>2, <1>6, <2>2, SMT
    <3>2. QED
      BY <1>3, <1>4, <3>1
  <2>3. CASE j # i /\ h # i
    <3>1. PICK a \in 1 .. Len(s) : t[j] = s[a] /\ a = (IF j < i THEN j ELSE j - 1)
      BY <1>4, <2>3
    <3>2. PICK b \in 1 .. Len(s) : t[h] = s[b] /\ b = (IF h < i THEN h ELSE h - 1)
      BY <1>4, <2>3
    <3>3. a < b
      BY <1>6, <2>3, <3>1, <3>2, SMT
    <3>4. QED
      BY <3>1, <3>2, <3>3 DEF Table
  <2>4. QED
    BY <2>1, <2>2, <2>3
<1>7. QED
  BY <1>2, <1>5, <1>6 DEF Table, t, e

(* Lines that arrive are behind every line of the file in the table.       *)
LEMMA Syncing ==
  ASSUME NEW m \in Nat, indexed_lines_added \in Nat, original_total_lines \in Nat,
         indexed_lines_added <= original_total_lines,
         Table(pieces, indexed_lines_added, m)
  PROVE  /\ Table(SyncedPieces, original_total_lines, m)
         /\ Len(pieces) <= Len(SyncedPieces)
<1> DEFINE n == indexed_lines_added
           diff == original_total_lines - indexed_lines_added
           last == Len(pieces)
           t == SyncedPieces
<1>0. pieces \in Seq(Pieces) /\ last \in Nat
  <2>1. pieces \in Seq(Pieces)
    BY DEF Table
  <2>2. QED
    BY <2>1, SMT
<1>1. ASSUME NEW i \in 1 .. last
      PROVE  pieces[i] \in Pieces /\ Fits(pieces[i], n, m) /\ Fits(pieces[i], original_total_lines, m)
  <2>1. pieces[i] \in Pieces /\ Fits(pieces[i], n, m)
    BY <1>0, ElementOfList DEF Table
  <2>2. QED
    BY <2>1, PieceFields, SMT DEF Fits
<1>2. CASE diff = 0
  <2>1. SyncedPieces = pieces /\ original_total_lines = indexed_lines_added
    BY <1>2, SMT DEF SyncedPieces
  <2>2. QED
    BY <1>0, <2>1, SMT
<1>3. CASE diff # 0 /\ CanExtend(pieces)
  <2> DEFINE e == Resized(pieces[last], pieces[last].count + diff)
  <2>1. /\ last \in 1 .. last /\ pieces[last] \in Pieces
        /\ IsOriginal(pieces[last]) /\ End(pieces[last]) = n
    BY <1>0, <1>1, <1>3, SMT DEF CanExtend, Last
  <2>2. e = [kind |-> pieces[last].kind, start |-> pieces[last].start,
             count |-> pieces[last].count + diff]
    BY <2>1, SMT DEF Resized, Pieces
  <2>3. /\ e \in Pieces /\ IsOriginal(e) /\ ~IsMemory(e)
        /\ e.start = pieces[last].start /\ End(e) = original_total_lines
    BY <2>1, <2>2, SMT DEF Pieces, IsOriginal, IsMemory, End
  <2>4. t = [pieces EXCEPT ![last] = e]
    BY <1>3 DEF SyncedPieces
  <2> HIDE DEF e
  <2>5. /\ t \in Seq(Pieces) /\ Len(t) = last
        /\ \A i \in 1 .. last : t[i] = IF i = last THEN e ELSE pieces[i]
    BY <1>0, <2>1, <2>3, <2>4, SMT
  <2>6. ASSUME NEW i \in 1 .. Len(t) PROVE Fits(t[i], original_total_lines, m)
    <3>1. CASE i = last
      BY <2>3, <2>5, <3>1, SMT DEF Fits
    <3>2. CASE i # last
      BY <1>1, <2>5, <3>2
    <3>3. QED
      BY <3>1, <3>2
  <2>7. ASSUME NEW i \in 1 .. Len(t), NEW j \in 1 .. Len(t), i < j PROVE Clear(t[i], t[j])
    <3>1. t[i] = pieces[i] /\ Clear(pieces[i], pieces[j])
      BY <1>0, <2>5, <2>7, SMT DEF Table
    <3>2. CASE j = last
      BY <2>1, <2>3, <2>5, <3>1, <3>2 DEF Clear
    <3>3. CASE j # last
      BY <2>5, <3>1, <3>3
    <3>4. QED
      BY <3>2, <3>3
  <2>8. QED
    BY <1>0, <2>5, <2>6, <2>7, SMT DEF Table
<1>4. CASE diff # 0 /\ ~CanExtend(pieces)
  <2> DEFINE e == Original(n, diff)
  <2>1. /\ e \in Pieces /\ IsOriginal(e) /\ ~IsMemory(e)
        /\ e.start = n /\ End(e) = original_total_lines
    BY SMT DEF Pieces, Original, IsOriginal, IsMemory, End
  <2>2. t = Append(pieces, e)
    BY <1>4 DEF SyncedPieces
  <2> HIDE DEF e
  <2>3. /\ t \in Seq(Pieces) /\ Len(t) = last + 1
        /\ \A i \in 1 .. last + 1 : t[i] = IF i = last + 1 THEN e ELSE pieces[i]
    BY <1>0, <2>1, <2>2, SMT
  <2>4. ASSUME NEW i \in 1 .. Len(t) PROVE Fits(t[i], original_total_lines, m)
    <3>1. CASE i = last + 1
      BY <2>1, <2>3, <3>1, SMT DEF Fits
    <3>2. CASE i # last + 1
      <4>1. i \in 1 .. last
        BY <1>0, <2>3, <3>2, SMT
      <4>2. QED
        BY <1>1, <2>3, <3>2, <4>1
    <3>3. QED
      BY <3>1, <3>2
  <2>5. ASSUME NEW i \in 1 .. Len(t), NEW j \in 1 .. Len(t), i < j PROVE Clear(t[i], t[j])
    <3>1. i \in 1 .. last /\ t[i] = pieces[i]
      BY <1>0, <2>3, <2>5, SMT
    <3>2. CASE j = last + 1
      BY <1>1, <2>1, <2>3, <3>1, <3>2, SMT DEF Clear, Fits
    <3>3. CASE j # last + 1
      <4>1. j \in 1 .. last /\ t[j] = pieces[j]
        BY <1>0, <2>3, <3>3, SMT
      <4>2. QED
        BY <2>5, <3>1, <4>1 DEF Table
    <3>4. QED
      BY <3>2, <3>3
  <2>6. QED
    BY <1>0, <2>3, <2>4, <2>5, SMT DEF Table
<1>5. QED
  BY <1>2, <1>3, <1>4

-----------------------------------------------------------------------------
(* The inductive invariant. An edit that splits has a piece to split, no   *)
(* deletion is left over from an earlier edit, and the second buffer is in *)
(* use only while the first one is compacted.                              *)

Position == pc \in {"sync_split", "split"} => piece_idx <= Len(pieces)
NothingToDelete == pc \in {"idle", "sync", "locate"} => remaining_delete = 0
NotCompacting == pc # "compact" => cursor = 1 /\ new_memory_buffer = << >>

IInv ==
  /\ TypeOK
  /\ PiecesInBounds
  /\ OriginalsInOrder
  /\ MemoryNotShared
  /\ Position
  /\ NothingToDelete
  /\ NotCompacting

(* As long as no piece is redirected, the three invariants say that the    *)
(* list is a table.                                                        *)
LEMMA InvariantsAsTable ==
  ASSUME pieces \in Seq(Pieces), PiecesInBounds, OriginalsInOrder, MemoryNotShared,
         pc # "compact" \/ cursor = 1
  PROVE  Table(pieces, indexed_lines_added, Len(memory_buffer))
<1>1. ASSUME NEW i \in 1 .. Len(pieces) PROVE ~Compacted(i) /\ Buffer(i) = memory_buffer
  BY SMT DEF Compacted, Buffer
<1>2. ASSUME NEW i \in 1 .. Len(pieces)
      PROVE  Fits(pieces[i], indexed_lines_added, Len(memory_buffer))
  BY <1>1 DEF PiecesInBounds, Fits
<1>3. ASSUME NEW i \in 1 .. Len(pieces), NEW j \in 1 .. Len(pieces), i < j
      PROVE  Clear(pieces[i], pieces[j])
  BY <1>1, <1>3 DEF OriginalsInOrder, MemoryNotShared, Clear
<1>4. QED
  BY <1>2, <1>3 DEF Table

(* And back: a table has the three invariants.                             *)
LEMMA TableAsInvariants ==
  ASSUME Table(pieces', indexed_lines_added', Len(memory_buffer')),
         pc' # "compact" \/ cursor' = 1
  PROVE  PiecesInBounds' /\ OriginalsInOrder' /\ MemoryNotShared'
<1>1. ASSUME NEW i \in 1 .. Len(pieces') PROVE ~Compacted(i)' /\ Buffer(i)' = memory_buffer'
  BY SMT DEF Compacted, Buffer
<1>2. PiecesInBounds'
  BY <1>1 DEF PiecesInBounds, Fits, Table
<1>3. OriginalsInOrder'
  BY DEF OriginalsInOrder, Clear, Table
<1>4. MemoryNotShared'
  BY DEF MemoryNotShared, Clear, Table
<1>5. QED
  BY <1>2, <1>3, <1>4

(* sync_pieces keeps the invariants, at any moment of an edit.             *)
LEMMA SyncInvariants ==
  ASSUME TypeOK, PiecesInBounds, OriginalsInOrder, MemoryNotShared,
         pc # "compact", pc' # "compact", sync_pieces,
         UNCHANGED <<original_total_lines, memory_buffer>>
  PROVE  /\ pieces' \in Seq(Pieces) /\ Len(pieces) <= Len(pieces')
         /\ indexed_lines_added' \in 0 .. original_total_lines'
         /\ PiecesInBounds' /\ OriginalsInOrder' /\ MemoryNotShared'
<1>1. Table(pieces, indexed_lines_added, Len(memory_buffer))
  BY InvariantsAsTable DEF TypeOK
<1>2. /\ Len(memory_buffer) \in Nat /\ indexed_lines_added \in Nat
      /\ original_total_lines \in Nat /\ indexed_lines_added <= original_total_lines
  BY SMT DEF TypeOK
<1>3. /\ Table(SyncedPieces, original_total_lines, Len(memory_buffer))
      /\ Len(pieces) <= Len(SyncedPieces)
  BY <1>1, <1>2, Syncing
<1>4. /\ Table(pieces', indexed_lines_added', Len(memory_buffer'))
      /\ Len(pieces) <= Len(pieces')
      /\ indexed_lines_added' = original_total_lines'
  BY <1>3 DEF sync_pieces
<1>5. PiecesInBounds' /\ OriginalsInOrder' /\ MemoryNotShared'
  BY <1>4, TableAsInvariants
<1>6. QED
  BY <1>2, <1>4, <1>5, SMT DEF Table

(* The lines of an edit are texts.                                         *)
LEMMA TypedLines ==
  ASSUME NEW n \in 1 .. MaxInsert, NEW parts \in [1 .. n -> Text]
  PROVE  TextLines(parts) \in Seq(Text)
<1>1. parts \in Seq(Text) /\ Len(parts) = n /\ n \in Nat \ {0}
  BY ConstantsAssumption, SMT
<1>2. SubSeq(parts, 1, Len(parts) - 1) \in Seq(Text)
  BY <1>1, SMT
<1>3. QED
  BY <1>1, <1>2 DEF TextLines, Front

(* An empty table is a table.                                              *)
LEMMA InitEstablishes == Init => IInv
<1> SUFFICES ASSUME Init PROVE IInv
  OBVIOUS
<1> DEFINE p == Original(0, original_total_lines)
<1>1. original_total_lines \in 0 .. FileLines /\ original_total_lines \in Nat
  BY ConstantsAssumption, SMT DEF Init
<1>2. p \in Pieces /\ IsOriginal(p) /\ End(p) = indexed_lines_added
  BY <1>1, SMT DEF Init, Original, Pieces, IsOriginal, End
<1>3. pieces = <<p>> /\ pc = "idle" /\ cursor = 1 /\ new_memory_buffer = << >>
  BY DEF Init
<1> HIDE DEF p
<1>4. pieces \in Seq(Pieces) /\ Len(pieces) = 1 /\ pieces[1] = p
  BY <1>2, <1>3, SMT
<1>5. TypeOK
  BY <1>1, <1>3, <1>4, SMT DEF Init, TypeOK, PCs, NoEdit
<1>6. PiecesInBounds /\ OriginalsInOrder /\ MemoryNotShared
  BY <1>1, <1>2, <1>4, SMT DEF Init, PiecesInBounds, OriginalsInOrder, MemoryNotShared
<1>7. QED
  BY <1>3, <1>5, <1>6, SMT DEF Init, IInv, Position, NothingToDelete, NotCompacting

-----------------------------------------------------------------------------
(* Each action keeps the invariant.                                        *)

(* The indexer only makes the number of published lines larger.            *)
LEMMA IndexGrowsKeeps == IInv /\ IndexGrows => IInv'
<1> SUFFICES ASSUME IInv, IndexGrows PROVE IInv'
  OBVIOUS
<1> USE DEF IInv, IndexGrows, table, memory, locals, compaction
<1>1. TypeOK'
  BY ConstantsAssumption, SMT DEF TypeOK
<1>2. PiecesInBounds' /\ OriginalsInOrder' /\ MemoryNotShared'
  BY DEF PiecesInBounds, OriginalsInOrder, MemoryNotShared, Compacted, Buffer
<1>3. QED
  BY <1>1, <1>2 DEF Position, NothingToDelete, NotCompacting

(* Lines arrive in a read, before an edit, or before its split.            *)
LEMMA SyncsKeep == IInv /\ (Read \/ EditSync \/ EditSyncSplit) => IInv'
<1> SUFFICES ASSUME IInv, Read \/ EditSync \/ EditSyncSplit PROVE IInv'
  OBVIOUS
<1> USE DEF IInv, Read, EditSync, EditSyncSplit, table, memory, locals, compaction
<1>1. /\ pc # "compact" /\ pc' # "compact" /\ sync_pieces
      /\ UNCHANGED <<original_total_lines, memory, edit, locals, compaction>>
  BY SMT
<1>2. /\ pieces' \in Seq(Pieces) /\ Len(pieces) <= Len(pieces')
      /\ indexed_lines_added' \in 0 .. original_total_lines'
      /\ PiecesInBounds' /\ OriginalsInOrder' /\ MemoryNotShared'
  BY <1>1, SyncInvariants
<1>3. TypeOK'
  <2>1. piece_idx' \in 1 .. Len(pieces') + 1 /\ cursor' \in 1 .. Len(pieces') + 1
    BY <1>1, <1>2, SMT DEF TypeOK
  <2>2. pc' \in PCs
    BY SMT DEF PCs
  <2>3. QED
    BY <1>1, <1>2, <2>1, <2>2 DEF TypeOK
<1>4. Position'
  BY <1>1, <1>2, SMT DEF Position, TypeOK
<1>5. NothingToDelete' /\ NotCompacting'
  BY <1>1, SMT DEF NothingToDelete, NotCompacting
<1>6. QED
  BY <1>2, <1>3, <1>4, <1>5

(* A new edit has deleted nothing yet.                                     *)
LEMMA EditCallKeeps ==
  ASSUME IInv, NEW start \in 0 .. FileLines + MaxMemory, NEW deleted \in 0 .. MaxDelete,
         NEW parts \in UNION {[1 .. n -> Text] : n \in 1 .. MaxInsert},
         EditCall(start, deleted, parts)
  PROVE  IInv'
<1> USE DEF IInv, EditCall, table, memory, locals, compaction
<1>1. TextLines(parts) \in Seq(Text)
  BY TypedLines
<1>2. start \in Nat /\ deleted \in Nat
  BY ConstantsAssumption, SMT
<1>3. edit' \in [start : Nat, deleted : Nat, lines : Seq(Text)]
  BY <1>1, <1>2, SMT
<1>4. edit'.deleted = deleted
  BY SMT
<1>5. TypeOK'
  BY <1>2, <1>3, <1>4, SMT DEF TypeOK, PCs, NothingToDelete
<1>6. PiecesInBounds' /\ OriginalsInOrder' /\ MemoryNotShared'
  BY DEF PiecesInBounds, OriginalsInOrder, MemoryNotShared, Compacted, Buffer
<1>7. QED
  BY <1>5, <1>6, SMT DEF Position, NothingToDelete, NotCompacting

(* find_piece_idx finds a piece of the table, or there is none.            *)
LEMMA EditLocateKeeps == IInv /\ EditLocate => IInv'
<1> SUFFICES ASSUME IInv, EditLocate PROVE IInv'
  OBVIOUS
<1> USE DEF IInv, EditLocate, table, memory, locals, compaction
<1>1. \/ \E i \in 1 .. Len(pieces) : \E off \in 0 .. pieces[i].count :
           piece_idx' = i /\ offset' = off /\ pc' = "sync_split"
      \/ piece_idx' = Len(pieces) + 1 /\ offset' = 0 /\ pc' = "delete"
  OBVIOUS
<1>2. /\ piece_idx' \in 1 .. Len(pieces) + 1 /\ offset' \in Nat
      /\ pc' \in {"sync_split", "delete"}
      /\ pc' = "sync_split" => piece_idx' <= Len(pieces)
  BY <1>1, ElementOfList, PieceFields, SMT DEF TypeOK
<1>3. remaining_delete' \in 0 .. edit'.deleted
  BY SMT DEF TypeOK
<1>4. TypeOK'
  BY <1>2, <1>3, SMT DEF TypeOK, PCs
<1>5. PiecesInBounds' /\ OriginalsInOrder' /\ MemoryNotShared'
  BY <1>2 DEF PiecesInBounds, OriginalsInOrder, MemoryNotShared, Compacted, Buffer
<1>6. QED
  BY <1>2, <1>4, <1>5, SMT DEF Position, NothingToDelete, NotCompacting

(* The place found before lines arrived is still a piece to split.         *)
LEMMA EditSplitKeeps == IInv /\ EditSplit => IInv'
<1> SUFFICES ASSUME IInv, EditSplit PROVE IInv'
  OBVIOUS
<1> USE DEF IInv, EditSplit, memory, compaction
<1>1. Table(pieces, indexed_lines_added, Len(memory_buffer))
  BY InvariantsAsTable DEF TypeOK
<1>2. /\ indexed_lines_added \in Nat /\ Len(memory_buffer) \in Nat /\ offset \in Nat
      /\ piece_idx \in Nat \ {0} /\ piece_idx <= Len(pieces) /\ Len(pieces) \in Nat
  BY SMT DEF TypeOK, Position
<1>3. Table(pieces', indexed_lines_added', Len(memory_buffer')) /\ Len(pieces) <= Len(pieces')
  BY <1>1, <1>2, Splitting
<1>4. PiecesInBounds' /\ OriginalsInOrder' /\ MemoryNotShared'
  BY <1>3, TableAsInvariants
<1>5. Len(pieces') \in Nat
  BY <1>3, SMT DEF Table
<1>6. piece_idx' \in 1 .. Len(pieces') + 1 /\ cursor' \in 1 .. Len(pieces') + 1
  BY <1>2, <1>3, <1>5, SMT DEF TypeOK
<1>7. TypeOK'
  BY <1>3, <1>6, SMT DEF TypeOK, PCs, Table
<1>8. QED
  BY <1>4, <1>7, SMT DEF Position, NothingToDelete, NotCompacting

(* A piece that is deleted as a whole is not larger than what is left.     *)
LEMMA DeleteWholeKeeps == IInv /\ DeleteWhole => IInv'
<1> SUFFICES ASSUME IInv, DeleteWhole PROVE IInv'
  OBVIOUS
<1> USE DEF IInv, DeleteWhole, Deleting, compaction
<1>1. Table(pieces, indexed_lines_added, Len(memory_buffer))
  BY InvariantsAsTable DEF TypeOK
<1>2. /\ indexed_lines_added \in Nat /\ Len(memory_buffer) \in Nat
      /\ piece_idx \in 1 .. Len(pieces) /\ Len(pieces) \in Nat
  BY SMT DEF TypeOK
<1>3. /\ Table(pieces', indexed_lines_added', Len(memory_buffer'))
      /\ Len(pieces') = Len(pieces) - 1
  BY <1>1, <1>2, Removing
<1>4. PiecesInBounds' /\ OriginalsInOrder' /\ MemoryNotShared'
  BY <1>3, TableAsInvariants
<1>5. pieces[piece_idx].count \in Nat
  BY <1>2, ElementOfList, PieceFields DEF TypeOK
<1>6. remaining_delete' \in 0 .. edit'.deleted /\ wasted_memory_lines' \in Nat
  BY <1>5, SMT DEF TypeOK, WhollyDeleted, Wasted
<1>7. piece_idx' \in 1 .. Len(pieces') + 1 /\ cursor' \in 1 .. Len(pieces') + 1
  BY <1>2, <1>3, SMT DEF TypeOK, NotCompacting
<1>8. TypeOK'
  BY <1>3, <1>6, <1>7, SMT DEF TypeOK, PCs, Table
<1>9. QED
  BY <1>4, <1>8, SMT DEF Position, NothingToDelete, NotCompacting

(* A piece that loses its front keeps its end.                             *)
LEMMA DeletePartKeeps == IInv /\ DeletePart => IInv'
<1> SUFFICES ASSUME IInv, DeletePart PROVE IInv'
  OBVIOUS
<1> USE DEF IInv, DeletePart, Deleting, compaction
<1> DEFINE s == Split(SyncedPieces, piece_idx, remaining_delete)
<1>1. Table(pieces, indexed_lines_added, Len(memory_buffer))
  BY InvariantsAsTable DEF TypeOK
<1>2. /\ indexed_lines_added \in Nat /\ original_total_lines \in Nat
      /\ indexed_lines_added <= original_total_lines
      /\ Len(memory_buffer) \in Nat /\ remaining_delete \in Nat
      /\ piece_idx \in 1 .. Len(pieces) /\ piece_idx \in Nat \ {0} /\ Len(pieces) \in Nat
  BY SMT DEF TypeOK
<1>3. /\ Table(SyncedPieces, original_total_lines, Len(memory_buffer))
      /\ Len(pieces) <= Len(SyncedPieces)
  BY <1>1, <1>2, Syncing
<1>4. /\ Table(s, original_total_lines, Len(memory_buffer))
      /\ Len(SyncedPieces) <= Len(s)
  BY <1>2, <1>3, Splitting
<1> HIDE DEF s
<1>5. Len(s) \in Nat /\ Len(SyncedPieces) \in Nat
  BY <1>3, <1>4, SMT DEF Table
<1>6. piece_idx \in 1 .. Len(s)
  BY <1>2, <1>3, <1>4, <1>5, SMT
<1>7. pieces' = RemoveAt(s, piece_idx)
  BY DEF s
<1>8. /\ Table(pieces', indexed_lines_added', Len(memory_buffer'))
      /\ Len(pieces') = Len(s) - 1
  BY <1>2, <1>4, <1>6, <1>7, Removing
<1>9. PiecesInBounds' /\ OriginalsInOrder' /\ MemoryNotShared'
  BY <1>8, TableAsInvariants
<1>10. piece_idx' \in 1 .. Len(pieces') + 1 /\ cursor' \in 1 .. Len(pieces') + 1
  BY <1>5, <1>6, <1>8, SMT DEF TypeOK, NotCompacting
<1>11. wasted_memory_lines' \in Nat /\ remaining_delete' \in 0 .. edit'.deleted
  BY <1>2, SMT DEF TypeOK, Wasted
<1>12. TypeOK'
  BY <1>2, <1>8, <1>10, <1>11, SMT DEF TypeOK, PCs, Table
<1>13. QED
  BY <1>9, <1>12, SMT DEF Position, NothingToDelete, NotCompacting

(* The end of the deletion moves nothing.                                  *)
LEMMA DeleteDoneKeeps == IInv /\ DeleteDone => IInv'
<1> SUFFICES ASSUME IInv, DeleteDone PROVE IInv'
  OBVIOUS
<1> USE DEF IInv, DeleteDone, table, memory, locals, compaction
<1>1. TypeOK'
  BY SMT DEF TypeOK, PCs
<1>2. PiecesInBounds' /\ OriginalsInOrder' /\ MemoryNotShared'
  BY DEF PiecesInBounds, OriginalsInOrder, MemoryNotShared, Compacted, Buffer
<1>3. QED
  BY <1>1, <1>2, SMT DEF Position, NothingToDelete, NotCompacting

(* The typed lines become a piece of their own.                            *)
LEMMA EditInsertKeeps == IInv /\ EditInsert => IInv'
<1> SUFFICES ASSUME IInv, EditInsert PROVE IInv'
  OBVIOUS
<1> USE DEF IInv, EditInsert, compaction
<1>1. Table(pieces, indexed_lines_added, Len(memory_buffer))
  BY InvariantsAsTable DEF TypeOK
<1>2. /\ indexed_lines_added \in Nat /\ Len(memory_buffer) \in Nat /\ Len(edit.lines) \in Nat
      /\ piece_idx \in 1 .. Len(pieces) + 1 /\ Len(pieces) \in Nat
      /\ edit.lines \in Seq(Text) /\ cursor = 1
  BY SMT DEF TypeOK, NotCompacting
<1>3. /\ Table(pieces', indexed_lines_added', Len(memory_buffer'))
      /\ Len(pieces) <= Len(pieces') /\ memory_buffer' \in Seq(Text)
  <2>1. CASE edit.lines = << >>
    BY <1>1, <1>2, <2>1, SMT DEF TypeOK
  <2>2. CASE edit.lines # << >>
    <3>1. memory_buffer' \in Seq(Text) /\ Len(memory_buffer') = Len(memory_buffer) + Len(edit.lines)
      <4>1. memory_buffer' = memory_buffer \o edit.lines
        BY <2>2
      <4>2. memory_buffer \in Seq(Text) /\ edit.lines \in Seq(Text)
        BY <1>2 DEF TypeOK
      <4>3. QED
        BY <4>1, <4>2, ConcatElements
    <3>2. /\ Table(pieces', indexed_lines_added, Len(memory_buffer) + Len(edit.lines))
          /\ Len(pieces') = Len(pieces) + 1
      <4> DEFINE m == Len(memory_buffer)
                 k == Len(edit.lines)
      <4>1. pieces' = InsertAt(pieces, piece_idx, Memory(m, k))
        BY <2>2
      <4>2. m \in Nat /\ k \in Nat /\ Table(pieces, indexed_lines_added, m)
        BY <1>1, <1>2
      <4> HIDE DEF m, k
      <4>3. /\ Table(InsertAt(pieces, piece_idx, Memory(m, k)), indexed_lines_added, m + k)
            /\ Len(InsertAt(pieces, piece_idx, Memory(m, k))) = Len(pieces) + 1
        <5>1. piece_idx \in 1 .. Len(pieces) + 1 /\ indexed_lines_added \in Nat
          BY <1>2
        <5> HIDE DEF EditInsert, IInv, compaction
        <5>2. QED
          BY <4>2, <5>1, Inserting
      <4>4. QED
        BY <4>1, <4>3 DEF m, k
    <3>3. QED
      BY <1>2, <3>1, <3>2, SMT
  <2>3. QED
    BY <2>1, <2>2
<1>4. PiecesInBounds' /\ OriginalsInOrder' /\ MemoryNotShared'
  BY <1>2, <1>3, TableAsInvariants
<1>5. pieces' \in Seq(Pieces) /\ Len(pieces') \in Nat
  BY <1>3, SMT DEF Table
<1>6. /\ pc' = "compact" /\ UNCHANGED <<edit, locals>>
      \/ Return
  BY SMT
<1>7. /\ pc' \in {"idle", "compact"} /\ piece_idx' \in 1 .. Len(pieces') + 1
      /\ edit' \in [start : Nat, deleted : Nat, lines : Seq(Text)]
      /\ offset' \in Nat /\ remaining_delete' \in 0 .. edit'.deleted
      /\ pc' = "idle" => remaining_delete' = 0
  <2>1. CASE pc' = "compact" /\ UNCHANGED <<edit, locals>>
    BY <1>2, <1>3, <1>5, <2>1, SMT DEF TypeOK, locals
  <2>2. CASE Return
    <3>1. << >> \in Seq(Text)
      BY SMT
    <3>2. edit' \in [start : Nat, deleted : Nat, lines : Seq(Text)] /\ edit'.deleted = 0
      BY <2>2, <3>1, SMT DEF Return, NoEdit
    <3>3. QED
      BY <1>5, <2>2, <3>2, SMT DEF Return
  <2>3. QED
    BY <1>6, <2>1, <2>2
<1>8. TypeOK'
  BY <1>2, <1>3, <1>5, <1>7, SMT DEF TypeOK, PCs
<1>9. QED
  BY <1>4, <1>7, <1>8, SMT DEF Position, NothingToDelete, NotCompacting

(* The pieces before cursor lie in the new buffer, the others in the old   *)
(* one; the piece at cursor moves behind all of the former.                *)
LEMMA CompactPieceKeeps == IInv /\ CompactPiece => IInv'
<1> SUFFICES ASSUME IInv, CompactPiece PROVE IInv'
  OBVIOUS
<1> USE DEF IInv
<1> DEFINE p == pieces[cursor]
<1>1. /\ pc = "compact" /\ pc' = "compact" /\ cursor \in 1 .. Len(pieces)
      /\ cursor' = cursor + 1 /\ Len(pieces) \in Nat /\ Len(new_memory_buffer) \in Nat
      /\ UNCHANGED <<original_total_lines, indexed_lines_added, memory, pc, edit, locals>>
  BY SMT DEF CompactPiece, TypeOK
<1>2. /\ pieces \in Seq(Pieces) /\ p \in Pieces
      /\ \A i \in 1 .. Len(pieces) : pieces[i] \in Pieces
  BY <1>1, ElementOfList DEF TypeOK
<1>3. ASSUME NEW i \in 1 .. Len(pieces)
      PROVE  /\ Compacted(i) <=> i < cursor
             /\ Compacted(i)' <=> i < cursor + 1
             /\ Buffer(i) = IF i < cursor THEN new_memory_buffer ELSE memory_buffer
             /\ Buffer(i)' = IF i < cursor + 1 THEN new_memory_buffer' ELSE memory_buffer
  BY <1>1, SMT DEF Compacted, Buffer, memory
<1>4. CASE ~IsMemory(p)
  <2>1. UNCHANGED <<new_memory_buffer, pieces>>
    BY <1>4 DEF CompactPiece
  <2>2. IsOriginal(p)
    BY <1>2, <1>4, SMT DEF Pieces, IsMemory, IsOriginal
  <2>3. TypeOK'
    BY <1>1, <2>1, SMT DEF TypeOK, PCs, memory, locals
  <2>4. PiecesInBounds'
    BY <1>1, <1>3, <2>1, <2>2, SMT DEF PiecesInBounds
  <2>5. OriginalsInOrder'
    BY <2>1 DEF OriginalsInOrder
  <2>6. MemoryNotShared'
    <3>1. SUFFICES ASSUME NEW i \in 1 .. Len(pieces), NEW j \in 1 .. Len(pieces), i < j,
                          IsMemory(pieces[i]), IsMemory(pieces[j]),
                          i < cursor + 1 <=> j < cursor + 1
                   PROVE  End(pieces[i]) <= pieces[j].start \/ End(pieces[j]) <= pieces[i].start
      BY <1>3, <2>1 DEF MemoryNotShared
    <3>2. i # cursor /\ j # cursor
      BY <1>4, <3>1
    <3>3. i < cursor <=> j < cursor
      BY <1>1, <3>1, <3>2, SMT
    <3>4. QED
      BY <1>3, <3>1, <3>3 DEF MemoryNotShared
  <2>7. QED
    BY <1>1, <2>3, <2>4, <2>5, <2>6, SMT DEF Position, NothingToDelete, NotCompacting
<1>5. CASE IsMemory(p)
  <2> DEFINE e == [kind |-> p.kind, start |-> Len(new_memory_buffer), count |-> p.count]
  <2>1. /\ e \in Pieces /\ IsMemory(e) /\ ~IsOriginal(e) /\ ~IsOriginal(p)
        /\ e.start = Len(new_memory_buffer) /\ End(e) = Len(new_memory_buffer) + p.count
    BY <1>1, <1>2, <1>5, SMT DEF Pieces, IsMemory, IsOriginal, End
  <2>2. pieces' = [pieces EXCEPT ![cursor] = e]
    BY <1>1, <1>2, <1>5, SMT DEF CompactPiece, Pieces
  <2>3. PieceLines(cursor) = SubSeq(memory_buffer, p.start + 1, End(p))
    <3>1. Buffer(cursor) = memory_buffer
      BY <1>1, <1>3, SMT
    <3>2. QED
      BY <2>1, <3>1 DEF PieceLines
  <2>4. End(p) <= Len(memory_buffer)
    <3>1. Buffer(cursor) = memory_buffer
      BY <1>1, <1>3, SMT
    <3>2. QED
      BY <1>1, <2>1, <3>1 DEF PiecesInBounds
  <2>5. PieceLines(cursor) \in Seq(Text) /\ Len(PieceLines(cursor)) = p.count
    <3>1. p.start \in Nat /\ p.count \in Nat /\ memory_buffer \in Seq(Text)
      BY <1>2, PieceFields DEF TypeOK
    <3>2. QED
      <4>1. p.start + p.count <= Len(memory_buffer)
        BY <2>4 DEF End
      <4>2. PieceLines(cursor) = SubSeq(memory_buffer, p.start + 1, p.start + p.count)
        BY <2>3 DEF End
      <4> HIDE DEF p
      <4>3. QED
        <5>1. /\ SubSeq(memory_buffer, p.start + 1, p.start + p.count) \in Seq(Text)
              /\ Len(SubSeq(memory_buffer, p.start + 1, p.start + p.count)) = p.count
          BY <3>1, <4>1, SliceElements
        <5>2. QED
          BY <4>2, <5>1
  <2>6. /\ new_memory_buffer' \in Seq(Text)
        /\ Len(new_memory_buffer') = Len(new_memory_buffer) + p.count
    <3>1. new_memory_buffer' = new_memory_buffer \o PieceLines(cursor)
      BY <1>5 DEF CompactPiece
    <3>2. new_memory_buffer \in Seq(Text)
      BY DEF TypeOK
    <3>3. QED
      BY <2>5, <3>1, <3>2, ConcatElements
  <2> HIDE DEF e
  <2>7. /\ pieces' \in Seq(Pieces) /\ Len(pieces') = Len(pieces)
        /\ \A i \in 1 .. Len(pieces) : pieces'[i] = IF i = cursor THEN e ELSE pieces[i]
    BY <1>1, <1>2, <2>1, <2>2, SMT
  <2>8. p.count \in Nat
    BY <1>2, PieceFields
  <2>9. TypeOK'
    BY <1>1, <2>6, <2>7, SMT DEF TypeOK, PCs, memory, locals
  <2>10. ASSUME NEW i \in 1 .. Len(pieces), i < cursor, IsMemory(pieces[i])
         PROVE  End(pieces[i]) <= Len(new_memory_buffer)
    BY <1>3, <2>10, SMT DEF PiecesInBounds, IsMemory, IsOriginal
  <2>11. PiecesInBounds'
    <3>1. SUFFICES ASSUME NEW i \in 1 .. Len(pieces)
                   PROVE  IF IsOriginal(pieces'[i]) THEN End(pieces'[i]) <= indexed_lines_added
                          ELSE End(pieces'[i]) <= Len(Buffer(i)')
      BY <1>1, <2>7 DEF PiecesInBounds
    <3>2. CASE i = cursor
      BY <1>1, <1>3, <2>1, <2>6, <2>7, <2>8, <3>2, SMT
    <3>3. CASE i # cursor
      <4>1. pieces'[i] = pieces[i] /\ (i < cursor + 1 <=> i < cursor)
        BY <1>1, <2>7, <3>3, SMT
      <4>2. CASE IsOriginal(pieces[i])
        BY <4>1, <4>2 DEF PiecesInBounds
      <4>3. CASE ~IsOriginal(pieces[i])
        <5>1. End(pieces[i]) <= Len(Buffer(i)) /\ End(pieces[i]) \in Nat
          BY <1>2, <4>3, PieceFields DEF PiecesInBounds
        <5>2. QED
          BY <1>1, <1>3, <2>6, <2>8, <4>1, <4>3, <5>1, SMT
      <4>4. QED
        BY <4>2, <4>3
    <3>4. QED
      BY <3>2, <3>3
  <2>12. OriginalsInOrder'
    BY <2>1, <2>7 DEF OriginalsInOrder
  <2>13. MemoryNotShared'
    <3>1. SUFFICES ASSUME NEW i \in 1 .. Len(pieces), NEW j \in 1 .. Len(pieces), i < j,
                          IsMemory(pieces'[i]), IsMemory(pieces'[j]),
                          i < cursor + 1 <=> j < cursor + 1
                   PROVE  \/ End(pieces'[i]) <= pieces'[j].start
                          \/ End(pieces'[j]) <= pieces'[i].start
      BY <1>3, <2>7 DEF MemoryNotShared
    <3>2. i # cursor
      BY <1>1, <3>1, SMT
    <3>3. CASE j = cursor
      BY <2>1, <2>7, <2>10, <3>1, <3>2, <3>3, SMT
    <3>4. CASE j # cursor
      <4>1. i < cursor <=> j < cursor
        BY <1>1, <3>1, <3>2, <3>4, SMT
      <4>2. QED
        BY <1>3, <2>7, <3>1, <3>2, <3>4, <4>1 DEF MemoryNotShared
    <3>5. QED
      BY <3>3, <3>4
  <2>14. QED
    BY <1>1, <2>9, <2>11, <2>12, <2>13, SMT DEF Position, NothingToDelete, NotCompacting
<1>6. QED
  BY <1>4, <1>5

(* When all pieces are redirected the new buffer is the buffer.            *)
LEMMA CompactDoneKeeps == IInv /\ CompactDone => IInv'
<1> SUFFICES ASSUME IInv, CompactDone PROVE IInv'
  OBVIOUS
<1> USE DEF IInv, CompactDone, table, Return
<1>1. << >> \in Seq(Text) /\ Len(pieces) \in Nat /\ cursor \in Nat /\ cursor > Len(pieces)
  BY SMT DEF TypeOK
<1>2. /\ edit' \in [start : Nat, deleted : Nat, lines : Seq(Text)] /\ edit'.deleted = 0
      /\ remaining_delete' = 0
  BY <1>1, SMT DEF NoEdit
<1>3. TypeOK'
  BY <1>1, <1>2, SMT DEF TypeOK, PCs
<1>4. ASSUME NEW i \in 1 .. Len(pieces)
      PROVE  Compacted(i) /\ ~Compacted(i)' /\ Buffer(i)' = Buffer(i)
  BY <1>1, SMT DEF Compacted, Buffer
<1>5. PiecesInBounds' /\ OriginalsInOrder' /\ MemoryNotShared'
  BY <1>4 DEF PiecesInBounds, OriginalsInOrder, MemoryNotShared
<1>6. QED
  BY <1>2, <1>3, <1>5, SMT DEF Position, NothingToDelete, NotCompacting

-----------------------------------------------------------------------------
(* The theorems.                                                           *)

(* No step breaks the invariant.                                           *)
LEMMA NextKeeps == IInv /\ [Next]_vars => IInv'
<1> SUFFICES ASSUME IInv, [Next]_vars PROVE IInv'
  OBVIOUS
<1>1. CASE IndexGrows
  BY <1>1, IndexGrowsKeeps
<1>2. CASE Read
  BY <1>2, SyncsKeep
<1>3. CASE \E start \in 0 .. FileLines + MaxMemory, deleted \in 0 .. MaxDelete :
             \E parts \in UNION {[1 .. n -> Text] : n \in 1 .. MaxInsert} :
               EditCall(start, deleted, parts)
  BY <1>3, EditCallKeeps
<1>4. CASE EditStep
  <2>1. CASE EditSync \/ EditSyncSplit
    BY <2>1, SyncsKeep
  <2>2. CASE EditLocate
    BY <2>2, EditLocateKeeps
  <2>3. CASE EditSplit
    BY <2>3, EditSplitKeeps
  <2>4. CASE DeleteWhole
    BY <2>4, DeleteWholeKeeps
  <2>5. CASE DeletePart
    BY <2>5, DeletePartKeeps
  <2>6. CASE DeleteDone
    BY <2>6, DeleteDoneKeeps
  <2>7. CASE EditInsert
    BY <2>7, EditInsertKeeps
  <2>8. CASE CompactPiece
    BY <2>8, CompactPieceKeeps
  <2>9. CASE CompactDone
    BY <2>9, CompactDoneKeeps
  <2>10. QED
    BY <1>4, <2>1, <2>2, <2>3, <2>4, <2>5, <2>6, <2>7, <2>8, <2>9 DEF EditStep
<1>5. CASE UNCHANGED vars
  <2>1. UNCHANGED <<original_total_lines, pieces, indexed_lines_added, memory_buffer,
                    wasted_memory_lines, pc, edit, piece_idx, offset, remaining_delete,
                    new_memory_buffer, cursor>>
    BY <1>5 DEF vars, table, memory, locals, compaction
  <2>2. TypeOK'
    BY <2>1 DEF IInv, TypeOK
  <2>3. PiecesInBounds' /\ OriginalsInOrder' /\ MemoryNotShared'
    BY <2>1 DEF IInv, PiecesInBounds, OriginalsInOrder, MemoryNotShared, Compacted, Buffer
  <2>4. QED
    BY <2>1, <2>2, <2>3 DEF IInv, Position, NothingToDelete, NotCompacting
<1>6. QED
  BY <1>1, <1>2, <1>3, <1>4, <1>5 DEF Next

(* The invariant that carries the others holds in every reachable state of *)
(* the table: through edits, late lines in the middle of an edit, and      *)
(* compaction.                                                             *)
THEOREM InductiveInvariant == Spec => []IInv
<1>1. Init => IInv
  BY InitEstablishes
<1>2. IInv /\ [Next]_vars => IInv'
  BY NextKeeps
<1>3. QED
  BY <1>1, <1>2, PTL DEF Spec

(* The unsigned arithmetic of apply_edit stays in range and the place of   *)
(* an edit stays in the list, for every file, text and sequence of edits.  *)
THEOREM TypeCorrect == Spec => []TypeOK
<1>1. IInv => TypeOK
  BY DEF IInv
<1>2. QED
  BY <1>1, InductiveInvariant, PTL

(* get_block, save_async and the searches never index outside              *)
(* memory_buffer, and compact_memory redirects every piece correctly.      *)
THEOREM BoundsCorrect == Spec => []PiecesInBounds
<1>1. IInv => PiecesInBounds
  BY DEF IInv
<1>2. QED
  BY <1>1, InductiveInvariant, PTL

(* No line of the file is shown twice or out of order: sync_pieces, run at *)
(* any moment of an edit, adds each line of the file once.                 *)
THEOREM OrderCorrect == Spec => []OriginalsInOrder
<1>1. IInv => OriginalsInOrder
  BY DEF IInv
<1>2. QED
  BY <1>1, InductiveInvariant, PTL

(* No typed line is shown by two pieces.                                   *)
THEOREM MemoryCorrect == Spec => []MemoryNotShared
<1>1. IInv => MemoryNotShared
  BY DEF IInv
<1>2. QED
  BY <1>1, InductiveInvariant, PTL

-----------------------------------------------------------------------------
(* The count of the wasted lines.                                          *)

(* How many typed lines each piece of a list uses, and all of them.        *)
Typed(p) == IF IsMemory(p) THEN p.count ELSE 0
Uses(ps) == [i \in 1 .. Len(ps) |-> Typed(ps[i])]
InUse(ps) == Total(Uses(ps))

(* How many typed lines each piece uses. *)
LEMMA UsesType ==
  ASSUME NEW ps \in Seq(Pieces)
  PROVE  /\ Uses(ps) \in Seq(Nat) /\ Len(Uses(ps)) = Len(ps) /\ Len(ps) \in Nat
         /\ \A i \in 1 .. Len(ps) : Uses(ps)[i] = Typed(ps[i]) /\ Typed(ps[i]) \in Nat
<1>1. Len(ps) \in Nat
  BY SMT
<1>2. ASSUME NEW i \in 1 .. Len(ps) PROVE Typed(ps[i]) \in Nat
  BY ElementOfList, PieceFields DEF Typed
<1>3. Uses(ps) \in [1 .. Len(ps) -> Nat]
  BY <1>2 DEF Uses
<1>4. Uses(ps) \in Seq(Nat) /\ Len(Uses(ps)) = Len(ps)
  BY <1>1, <1>3, SMT
<1>5. QED
  BY <1>1, <1>2, <1>4 DEF Uses

(* MemoryUsed adds the same numbers, without those that are zero.          *)
LEMMA MemoryUsedIsInUse == ASSUME pieces \in Seq(Pieces) PROVE MemoryUsed = InUse(pieces)
<1> DEFINE h == [i \in DOMAIN pieces |-> pieces[i].count]
           T == {i \in DOMAIN pieces : IsMemory(pieces[i])}
           S == 1 .. Len(pieces)
           u == Uses(pieces)
<1>1. /\ Len(pieces) \in Nat /\ DOMAIN pieces = S /\ IsFiniteSet(S)
  BY FS_Interval, SMT
<1>2. /\ Len(u) = Len(pieces)
      /\ \A i \in S : u[i] = Typed(pieces[i]) /\ u[i] \in Nat
  BY UsesType
<1>3. T \subseteq S
  BY <1>1
<1>4. Agree(h, u, T)
  BY <1>1, <1>2 DEF Agree, Typed
<1>5. \A i \in S \ T : u[i] = 0
  BY <1>1, <1>2 DEF Typed
<1>6. MemoryUsed = SumFunctionOnSet(h, T) /\ InUse(pieces) = SumFunctionOnSet(u, S)
  BY <1>2 DEF MemoryUsed, InUse, Total
<1>7. \A i \in S : u[i] \in Nat
  BY <1>2
<1> HIDE DEF h, T, S, u
<1>8. SumFunctionOnSet(u, S) = SumFunctionOnSet(u, T)
  BY <1>1, <1>3, <1>5, <1>7, SumSkipsZeros
<1>9. SumFunctionOnSet(h, T) = SumFunctionOnSet(u, T)
  <2>1. IsFiniteSet(T)
    BY <1>1, <1>3, FS_Subset
  <2>2. QED
    BY <1>4, <2>1, SumAgrees
<1>10. QED
  BY <1>6, <1>8, <1>9

UsedIsInUse == TypeOK => MemoryUsed = InUse(pieces)

(* The lines in use that the invariant counts are the sum of these. *)
LEMMA UsedAsInUse == UsedIsInUse
BY MemoryUsedIsInUse DEF UsedIsInUse, TypeOK

(* There is a number of lines in use. *)
LEMMA InUseInNat == ASSUME NEW ps \in Seq(Pieces) PROVE InUse(ps) \in Nat
<1>1. Uses(ps) \in Seq(Nat) /\ 0 \in Nat
  BY UsesType
<1>2. QED
  BY <1>1, TotalAppend DEF InUse

(* A piece that is inserted uses its lines in addition, ...                *)
LEMMA InsertUses ==
  ASSUME NEW ps \in Seq(Pieces), NEW e \in Pieces, NEW i \in 1 .. Len(ps) + 1
  PROVE  InUse(InsertAt(ps, i, e)) = InUse(ps) + Typed(e)
<1> DEFINE t == InsertAt(ps, i, e)
           u == Uses(ps)
           x == Typed(e)
           v == InsertAt(u, i, x)
           N == Nat
<1>1. /\ t \in Seq(Pieces) /\ Len(t) = Len(ps) + 1
      /\ \A j \in 1 .. Len(ps) + 1 : t[j] = IF j < i THEN ps[j] ELSE IF j = i THEN e ELSE ps[j - 1]
  BY InsertAtElements
<1>2. /\ u \in Seq(N) /\ Len(u) = Len(ps) /\ Len(ps) \in Nat
      /\ \A j \in 1 .. Len(ps) : u[j] = Typed(ps[j])
  BY UsesType
<1>3. x \in N
  BY PieceFields DEF Typed
<1> HIDE DEF t
<1>4. /\ Uses(t) \in Seq(N) /\ Len(Uses(t)) = Len(ps) + 1
      /\ \A j \in 1 .. Len(ps) + 1 : Uses(t)[j] = Typed(t[j])
  BY <1>1, UsesType
<1>5. i \in 1 .. Len(u) + 1
  BY <1>2
<1> HIDE DEF u, x, N
<1>6. /\ v \in Seq(N) /\ Len(v) = Len(u) + 1
      /\ \A j \in 1 .. Len(u) + 1 : v[j] = IF j < i THEN u[j] ELSE IF j = i THEN x ELSE u[j - 1]
  BY <1>2, <1>3, <1>5, InsertAtElements
<1> HIDE DEF v
<1>7. ASSUME NEW j \in 1 .. Len(Uses(t)) PROVE Uses(t)[j] = v[j]
  <2>1. /\ j \in 1 .. Len(ps) + 1 /\ j \in 1 .. Len(u) + 1
        /\ j < i => j \in 1 .. Len(ps)
        /\ ~(j < i) /\ j # i => j - 1 \in 1 .. Len(ps)
    BY <1>2, <1>4, SMT
  <2>2. CASE j < i
    BY <1>1, <1>2, <1>4, <1>6, <2>1, <2>2
  <2>3. CASE j = i
    <3>1. ~(j < i)
      BY <2>3
    <3>2. t[j] = e /\ v[j] = x
      BY <1>1, <1>6, <2>1, <2>3, <3>1
    <3>3. QED
      BY <1>4, <2>1, <3>2 DEF x
  <2>4. CASE ~(j < i) /\ j # i
    BY <1>1, <1>2, <1>4, <1>6, <2>1, <2>4
  <2>5. QED
    BY <2>2, <2>3, <2>4
<1>8. Uses(t) = v
  <2>1. Len(Uses(t)) = Len(v)
    BY <1>2, <1>4, <1>6
  <2>2. QED
    BY <1>4, <1>6, <1>7, <2>1, SameList
<1>9. Total(v) = Total(u) + x
  <2>1. u \in Seq(Nat) /\ x \in Nat
    BY <1>2, <1>3 DEF N
  <2>2. QED
    BY <1>5, <2>1, TotalInsert DEF v
<1>10. QED
  BY <1>8, <1>9 DEF InUse, t, u, x

(* ... and one that is removed uses them no more.                          *)
LEMMA RemoveUses ==
  ASSUME NEW ps \in Seq(Pieces), NEW i \in 1 .. Len(ps)
  PROVE  InUse(ps) = InUse(RemoveAt(ps, i)) + Typed(ps[i])
<1> DEFINE t == RemoveAt(ps, i)
           u == Uses(ps)
           v == RemoveAt(u, i)
           N == Nat
<1>1. /\ t \in Seq(Pieces) /\ Len(t) = Len(ps) - 1
      /\ \A j \in 1 .. Len(ps) - 1 : t[j] = IF j < i THEN ps[j] ELSE ps[j + 1]
  BY RemoveAtElements
<1>2. /\ u \in Seq(N) /\ Len(u) = Len(ps) /\ Len(ps) \in Nat
      /\ \A j \in 1 .. Len(ps) : u[j] = Typed(ps[j])
  BY UsesType
<1> HIDE DEF t
<1>3. /\ Uses(t) \in Seq(N) /\ Len(Uses(t)) = Len(ps) - 1
      /\ \A j \in 1 .. Len(ps) - 1 : Uses(t)[j] = Typed(t[j])
  BY <1>1, UsesType
<1>4. i \in 1 .. Len(u)
  BY <1>2
<1> HIDE DEF u, N
<1>5. /\ v \in Seq(N) /\ Len(v) = Len(u) - 1
      /\ \A j \in 1 .. Len(u) - 1 : v[j] = IF j < i THEN u[j] ELSE u[j + 1]
  BY <1>2, <1>4, RemoveAtElements
<1> HIDE DEF v
<1>6. ASSUME NEW j \in 1 .. Len(Uses(t)) PROVE Uses(t)[j] = v[j]
  <2>1. /\ j \in 1 .. Len(ps) - 1 /\ j \in 1 .. Len(u) - 1
        /\ j \in 1 .. Len(ps) /\ j + 1 \in 1 .. Len(ps)
    BY <1>2, <1>3, SMT
  <2>2. CASE j < i
    BY <1>1, <1>2, <1>3, <1>5, <2>1, <2>2
  <2>3. CASE ~(j < i)
    BY <1>1, <1>2, <1>3, <1>5, <2>1, <2>3
  <2>4. QED
    BY <2>2, <2>3
<1>7. Uses(t) = v
  <2>1. Len(Uses(t)) = Len(v)
    BY <1>2, <1>3, <1>5
  <2>2. QED
    BY <1>3, <1>5, <1>6, <2>1, SameList
<1>8. Total(u) = Total(v) + u[i]
  <2>1. u \in Seq(Nat)
    BY <1>2 DEF N
  <2>2. QED
    BY <1>4, <2>1, TotalRemove DEF v
<1>9. QED
  BY <1>2, <1>7, <1>8 DEF InUse, t, u

(* A piece that is changed at its place.                                   *)
LEMMA ReplaceUses ==
  ASSUME NEW ps \in Seq(Pieces), NEW e \in Pieces, NEW i \in 1 .. Len(ps)
  PROVE  /\ InUse([ps EXCEPT ![i] = e]) + Typed(ps[i]) = InUse(ps) + Typed(e)
         /\ Typed(e) = Typed(ps[i]) => Uses([ps EXCEPT ![i] = e]) = Uses(ps)
<1> DEFINE t == [ps EXCEPT ![i] = e]
           u == Uses(ps)
           x == Typed(e)
           v == [u EXCEPT ![i] = x]
<1>1. /\ t \in Seq(Pieces) /\ Len(t) = Len(ps)
      /\ \A j \in 1 .. Len(ps) : t[j] = IF j = i THEN e ELSE ps[j]
  BY SMT
<1>2. /\ u \in Seq(Nat) /\ Len(u) = Len(ps) /\ Len(ps) \in Nat
      /\ \A j \in 1 .. Len(ps) : u[j] = Typed(ps[j])
  BY UsesType
<1>3. x \in Nat
  BY PieceFields DEF Typed
<1> HIDE DEF t
<1>4. /\ Uses(t) \in Seq(Nat) /\ Len(Uses(t)) = Len(ps)
      /\ \A j \in 1 .. Len(ps) : Uses(t)[j] = Typed(t[j])
  BY <1>1, UsesType
<1> HIDE DEF u, x
<1>5. /\ v \in Seq(Nat) /\ Len(v) = Len(ps)
      /\ \A j \in 1 .. Len(ps) : v[j] = IF j = i THEN x ELSE u[j]
  BY <1>2, <1>3, SMT
<1> HIDE DEF v
<1>6. ASSUME NEW j \in 1 .. Len(ps) PROVE Uses(t)[j] = v[j]
  BY <1>1, <1>2, <1>4, <1>5 DEF x
<1>7. Uses(t) = v
  BY <1>4, <1>5, <1>6, SameList
<1>8. Total(v) + u[i] = Total(u) + x
  <2>1. i \in 1 .. Len(u)
    BY <1>2
  <2>2. QED
    BY <1>2, <1>3, <2>1, TotalReplace DEF v
<1>9. x = u[i] => v = u
  <2>1. ASSUME x = u[i], NEW j \in 1 .. Len(ps) PROVE v[j] = u[j]
    BY <1>5, <2>1
  <2>2. QED
    BY <1>2, <1>5, <2>1, SameList
<1>10. QED
  BY <1>2, <1>7, <1>8, <1>9 DEF InUse, t, u, x

(* sync_pieces: the pieces before the last one stay as they are, the last  *)
(* one stays or grows, and one may come behind it.                         *)
LEMMA SyncKeepsPieces ==
  ASSUME pieces \in Seq(Pieces), indexed_lines_added \in Nat, original_total_lines \in Nat,
         indexed_lines_added <= original_total_lines
  PROVE  /\ SyncedPieces \in Seq(Pieces) /\ Len(pieces) <= Len(SyncedPieces)
         /\ \A k \in 1 .. Len(pieces) :
              /\ k < Len(pieces) => SyncedPieces[k] = pieces[k]
              /\ SyncedPieces[k].kind = pieces[k].kind /\ SyncedPieces[k].start = pieces[k].start
              /\ pieces[k].count <= SyncedPieces[k].count
              /\ IsMemory(pieces[k]) => SyncedPieces[k] = pieces[k]
<1> DEFINE diff == original_total_lines - indexed_lines_added
           last == Len(pieces)
           t == SyncedPieces
<1>1. diff \in Nat /\ last \in Nat
  BY SMT
<1>2. \A k \in 1 .. last : pieces[k] \in Pieces /\ pieces[k].count \in Nat
  BY ElementOfList, PieceFields
<1>3. CASE diff = 0
  BY <1>1, <1>2, <1>3, SMT DEF SyncedPieces
<1>4. CASE diff # 0 /\ CanExtend(pieces)
  <2> DEFINE p == pieces[last]
             e == [kind |-> p.kind, start |-> p.start, count |-> p.count + diff]
  <2>1. last \in 1 .. last /\ p \in Pieces /\ ~IsMemory(p)
    BY <1>1, <1>2, <1>4, SMT DEF CanExtend, Last, IsOriginal, IsMemory
  <2>2. Resized(p, p.count + diff) = e /\ e \in Pieces
    BY <1>1, <2>1, SMT DEF Resized, Pieces
  <2>3. t = [pieces EXCEPT ![last] = e]
    BY <1>4, <2>2 DEF SyncedPieces
  <2>4. e.kind = p.kind /\ e.start = p.start /\ p.count <= e.count
    BY <1>1, <1>2, <2>1, SMT
  <2> HIDE DEF e, t, diff
  <2>5. t \in Seq(Pieces) /\ Len(t) = last /\ \A k \in 1 .. last : t[k] = IF k = last THEN e ELSE pieces[k]
    BY <2>1, <2>2, <2>3, SMT
  <2>6. QED
    BY <1>1, <1>2, <2>1, <2>4, <2>5, SMT DEF t
<1>5. CASE diff # 0 /\ ~CanExtend(pieces)
  <2> DEFINE e == Original(indexed_lines_added, diff)
  <2>1. e \in Pieces
    BY <1>1, SMT DEF Original, Pieces
  <2>2. t = Append(pieces, e)
    BY <1>5 DEF SyncedPieces
  <2> HIDE DEF e, t, diff
  <2>3. t \in Seq(Pieces) /\ Len(t) = last + 1 /\ \A k \in 1 .. last : t[k] = pieces[k]
    BY <2>1, <2>2, SMT
  <2>4. QED
    BY <1>1, <1>2, <2>3, SMT DEF t
<1>6. QED
  BY <1>3, <1>4, <1>5

(* Cutting a piece and copying new lines of the file use no typed line.    *)
LEMMA SplitUses ==
  ASSUME NEW ps \in Seq(Pieces), NEW i \in Nat \ {0}, NEW off \in Nat
  PROVE  InUse(Split(ps, i, off)) = InUse(ps) /\ Split(ps, i, off) \in Seq(Pieces)
<1> DEFINE p == ps[i]
           a == Resized(p, off)
           b == Rest(p, off)
           u == [ps EXCEPT ![i] = a]
           j == i + 1
<1>1. CASE off = 0 \/ i > Len(ps)
  BY <1>1 DEF Split
<1>2. CASE ~(off = 0 \/ i > Len(ps))
  <2>1. i \in 1 .. Len(ps) /\ Len(ps) \in Nat
    BY <1>2, SMT
  <2>2. p \in Pieces /\ p.count \in Nat
    BY <2>1, ElementOfList, PieceFields
  <2>3. CASE off >= p.count
    BY <1>2, <2>3 DEF Split
  <2>4. CASE ~(off >= p.count)
    <3> HIDE DEF p
    <3>1. a \in Pieces /\ b \in Pieces
      BY <2>2, <2>4, CutFields
    <3>2. Split(ps, i, off) = InsertAt(u, j, b)
      BY <1>2, <2>4 DEF Split, p
    <3>3. a.kind = p.kind /\ b.kind = p.kind /\ a.count = off /\ b.count = p.count - off
      BY <2>2, SMT DEF Resized, Rest, Pieces
    <3>4. Typed(a) + Typed(b) = Typed(p) /\ Typed(a) \in Nat /\ Typed(b) \in Nat /\ Typed(p) \in Nat
      BY <2>2, <2>4, <3>3 DEF Typed, IsMemory
    <3> HIDE DEF a, b
    <3>5. u \in Seq(Pieces) /\ Len(u) = Len(ps)
      BY <2>1, <3>1, SMT
    <3>6. InUse(u) + Typed(ps[i]) = InUse(ps) + Typed(a)
      BY <2>1, <3>1, ReplaceUses
    <3> HIDE DEF u
    <3>7. j \in 1 .. Len(u) + 1
      BY <2>1, <3>5
    <3> HIDE DEF j
    <3>8. InUse(InsertAt(u, j, b)) = InUse(u) + Typed(b) /\ InsertAt(u, j, b) \in Seq(Pieces)
      BY <3>1, <3>5, <3>7, InsertUses, InsertAtElements
    <3>9. InUse(u) \in Nat /\ InUse(ps) \in Nat
      BY <3>5, InUseInNat
    <3>10. InUse(u) + Typed(p) = InUse(ps) + Typed(a)
      BY <3>6 DEF p
    <3>11. InUse(u) + Typed(b) = InUse(ps)
      BY <3>4, <3>9, <3>10, SMT
    <3>12. QED
      BY <3>2, <3>8, <3>11
  <2>5. QED
    BY <2>3, <2>4
<1>3. QED
  BY <1>1, <1>2

(* Lines that arrive from the file are not typed lines. *)
LEMMA SyncUses ==
  ASSUME pieces \in Seq(Pieces), indexed_lines_added \in Nat, original_total_lines \in Nat,
         indexed_lines_added <= original_total_lines
  PROVE  /\ InUse(SyncedPieces) = InUse(pieces) /\ SyncedPieces \in Seq(Pieces)
<1> DEFINE diff == original_total_lines - indexed_lines_added
           last == Len(pieces)
           t == SyncedPieces
<1>1. diff \in Nat /\ last \in Nat
  BY SMT
<1>2. CASE diff = 0
  BY <1>1, <1>2 DEF SyncedPieces
<1>3. CASE diff # 0 /\ CanExtend(pieces)
  <2> DEFINE p == pieces[last]
             e == [kind |-> p.kind, start |-> p.start, count |-> p.count + diff]
  <2>1. last \in 1 .. last /\ p \in Pieces /\ ~IsMemory(p)
    <3>1. pieces # << >> /\ IsOriginal(pieces[last])
      BY <1>3, SMT DEF CanExtend, Last
    <3>2. last \in 1 .. last
      BY <1>1, <3>1, SMT
    <3>3. p \in Pieces
      BY <3>2, ElementOfList
    <3>4. QED
      BY <3>1, <3>2, <3>3 DEF IsOriginal, IsMemory
  <2>2. Resized(p, p.count + diff) = e /\ e \in Pieces
    BY <1>1, <2>1, SMT DEF Resized, Pieces
  <2>3. t = [pieces EXCEPT ![last] = e]
    BY <1>3, <2>2 DEF SyncedPieces
  <2>4. Typed(e) = 0 /\ Typed(p) = 0
    BY <2>1 DEF Typed, IsMemory
  <2> HIDE DEF e, diff
  <2>5. t \in Seq(Pieces) /\ Len(t) = last
        /\ \A k \in 1 .. last : t[k] = IF k = last THEN e ELSE pieces[k]
    BY <2>1, <2>2, <2>3, SMT
  <2>6. Uses([pieces EXCEPT ![last] = e]) = Uses(pieces)
    BY <2>1, <2>2, <2>4, ReplaceUses
  <2>7. InUse(t) = InUse(pieces)
    BY <2>3, <2>6 DEF InUse
  <2>8. QED
    BY <2>5, <2>7
<1>4. CASE diff # 0 /\ ~CanExtend(pieces)
  <2> DEFINE e == Original(indexed_lines_added, diff)
             j == last + 1
  <2>1. e \in Pieces /\ Typed(e) = 0
    BY <1>1, SMT DEF Original, Pieces, Typed, IsMemory
  <2>2. t = Append(pieces, e)
    BY <1>4 DEF SyncedPieces
  <2>3. j \in 1 .. last + 1
    BY <1>1
  <2> HIDE DEF e, diff
  <2>4. t \in Seq(Pieces) /\ Len(t) = last + 1 /\ (\A k \in 1 .. last : t[k] = pieces[k])
        /\ t[last + 1] = e
    BY <1>1, <2>1, <2>2, SMT
  <2> HIDE DEF j
  <2>5. InUse(InsertAt(pieces, j, e)) = InUse(pieces) + Typed(e)
    BY <2>1, <2>3, InsertUses
  <2>6. /\ InsertAt(pieces, j, e) \in Seq(Pieces) /\ Len(InsertAt(pieces, j, e)) = last + 1
        /\ \A k \in 1 .. last + 1 :
             InsertAt(pieces, j, e)[k] = IF k < j THEN pieces[k] ELSE IF k = j THEN e ELSE pieces[k - 1]
    BY <2>1, <2>3, InsertAtElements
  <2>7. ASSUME NEW k \in 1 .. Len(t) PROVE t[k] = InsertAt(pieces, j, e)[k]
    <3>1. k \in 1 .. last + 1 /\ ((k < j /\ k \in 1 .. last) \/ (k = last + 1 /\ k = j /\ ~(k < j)))
      BY <1>1, <2>4, SMT DEF j
    <3>2. QED
      BY <2>4, <2>6, <3>1
  <2>8. t = InsertAt(pieces, j, e)
    BY <2>4, <2>6, <2>7, SameList
  <2>9. InUse(t) = InUse(pieces)
    BY <2>1, <2>5, <2>8, InUseInNat
  <2>10. QED
    BY <1>1, <2>4, <2>9
<1>5. QED
  BY <1>2, <1>3, <1>4

(* While the buffer is compacted the new one holds the lines of the pieces *)
(* already redirected.                                                     *)
Copied == pc = "compact" =>
            Len(new_memory_buffer) = SumFunctionOnSet(Uses(pieces), 1 .. cursor - 1)

WInv == IInv /\ WastedExact /\ Copied

(* The first half of a split is the piece cut off at the offset. *)
LEMMA SplitFirst ==
  ASSUME NEW ps \in Seq(Pieces), NEW i \in 1 .. Len(ps), NEW off \in Nat,
         0 < off, off < ps[i].count
  PROVE  Split(ps, i, off)[i] = Resized(ps[i], off) /\ i \in 1 .. Len(Split(ps, i, off))
<1> DEFINE p == ps[i]
           a == Resized(p, off)
           b == Rest(p, off)
           u == [ps EXCEPT ![i] = a]
           j == i + 1
<1>1. p \in Pieces /\ p.count \in Nat /\ Len(ps) \in Nat /\ off < p.count
  BY ElementOfList, PieceFields, SMT
<1>2. Split(ps, i, off) = InsertAt(u, j, b)
  <2>1. ~(off = 0 \/ i > Len(ps)) /\ ~(off >= p.count)
    BY <1>1
  <2>2. QED
    BY <2>1 DEF Split
<1>3. a \in Pieces /\ b \in Pieces
  <2> HIDE DEF p
  <2>1. QED
    BY <1>1, CutFields
<1> HIDE DEF a, b
<1>4. u \in Seq(Pieces) /\ Len(u) = Len(ps) /\ u[i] = a
  BY <1>1, <1>3, SMT
<1> HIDE DEF u
<1>5. j \in 1 .. Len(u) + 1 /\ i \in 1 .. Len(u) + 1 /\ i < j
  BY <1>1, <1>4, SMT
<1> HIDE DEF j
<1>6. /\ Len(InsertAt(u, j, b)) = Len(u) + 1
      /\ \A k \in 1 .. Len(u) + 1 :
           InsertAt(u, j, b)[k] = IF k < j THEN u[k] ELSE IF k = j THEN b ELSE u[k - 1]
  <2>1. u \in Seq(Pieces) /\ b \in Pieces /\ j \in 1 .. Len(u) + 1
    BY <1>3, <1>4, <1>5
  <2>2. QED
    BY <2>1, InsertAtElements
<1>7. InsertAt(u, j, b)[i] = a
  BY <1>4, <1>5, <1>6
<1>8. QED
  BY <1>2, <1>5, <1>6, <1>7 DEF a, p

(* What the steps of a deletion take from the list they count as wasted.   *)
LEMMA DeleteCounts ==
  ASSUME WInv, DeleteWhole \/ DeletePart
  PROVE  /\ pc' # "compact" /\ pieces' \in Seq(Pieces)
         /\ wasted_memory_lines' + InUse(pieces') = Len(memory_buffer')
<1> DEFINE i == piece_idx
           p == pieces[i]
           r == remaining_delete
           w == wasted_memory_lines
<1>1. /\ pc = "delete" /\ pc' = "delete" /\ r > 0 /\ i <= Len(pieces)
      /\ memory_buffer' = memory_buffer
  BY DEF DeleteWhole, DeletePart, Deleting
<1>2. /\ pieces \in Seq(Pieces) /\ Len(pieces) \in Nat /\ i \in 1 .. Len(pieces) /\ r \in Nat
      /\ w \in Nat /\ indexed_lines_added \in Nat /\ original_total_lines \in Nat
      /\ indexed_lines_added <= original_total_lines
  BY <1>1, ConstantsAssumption, SMT DEF WInv, IInv, TypeOK
<1>3. w + InUse(pieces) = Len(memory_buffer) /\ InUse(pieces) \in Nat
  BY <1>1, <1>2, MemoryUsedIsInUse, InUseInNat DEF WInv, WastedExact
<1>4. p \in Pieces /\ p.count \in Nat
  BY <1>2, ElementOfList, PieceFields
<1>5. CASE DeleteWhole
  <2>1. pieces' = RemoveAt(pieces, i) /\ wasted_memory_lines' = w + Typed(p)
    BY <1>5 DEF DeleteWhole, Wasted, Typed
  <2>2. InUse(pieces) = InUse(RemoveAt(pieces, i)) + Typed(p)
    BY <1>2, RemoveUses
  <2>3. RemoveAt(pieces, i) \in Seq(Pieces)
    BY <1>2, RemoveAtElements
  <2>4. InUse(RemoveAt(pieces, i)) \in Nat /\ Typed(p) \in Nat
    BY <1>4, <2>3, InUseInNat DEF Typed
  <2> HIDE DEF p, i, w
  <2>5. QED
    BY <1>1, <1>2, <1>3, <2>1, <2>2, <2>3, <2>4
<1>6. CASE DeletePart
  <2> DEFINE s == SyncedPieces
             t == Split(s, i, r)
  <2>1. /\ pieces' = RemoveAt(t, i) /\ ~(p.count <= r)
        /\ wasted_memory_lines' = w + (IF IsMemory(p) THEN r ELSE 0)
    BY <1>6 DEF DeletePart, Wasted, WhollyDeleted
  <2>2. s \in Seq(Pieces) /\ Len(pieces) <= Len(s) /\ s[i].kind = p.kind /\ p.count <= s[i].count
    BY <1>2, SyncKeepsPieces
  <2>3. InUse(s) = InUse(pieces)
    BY <1>2, SyncUses
  <2> HIDE DEF s
  <2>4. i \in 1 .. Len(s) /\ i \in Nat \ {0}
    BY <1>2, <2>2, SMT
  <2>5. s[i] \in Pieces /\ s[i].count \in Nat
    BY <2>2, <2>4, ElementOfList, PieceFields
  <2>6. 0 < r /\ r < s[i].count
    BY <1>1, <1>2, <1>4, <2>1, <2>2, <2>5
  <2> HIDE DEF p, i, r, w
  <2>7. t[i] = Resized(s[i], r) /\ i \in 1 .. Len(t)
    BY <1>2, <2>2, <2>4, <2>6, SplitFirst
  <2>8. InUse(t) = InUse(s) /\ t \in Seq(Pieces)
    BY <1>2, <2>2, <2>4, SplitUses
  <2>9. Typed(t[i]) = IF IsMemory(p) THEN r ELSE 0
    <3>1. Resized(s[i], r).kind = s[i].kind /\ Resized(s[i], r).count = r
      BY <1>2, <2>5, SMT DEF Resized, Pieces
    <3>2. QED
      BY <2>2, <2>7, <3>1 DEF Typed, IsMemory
  <2> HIDE DEF t
  <2>10. InUse(t) = InUse(RemoveAt(t, i)) + Typed(t[i])
    BY <2>7, <2>8, RemoveUses
  <2>11. RemoveAt(t, i) \in Seq(Pieces)
    BY <2>7, <2>8, RemoveAtElements
  <2>12. InUse(RemoveAt(t, i)) \in Nat /\ Typed(t[i]) \in Nat
    BY <1>2, <2>9, <2>11, InUseInNat
  <2>13. wasted_memory_lines' = w + Typed(t[i])
    BY <2>1, <2>9
  <2>14. w + Typed(t[i]) + InUse(RemoveAt(t, i)) = Len(memory_buffer)
    BY <1>2, <1>3, <2>3, <2>8, <2>10, <2>12
  <2>15. QED
    BY <1>1, <2>1, <2>11, <2>13, <2>14
<1>7. QED
  BY <1>5, <1>6

(* Every step keeps the count exact.                                       *)
LEMMA CountExact ==
  ASSUME TypeOK', pc' # "compact", wasted_memory_lines' + InUse(pieces') = Len(memory_buffer')
  PROVE  WastedExact' /\ Copied'
<1>1. UsedIsInUse'
  BY UsedAsInUse, PTL
<1>2. QED
  BY <1>1 DEF UsedIsInUse, WastedExact, Copied

(* A step that neither compacts nor changes what is in use nor the memory keeps the count. *)
LEMMA CountKept ==
  ASSUME WInv, pc # "compact", pc' # "compact", TypeOK',
         InUse(pieces') = InUse(pieces), UNCHANGED memory
  PROVE  WastedExact' /\ Copied'
<1>1. wasted_memory_lines + InUse(pieces) = Len(memory_buffer)
  BY UsedAsInUse DEF WInv, IInv, UsedIsInUse, WastedExact
<1>2. QED
  BY <1>1, CountExact DEF memory

(* An insertion adds its lines to the memory and to what is in use, and wastes none. *)
LEMMA InsertCounts ==
  ASSUME WInv, IInv', EditInsert
  PROVE  WastedExact' /\ Copied'
<1> DEFINE e == Memory(Len(memory_buffer), Len(edit.lines))
           w == wasted_memory_lines
           new == edit.lines
<1>1. /\ pc = "insert" /\ wasted_memory_lines' = w /\ UNCHANGED <<new_memory_buffer, cursor>>
      /\ pc' \in {"idle", "compact"}
      /\ new = << >> => pieces' = pieces /\ memory_buffer' = memory_buffer
      /\ new # << >> => /\ memory_buffer' = memory_buffer \o new
                        /\ pieces' = InsertAt(pieces, piece_idx, e)
  BY DEF EditInsert, compaction, Return
<1>2. /\ pieces \in Seq(Pieces) /\ piece_idx \in 1 .. Len(pieces) + 1 /\ w \in Nat
      /\ memory_buffer \in Seq(Text) /\ new \in Seq(Text)
      /\ Len(memory_buffer) \in Nat /\ Len(new) \in Nat
      /\ cursor = 1 /\ new_memory_buffer = << >>
  BY <1>1, SMT DEF WInv, IInv, TypeOK, NotCompacting
<1>3. w + InUse(pieces) = Len(memory_buffer) /\ InUse(pieces) \in Nat
  BY <1>1, <1>2, UsedAsInUse, InUseInNat DEF WInv, IInv, UsedIsInUse, WastedExact
<1>4. w + InUse(pieces') = Len(memory_buffer')
  <2>1. ASSUME new = << >> PROVE w + InUse(pieces') = Len(memory_buffer')
    BY <1>1, <1>3, <2>1
  <2>2. ASSUME new # << >> PROVE w + InUse(pieces') = Len(memory_buffer')
    <3>1. e.kind = "memory" /\ e.count = Len(new) /\ e \in Pieces
      BY <1>2, SMT DEF Memory, Pieces
    <3>2. Typed(e) = Len(new)
      BY <3>1 DEF Typed, IsMemory
    <3> HIDE DEF e
    <3>3. InUse(InsertAt(pieces, piece_idx, e)) = InUse(pieces) + Typed(e)
      BY <1>2, <3>1, InsertUses
    <3> HIDE DEF new, w
    <3>4. Len(memory_buffer \o new) = Len(memory_buffer) + Len(new)
      BY <1>2, ConcatElements
    <3>5. QED
      BY <1>1, <1>2, <1>3, <2>2, <3>2, <3>3, <3>4
  <2>3. QED
    BY <2>1, <2>2
<1>5. CASE pc' = "compact"
  <2>1. Len(new_memory_buffer') = 0 /\ 1 .. cursor' - 1 = {}
    BY <1>1, <1>2, SMT
  <2>2. SumFunctionOnSet(Uses(pieces'), {}) = 0
    BY SumEmpty
  <2>3. QED
    BY <1>5, <2>1, <2>2 DEF WastedExact, Copied
<1>6. CASE pc' # "compact"
  BY <1>1, <1>4, <1>6, CountExact DEF IInv
<1>7. QED
  BY <1>5, <1>6

(* A compacted piece has its lines at the end of the new buffer, and the pieces before it fill the
   rest. *)
LEMMA CompactCounts ==
  ASSUME WInv, IInv', CompactPiece
  PROVE  WastedExact' /\ Copied'
<1> DEFINE p == pieces[cursor]
           old == new_memory_buffer
           new == PieceLines(cursor)
           u == Uses(pieces)
<1>1. /\ pc = "compact" /\ pc' = "compact" /\ cursor <= Len(pieces) /\ cursor' = cursor + 1
      /\ TypeOK /\ PiecesInBounds
      /\ IsMemory(p) => /\ new_memory_buffer' = old \o new
                        /\ pieces' = [pieces EXCEPT ![cursor].start = Len(old)]
      /\ ~IsMemory(p) => UNCHANGED <<new_memory_buffer, pieces>>
  BY DEF CompactPiece, WInv, IInv
<1>2. /\ pieces \in Seq(Pieces) /\ Len(pieces) \in Nat /\ cursor \in 1 .. Len(pieces)
      /\ cursor \in Nat \ {0} /\ memory_buffer \in Seq(Text) /\ old \in Seq(Text)
      /\ Len(old) \in Nat
  BY <1>1, SMT DEF TypeOK
<1>3. p \in Pieces /\ p.start \in Nat /\ p.count \in Nat /\ End(p) = p.start + p.count
  BY <1>2, ElementOfList, PieceFields DEF End
<1>4. Len(old) = SumFunctionOnSet(u, 1 .. cursor - 1)
  BY <1>1 DEF WInv, Copied
<1>5. SumFunctionOnSet(u, 1 .. cursor) = SumFunctionOnSet(u, 1 .. cursor - 1) + Typed(p)
  <2>1. \A i \in 1 .. cursor : i \in 1 .. Len(pieces)
    BY <1>2, SMT
  <2>2. \A i \in 1 .. Len(pieces) : u[i] = Typed(pieces[i]) /\ u[i] \in Nat
    BY <1>2, UsesType
  <2> HIDE DEF u
  <2>3. \A i \in 1 .. cursor : u[i] \in Nat
    BY <2>1, <2>2
  <2>4. SumFunctionOnSet(u, 1 .. cursor) = SumFunctionOnSet(u, 1 .. cursor - 1) + u[cursor]
    BY <1>2, <2>3, SumOfFirst
  <2>5. QED
    BY <1>2, <2>2, <2>4
<1>6. Uses(pieces') = u /\ Len(new_memory_buffer') = Len(old) + Typed(p)
  <2>1. ASSUME IsMemory(p)
        PROVE  Uses(pieces') = u /\ Len(new_memory_buffer') = Len(old) + Typed(p)
    <3> DEFINE n == Len(old)
               e == [kind |-> p.kind, start |-> n, count |-> p.count]
    <3>1. Buffer(cursor) = memory_buffer /\ ~IsOriginal(p)
      BY <1>1, <1>2, <2>1, SMT DEF Buffer, Compacted, IsMemory, IsOriginal
    <3>2. p.start + p.count <= Len(memory_buffer)
      BY <1>1, <1>2, <1>3, <3>1 DEF PiecesInBounds
    <3>3. new = SubSeq(memory_buffer, p.start + 1, p.start + p.count)
      BY <1>3, <3>1 DEF PieceLines
    <3>4. new \in Seq(Text) /\ Len(new) = p.count
      <4> HIDE DEF new, p
      <4>1. QED
        BY <1>2, <1>3, <3>2, <3>3, SliceElements
    <3>5. e \in Pieces /\ [p EXCEPT !.start = n] = e
      <4>1. n \in Nat
        BY <1>2
      <4> HIDE DEF p, n
      <4>2. QED
        BY <1>3, <4>1, SMT DEF Pieces
    <3>6. pieces' = [pieces EXCEPT ![cursor] = e]
      BY <1>1, <2>1, <3>5
    <3>7. Typed(e) = Typed(p) /\ Typed(p) = p.count
      BY <2>1 DEF Typed, IsMemory
    <3> HIDE DEF e
    <3>8. Uses([pieces EXCEPT ![cursor] = e]) = Uses(pieces)
      BY <1>2, <3>5, <3>7, ReplaceUses
    <3> HIDE DEF new, old
    <3>9. Len(old \o new) = Len(old) + Len(new)
      BY <1>2, <3>4, ConcatElements DEF old
    <3>10. QED
      BY <1>1, <2>1, <3>4, <3>6, <3>7, <3>8, <3>9 DEF old, new
  <2>2. ASSUME ~IsMemory(p)
        PROVE  Uses(pieces') = u /\ Len(new_memory_buffer') = Len(old) + Typed(p)
    BY <1>1, <1>2, <2>2 DEF Typed
  <2>3. QED
    BY <2>1, <2>2
<1>7. cursor' - 1 = cursor
  BY <1>1, <1>2
<1>8. Copied'
  BY <1>4, <1>5, <1>6, <1>7 DEF Copied
<1>9. QED
  BY <1>1, <1>8 DEF WastedExact

(* When all pieces are compacted, all lines of the new buffer are in use. *)
LEMMA DoneCounts ==
  ASSUME WInv, IInv', CompactDone
  PROVE  WastedExact' /\ Copied'
<1>1. /\ pc = "compact" /\ pc' = "idle" /\ cursor > Len(pieces) /\ TypeOK
      /\ memory_buffer' = new_memory_buffer /\ wasted_memory_lines' = 0 /\ pieces' = pieces
  BY DEF CompactDone, Return, table, WInv, IInv
<1>2. /\ pieces \in Seq(Pieces) /\ Len(pieces) \in Nat /\ cursor - 1 = Len(pieces)
  BY <1>1, SMT DEF TypeOK
<1>3. Len(new_memory_buffer) = SumFunctionOnSet(Uses(pieces), 1 .. Len(pieces))
  BY <1>1, <1>2 DEF WInv, Copied
<1>4. Len(new_memory_buffer) = InUse(pieces) /\ InUse(pieces) \in Nat
  BY <1>2, <1>3, UsesType, InUseInNat DEF InUse, Total
<1>5. 0 + InUse(pieces) = Len(new_memory_buffer)
  BY <1>4
<1>6. QED
  BY <1>1, <1>5, CountExact DEF IInv

(* Every step keeps the count of wasted lines. *)
LEMMA WInvHolds == WInv /\ [Next]_vars => WInv'
<1> SUFFICES ASSUME WInv, [Next]_vars PROVE WInv'
  OBVIOUS
<1>1. IInv /\ IInv' /\ TypeOK /\ TypeOK'
  BY NextKeeps DEF WInv, IInv
<1>2. /\ pieces \in Seq(Pieces) /\ indexed_lines_added \in Nat /\ original_total_lines \in Nat
      /\ indexed_lines_added <= original_total_lines /\ offset \in Nat
      /\ piece_idx \in Nat \ {0}
  BY <1>1, ConstantsAssumption, SMT DEF TypeOK
<1>3. WastedExact' /\ Copied'
  <2>1. CASE IndexGrows \/ UNCHANGED vars
    BY <2>1 DEF IndexGrows, vars, table, memory, locals, compaction, WInv, WastedExact, MemoryUsed,
                Copied, Uses, Typed
  <2>2. CASE Read \/ EditSync \/ EditSyncSplit
    <3>1. pieces' = SyncedPieces /\ pc # "compact" /\ pc' # "compact" /\ UNCHANGED memory
      BY <2>2 DEF Read, EditSync, EditSyncSplit, sync_pieces
    <3>2. InUse(pieces') = InUse(pieces)
      BY <1>2, <3>1, SyncUses
    <3>3. QED
      BY <1>1, <3>1, <3>2, CountKept
  <2>3. CASE \E start \in 0 .. FileLines + MaxMemory, deleted \in 0 .. MaxDelete :
               \E parts \in UNION {[1 .. n -> Text] : n \in 1 .. MaxInsert} :
                 EditCall(start, deleted, parts)
    <3>1. pieces' = pieces /\ pc # "compact" /\ pc' # "compact" /\ UNCHANGED memory
      BY <2>3 DEF EditCall, table
    <3>2. QED
      BY <1>1, <3>1, CountKept
  <2>4. CASE EditLocate \/ DeleteDone
    <3>1. pieces' = pieces /\ pc # "compact" /\ pc' # "compact" /\ UNCHANGED memory
      BY <2>4 DEF EditLocate, DeleteDone, table
    <3>2. QED
      BY <1>1, <3>1, CountKept
  <2>5. CASE EditSplit
    <3>1. pieces' = Split(pieces, piece_idx, offset) /\ pc # "compact" /\ pc' # "compact"
          /\ UNCHANGED memory
      BY <2>5 DEF EditSplit
    <3>2. InUse(pieces') = InUse(pieces)
      BY <1>2, <3>1, SplitUses
    <3>3. QED
      BY <1>1, <3>1, <3>2, CountKept
  <2>6. CASE DeleteWhole \/ DeletePart
    BY <1>1, <2>6, DeleteCounts, CountExact
  <2>7. CASE EditInsert
    BY <1>1, <2>7, InsertCounts
  <2>8. CASE CompactPiece
    BY <1>1, <2>8, CompactCounts
  <2>9. CASE CompactDone
    BY <1>1, <2>9, DoneCounts
  <2>10. QED
    BY <2>1, <2>2, <2>3, <2>4, <2>5, <2>6, <2>7, <2>8, <2>9 DEF Next, EditStep
<1>4. QED
  BY <1>1, <1>3 DEF WInv

(* The count that decides on compaction is the number of typed lines that  *)
(* no piece shows: split_piece_at, the delete loop and compact_memory      *)
(* never count a line twice or forget one.                                 *)
THEOREM WastedCorrect == Spec => []WastedExact
<1>1. Init => WInv
  <2> SUFFICES ASSUME Init PROVE WInv
    OBVIOUS
  <2>1. /\ IInv /\ TypeOK /\ pc = "idle" /\ memory_buffer = << >> /\ wasted_memory_lines = 0
        /\ pieces = << Original(0, original_total_lines) >>
    BY InitEstablishes DEF Init, IInv
  <2>2. InUse(pieces) = 0
    <3> DEFINE p == Original(0, original_total_lines)
    <3>1. Len(pieces) = 1 /\ pieces[1] = p /\ Typed(p) = 0
      BY <2>1, SMT DEF Original, Typed, IsMemory
    <3> HIDE DEF p
    <3>2. Uses(pieces) = [i \in 1 .. 1 |-> 0]
      BY <3>1 DEF Uses
    <3>3. Uses(pieces) = Append(<< >>, 0) /\ << >> \in Seq(Nat) /\ 0 \in Nat
      BY <3>2, SMT
    <3>4. Total(Append(<< >>, 0)) = Total(<< >>) + 0 /\ Total(<< >>) = 0
      BY <3>3, TotalAppend
    <3>5. QED
      BY <3>3, <3>4 DEF InUse
  <2>3. MemoryUsed = InUse(pieces)
    BY <2>1, UsedAsInUse DEF UsedIsInUse
  <2>4. QED
    BY <2>1, <2>2, <2>3, SMT DEF WInv, WastedExact, Copied
<1>2. WInv /\ [Next]_vars => WInv'
  BY WInvHolds
<1>3. WInv => WastedExact
  BY DEF WInv
<1>4. QED
  BY <1>1, <1>2, <1>3, PTL DEF Spec
=============================================================================
