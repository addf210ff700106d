--------------------------- MODULE Pager32Proofs ---------------------------
(***************************************************************************)
(* Proofs about the window cache and the search in the background, for any *)
(* file, any number and size of windows and any editing session: a slice   *)
(* stays in memory as long as it is used, what a save copies out of the    *)
(* windows is known exactly, and the search answers right about the piece  *)
(* it finds its answer in.                                                 *)
(***************************************************************************)
EXTENDS AsyncSearch, ListLemmas, TLAPS

PagerTypes ==
  /\ windows \in Seq(Windows)
  /\ request \in [Threads -> Requests]
  /\ arc \in [Threads -> SUBSET Windows]
  /\ pinned \in [Threads -> SUBSET Windows]
  /\ slice \in [Threads -> SUBSET Windows]

(* No two windows of the same part of the file. *)
OneEach(cache) == \A i, j \in DOMAIN cache : cache[i].id = cache[j].id => i = j

(* Windows that are kept do not share memory. *)
Apart(held) == \A v, w \in held : v.at = w.at => v = w

(* The inductive invariant: what a thread has a slice of is pinned by it,  *)
(* whatever happens to the cache.                                          *)
SlicesPinned ==
  /\ PagerTypes
  /\ Len(windows) <= MAX_WINDOWS /\ OneEach(windows)
  /\ \A t \in Threads : slice[t] \subseteq pinned[t]
  /\ Apart(Held)

-----------------------------------------------------------------------------
(* A window that was used moves to the end of the cache, nothing else.     *)
LEMMA MovedToEnd ==
  ASSUME NEW S, NEW s \in Seq(S), NEW i \in DOMAIN s
  PROVE  LET r == Append(RemoveAt(s, i), s[i])
         IN  /\ r \in Seq(S) /\ Len(r) = Len(s)
             /\ \A k \in DOMAIN s :
                  r[k] = s[IF k < i THEN k ELSE IF k < Len(s) THEN k + 1 ELSE i]
<1> DEFINE a == SubSeq(s, 1, i - 1)
           b == SubSeq(s, i + 1, Len(s))
           r == Append(RemoveAt(s, i), s[i])
<1>1. i \in 1 .. Len(s) /\ Len(s) \in Nat /\ s[i] \in S
  OBVIOUS
<1>2. /\ a \in Seq(S) /\ Len(a) = i - 1
      /\ \A k \in 1 .. i - 1 : a[k] = s[k]
  BY <1>1
<1>3. /\ b \in Seq(S) /\ Len(b) = Len(s) - i
      /\ \A k \in 1 .. Len(s) - i : b[k] = s[i + k]
  BY <1>1
<1>4. /\ a \o b \in Seq(S) /\ Len(a \o b) = Len(s) - 1
      /\ \A k \in 1 .. Len(s) - 1 :
           (a \o b)[k] = IF k < i THEN s[k] ELSE s[k + 1]
  <2> HIDE DEF a, b
  <2>1. a \o b \in Seq(S) /\ Len(a \o b) = Len(s) - 1
    BY <1>1, <1>2, <1>3
  <2>2. ASSUME NEW k \in 1 .. Len(s) - 1
        PROVE  (a \o b)[k] = IF k < i THEN s[k] ELSE s[k + 1]
    <3>1. CASE k < i
      BY <1>1, <1>2, <1>3, <3>1
    <3>2. CASE ~(k < i)
      <4>1. k - (i - 1) \in 1 .. Len(s) - i
        BY <1>1, <3>2
      <4>2. (a \o b)[k] = b[k - (i - 1)]
        BY <1>1, <1>2, <1>3, <3>2
      <4>3. b[k - (i - 1)] = s[i + (k - (i - 1))]
        BY <1>3, <4>1
      <4>4. i + (k - (i - 1)) = k + 1
        BY <1>1
      <4>5. QED
        BY <3>2, <4>2, <4>3, <4>4
    <3>3. QED
      BY <3>1, <3>2
  <2>3. QED
    BY <2>1, <2>2
<1>5. r = Append(a \o b, s[i])
  BY DEF RemoveAt
<1> HIDE DEF a, b, r
<1>6. r \in Seq(S) /\ Len(r) = Len(s)
  BY <1>1, <1>4, <1>5
<1>7. \A k \in DOMAIN s : r[k] = s[IF k < i THEN k ELSE IF k < Len(s) THEN k + 1 ELSE i]
  BY <1>1, <1>4, <1>5
<1>8. QED
  BY <1>6, <1>7 DEF r

(* So the cache holds the same windows afterwards, each of them once.      *)
LEMMA MovedKeeps ==
  ASSUME NEW cache \in Seq(Windows), OneEach(cache), NEW i \in DOMAIN cache
  PROVE  LET r == Append(RemoveAt(cache, i), cache[i])
         IN  r \in Seq(Windows) /\ Len(r) = Len(cache) /\ OneEach(r)
             /\ Range(r) \subseteq Range(cache)
<1> DEFINE r == Append(RemoveAt(cache, i), cache[i])
           old(k) == IF k < i THEN k ELSE IF k < Len(cache) THEN k + 1 ELSE i
<1>1. /\ r \in Seq(Windows) /\ Len(r) = Len(cache)
      /\ \A k \in DOMAIN cache : r[k] = cache[old(k)]
  BY MovedToEnd
<1> HIDE DEF r
<1>2. i \in 1 .. Len(cache) /\ Len(cache) \in Nat /\ DOMAIN cache = 1 .. Len(cache)
  OBVIOUS
<1>3. DOMAIN r = DOMAIN cache
  BY <1>1
<1>4. \A k \in DOMAIN cache : old(k) \in DOMAIN cache
  BY <1>2
<1>5. \A j, k \in DOMAIN cache : old(j) = old(k) => j = k
  BY <1>2
<1>6. OneEach(r)
  <2> SUFFICES ASSUME NEW j \in DOMAIN r, NEW k \in DOMAIN r, r[j].id = r[k].id
               PROVE  j = k
    BY DEF OneEach
  <2>1. cache[old(j)].id = cache[old(k)].id
    BY <1>1, <1>3
  <2> HIDE DEF old
  <2>2. old(j) = old(k)
    BY <2>1, <1>3, <1>4 DEF OneEach
  <2>3. QED
    BY <2>2, <1>3, <1>5
<1>7. Range(r) \subseteq Range(cache)
  <2> HIDE DEF old
  <2>1. QED
    BY <1>1, <1>3, <1>4 DEF Range
<1>8. QED
  BY <1>1, <1>6, <1>7 DEF r

(* Making room leaves windows of the cache, and room for one.              *)
LEMMA EvictedKeeps ==
  ASSUME SlicesPinned
  PROVE  /\ Evicted \in Seq(Windows) /\ OneEach(Evicted)
         /\ Range(Evicted) \subseteq Range(windows)
         /\ Len(Evicted) + 1 <= MAX_WINDOWS
<1>1. windows \in Seq(Windows) /\ Len(windows) \in Nat /\ Len(windows) <= MAX_WINDOWS
      /\ OneEach(windows) /\ MAX_WINDOWS \in Nat \ {0}
  BY PagerAssumption DEF SlicesPinned, PagerTypes
<1>2. CASE Len(windows) >= MAX_WINDOWS
  <2>1. Evicted = Tail(windows) /\ Len(windows) > 0
    BY <1>1, <1>2 DEF Evicted
  <2>2. /\ Tail(windows) \in Seq(Windows) /\ Len(Tail(windows)) = Len(windows) - 1
        /\ \A k \in 1 .. Len(windows) - 1 : Tail(windows)[k] = windows[k + 1]
    BY <1>1, <2>1
  <2>3. OneEach(Tail(windows))
    BY <1>1, <2>1, <2>2 DEF OneEach
  <2>4. Range(Tail(windows)) \subseteq Range(windows)
    BY <1>1, <2>1, <2>2 DEF Range
  <2>5. QED
    BY <1>1, <2>1, <2>2, <2>3, <2>4
<1>3. CASE ~(Len(windows) >= MAX_WINDOWS)
  BY <1>1, <1>3 DEF Evicted
<1>4. QED
  BY <1>2, <1>3

-----------------------------------------------------------------------------

(* At first no thread holds a slice. *)
LEMMA PagerBegins == PagerInit => SlicesPinned
<1> SUFFICES ASSUME PagerInit PROVE SlicesPinned
  OBVIOUS
<1>1. PagerTypes
  BY DEF PagerInit, PagerTypes, NoRequest, Requests
<1>2. Len(windows) <= MAX_WINDOWS /\ OneEach(windows)
  BY PagerAssumption DEF PagerInit, OneEach
<1>3. \A t \in Threads : slice[t] \subseteq pinned[t]
  BY DEF PagerInit
<1>4. Held = {}
  BY DEF PagerInit, Held, Used, Range
<1>5. QED
  BY <1>1, <1>2, <1>3, <1>4 DEF SlicesPinned, Apart

(* Giving windows up keeps the kept ones apart.                            *)
LEMMA ApartShrinks ==
  ASSUME NEW held, NEW less \in SUBSET held, Apart(held)
  PROVE  Apart(less)
BY DEF Apart

(* A call that begins takes nothing from anyone. *)
LEMMA AskKeeps ==
  ASSUME SlicesPinned, NEW t \in Threads, NEW kind \in {"chunk", "byte"}, NEW from,
         Ask(t, kind, from)
  PROVE  SlicesPinned'
<1>1. [kind |-> kind, id |-> WindowOf(from)] \in Requests
  BY PagerAssumption DEF Ask, WindowOf, Requests
<1>2. request' \in [Threads -> Requests]
  BY <1>1 DEF Ask, SlicesPinned, PagerTypes
<1>3. /\ slice' \in [Threads -> SUBSET Windows]
      /\ \A u \in Threads : slice'[u] \subseteq slice[u]
  BY DEF Ask, SlicesPinned, PagerTypes
<1>4. Held' = Held
  BY DEF Ask, Held, Used
<1>5. QED
  BY <1>2, <1>3, <1>4 DEF Ask, SlicesPinned, PagerTypes

(* A pin is dropped together with the slice it was for. *)
LEMMA UnpinKeeps ==
  ASSUME SlicesPinned, NEW t \in Threads, Unpin(t)
  PROVE  SlicesPinned'
<1>1. /\ pinned' \in [Threads -> SUBSET Windows] /\ slice' \in [Threads -> SUBSET Windows]
      /\ \A u \in Threads : slice'[u] \subseteq pinned'[u] /\ pinned'[u] \subseteq pinned[u]
  BY DEF Unpin, SlicesPinned, PagerTypes
<1>2. Held' \subseteq Held
  BY <1>1 DEF Unpin, Held, Used
<1>3. Apart(Held')
  BY <1>2, ApartShrinks DEF SlicesPinned
<1>4. QED
  BY <1>1, <1>3 DEF Unpin, SlicesPinned, PagerTypes, Apart

(* What a thread takes in hand or gives back.                              *)
LEMMA GotTypes ==
  ASSUME SlicesPinned, NEW t \in Threads, NEW found \in SUBSET Windows, Got(t, found)
  PROVE  /\ request' \in [Threads -> Requests] /\ arc' \in [Threads -> SUBSET Windows]
         /\ \A u \in Threads : arc'[u] \subseteq arc[u] \union found
<1>1. NoRequest \in Requests
  BY DEF NoRequest, Requests
<1>2. QED
  BY <1>1 DEF Got, Returns, SlicesPinned, PagerTypes

(* A window found in the cache is pinned by the thread that found it. *)
LEMMA LookupKeeps ==
  ASSUME SlicesPinned, NEW t \in Threads, Lookup(t)
  PROVE  SlicesPinned'
<1>1. Cached(t) \subseteq Range(windows) /\ Range(windows) \subseteq Windows
  BY DEF Cached, SlicesPinned, PagerTypes, Range
<1>2. /\ request' \in [Threads -> Requests] /\ arc' \in [Threads -> SUBSET Windows]
      /\ \A u \in Threads : arc'[u] \subseteq arc[u] \union Range(windows)
  <2>1. CASE Cached(t) # {}
    <3>1. Got(t, Cached(t))
      BY <2>1 DEF Lookup
    <3>2. QED
      BY <1>1, <3>1, GotTypes
  <2>2. CASE Cached(t) = {}
    BY <2>2 DEF Lookup, SlicesPinned, PagerTypes
  <2>3. QED
    BY <2>1, <2>2
<1>3. Held' \subseteq Held
  BY <1>2 DEF Lookup, Held, Used
<1>4. Apart(Held')
  BY <1>3, ApartShrinks DEF SlicesPinned
<1>5. QED
  BY <1>2, <1>4 DEF Lookup, SlicesPinned, PagerTypes, Apart

(* So is one that another thread fetched in the meantime. *)
LEMMA FetchFoundKeeps ==
  ASSUME SlicesPinned, NEW t \in Threads, FetchFound(t)
  PROVE  SlicesPinned'
<1>1. Cached(t) \subseteq Range(windows) /\ Range(windows) \subseteq Windows
  BY DEF Cached, SlicesPinned, PagerTypes, Range
<1>2. /\ request' \in [Threads -> Requests] /\ arc' \in [Threads -> SUBSET Windows]
      /\ \A u \in Threads : arc'[u] \subseteq arc[u] \union Range(windows)
  BY <1>1, GotTypes DEF FetchFound
<1>3. PICK i \in DOMAIN windows : windows' = Append(RemoveAt(windows, i), windows[i])
  BY DEF FetchFound
<1>4. /\ windows' \in Seq(Windows) /\ Len(windows') = Len(windows) /\ OneEach(windows')
      /\ Range(windows') \subseteq Range(windows)
  BY <1>3, MovedKeeps DEF SlicesPinned, PagerTypes
<1>5. Held' \subseteq Held
  BY <1>2, <1>4 DEF FetchFound, Held, Used
<1>6. Apart(Held')
  BY <1>5, ApartShrinks DEF SlicesPinned
<1>7. QED
  BY <1>2, <1>4, <1>6 DEF FetchFound, SlicesPinned, PagerTypes, Apart, OneEach

(* A read that fails leaves an eviction behind, and no slice in what was thrown out. *)
LEMMA FetchFailsKeeps ==
  ASSUME SlicesPinned, NEW t \in Threads, FetchFails(t)
  PROVE  SlicesPinned'
<1>1. request' \in [Threads -> Requests]
  BY DEF FetchFails, Returns, NoRequest, Requests, SlicesPinned, PagerTypes
<1>2. /\ windows' \in Seq(Windows) /\ OneEach(windows') /\ Len(windows') + 1 <= MAX_WINDOWS
      /\ Range(windows') \subseteq Range(windows)
  BY EvictedKeeps DEF FetchFails
<1>3. Len(windows') <= MAX_WINDOWS
  BY <1>2, PagerAssumption
<1>4. Held' \subseteq Held
  BY <1>2 DEF FetchFails, Held, Used
<1>5. Apart(Held')
  BY <1>4, ApartShrinks DEF SlicesPinned
<1>6. QED
  BY <1>1, <1>2, <1>3, <1>5 DEF FetchFails, SlicesPinned, PagerTypes, Apart, OneEach

(* A window read anew lies where nothing that is kept lies.                *)
LEMMA FetchReadsKeeps ==
  ASSUME SlicesPinned, NEW t \in Threads, FetchReads(t)
  PROVE  SlicesPinned'
<1> DEFINE at == CHOOSE a \in Address : \A w \in Used(Evicted) : w.at # a
           new == [id |-> request[t].id, at |-> at]
<1>1. /\ at \in Address /\ \A w \in Used(Evicted) : w.at # at
      /\ windows' = Append(Evicted, new) /\ Cached(t) = {}
      /\ Got(t, {new}) /\ UNCHANGED <<pinned, slice>>
  BY DEF FetchReads
<1>2. new \in Windows /\ new.at = at /\ new.id = request[t].id
  BY <1>1 DEF Windows, Requests, SlicesPinned, PagerTypes
<1> HIDE DEF at, new
<1>3. /\ request' \in [Threads -> Requests] /\ arc' \in [Threads -> SUBSET Windows]
      /\ \A u \in Threads : arc'[u] \subseteq arc[u] \union {new}
  BY <1>1, <1>2, GotTypes
<1>4. /\ Evicted \in Seq(Windows) /\ OneEach(Evicted)
      /\ Range(Evicted) \subseteq Range(windows) /\ Len(Evicted) + 1 <= MAX_WINDOWS
  BY EvictedKeeps
<1>5. \A w \in Range(Evicted) : w.id # new.id
  BY <1>1, <1>2, <1>4 DEF Cached
<1>6. /\ windows' \in Seq(Windows) /\ Len(windows') = Len(Evicted) + 1
      /\ \A k \in DOMAIN Evicted : windows'[k] = Evicted[k]
      /\ windows'[Len(Evicted) + 1] = new
  BY <1>1, <1>2, <1>4
<1>7. DOMAIN windows' = 1 .. Len(Evicted) + 1 /\ DOMAIN Evicted = 1 .. Len(Evicted)
      /\ Len(Evicted) \in Nat
  BY <1>4, <1>6
<1>8. OneEach(windows')
  <2> SUFFICES ASSUME NEW i \in DOMAIN windows', NEW j \in DOMAIN windows',
                      windows'[i].id = windows'[j].id
               PROVE  i = j
    BY DEF OneEach
  <2>1. CASE i \in DOMAIN Evicted /\ j \in DOMAIN Evicted
    BY <2>1, <1>4, <1>6 DEF OneEach
  <2>2. CASE i \in DOMAIN Evicted /\ j \notin DOMAIN Evicted
    <3>1. j = Len(Evicted) + 1 /\ Evicted[i] \in Range(Evicted)
      BY <2>2, <1>7 DEF Range
    <3>2. QED
      BY <2>2, <3>1, <1>5, <1>6
  <2>3. CASE i \notin DOMAIN Evicted /\ j \in DOMAIN Evicted
    <3>1. i = Len(Evicted) + 1 /\ Evicted[j] \in Range(Evicted)
      BY <2>3, <1>7 DEF Range
    <3>2. QED
      BY <2>3, <3>1, <1>5, <1>6
  <2>4. CASE i \notin DOMAIN Evicted /\ j \notin DOMAIN Evicted
    BY <2>4, <1>7
  <2>5. QED
    BY <2>1, <2>2, <2>3, <2>4
<1>9. Range(windows') \subseteq Range(Evicted) \union {new}
  BY <1>6, <1>7 DEF Range
<1>10. Held' \subseteq Used(Evicted) \union {new}
  BY <1>1, <1>3, <1>9 DEF Held, Used
<1>11. Used(Evicted) \subseteq Held
  BY <1>4 DEF Held, Used
<1>12. Apart(Held')
  <2>1. Apart(Used(Evicted))
    BY <1>11, ApartShrinks DEF SlicesPinned
  <2>2. QED
    BY <2>1, <1>1, <1>2, <1>10 DEF Apart
<1>13. Len(windows') <= MAX_WINDOWS
  BY <1>4, <1>6
<1>14. QED
  BY <1>1, <1>3, <1>6, <1>8, <1>12, <1>13 DEF SlicesPinned, PagerTypes, Apart, OneEach

(* The slice is of the window that is pinned in the same step.             *)
LEMMA PinKeeps ==
  ASSUME SlicesPinned, NEW t \in Threads, Pin(t)
  PROVE  SlicesPinned'
<1>1. request' \in [Threads -> Requests]
  BY DEF Pin, Returns, NoRequest, Requests, SlicesPinned, PagerTypes
<1>2. /\ arc' \in [Threads -> SUBSET Windows] /\ pinned' \in [Threads -> SUBSET Windows]
      /\ slice' \in [Threads -> SUBSET Windows]
  BY DEF Pin, Pinned, SlicesPinned, PagerTypes
<1>3. \A u \in Threads : slice'[u] \subseteq pinned'[u]
  BY DEF Pin, Pinned, SlicesPinned, PagerTypes
<1>4. \A u \in Threads : arc'[u] \union pinned'[u] \subseteq arc[u] \union pinned[u]
  BY DEF Pin, Pinned, SlicesPinned, PagerTypes
<1>5. Held' \subseteq Held
  BY <1>4 DEF Pin, Held, Used
<1>6. Apart(Held')
  BY <1>5, ApartShrinks DEF SlicesPinned
<1>7. QED
  BY <1>1, <1>2, <1>3, <1>6 DEF Pin, SlicesPinned, PagerTypes, Apart, OneEach

(* Every step of the pager, for whatever thread. *)
LEMMA PagerStepKeeps ==
  ASSUME SlicesPinned, NEW t \in Threads, PagerStep(t)
  PROVE  SlicesPinned'
BY LookupKeeps, FetchFoundKeeps, FetchReadsKeeps, FetchFailsKeeps, PinKeeps DEF PagerStep

(* Nothing else touches the windows. *)
LEMMA PagerRests ==
  ASSUME SlicesPinned, UNCHANGED pager
  PROVE  SlicesPinned'
BY DEF pager, SlicesPinned, PagerTypes, OneEach, Apart, Held, Used

-----------------------------------------------------------------------------

(* The thread of a search uses the pager by its steps alone. *)
LEMMA SearchThreadKeeps ==
  ASSUME SlicesPinned, SearchThread
  PROVE  SlicesPinned'
<1>1. search \in Threads
  BY SearchAssumption
<1>2. CASE NextPiece
  <2>1. UNCHANGED pager \/ Ask(search, "chunk", Piece.start + Offset(piece_idx))
    BY <1>2 DEF NextPiece
  <2>2. QED
    BY <2>1, <1>1, AskKeeps, PagerRests
<1>3. CASE SearchReads
  BY <1>1, <1>3, PagerStepKeeps DEF SearchReads
<1>4. CASE Match \/ Report
  BY <1>4, PagerRests DEF Match, Report
<1>5. CASE Reset
  BY <1>1, <1>5, UnpinKeeps DEF Reset
<1>6. QED
  BY <1>2, <1>3, <1>4, <1>5 DEF SearchThread

(* So does the thread of the editor. *)
LEMMA EditorKeeps ==
  ASSUME SlicesPinned, Next, ~SearchThread
  PROVE  SlicesPinned'
<1>1. main \in Threads
  BY SearchAssumption
<1>2. CASE Read
  BY <1>1, <1>2, AskKeeps DEF Read
<1>3. CASE ReadByte
  BY <1>1, <1>3, AskKeeps DEF ReadByte
<1>4. CASE MainReads
  BY <1>1, <1>4, PagerStepKeeps DEF MainReads
<1>5. CASE Edit \/ CancelSearch \/ Free
  BY <1>5, PagerRests DEF Edit, CancelSearch, Free
<1>6. CASE \E query \in Queries, start \in 0 .. Length : SearchAsync(query, start)
  BY <1>6, PagerRests DEF SearchAsync
<1>7. QED
  BY <1>2, <1>3, <1>4, <1>5, <1>6 DEF Next

(* While searches, reads, edits and the end of the engine interleave, what *)
(* a thread has a slice of (get_chunk) is pinned by it.                    *)
THEOREM SlicesStayPinned == Spec => []SlicesPinned
<1>1. Init => SlicesPinned
  BY PagerBegins DEF Init
<1>2. SlicesPinned /\ [Next]_vars => SlicesPinned'
  <2> SUFFICES ASSUME SlicesPinned, [Next]_vars PROVE SlicesPinned'
    OBVIOUS
  <2>1. CASE UNCHANGED vars
    BY <2>1, PagerRests DEF vars
  <2>2. CASE SearchThread
    BY <2>2, SearchThreadKeeps
  <2>3. CASE Next /\ ~SearchThread
    BY <2>3, EditorKeeps
  <2>4. QED
    BY <2>1, <2>2, <2>3
<1>3. QED
  BY <1>1, <1>2, PTL DEF Spec

(* A slice of a window stays valid until the thread's next call, however   *)
(* often the other threads evict the window (pager_32.rs: PINNED).         *)
THEOREM SlicesStayAlive == Spec => []SliceAlive
<1>1. SlicesPinned => SliceAlive
  <2> SUFFICES ASSUME SlicesPinned PROVE SliceAlive
    OBVIOUS
  <2>1. \A t \in Threads : slice[t] \subseteq Held
    BY DEF SlicesPinned, Held, Used
  <2>2. QED
    BY <2>1 DEF SlicesPinned, SliceAlive, OneEach, Apart
<1>2. QED
  BY <1>1, SlicesStayPinned, PTL

-----------------------------------------------------------------------------
(* What a save in strides copies.                                          *)

(* A number is a multiple of the divisor and what the division leaves.     *)
LEMMA Division ==
  ASSUME NEW a \in Nat, NEW b \in Nat \ {0}
  PROVE  /\ a \div b \in Nat /\ a % b \in Nat /\ a % b < b
         /\ (a \div b) * b \in Nat /\ a = (a \div b) * b + (a % b)
<1> DEFINE q == a \div b
<1>1. q \in Nat /\ q * b \in Nat /\ q * b <= a /\ a < q * b + b
  BY SMT
<1> HIDE DEF q
<1> DEFINE r == a - q * b
<1>2. r \in Nat /\ r < b /\ a = q * b + r
  <2> DEFINE m == q * b
  <2>1. m \in Nat /\ m <= a /\ a < m + b
    BY <1>1
  <2> HIDE DEF m
  <2>2. a - m \in Nat /\ a - m < b /\ a = m + (a - m)
    BY <2>1
  <2>3. QED
    BY <2>2 DEF m
<1> HIDE DEF r
<1>3. a % b = r
  BY <1>1, <1>2, SMT
<1>4. QED
  BY <1>1, <1>2, <1>3 DEF q

(* There is only one way to divide.                                        *)
LEMMA DivisionIs ==
  ASSUME NEW a \in Nat, NEW b \in Nat \ {0}, NEW q \in Nat, NEW r \in Nat, r < b, a = q * b + r
  PROVE  a \div b = q /\ a % b = r
<1>1. a \div b = q
  BY SMT
<1>2. a % b = r
  BY SMT
<1>3. QED
  BY <1>1, <1>2

(* Numbers in the same window, from a place in it on.                      *)
LEMMA SameWindow ==
  ASSUME NEW f \in Nat, NEW b \in Nat, f <= b
  PROVE  WindowOf(f) = WindowOf(b) <=> b < f + (WINDOW_SIZE - (f % WINDOW_SIZE))
<1> DEFINE W == WINDOW_SIZE
           q == f \div W
           r == f % W
           p == b \div W
           s == b % W
<1>1. W \in Nat \ {0}
  BY PagerAssumption
<1>2. q \in Nat /\ r \in Nat /\ r < W /\ q * W \in Nat /\ f = q * W + r
  BY <1>1, Division
<1>3. p \in Nat /\ s \in Nat /\ s < W /\ p * W \in Nat /\ b = p * W + s
  BY <1>1, Division
<1> HIDE DEF W, q, r, p, s
<1>4. q = p => b < f + (W - r)
  BY <1>1, <1>2, <1>3
<1>5. ASSUME b < f + (W - r) PROVE q = p
  <2> DEFINE e == b - q * W
  <2>1. e \in Nat /\ e < W /\ b = q * W + e
    <3> DEFINE m == q * W
    <3>1. m \in Nat /\ f = m + r
      BY <1>2
    <3> HIDE DEF m
    <3>2. b - m \in Nat /\ b - m < W /\ b = m + (b - m)
      BY <1>1, <1>2, <1>5, <3>1
    <3>3. QED
      BY <3>2 DEF m
  <2> HIDE DEF e
  <2>2. b \div W = q
    BY <1>1, <1>2, <2>1, DivisionIs
  <2>3. QED
    BY <2>2 DEF p
<1>6. QED
  BY <1>4, <1>5 DEF WindowOf, W, q, r, p

(* The stride a byte lies in.                                              *)
LEMMA Strides ==
  ASSUME NEW start \in Nat, NEW stride \in Nat \ {0}, NEW b \in Nat, start <= b
  PROVE  LET f == b - ((b - start) % stride)
         IN  /\ f \in Nat /\ start <= f /\ f <= b /\ b < f + stride /\ (f - start) % stride = 0
             /\ \A g \in Nat : start <= g /\ g <= b /\ b < g + stride /\ (g - start) % stride = 0 => g = f
<1> DEFINE d == b - start
           q == d \div stride
           r == d % stride
           f == b - r
<1>1. d \in Nat /\ b = start + d
  OBVIOUS
<1> HIDE DEF d
<1>2. q \in Nat /\ r \in Nat /\ r < stride /\ q * stride \in Nat /\ d = q * stride + r
  BY <1>1, Division
<1> HIDE DEF q, r
<1> DEFINE m == q * stride
<1>3. m \in Nat /\ d = m + r /\ m = q * stride + 0 /\ 0 < stride
  BY <1>2
<1>4. m % stride = 0
  BY <1>2, <1>3, DivisionIs
<1> HIDE DEF m
<1>5. f \in Nat /\ start <= f /\ f <= b /\ b < f + stride /\ f - start = m
  BY <1>1, <1>2, <1>3
<1>6. ASSUME NEW g \in Nat, start <= g, g <= b, b < g + stride, (g - start) % stride = 0
      PROVE  g = f
  <2> DEFINE h == g - start
             p == h \div stride
             e == b - g
  <2>1. h \in Nat /\ e \in Nat /\ e < stride /\ d = h + e /\ h % stride = 0
    BY <1>1, <1>6
  <2> HIDE DEF h, e
  <2>2. p \in Nat /\ h = p * stride + (h % stride)
    BY <2>1, Division
  <2> HIDE DEF p
  <2>3. d = p * stride + e
    <3>1. p * stride \in Nat
      BY <2>2
    <3> DEFINE n == p * stride
    <3>2. n \in Nat /\ h = n + 0
      BY <2>1, <2>2, <3>1
    <3> HIDE DEF n
    <3>3. d = n + e
      BY <2>1, <3>2
    <3>4. QED
      BY <3>3 DEF n
  <2>4. d % stride = e
    BY <1>1, <2>1, <2>2, <2>3, DivisionIs
  <2>5. e = r
    BY <2>4 DEF r
  <2>6. QED
    BY <1>5, <1>6, <2>5 DEF e, f
<1>7. QED
  BY <1>4, <1>5, <1>6 DEF f, r, d

(* The pieces of every version of the document are numbers of lines, those *)
(* of the file lie in it.                                                  *)
LEMMA DocumentPieces ==
  ASSUME NEW v \in DOMAIN Documents
  PROVE  LET d == Documents[v]
         IN  /\ d.pieces \in Seq(PieceTypes)
             /\ \A p \in Range(d.pieces) :
                  /\ p.kind \in {"original", "memory"} /\ p.start \in Nat /\ p.count \in Nat
                  /\ p.kind = "original" => p.start + p.count <= Length
<1> DEFINE d == Documents[v]
<1>1. d \in Range(Documents)
  BY DEF Range
<1> HIDE DEF d
<1>2. d.pieces \in Seq(PieceTypes)
      /\ \A p \in Range(d.pieces) : p.kind = "original" => p.start + p.count <= Length
  BY <1>1, DocumentsAssumption
<1>3. \A p \in Range(d.pieces) : p \in PieceTypes
  BY <1>2 DEF Range
<1>4. QED
  BY <1>2, <1>3 DEF PieceTypes, d

(* A stride copies up to the end of the window it begins in.               *)
LEMMA StrideCopies ==
  ASSUME NEW start \in Nat, NEW end \in Nat, end <= Length, NEW stride \in Nat \ {0},
         NEW b \in Nat, start <= b, b < end
  PROVE  LET f == b - ((b - start) % stride)
         IN  b \in Copied(start, end, stride) <=> WindowOf(f) = WindowOf(b)
<1> DEFINE f == b - ((b - start) % stride)
           room(g) == WINDOW_SIZE - (g % WINDOW_SIZE)
<1>1. WINDOW_SIZE \in Nat \ {0} /\ Length \in Nat
  BY PagerAssumption
<1>2. /\ f \in Nat /\ start <= f /\ f <= b /\ b < f + stride /\ (f - start) % stride = 0
      /\ \A g \in Nat : start <= g /\ g <= b /\ b < g + stride /\ (g - start) % stride = 0 => g = f
  BY Strides
<1> HIDE DEF f
<1>3. WindowOf(f) = WindowOf(b) <=> b < f + room(f)
  BY <1>2, SameWindow
<1>4. ASSUME NEW g \in Nat PROVE room(g) \in Nat
  BY <1>1, Division
<1> HIDE DEF room
<1>5. ASSUME NEW g \in Nat, g < end
      PROVE  b \in Prefix(g, Shorter(stride, end - g)) <=> g <= b /\ b < g + stride /\ b < g + room(g)
  <2> DEFINE n == Shorter(stride, end - g)
             m == Shorter(n, room(g))
             last == Shorter(g + m, Length)
  <2>1. n \in Nat /\ (b < g + n <=> b < g + stride)
    BY <1>5 DEF Shorter
  <2> HIDE DEF n
  <2>2. m \in Nat /\ (b < g + m <=> b < g + n /\ b < g + room(g))
    BY <1>4, <2>1 DEF Shorter
  <2>3. Prefix(g, n) = g .. last - 1
    BY DEF Prefix, room
  <2> HIDE DEF m
  <2>4. last \in Nat /\ (b < last <=> b < g + m)
    BY <1>1, <2>2 DEF Shorter
  <2> HIDE DEF last
  <2>5. b \in Prefix(g, n) <=> g <= b /\ b < last
    BY <2>3, <2>4
  <2>6. QED
    BY <2>1, <2>2, <2>4, <2>5 DEF n
<1>6. b \in Copied(start, end, stride) <=>
        \E g \in start .. end - 1 :
          (g - start) % stride = 0 /\ b \in Prefix(g, Shorter(stride, end - g))
  BY DEF Copied
<1>7. ASSUME b < f + room(f) PROVE b \in Copied(start, end, stride)
  <2>1. f \in start .. end - 1 /\ f < end
    BY <1>2
  <2>2. b \in Prefix(f, Shorter(stride, end - f))
    BY <1>2, <1>5, <1>7, <2>1
  <2>3. QED
    BY <1>2, <1>6, <2>1, <2>2
<1>8. ASSUME b \in Copied(start, end, stride) PROVE b < f + room(f)
  <2>1. PICK g \in start .. end - 1 :
          (g - start) % stride = 0 /\ b \in Prefix(g, Shorter(stride, end - g))
    BY <1>6, <1>8
  <2>2. g \in Nat /\ start <= g /\ g < end
    OBVIOUS
  <2>3. g <= b /\ b < g + stride /\ b < g + room(g)
    BY <1>5, <2>1, <2>2
  <2>4. g = f
    BY <1>2, <2>1, <2>2, <2>3
  <2>5. QED
    BY <2>3, <2>4
<1>9. QED
  BY <1>3, <1>7, <1>8 DEF f

(* A stride that begins at a multiple of its size lies in one window, if   *)
(* the size divides that of a window.                                      *)
LEMMA AlignedStride ==
  ASSUME NEW stride \in Nat \ {0}, WINDOW_SIZE % stride = 0,
         NEW start \in Nat, start % stride = 0, NEW b \in Nat, start <= b
  PROVE  WindowOf(b - ((b - start) % stride)) = WindowOf(b)
<1> DEFINE f == b - ((b - start) % stride)
           n == WINDOW_SIZE \div stride
           m == f \div stride
           s == start \div stride
<1>1. WINDOW_SIZE \in Nat \ {0}
  BY PagerAssumption
<1>2. f \in Nat /\ start <= f /\ f <= b /\ b < f + stride /\ (f - start) % stride = 0
  BY Strides
<1> HIDE DEF f
<1>3. n \in Nat /\ WINDOW_SIZE = n * stride
  <2>1. n \in Nat /\ n * stride \in Nat /\ WINDOW_SIZE = n * stride + (WINDOW_SIZE % stride)
    BY <1>1, Division
  <2>2. QED
    BY <2>1
<1> HIDE DEF n
<1>4. PICK m0 \in Nat : f = m0 * stride
  <2> DEFINE e == f - start
             u == e \div stride
  <2>1. s \in Nat /\ s * stride \in Nat /\ start = s * stride + (start % stride)
    BY Division
  <2>2. e \in Nat /\ f = start + e /\ e % stride = 0
    BY <1>2
  <2> HIDE DEF e
  <2>3. u \in Nat /\ u * stride \in Nat /\ e = u * stride + (e % stride)
    BY <2>2, Division
  <2> HIDE DEF s, u
  <2>4. (s + u) * stride = s * stride + u * stride
    BY <2>1, <2>3, SMT
  <2>5. s + u \in Nat /\ f = (s + u) * stride
    BY <2>1, <2>2, <2>3, <2>4
  <2>6. QED
    BY <2>5
<1>5. PICK p \in Nat, r \in Nat : r < n /\ m0 = p * n + r
  <2>1. n # 0
    BY <1>1, <1>3
  <2>2. m0 \div n \in Nat /\ m0 % n \in Nat /\ m0 % n < n /\ m0 = (m0 \div n) * n + (m0 % n)
    BY <1>3, <2>1, Division
  <2>3. QED
    BY <2>2
<1>6. PICK k \in Nat : k < stride /\ b = f + k
  <2>1. b - f \in Nat /\ b - f < stride /\ b = f + (b - f)
    BY <1>2
  <2>2. QED
    BY <2>1
<1>7. /\ m0 * stride = p * (n * stride) + r * stride
      /\ r * stride \in Nat /\ p * (n * stride) \in Nat
      /\ r * stride + stride <= n * stride
  <2>1. (p * n + r) * stride = (p * n) * stride + r * stride /\ (p * n) * stride = p * (n * stride)
    BY <1>3, <1>5, SMT
  <2>2. (r + 1) * stride <= n * stride /\ (r + 1) * stride = r * stride + stride
    BY <1>3, <1>5, SMT
  <2>3. r * stride \in Nat /\ p * (n * stride) \in Nat
    BY <1>3, <1>5, SMT
  <2>4. QED
    BY <1>5, <2>1, <2>2, <2>3
<1> DEFINE W == WINDOW_SIZE
           c == p * W
           d == r * stride
<1>8. /\ W \in Nat \ {0} /\ c \in Nat /\ d \in Nat /\ f = c + d /\ b = c + (d + k)
      /\ d + stride <= W
  BY <1>1, <1>3, <1>4, <1>6, <1>7
<1>9. c = p * W
  OBVIOUS
<1> HIDE DEF W, c, d
<1>10. f = p * W + d /\ d < W /\ b = p * W + (d + k) /\ d + k \in Nat /\ d + k < W
  BY <1>6, <1>8, <1>9
<1>11. f \div W = p /\ b \div W = p
  BY <1>2, <1>8, <1>10, DivisionIs
<1>12. QED
  BY <1>11 DEF WindowOf, f, W

(* What strides that divide a window lose.                                 *)
LEMMA StridesLose ==
  ASSUME NEW start \in Nat, NEW end \in Nat, end <= Length,
         NEW stride \in 1 .. WINDOW_SIZE, WINDOW_SIZE % stride = 0
  PROVE  \A b \in start .. end - 1 :
           /\ b \in Copied(start, end, stride)
                 <=> WindowOf(b - ((b - start) % stride)) = WindowOf(b)
           /\ start % stride = 0 => b \in Copied(start, end, stride)
<1>1. stride \in Nat \ {0}
  BY PagerAssumption
<1>2. ASSUME NEW b \in start .. end - 1
      PROVE  /\ b \in Copied(start, end, stride)
                  <=> WindowOf(b - ((b - start) % stride)) = WindowOf(b)
             /\ start % stride = 0 => WindowOf(b - ((b - start) % stride)) = WindowOf(b)
  <2>1. b \in Nat /\ start <= b /\ b < end
    OBVIOUS
  <2>2. b \in Copied(start, end, stride) <=> WindowOf(b - ((b - start) % stride)) = WindowOf(b)
    BY <1>1, <2>1, StrideCopies
  <2>3. start % stride = 0 => WindowOf(b - ((b - start) % stride)) = WindowOf(b)
    BY <1>1, <2>1, AlignedStride
  <2>4. QED
    BY <2>2, <2>3
<1>3. QED
  BY <1>2

(* What a save loses of the pieces of a version of the document.           *)
LEMMA SavedPieces ==
  ASSUME version \in DOMAIN Documents
  PROVE  SaveCopies
<1>1. ASSUME NEW p \in Range(Documents[version].pieces),
             NEW stride \in 1 .. WINDOW_SIZE, WINDOW_SIZE % stride = 0, p.kind = "original"
      PROVE  /\ p.start % stride = 0 =>
                  (p.start .. p.start + p.count - 1)
                    \ Copied(p.start, p.start + p.count, stride) = {}
             /\ (p.start .. p.start + p.count - 1)
                  \ Copied(p.start, p.start + p.count, stride)
                = {b \in p.start .. p.start + p.count - 1 :
                     WindowOf(b - ((b - p.start) % stride)) # WindowOf(b)}
  <2> DEFINE start == p.start
             count == p.count
  <2>1. start \in Nat /\ count \in Nat /\ start + count <= Length
    BY <1>1, DocumentPieces
  <2> HIDE DEF start, count
  <2>2. \A b \in start .. start + count - 1 :
          /\ b \in Copied(start, start + count, stride)
                <=> WindowOf(b - ((b - start) % stride)) = WindowOf(b)
          /\ start % stride = 0 => b \in Copied(start, start + count, stride)
    <3> DEFINE end == start + count
    <3>1. end \in Nat /\ end <= Length /\ start + count - 1 = end - 1
      BY <2>1
    <3> HIDE DEF end
    <3>2. \A b \in start .. end - 1 :
            /\ b \in Copied(start, end, stride)
                  <=> WindowOf(b - ((b - start) % stride)) = WindowOf(b)
            /\ start % stride = 0 => b \in Copied(start, end, stride)
      BY <1>1, <2>1, <3>1, StridesLose, Zenon
    <3>3. QED
      BY <3>1, <3>2 DEF end
  <2>3. start % stride = 0 => (start .. start + count - 1) \ Copied(start, start + count, stride) = {}
    BY <2>2, Zenon
  <2>4. (start .. start + count - 1) \ Copied(start, start + count, stride)
          = {b \in start .. start + count - 1 : WindowOf(b - ((b - start) % stride)) # WindowOf(b)}
    BY <2>2, Zenon
  <2>5. QED
    BY <2>3, <2>4, Zenon DEF start, count
<1>2. QED
  BY <1>1 DEF SaveCopies

-----------------------------------------------------------------------------
(* Places in the copied piece table.                                       *)

(* The thread has the piece table of a version, and a place to start from. *)
JobTaken ==
  /\ \E v \in DOMAIN Documents : job.document = Documents[v]
  /\ job.start \in Nat

(* The lines of a piece follow those of the pieces before it.              *)
LEMMA PiecesFollow ==
  ASSUME JobTaken
  PROVE  /\ Pieces \in Seq(PieceTypes) /\ Len(Pieces) \in Nat /\ DOMAIN Pieces = 1 .. Len(Pieces)
         /\ LinesBefore(1) = 0
         /\ \A i \in 1 .. Len(Pieces) + 1 : LinesBefore(i) \in Nat
         /\ \A i \in 1 .. Len(Pieces) :
              /\ Pieces[i].kind \in {"original", "memory"}
              /\ Pieces[i].count \in Nat /\ Pieces[i].start \in Nat
              /\ LinesBefore(i + 1) = LinesBefore(i) + Pieces[i].count
<1> DEFINE c == [k \in DOMAIN Pieces |-> Pieces[k].count]
           n == Len(Pieces)
<1>1. PICK v \in DOMAIN Documents : job.document = Documents[v]
  BY DEF JobTaken
<1>2. Pieces \in Seq(PieceTypes) /\ \A p \in Range(Pieces) : p \in PieceTypes
  <2>1. Pieces \in Seq(PieceTypes)
    BY <1>1, DocumentPieces DEF Pieces
  <2>2. QED
    BY <2>1 DEF Range
<1>3. n \in Nat /\ DOMAIN Pieces = 1 .. n
  BY <1>2
<1>4. \A i \in 1 .. n : Pieces[i].kind \in {"original", "memory"} /\ Pieces[i].count \in Nat
                        /\ Pieces[i].start \in Nat
  <2>1. \A i \in 1 .. n : Pieces[i] \in PieceTypes
    BY <1>2, <1>3 DEF Range
  <2> HIDE DEF n
  <2>2. QED
    BY <2>1 DEF PieceTypes
<1>5. \A i \in 1 .. n : c[i] = Pieces[i].count /\ c[i] \in Nat
  BY <1>3, <1>4
<1>6. \A i \in Int : LinesBefore(i) = SumFunctionOnSet(c, 1 .. i - 1)
  BY DEF LinesBefore
<1> HIDE DEF c, n
<1>7. ASSUME NEW i \in 0 .. n
      PROVE  /\ LinesBefore(i + 1) \in Nat
             /\ i = 0 => LinesBefore(i + 1) = 0
             /\ i # 0 => LinesBefore(i + 1) = LinesBefore(i) + c[i]
  <2>1. i \in Nat /\ i + 1 \in Int /\ i + 1 - 1 = i /\ \A k \in 1 .. i : c[k] \in Nat
    BY <1>3, <1>5
  <2>2. /\ SumFunctionOnSet(c, 1 .. i) \in Nat
        /\ i = 0 => SumFunctionOnSet(c, 1 .. i) = 0
        /\ i # 0 => SumFunctionOnSet(c, 1 .. i) = SumFunctionOnSet(c, 1 .. i - 1) + c[i]
    BY <2>1, SumOfFirst
  <2>3. LinesBefore(i + 1) = SumFunctionOnSet(c, 1 .. i)
    <3> DEFINE j == i + 1
    <3>1. j \in Int /\ j - 1 = i
      BY <2>1
    <3> HIDE DEF j
    <3>2. LinesBefore(j) = SumFunctionOnSet(c, 1 .. i)
      BY <1>6, <3>1
    <3>3. QED
      BY <3>2 DEF j
  <2>4. LinesBefore(i) = SumFunctionOnSet(c, 1 .. i - 1)
    BY <1>6, <2>1
  <2>5. QED
    BY <2>2, <2>3, <2>4
<1>8. LinesBefore(1) = 0
  <2> DEFINE z == 0
  <2>1. z \in 0 .. n /\ z + 1 = 1 /\ z = 0
    BY <1>3
  <2> HIDE DEF z
  <2>2. LinesBefore(z + 1) = 0
    BY <1>7, <2>1
  <2>3. QED
    BY <2>1, <2>2
<1>9. ASSUME NEW i \in 1 .. n + 1 PROVE LinesBefore(i) \in Nat
  <2> DEFINE z == i - 1
  <2>1. z \in 0 .. n /\ z + 1 = i
    BY <1>3
  <2> HIDE DEF z
  <2>2. LinesBefore(z + 1) \in Nat
    BY <1>7, <2>1
  <2>3. QED
    BY <2>1, <2>2
<1>10. ASSUME NEW i \in 1 .. n PROVE LinesBefore(i + 1) = LinesBefore(i) + Pieces[i].count
  <2>1. i \in 0 .. n /\ i # 0
    BY <1>3
  <2>2. QED
    BY <1>5, <1>7, <2>1
<1>11. QED
  BY <1>2, <1>3, <1>4, <1>8, <1>9, <1>10 DEF n

(* So they lie further down, ...                                           *)
LEMMA PiecesInOrder ==
  ASSUME JobTaken, NEW i \in 1 .. Len(Pieces) + 1, NEW j \in 1 .. Len(Pieces) + 1, i <= j
  PROVE  LinesBefore(i) <= LinesBefore(j)
<1> DEFINE n == Len(Pieces)
           L(k) == LinesBefore(k)
           S == {d \in Nat : \A k \in 1 .. n + 1 : k = i + d => L(i) <= L(k)}
<1>1. n \in Nat /\ \A k \in 1 .. n + 1 : L(k) \in Nat
  BY PiecesFollow
<1>2. \A k \in 1 .. n : L(k) <= L(k + 1)
  <2>1. ASSUME NEW k \in 1 .. n PROVE L(k) <= L(k + 1)
    <3>1. Pieces[k].count \in Nat /\ L(k + 1) = L(k) + Pieces[k].count /\ L(k) \in Nat
      BY <1>1, PiecesFollow
    <3> HIDE DEF L
    <3>2. QED
      BY <3>1
  <2>2. QED
    BY <2>1
<1> HIDE DEF L
<1>3. i \in 1 .. n + 1 /\ j \in 1 .. n + 1
  OBVIOUS
<1> HIDE DEF n
<1>4. 0 \in S
  BY <1>1, <1>3
<1>5. ASSUME NEW d \in Nat, d \in S PROVE d + 1 \in S
  <2>1. ASSUME NEW k \in 1 .. n + 1, k = i + (d + 1) PROVE L(i) <= L(k)
    <3>1. k - 1 \in 1 .. n /\ k - 1 \in 1 .. n + 1 /\ k - 1 = i + d /\ (k - 1) + 1 = k
      BY <1>1, <1>3, <2>1
    <3>2. L(i) <= L(k - 1) /\ L(k - 1) <= L(k)
      BY <1>2, <1>5, <3>1
    <3>3. QED
      BY <1>1, <1>3, <3>1, <3>2
  <2>2. QED
    BY <2>1
<1> HIDE DEF S
<1>6. \A d \in Nat : d \in S
  BY <1>4, <1>5, SetInduction
<1>7. j - i \in Nat /\ j = i + (j - i)
  BY <1>1, <1>3
<1>8. L(i) <= L(j)
  BY <1>3, <1>6, <1>7 DEF S
<1>9. QED
  BY <1>8 DEF L

(* ... and a line lies in one of them.                                     *)
LEMMA StartIsInPiece ==
  ASSUME JobTaken
  PROVE  /\ StartPiece \in 1 .. Len(Pieces) + 1
         /\ LinesBefore(StartPiece) <= job.start
         /\ StartPiece <= Len(Pieces) => job.start < LinesBefore(StartPiece + 1)
<1> DEFINE n == Len(Pieces)
           Holds(i) == LinesBefore(i) <= job.start /\ job.start < LinesBefore(i + 1)
           s == CHOOSE i \in DOMAIN Pieces : Holds(i)
<1>1. /\ n \in Nat /\ DOMAIN Pieces = 1 .. n /\ LinesBefore(1) = 0
      /\ \A i \in 1 .. n + 1 : LinesBefore(i) \in Nat
  BY PiecesFollow
<1>2. job.start \in Nat
  BY DEF JobTaken
<1>3. CASE job.start >= TotalLines
  <2>1. StartPiece = n + 1
    BY <1>3 DEF StartPiece
  <2>2. LinesBefore(n + 1) <= job.start
    <3>1. TotalLines \in Nat /\ TotalLines = LinesBefore(n + 1)
      BY <1>1 DEF TotalLines
    <3>2. QED
      BY <1>2, <1>3, <3>1
  <2>3. ~(n + 1 <= n) /\ n + 1 \in 1 .. n + 1
    BY <1>1
  <2> HIDE DEF n
  <2>4. QED
    BY <2>1, <2>2, <2>3 DEF n
<1>4. CASE ~(job.start >= TotalLines)
  <2> DEFINE S == {i \in 1 .. n : job.start < LinesBefore(i + 1)}
             i == Min(S)
  <2>1. job.start < LinesBefore(n + 1)
    <3>1. TotalLines \in Nat /\ TotalLines = LinesBefore(n + 1)
      BY <1>1 DEF TotalLines
    <3>2. QED
      BY <1>2, <1>4, <3>1
  <2>2. n # 0
    BY <1>1, <1>2, <2>1
  <2>3. n \in S
    BY <1>1, <2>1, <2>2
  <2>4. S \in SUBSET Nat /\ S # {}
    BY <2>3
  <2> HIDE DEF S
  <2>5. i \in S /\ \A j \in S : i <= j
    BY <2>4, LeastExists
  <2> HIDE DEF i
  <2>6. i \in 1 .. n /\ job.start < LinesBefore(i + 1)
    BY <2>5 DEF S
  <2>7. LinesBefore(i) <= job.start
    <3>1. CASE i = 1
      BY <1>1, <1>2, <3>1
    <3>2. CASE i # 1
      <4>1. i - 1 \in 1 .. n /\ (i - 1) + 1 = i /\ ~(i <= i - 1) /\ i \in 1 .. n + 1
        BY <1>1, <2>6, <3>2
      <4>2. i - 1 \notin S
        BY <2>5, <4>1
      <4>3. ~(job.start < LinesBefore(i))
        BY <4>1, <4>2 DEF S
      <4>4. QED
        BY <1>1, <1>2, <4>1, <4>3
    <3>3. QED
      BY <3>1, <3>2
  <2>8. Holds(i)
    BY <2>6, <2>7
  <2>9. s \in DOMAIN Pieces /\ Holds(s)
    <3>1. \E k \in DOMAIN Pieces : Holds(k)
      BY <1>1, <2>6, <2>8
    <3> HIDE DEF Holds
    <3>2. QED
      BY <3>1, Zenon
  <2>10. StartPiece = s
    BY <1>4 DEF StartPiece
  <2> HIDE DEF s
  <2>11. s \in 1 .. n + 1
    BY <1>1, <2>9
  <2>12. QED
    BY <2>9, <2>10, <2>11
<1>5. QED
  BY <1>3, <1>4

(* The lines of the document are those of the pieces.                      *)
LEMMA DocLines ==
  ASSUME JobTaken, NEW i \in 1 .. Len(Pieces), NEW k \in Nat, k < Pieces[i].count
  PROVE  Doc[LinesBefore(i) + k + 1] = Line(i, k)
<1> DEFINE n == Len(Pieces)
           lines(j) == [m \in 1 .. Pieces[j].count |-> Line(j, m - 1)]
           ss == [j \in DOMAIN Pieces |-> lines(j)]
           c == [j \in DOMAIN Pieces |-> Pieces[j].count]
           S == {Line(j, m) : j \in 1 .. n, m \in Nat}
           q == k + 1
<1>1. n \in Nat /\ DOMAIN Pieces = 1 .. n /\ \A j \in 1 .. n : Pieces[j].count \in Nat
  BY PiecesFollow
<1>2. ASSUME NEW j \in 1 .. n PROVE lines(j) \in Seq(S) /\ Len(lines(j)) = Pieces[j].count
  <2>1. \A m \in 1 .. Pieces[j].count : Line(j, m - 1) \in S
    <3>1. ASSUME NEW m \in 1 .. Pieces[j].count PROVE m - 1 \in Nat
      BY <1>1
    <3>2. QED
      BY <3>1
  <2> HIDE DEF S
  <2>2. QED
    BY <1>1, <2>1
<1> HIDE DEF S, lines
<1>3. ss \in Seq(Seq(S)) /\ Len(ss) = n /\ \A j \in 1 .. n : ss[j] = lines(j)
  BY <1>1, <1>2
<1>4. \A j \in 1 .. n : c[j] = Pieces[j].count
  BY <1>1
<1>5. LinesBefore(i) = SumFunctionOnSet(c, 1 .. i - 1)
  BY DEF LinesBefore
<1>6. Doc = FlattenSeq(ss)
  BY DEF Doc, lines
<1> HIDE DEF ss, c
<1>7. \A j \in 1 .. Len(ss) : c[j] = Len(ss[j])
  BY <1>2, <1>3, <1>4
<1>8. i \in 1 .. Len(ss) /\ q \in 1 .. Len(ss[i]) /\ i \in 1 .. n /\ ss[i] = lines(i)
  BY <1>1, <1>2, <1>3
<1> HIDE DEF q
<1>9. /\ SumFunctionOnSet(c, 1 .. i - 1) \in Nat
      /\ FlattenSeq(ss)[SumFunctionOnSet(c, 1 .. i - 1) + q] = ss[i][q]
  <2>1. ss \in Seq(Seq(S))
    BY <1>3
  <2>2. i \in 1 .. Len(ss)
    BY <1>8
  <2>3. q \in 1 .. Len(ss[i])
    BY <1>8
  <2>4. QED
    BY <1>7, <2>1, <2>2, <2>3, FlattenAt, Zenon
<1>10. lines(i)[q] = Line(i, k)
  <2>1. q \in 1 .. Pieces[i].count /\ q - 1 = k
    BY <1>1 DEF q
  <2>2. lines(i)[q] = Line(i, q - 1)
    BY <2>1 DEF lines
  <2>3. QED
    BY <2>1, <2>2
<1>11. LinesBefore(i) + k + 1 = LinesBefore(i) + q
  BY <1>5, <1>9 DEF q
<1>12. QED
  BY <1>5, <1>6, <1>8, <1>9, <1>10, <1>11

(* Where the pieces are entered: the first at the start of the search, the *)
(* others at their first lines.                                            *)
LEMMA PlacesEntered ==
  ASSUME JobTaken, NEW i \in 1 .. Len(Pieces) + 1, StartPiece <= i
  PROVE  /\ Offset(i) \in Nat /\ job.start <= LinesBefore(i) + Offset(i)
         /\ i <= Len(Pieces) => Offset(i) <= Pieces[i].count
         /\ i = StartPiece => LinesBefore(i) + Offset(i) = job.start
         /\ i # StartPiece => Offset(i) = 0
<1>1. job.start \in Nat
  BY DEF JobTaken
<1>2. /\ Len(Pieces) \in Nat
      /\ \A j \in 1 .. Len(Pieces) + 1 : LinesBefore(j) \in Nat
      /\ \A j \in 1 .. Len(Pieces) :
           Pieces[j].count \in Nat /\ LinesBefore(j + 1) = LinesBefore(j) + Pieces[j].count
  BY PiecesFollow
<1>3. /\ StartPiece \in 1 .. Len(Pieces) + 1 /\ LinesBefore(StartPiece) <= job.start
      /\ StartPiece <= Len(Pieces) => job.start < LinesBefore(StartPiece + 1)
  BY StartIsInPiece
<1>4. CASE i = StartPiece
  <2>1. Offset(i) = job.start - LinesBefore(i)
    BY <1>4 DEF Offset
  <2>2. LinesBefore(i) \in Nat /\ LinesBefore(i) <= job.start
    BY <1>2, <1>3, <1>4
  <2>3. i <= Len(Pieces) => job.start < LinesBefore(i) + Pieces[i].count /\ Pieces[i].count \in Nat
    <3>1. i <= Len(Pieces) => i \in 1 .. Len(Pieces)
      BY <1>2
    <3>2. QED
      BY <1>2, <1>3, <1>4, <3>1
  <2>4. QED
    BY <1>1, <1>4, <2>1, <2>2, <2>3
<1>5. CASE i # StartPiece
  <2> DEFINE s == StartPiece + 1
  <2>1. Offset(i) = 0
    BY <1>5 DEF Offset
  <2>2. s \in 1 .. Len(Pieces) + 1 /\ s <= i /\ StartPiece <= Len(Pieces)
    BY <1>2, <1>3, <1>5
  <2>3. job.start < LinesBefore(s)
    BY <1>3, <2>2
  <2> HIDE DEF s
  <2>4. LinesBefore(s) <= LinesBefore(i)
    BY <2>2, PiecesInOrder
  <2>5. LinesBefore(s) \in Nat /\ LinesBefore(i) \in Nat
    BY <1>2, <2>2
  <2>6. job.start <= LinesBefore(i) + 0
    BY <1>1, <2>3, <2>4, <2>5
  <2>7. i <= Len(Pieces) => 0 <= Pieces[i].count
    BY <1>2
  <2>8. QED
    BY <1>5, <2>1, <2>6, <2>7
<1>6. QED
  BY <1>4, <1>5

(* Only lines of the piece are looked at, from where it was entered.       *)
LEMMA SeenInPiece ==
  ASSUME JobTaken, NEW i \in 1 .. Len(Pieces), StartPiece <= i
  PROVE  Seen(i) \subseteq Offset(i) .. Pieces[i].count - 1
<1> DEFINE p == Pieces[i]
           off == Offset(i)
           first == p.start + off
           n == p.count - off
           room == WINDOW_SIZE - (first % WINDOW_SIZE)
           m == Shorter(n, room)
           last == Shorter(first + m, Length)
<1>1. i \in 1 .. Len(Pieces) + 1 /\ i <= Len(Pieces)
  BY PiecesFollow
<1>2. off \in Nat /\ off <= p.count /\ p.start \in Nat /\ p.count \in Nat
  BY <1>1, PlacesEntered, PiecesFollow
<1>3. CASE p.kind = "memory"
  BY <1>3 DEF Seen
<1>4. CASE p.kind # "memory"
  <2>1. Seen(i) = {line - p.start : line \in Prefix(first, n)}
    BY <1>4 DEF Seen
  <2>2. Prefix(first, n) = first .. last - 1
    BY DEF Prefix
  <2> HIDE DEF p, off
  <2>3. first \in Nat /\ n \in Nat /\ WINDOW_SIZE \in Nat \ {0} /\ Length \in Nat
    BY <1>2, PagerAssumption
  <2> HIDE DEF first
  <2>4. room \in Nat
    BY <2>3, Division
  <2> HIDE DEF room
  <2>5. m \in Nat /\ m <= n
    BY <2>3, <2>4 DEF Shorter
  <2> HIDE DEF m
  <2>6. last \in Nat /\ last <= first + n
    BY <2>3, <2>5 DEF Shorter
  <2> HIDE DEF last
  <2>7. ASSUME NEW line \in first .. last - 1 PROVE line - p.start \in off .. p.count - 1
    BY <1>2, <2>6 DEF first
  <2>8. QED
    BY <2>1, <2>2, <2>7 DEF p, off
<1>5. QED
  BY <1>3, <1>4

-----------------------------------------------------------------------------
(* The walk.                                                               *)

(* The matches no window hides.                                            *)
Visible == Matches \ Unseen

(* The answer of a search that was not cancelled.                          *)
FirstVisible == IF Visible = {} THEN -2 ELSE Min(Visible)

(* What is a match, and what of it is behind a window.                     *)
LEMMA VisibleIn ==
  ASSUME JobTaken
  PROVE  /\ Matches \in SUBSET Nat
         /\ \A m \in Int : m \in Matches <=>
              job.start <= m /\ m < LinesBefore(Len(Pieces) + 1) /\ Doc[m + 1] \in job.query
         /\ \A m : m \in Unseen <=>
              \E i \in StartPiece .. Len(Pieces) :
                \E k \in Offset(i) .. Pieces[i].count - 1 : k \notin Seen(i) /\ m = LinesBefore(i) + k
<1>1. job.start \in Nat /\ LinesBefore(Len(Pieces) + 1) \in Nat
  <2> DEFINE n == Len(Pieces) + 1
  <2>1. n \in 1 .. n /\ n = Len(Pieces) + 1
    BY PiecesFollow
  <2> HIDE DEF n
  <2>2. LinesBefore(n) \in Nat
    BY <2>1, PiecesFollow
  <2>3. QED
    BY <2>2 DEF JobTaken, n
<1>2. Matches = {m \in job.start .. LinesBefore(Len(Pieces) + 1) - 1 : Doc[m + 1] \in job.query}
  BY DEF Matches, TotalLines
<1>3. Matches \in SUBSET Nat /\ \A m \in Int : m \in Matches <=>
        job.start <= m /\ m < LinesBefore(Len(Pieces) + 1) /\ Doc[m + 1] \in job.query
  BY <1>1, <1>2
<1>4. \A m : m \in Unseen <=>
        \E i \in StartPiece .. Len(Pieces) :
          \E k \in Offset(i) .. Pieces[i].count - 1 : k \notin Seen(i) /\ m = LinesBefore(i) + k
  <2> DEFINE part(i) == {LinesBefore(i) + k : k \in (Offset(i) .. Pieces[i].count - 1) \ Seen(i)}
  <2>1. Unseen = UNION {part(i) : i \in StartPiece .. Len(Pieces)}
    BY DEF Unseen
  <2>2. \A i, m : m \in part(i) <=>
          \E k \in Offset(i) .. Pieces[i].count - 1 : k \notin Seen(i) /\ m = LinesBefore(i) + k
    OBVIOUS
  <2> HIDE DEF part
  <2>3. \A m : m \in Unseen <=> \E i \in StartPiece .. Len(Pieces) : m \in part(i)
    BY <2>1
  <2>4. QED
    BY <2>2, <2>3
<1>5. QED
  BY <1>3, <1>4

(* What is found in a piece is a match that can be seen, and what can be   *)
(* seen of it is found.                                                    *)
LEMMA HitsAreVisible ==
  ASSUME JobTaken, NEW i \in 1 .. Len(Pieces), StartPiece <= i,
         NEW k \in Offset(i) .. Pieces[i].count - 1
  PROVE  k \in Hits(i) <=> LinesBefore(i) + k \in Visible
<1> DEFINE L(j) == LinesBefore(j)
           n == Len(Pieces)
<1>1. /\ n \in Nat /\ i \in 1 .. n /\ i \in 1 .. n + 1 /\ i + 1 \in 1 .. n + 1
      /\ \A j \in 1 .. n + 1 : L(j) \in Nat
      /\ \A j \in 1 .. n : Pieces[j].count \in Nat /\ L(j + 1) = L(j) + Pieces[j].count
  BY PiecesFollow
<1>2. job.start \in Nat /\ StartPiece \in 1 .. n + 1
  BY StartIsInPiece DEF JobTaken
<1>3. Offset(i) \in Nat /\ job.start <= L(i) + Offset(i)
  BY <1>1, PlacesEntered
<1>4. k \in Nat /\ Offset(i) <= k /\ k < Pieces[i].count
  BY <1>1, <1>3
<1>5. L(i) + k \in Int /\ job.start <= L(i) + k /\ L(i) + k < L(i + 1)
  BY <1>1, <1>2, <1>3, <1>4
<1>6. L(i + 1) <= L(n + 1)
  <2> DEFINE j == i + 1
             e == n + 1
  <2>1. j \in 1 .. n + 1 /\ e \in 1 .. n + 1 /\ j <= e
    BY <1>1
  <2> HIDE DEF j, e
  <2>2. L(j) <= L(e)
    BY <2>1, PiecesInOrder
  <2>3. QED
    BY <2>2 DEF j, e
<1>7. Doc[L(i) + k + 1] = Line(i, k)
  BY <1>4, DocLines
<1>8. L(i) + k \in Matches <=> Line(i, k) \in job.query
  <2> DEFINE m == L(i) + k
  <2>1. L(n + 1) \in Nat /\ L(i + 1) \in Nat
    <3> DEFINE j == i + 1
               e == n + 1
    <3>1. j \in 1 .. n + 1 /\ e \in 1 .. n + 1
      BY <1>1
    <3> HIDE DEF j, e, L
    <3>2. L(j) \in Nat /\ L(e) \in Nat
      BY <1>1, <3>1
    <3>3. QED
      BY <3>2 DEF j, e
  <2>2. m \in Int /\ job.start <= m /\ m < L(n + 1) /\ Doc[m + 1] = Line(i, k)
    BY <1>5, <1>6, <1>7, <2>1
  <2> HIDE DEF m
  <2>3. QED
    BY <2>2, VisibleIn DEF m
<1> HIDE DEF L
<1>9. ASSUME L(i) + k \in Unseen PROVE k \notin Seen(i)
  <2>1. PICK j \in StartPiece .. n :
          \E h \in Offset(j) .. Pieces[j].count - 1 : h \notin Seen(j) /\ L(i) + k = L(j) + h
    BY <1>9, VisibleIn DEF L
  <2>2. PICK h \in Offset(j) .. Pieces[j].count - 1 : h \notin Seen(j) /\ L(i) + k = L(j) + h
    BY <2>1
  <2>3. j \in 1 .. n /\ StartPiece <= j /\ j \in 1 .. n + 1 /\ j + 1 \in 1 .. n + 1
    BY <1>1, <1>2
  <2>4. Offset(j) \in Nat
    BY <2>3, PlacesEntered
  <2>5. h \in Nat /\ h < Pieces[j].count /\ L(j) \in Nat /\ L(j + 1) = L(j) + Pieces[j].count
        /\ Pieces[j].count \in Nat
    BY <1>1, <2>3, <2>4
  <2>6. ASSUME i + 1 <= j PROVE FALSE
    <3>1. L(i + 1) <= L(j)
      BY <1>1, <2>3, <2>6, PiecesInOrder DEF L
    <3>2. L(i + 1) = L(i) + Pieces[i].count /\ L(i) \in Nat /\ Pieces[i].count \in Nat
      BY <1>1
    <3>3. QED
      BY <1>4, <2>2, <2>5, <3>1, <3>2
  <2>7. ASSUME j + 1 <= i PROVE FALSE
    <3>1. L(j + 1) <= L(i)
      BY <1>1, <2>3, <2>7, PiecesInOrder DEF L
    <3>2. L(i) \in Nat
      BY <1>1
    <3>3. QED
      BY <1>4, <2>2, <2>5, <3>1, <3>2
  <2>8. i = j
    BY <1>1, <2>3, <2>6, <2>7
  <2>9. h = k
    BY <1>1, <1>4, <2>2, <2>5, <2>8
  <2>10. QED
    BY <2>2, <2>8, <2>9
<1>10. ASSUME k \notin Seen(i) PROVE L(i) + k \in Unseen
  <2>1. i \in StartPiece .. n
    BY <1>1, <1>2
  <2>2. \E j \in StartPiece .. n :
          \E h \in Offset(j) .. Pieces[j].count - 1 :
            h \notin Seen(j) /\ L(i) + k = L(j) + h
    BY <1>10, <2>1
  <2>3. QED
    BY <2>2, VisibleIn DEF L
<1>11. k \in Hits(i) <=> k \in Seen(i) /\ Line(i, k) \in job.query
  BY DEF Hits
<1>12. QED
  BY <1>8, <1>9, <1>10, <1>11 DEF Visible, L

(* A piece without a hit: whatever can be seen lies behind it.             *)
LEMMA PieceWithoutHit ==
  ASSUME JobTaken, NEW i \in 1 .. Len(Pieces), StartPiece <= i, Hits(i) = {},
         \A m \in Visible : m >= LinesBefore(i) + Offset(i)
  PROVE  \A m \in Visible : m >= LinesBefore(i + 1)
<1>1. i \in 1 .. Len(Pieces) + 1 /\ LinesBefore(i) \in Nat /\ Pieces[i].count \in Nat
      /\ LinesBefore(i + 1) = LinesBefore(i) + Pieces[i].count
  BY PiecesFollow
<1>2. Offset(i) \in Nat
  BY <1>1, PlacesEntered
<1>3. ASSUME NEW m \in Visible, m < LinesBefore(i + 1) PROVE FALSE
  <2> DEFINE k == m - LinesBefore(i)
  <2>1. m \in Nat
    BY VisibleIn DEF Visible
  <2>2. m >= LinesBefore(i) + Offset(i)
    BY <1>3
  <2>3. k \in Offset(i) .. Pieces[i].count - 1 /\ LinesBefore(i) + k = m
    BY <1>1, <1>2, <1>3, <2>1, <2>2
  <2> HIDE DEF k
  <2>4. k \in Hits(i)
    BY <1>3, <2>3, HitsAreVisible
  <2>5. QED
    BY <2>4
<1>4. ASSUME NEW m \in Visible PROVE m >= LinesBefore(i + 1)
  <2>1. m \in Nat /\ LinesBefore(i + 1) \in Nat
    BY <1>1, VisibleIn DEF Visible
  <2>2. ~(m < LinesBefore(i + 1))
    BY <1>3
  <2>3. QED
    BY <2>1, <2>2
<1>5. QED
  BY <1>4

(* A piece with a hit: its first is the first line that can be seen.       *)
LEMMA PieceWithHit ==
  ASSUME JobTaken, NEW i \in 1 .. Len(Pieces), StartPiece <= i, Hits(i) # {},
         \A m \in Visible : m >= LinesBefore(i) + Offset(i)
  PROVE  /\ Min(Hits(i)) \in Nat
         /\ LinesBefore(i) + Min(Hits(i)) = FirstVisible
<1> DEFINE x == Min(Hits(i))
           y == LinesBefore(i) + x
<1>1. i \in 1 .. Len(Pieces) + 1 /\ LinesBefore(i) \in Nat /\ Pieces[i].count \in Nat
  BY PiecesFollow
<1>2. Offset(i) \in Nat
  BY <1>1, PlacesEntered
<1>3. Hits(i) \subseteq Offset(i) .. Pieces[i].count - 1
  BY SeenInPiece DEF Hits
<1>4. Hits(i) \in SUBSET Nat
  BY <1>1, <1>2, <1>3
<1>5. x \in Hits(i) /\ \A k \in Hits(i) : x <= k
  BY <1>4, LeastExists
<1> HIDE DEF x
<1>6. x \in Nat /\ x \in Offset(i) .. Pieces[i].count - 1
  BY <1>3, <1>4, <1>5
<1>7. y \in Visible /\ y \in Nat
  BY <1>1, <1>5, <1>6, HitsAreVisible
<1>8. ASSUME NEW m \in Visible PROVE y <= m
  <2> DEFINE k == m - LinesBefore(i)
  <2>1. m \in Nat /\ m >= LinesBefore(i) + Offset(i)
    BY <1>8, VisibleIn DEF Visible
  <2>2. ASSUME m < y PROVE FALSE
    <3>1. k \in Offset(i) .. Pieces[i].count - 1 /\ LinesBefore(i) + k = m /\ k < x /\ k \in Nat
      BY <1>1, <1>2, <1>6, <2>1, <2>2
    <3> HIDE DEF k
    <3>2. k \in Hits(i)
      BY <1>8, <3>1, HitsAreVisible
    <3>3. QED
      BY <1>5, <1>6, <3>1, <3>2
  <2>3. QED
    BY <1>7, <2>1, <2>2
<1>9. Visible \in SUBSET Nat
  BY VisibleIn DEF Visible
<1> HIDE DEF y
<1>10. Min(Visible) = y
  BY <1>7, <1>8, <1>9, LeastIs
<1>11. FirstVisible = y
  BY <1>7, <1>10 DEF FirstVisible
<1>12. QED
  BY <1>6, <1>11 DEF x, y

(* What the thread knows between two pieces.                               *)
WalkOn ==
  /\ piece_idx \in 1 .. Len(Pieces) + 1 /\ StartPiece <= piece_idx
  /\ current_line = LinesBefore(piece_idx) + Offset(piece_idx)
  /\ ~blind => \A m \in Visible : m >= current_line

(* The result is right, or the search was cancelled before it was known.   *)
Answered == search_result = FirstVisible \/ (cancelled /\ search_result = -2)

(* The inductive invariant of the search.                                  *)
SearchInv ==
  /\ JobTaken /\ version \in DOMAIN Documents
  /\ pc \in {"none", "piece", "read", "match", "report", "reset"}
  /\ is_searching \in BOOLEAN /\ (is_searching <=> pc # "none")
  /\ search_cancel /\ is_searching => cancelled
  /\ pc \in {"piece", "read", "match"} => WalkOn
  /\ pc \in {"read", "match"} => piece_idx <= Len(Pieces)
  /\ pc = "match" /\ ~blind /\ Piece.kind = "original" /\ slice[search] = {} =>
       Hits(piece_idx) = {}
  /\ pc = "report" /\ ~blind => cancelled \/ Visible = {}
  /\ (pc = "reset" \/ (pc = "none" /\ job # NoJob)) /\ ~blind => Answered

(* The places depend on the job alone.                                     *)
LEMMA JobStays ==
  ASSUME job' = job
  PROVE  /\ JobTaken' = JobTaken /\ Pieces' = Pieces /\ StartPiece' = StartPiece
         /\ Visible' = Visible /\ FirstVisible' = FirstVisible
         /\ \A i : LinesBefore(i)' = LinesBefore(i) /\ Offset(i)' = Offset(i) /\ Hits(i)' = Hits(i)
<1>1. JobTaken' = JobTaken /\ Pieces' = Pieces
  BY DEF JobTaken, Pieces
<1>2. ASSUME NEW i PROVE LinesBefore(i)' = LinesBefore(i)
  BY <1>1 DEF LinesBefore
<1>3. TotalLines' = TotalLines
  BY <1>1 DEF TotalLines, LinesBefore
<1>4. StartPiece' = StartPiece
  BY DEF StartPiece, TotalLines, LinesBefore, Pieces
<1>5. ASSUME NEW i PROVE Offset(i)' = Offset(i)
  BY <1>2, <1>4 DEF Offset
<1>6. ASSUME NEW i PROVE Seen(i)' = Seen(i)
  BY <1>1, <1>5 DEF Seen
<1>7. ASSUME NEW i, NEW k PROVE Line(i, k)' = Line(i, k)
  BY <1>1 DEF Line
<1>8. ASSUME NEW i PROVE Hits(i)' = Hits(i)
  BY <1>6, <1>7 DEF Hits
<1>9. Doc' = Doc
  BY <1>1, <1>7 DEF Doc
<1>10. Matches' = Matches
  BY <1>3, <1>9 DEF Matches
<1>11. Unseen' = Unseen
  BY <1>1, <1>2, <1>4, <1>5, <1>6 DEF Unseen
<1>12. Visible' = Visible /\ FirstVisible' = FirstVisible
  BY <1>10, <1>11 DEF Visible, FirstVisible
<1>13. QED
  BY <1>1, <1>2, <1>4, <1>5, <1>8, <1>12

(* Before the first piece, nothing was passed over.                        *)
WalkStart ==
  /\ StartPiece \in 1 .. Len(Pieces) + 1 /\ StartPiece <= StartPiece
  /\ job.start = LinesBefore(StartPiece) + Offset(StartPiece)
  /\ \A m \in Visible : m >= job.start

(* So it is wherever a search starts.                                      *)
LEMMA WalkBegins == JobTaken => WalkStart
<1> SUFFICES ASSUME JobTaken PROVE WalkStart
  OBVIOUS
<1>1. StartPiece \in 1 .. Len(Pieces) + 1 /\ StartPiece <= StartPiece
  <2>1. StartPiece \in 1 .. Len(Pieces) + 1 /\ Len(Pieces) \in Nat
    BY StartIsInPiece, PiecesFollow
  <2>2. QED
    BY <2>1
<1>2. job.start = LinesBefore(StartPiece) + Offset(StartPiece)
  BY <1>1, PlacesEntered
<1>3. ASSUME NEW m \in Visible PROVE m >= job.start
  <2>1. m \in Nat /\ m \in Matches /\ job.start \in Nat
    BY VisibleIn DEF Visible, JobTaken
  <2>2. job.start <= m
    BY <2>1, VisibleIn
  <2>3. QED
    BY <2>1, <2>2
<1>4. QED
  BY <1>1, <1>2, <1>3 DEF WalkStart

(* In the table of the first version nothing is searched yet.              *)
LEMMA SearchBegins == Init => SearchInv
<1> SUFFICES ASSUME Init PROVE SearchInv
  OBVIOUS
<1>1. 1 \in DOMAIN Documents
  BY DocumentsAssumption
<1>2. JobTaken
  BY <1>1 DEF Init, JobTaken, NoJob
<1>3. version \in DOMAIN Documents
  BY <1>1 DEF Init
<1>4. /\ pc = "none" /\ is_searching = FALSE /\ search_cancel = FALSE /\ job = NoJob
  BY DEF Init
<1>5. QED
  BY <1>2, <1>3, <1>4 DEF SearchInv

(* The slice of a thread is its own: the pager's steps for the editor      *)
(* leave that of the search alone.                                         *)
LEMMA SliceOfSearch ==
  ASSUME SlicesPinned
  PROVE  /\ \A kind, from : Ask(main, kind, from) => slice'[search] = slice[search]
         /\ PagerStep(main) => slice'[search] = slice[search]
<1>1. slice \in [Threads -> SUBSET Windows] /\ search \in Threads /\ main \in Threads /\ main # search
  BY SearchAssumption DEF SlicesPinned, PagerTypes
<1>2. ASSUME NEW kind, NEW from, Ask(main, kind, from) PROVE slice'[search] = slice[search]
  BY <1>1, <1>2 DEF Ask
<1>3. ASSUME PagerStep(main) PROVE slice'[search] = slice[search]
  <2>1. CASE Pin(main)
    BY <1>1, <2>1 DEF Pin
  <2>2. CASE ~Pin(main)
    BY <1>3, <2>2 DEF PagerStep, Lookup, FetchFound, FetchReads, FetchFails
  <2>3. QED
    BY <2>1, <2>2
<1>4. QED
  BY <1>2, <1>3

(* Whatever the editor does beside a search leaves its state alone, but    *)
(* that it can be cancelled.                                               *)
LEMMA EditorApart ==
  ASSUME SearchInv, version' \in DOMAIN Documents, slice'[search] = slice[search],
         UNCHANGED <<is_searching, search_result, pc, job, walk, blind>>,
         \/ UNCHANGED <<search_cancel, cancelled>>
         \/ search_cancel' = TRUE /\ cancelled' = (cancelled \/ is_searching)
  PROVE  SearchInv'
<1>1. UNCHANGED <<is_searching, search_result, pc, job, piece_idx, current_line, blind>>
  BY DEF walk
<1>2. /\ JobTaken' = JobTaken /\ Pieces' = Pieces /\ StartPiece' = StartPiece
      /\ Visible' = Visible /\ FirstVisible' = FirstVisible
      /\ \A i : LinesBefore(i)' = LinesBefore(i) /\ Offset(i)' = Offset(i) /\ Hits(i)' = Hits(i)
  BY <1>1, JobStays
<1>3. NoJob' = NoJob
  BY DEF NoJob
<1>4. Piece' = Piece
  BY <1>1, <1>2 DEF Piece
<1>5. (cancelled => cancelled') /\ (search_cancel' /\ is_searching' => cancelled')
  <2>1. search_cancel /\ is_searching => cancelled
    BY DEF SearchInv
  <2>2. is_searching' = is_searching
    BY <1>1
  <2>3. CASE UNCHANGED <<search_cancel, cancelled>>
    BY <2>1, <2>2, <2>3
  <2>4. CASE search_cancel' = TRUE /\ cancelled' = (cancelled \/ is_searching)
    <3>1. cancelled' <=> cancelled \/ is_searching
      BY <2>4, Zenon
    <3>2. is_searching' <=> is_searching
      BY <2>2
    <3>3. QED
      BY <3>1, <3>2
  <2>5. QED
    BY <2>3, <2>4
<1>6. LinesBefore(piece_idx)' = LinesBefore(piece_idx) /\ Offset(piece_idx)' = Offset(piece_idx)
      /\ Hits(piece_idx)' = Hits(piece_idx)
  BY <1>1, JobStays DEF LinesBefore, Offset, Hits
<1>7. WalkOn => WalkOn'
  BY <1>1, <1>2, <1>6 DEF WalkOn
<1>8. Answered => Answered'
  BY <1>1, <1>2, <1>5 DEF Answered
<1>9. QED
  BY <1>1, <1>2, <1>3, <1>4, <1>5, <1>6, <1>7, <1>8 DEF SearchInv

(* A search that begins: nothing is passed over yet. *)
LEMMA SearchAsyncRight ==
  ASSUME SearchInv, NEW query \in Queries, NEW start \in 0 .. Length, SearchAsync(query, start)
  PROVE  SearchInv'
<1>1. /\ is_searching' = TRUE /\ search_cancel' = FALSE /\ version' = version /\ pc' = "piece"
      /\ job' = [document |-> Documents[version], query |-> query, start |-> start]
      /\ piece_idx' = StartPiece' /\ current_line' = start /\ blind' = FALSE
  BY DEF SearchAsync
<1>2. JobTaken'
  <2>1. version \in DOMAIN Documents
    BY DEF SearchInv
  <2>2. job'.document = Documents[version] /\ job'.start \in Nat
    BY <1>1, PagerAssumption
  <2>3. QED
    BY <2>1, <2>2 DEF JobTaken
<1>3. WalkStart'
  BY <1>2, WalkBegins, PTL
<1>4. job.start' = start
  BY <1>1
<1>5. LinesBefore(piece_idx)' = LinesBefore(StartPiece)' /\ Offset(piece_idx)' = Offset(StartPiece)'
  BY <1>1 DEF LinesBefore, Offset
<1>6. WalkOn'
  BY <1>1, <1>3, <1>4, <1>5 DEF WalkOn, WalkStart
<1>7. version' \in DOMAIN Documents
  BY <1>1 DEF SearchInv
<1>8. QED
  BY <1>1, <1>2, <1>6, <1>7 DEF SearchInv

(* The next piece. *)
LEMMA NextPieceRight ==
  ASSUME SearchInv, NextPiece
  PROVE  SearchInv'
<1>1. /\ pc = "piece" /\ job' = job
      /\ UNCHANGED <<version, is_searching, search_cancel, search_result, job, piece_idx,
                     current_line, cancelled, blind>>
  BY DEF NextPiece, editor, flags, walk, history
<1>2. /\ JobTaken' = JobTaken /\ Pieces' = Pieces /\ StartPiece' = StartPiece
      /\ Visible' = Visible /\ FirstVisible' = FirstVisible
      /\ LinesBefore(piece_idx)' = LinesBefore(piece_idx)
      /\ Offset(piece_idx)' = Offset(piece_idx) /\ Hits(piece_idx)' = Hits(piece_idx)
      /\ Piece' = Piece
  <2>1. /\ JobTaken' = JobTaken /\ Pieces' = Pieces /\ StartPiece' = StartPiece
        /\ Visible' = Visible /\ FirstVisible' = FirstVisible
    BY <1>1, JobStays
  <2>2. /\ LinesBefore(piece_idx)' = LinesBefore(piece_idx)
        /\ Offset(piece_idx)' = Offset(piece_idx) /\ Hits(piece_idx)' = Hits(piece_idx)
    BY <1>1, JobStays DEF LinesBefore, Offset, Hits
  <2>3. QED
    BY <1>1, <2>1, <2>2 DEF Piece
<1>3. JobTaken /\ WalkOn /\ version \in DOMAIN Documents /\ is_searching = TRUE
      /\ (search_cancel => cancelled)
  BY <1>1 DEF SearchInv
<1>4. WalkOn'
  BY <1>1, <1>2, <1>3 DEF WalkOn
<1>5. version' \in DOMAIN Documents /\ is_searching' = TRUE /\ (search_cancel' => cancelled')
      /\ JobTaken'
  <2>1. (search_cancel' <=> search_cancel) /\ (cancelled' <=> cancelled)
    BY <1>1
  <2>2. QED
    BY <1>1, <1>2, <1>3, <2>1
<1>6. CASE piece_idx > Len(Pieces)
  <2>1. pc' = "report"
    BY <1>6 DEF NextPiece
  <2>2. ~blind => Visible = {}
    <3>1. ASSUME ~blind, NEW m \in Visible PROVE FALSE
      <4> DEFINE n == Len(Pieces) + 1
      <4>1. n \in 1 .. Len(Pieces) + 1 /\ piece_idx = n
        BY <1>3, <1>6, PiecesFollow DEF WalkOn
      <4>2. Offset(piece_idx) \in Nat
        BY <1>3, PlacesEntered DEF WalkOn
      <4>3. m >= current_line /\ current_line = LinesBefore(piece_idx) + Offset(piece_idx)
        BY <1>3, <3>1 DEF WalkOn
      <4>4. m \in Nat /\ m < LinesBefore(n)
        BY <1>3, <3>1, VisibleIn DEF Visible
      <4> HIDE DEF n
      <4>5. LinesBefore(n) \in Nat
        BY <1>3, <4>1, PiecesFollow
      <4>6. QED
        BY <4>1, <4>2, <4>3, <4>4, <4>5
    <3>2. QED
      BY <3>1
  <2>3. QED
    BY <1>1, <1>2, <1>5, <2>1, <2>2 DEF SearchInv
<1>7. CASE ~(piece_idx > Len(Pieces)) /\ search_cancel
  <2>1. pc' = "report"
    BY <1>7 DEF NextPiece, AfterCancel
  <2>2. cancelled'
    BY <1>1, <1>3, <1>7
  <2>3. QED
    BY <1>1, <1>2, <1>5, <2>1, <2>2 DEF SearchInv
<1>8. CASE ~(piece_idx > Len(Pieces)) /\ ~search_cancel
  <2>1. piece_idx \in 1 .. Len(Pieces) /\ piece_idx <= Len(Pieces) /\ StartPiece <= piece_idx
    BY <1>3, <1>8, PiecesFollow DEF WalkOn
  <2>2. CASE Piece.kind = "memory" \/ Left = 0
    <3>1. pc' = "match"
      BY <1>8, <2>2 DEF NextPiece
    <3>2. Piece.kind = "original" => Hits(piece_idx) = {}
      <4> SUFFICES ASSUME Piece.kind = "original" PROVE Hits(piece_idx) = {}
        OBVIOUS
      <4>1. Left = 0
        BY <2>2
      <4>2. Seen(piece_idx) \subseteq Offset(piece_idx) .. Piece.count - 1
        BY <1>3, <2>1, SeenInPiece DEF Piece
      <4>3. Offset(piece_idx) \in Nat /\ Piece.count \in Nat
        BY <1>3, <2>1, PlacesEntered, PiecesFollow DEF Piece
      <4>4. Offset(piece_idx) .. Piece.count - 1 = {}
        BY <4>1, <4>3 DEF Left
      <4>5. QED
        BY <4>2, <4>4 DEF Hits
    <3>3. QED
      BY <1>1, <1>2, <1>4, <1>5, <2>1, <3>1, <3>2 DEF SearchInv
  <2>3. CASE ~(Piece.kind = "memory" \/ Left = 0)
    <3>1. pc' = "read"
      BY <1>8, <2>3 DEF NextPiece
    <3>2. QED
      BY <1>1, <1>2, <1>4, <1>5, <2>1, <3>1 DEF SearchInv
  <2>4. QED
    BY <2>2, <2>3
<1>9. QED
  BY <1>6, <1>7, <1>8

(* A read of the thread. *)
LEMMA SearchReadsRight ==
  ASSUME SearchInv, SearchReads
  PROVE  SearchInv'
<1>1. /\ pc = "read" /\ pc' \in {"read", "match"} /\ job' = job
      /\ UNCHANGED <<version, is_searching, search_cancel, search_result, job, piece_idx,
                     current_line, cancelled>>
      /\ blind' = (blind \/ (pc' = "match" /\ slice'[search] = {}))
  BY DEF SearchReads, editor, flags, walk
<1>2. /\ JobTaken' = JobTaken /\ Pieces' = Pieces /\ StartPiece' = StartPiece /\ Visible' = Visible
      /\ LinesBefore(piece_idx)' = LinesBefore(piece_idx) /\ Offset(piece_idx)' = Offset(piece_idx)
  <2>1. JobTaken' = JobTaken /\ Pieces' = Pieces /\ StartPiece' = StartPiece /\ Visible' = Visible
    BY <1>1, JobStays
  <2>2. LinesBefore(piece_idx)' = LinesBefore(piece_idx) /\ Offset(piece_idx)' = Offset(piece_idx)
    BY <1>1, JobStays DEF LinesBefore, Offset
  <2>3. QED
    BY <2>1, <2>2
<1>3. JobTaken /\ WalkOn /\ version \in DOMAIN Documents /\ is_searching = TRUE
      /\ (search_cancel => cancelled) /\ piece_idx <= Len(Pieces)
  BY <1>1 DEF SearchInv
<1>4. version' \in DOMAIN Documents /\ is_searching' = TRUE /\ (search_cancel' => cancelled')
      /\ JobTaken' /\ piece_idx' <= Len(Pieces')
  <2>1. (search_cancel' <=> search_cancel) /\ (cancelled' <=> cancelled)
    BY <1>1
  <2>2. QED
    BY <1>1, <1>2, <1>3, <2>1
<1>5. ~blind' => ~blind /\ ~(pc' = "match" /\ slice'[search] = {})
  <2>1. blind' <=> (blind \/ (pc' = "match" /\ slice'[search] = {}))
    BY <1>1
  <2>2. QED
    BY <2>1
<1>6. WalkOn'
  BY <1>1, <1>2, <1>3, <1>5 DEF WalkOn
<1>7. QED
  BY <1>1, <1>4, <1>5, <1>6 DEF SearchInv

(* A piece is searched: it has the answer, or is passed over. *)
LEMMA MatchRight ==
  ASSUME SearchInv, Match
  PROVE  SearchInv'
<1> DEFINE i == piece_idx
           hits == IF Piece.kind = "original" /\ slice[search] = {} THEN {} ELSE Hits(piece_idx)
<1>1. /\ pc = "match" /\ job' = job
      /\ UNCHANGED <<version, is_searching, search_cancel, job, cancelled, blind>>
  BY DEF Match, editor, history
<1>2. /\ JobTaken' = JobTaken /\ Pieces' = Pieces /\ StartPiece' = StartPiece
      /\ Visible' = Visible /\ FirstVisible' = FirstVisible
      /\ \A k : LinesBefore(k)' = LinesBefore(k) /\ Offset(k)' = Offset(k)
  BY <1>1, JobStays
<1>3. JobTaken /\ WalkOn /\ version \in DOMAIN Documents /\ is_searching = TRUE
      /\ (search_cancel => cancelled) /\ i <= Len(Pieces)
      /\ (~blind /\ Piece.kind = "original" /\ slice[search] = {} => Hits(i) = {})
  BY <1>1 DEF SearchInv
<1>4. version' \in DOMAIN Documents /\ is_searching' = TRUE /\ (search_cancel' => cancelled')
      /\ JobTaken' /\ (blind' <=> blind) /\ (cancelled' <=> cancelled)
  <2>1. (search_cancel' <=> search_cancel) /\ (cancelled' <=> cancelled) /\ (blind' <=> blind)
    BY <1>1
  <2>2. QED
    BY <1>1, <1>2, <1>3, <2>1
<1>5. i \in 1 .. Len(Pieces) /\ StartPiece <= i /\ Len(Pieces) \in Nat
      /\ StartPiece \in 1 .. Len(Pieces) + 1
      /\ current_line = LinesBefore(i) + Offset(i)
      /\ (~blind => \A m \in Visible : m >= LinesBefore(i) + Offset(i))
  BY <1>3, PiecesFollow, StartIsInPiece DEF WalkOn
<1>6. /\ LinesBefore(i) \in Nat /\ Offset(i) \in Nat /\ Pieces[i].count \in Nat
      /\ LinesBefore(i + 1) = LinesBefore(i) + Pieces[i].count
  <2>1. i \in 1 .. Len(Pieces) + 1
    BY <1>5
  <2>2. QED
    BY <1>3, <1>5, <2>1, PiecesFollow, PlacesEntered
<1>7. ~blind => hits = Hits(i)
  BY <1>3
<1> HIDE DEF i
<1>8. CASE hits # {}
  <2>1. pc' = "reset" /\ search_result' = current_line + Min(hits) - Offset(i)
    BY <1>8 DEF Match, i
  <2> HIDE DEF hits
  <2>2. ASSUME ~blind PROVE search_result' = FirstVisible
    <3> DEFINE x == Min(Hits(i))
    <3>1. Hits(i) # {} /\ search_result' = current_line + x - Offset(i)
      BY <1>7, <1>8, <2>1, <2>2
    <3>2. x \in Nat /\ LinesBefore(i) + x = FirstVisible
      BY <1>3, <1>5, <2>2, <3>1, PieceWithHit
    <3> HIDE DEF x
    <3>3. current_line + x - Offset(i) = LinesBefore(i) + x
      BY <1>5, <1>6, <3>2
    <3>4. QED
      BY <3>1, <3>2, <3>3
  <2>3. ~blind' => Answered'
    BY <1>2, <1>4, <2>2 DEF Answered
  <2>4. QED
    BY <1>4, <2>1, <2>3 DEF SearchInv
<1>9. CASE hits = {}
  <2> DEFINE j == i + 1
  <2>1. pc' = "piece" /\ piece_idx' = j /\ current_line' = current_line + Left
    BY <1>9 DEF Match, i
  <2>2. j \in 1 .. Len(Pieces) + 1 /\ StartPiece <= j /\ j # StartPiece /\ j = i + 1
    BY <1>5
  <2>3. Left = Pieces[i].count - Offset(i)
    BY DEF Left, Piece, i
  <2>4. current_line' = LinesBefore(i + 1)
    BY <1>5, <1>6, <2>1, <2>3
  <2> HIDE DEF j, hits
  <2>5. Offset(j) = 0
    BY <2>2 DEF Offset
  <2>6. LinesBefore(j) \in Nat /\ LinesBefore(j) = LinesBefore(i + 1)
    BY <1>6, <2>2
  <2>7. current_line' = LinesBefore(j) + Offset(j)
    BY <2>4, <2>5, <2>6
  <2>8. ASSUME ~blind PROVE \A m \in Visible : m >= LinesBefore(i + 1)
    BY <1>3, <1>5, <1>7, <1>9, <2>8, PieceWithoutHit
  <2>9. LinesBefore(piece_idx)' = LinesBefore(j) /\ Offset(piece_idx)' = Offset(j)
    <3>1. LinesBefore(piece_idx)' = LinesBefore(j)
      BY <1>2, <2>1 DEF LinesBefore
    <3>2. Offset(piece_idx)' = Offset(j)
      BY <1>1, <1>2, <2>1 DEF Offset, LinesBefore, Pieces
    <3>3. QED
      BY <3>1, <3>2
  <2>10. WalkOn'
    BY <1>2, <1>4, <2>1, <2>2, <2>4, <2>7, <2>8, <2>9 DEF WalkOn
  <2>11. QED
    BY <1>4, <2>1, <2>10 DEF SearchInv
<1>10. QED
  BY <1>8, <1>9

(* The end of a search that found nothing, and of every search.            *)
LEMMA EndRight ==
  ASSUME SearchInv, Report \/ Reset
  PROVE  SearchInv'
<1>1. job' = job /\ UNCHANGED <<version, search_cancel, cancelled, blind>>
  BY DEF Report, Reset, editor, history
<1>2. JobTaken' = JobTaken /\ Visible' = Visible /\ FirstVisible' = FirstVisible
  BY <1>1, JobStays
<1>3. JobTaken /\ version \in DOMAIN Documents /\ (search_cancel /\ is_searching => cancelled)
  BY DEF SearchInv
<1>4. JobTaken' /\ version' \in DOMAIN Documents /\ (blind' <=> blind)
      /\ (cancelled' <=> cancelled) /\ (search_cancel' <=> search_cancel)
  BY <1>1, <1>2, <1>3
<1>5. CASE Report
  <2>1. pc = "report" /\ pc' = "reset" /\ search_result' = -2 /\ is_searching' = is_searching
    BY <1>5 DEF Report
  <2>2. is_searching = TRUE /\ (~blind => cancelled \/ Visible = {})
    BY <2>1 DEF SearchInv
  <2>3. ~blind' => Answered'
    BY <1>2, <1>4, <2>1, <2>2 DEF Answered, FirstVisible
  <2>4. QED
    BY <1>3, <1>4, <2>1, <2>2, <2>3 DEF SearchInv
<1>6. CASE Reset
  <2>1. pc = "reset" /\ pc' = "none" /\ search_result' = search_result /\ is_searching' = FALSE
    BY <1>6 DEF Reset
  <2>2. ~blind => Answered
    BY <2>1 DEF SearchInv
  <2>3. ~blind' => Answered'
    BY <1>2, <1>4, <2>1, <2>2 DEF Answered
  <2>4. QED
    BY <1>4, <2>1, <2>3 DEF SearchInv
<1>7. QED
  BY <1>5, <1>6

(* What the editor's thread does meanwhile.                                *)
LEMMA EditorRight ==
  ASSUME SlicesPinned, SearchInv,
         Read \/ ReadByte \/ MainReads \/ Edit \/ CancelSearch \/ Free
  PROVE  SearchInv'
<1>1. version \in DOMAIN Documents
  BY DEF SearchInv
<1>2. CASE Read \/ ReadByte
  <2>1. slice'[search] = slice[search]
    BY <1>2, SliceOfSearch DEF Read, ReadByte
  <2>2. UNCHANGED <<version, flags, pc, job, walk, history>>
    BY <1>2 DEF Read, ReadByte
  <2>3. QED
    BY <1>1, <2>1, <2>2, EditorApart DEF flags, history
<1>3. CASE MainReads
  <2>1. slice'[search] = slice[search]
    BY <1>3, SliceOfSearch DEF MainReads
  <2>2. UNCHANGED <<editor, flags, pc, job, walk, history>>
    BY <1>3 DEF MainReads
  <2>3. QED
    BY <1>1, <2>1, <2>2, EditorApart DEF flags, history, editor
<1>4. CASE Edit
  <2>1. slice'[search] = slice[search] /\ UNCHANGED <<flags, pc, job, walk, history>>
    BY <1>4 DEF Edit, pager
  <2>2. version' \in DOMAIN Documents
    <3>1. DOMAIN Documents = 1 .. Len(Documents) /\ version < Len(Documents) /\ version' = version + 1
          /\ Len(Documents) \in Nat
      BY <1>4, DocumentsAssumption DEF Edit
    <3>2. QED
      BY <1>1, <3>1
  <2>3. QED
    BY <2>1, <2>2, EditorApart DEF flags, history
<1>5. CASE CancelSearch
  <2>1. /\ slice'[search] = slice[search] /\ version' = version
        /\ UNCHANGED <<is_searching, search_result, pc, job, walk, blind>>
        /\ search_cancel' = TRUE /\ cancelled' = (cancelled \/ is_searching)
    BY <1>5 DEF CancelSearch, pager
  <2>2. QED
    BY <1>1, <2>1, EditorApart
<1>6. CASE Free
  <2>1. slice'[search] = slice[search] /\ UNCHANGED <<version, flags, pc, job, walk, history>>
    BY <1>6 DEF Free, pager
  <2>2. QED
    BY <1>1, <2>1, EditorApart DEF flags, history
<1>7. QED
  BY <1>2, <1>3, <1>4, <1>5, <1>6

(* The search keeps its invariant, whatever the editor does beside it.     *)
THEOREM SearchInvariant == Spec => []SearchInv
<1>1. Init => SearchInv
  BY SearchBegins
<1>2. SlicesPinned /\ SearchInv /\ [Next]_vars => SearchInv'
  <2> SUFFICES ASSUME SlicesPinned, SearchInv, [Next]_vars PROVE SearchInv'
    OBVIOUS
  <2>1. CASE UNCHANGED vars
    <3>1. slice'[search] = slice[search] /\ UNCHANGED <<version, flags, pc, job, walk, history>>
      BY <2>1 DEF vars, pager, editor
    <3>2. version' \in DOMAIN Documents
      BY <3>1 DEF SearchInv
    <3>3. QED
      BY <3>1, <3>2, EditorApart DEF flags, history
  <2>2. CASE \E query \in Queries, start \in 0 .. Length : SearchAsync(query, start)
    BY <2>2, SearchAsyncRight
  <2>3. CASE SearchThread
    BY <2>3, NextPieceRight, SearchReadsRight, MatchRight, EndRight DEF SearchThread
  <2>4. CASE Read \/ ReadByte \/ MainReads \/ Edit \/ CancelSearch \/ Free
    BY <2>4, EditorRight
  <2>5. QED
    BY <2>1, <2>2, <2>3, <2>4 DEF Next
<1>3. QED
  BY <1>1, <1>2, SlicesStayPinned, PTL DEF Spec

(* search_async answers with the first line that matches in the document   *)
(* as it was when the search began, or without one for a reason.           *)
THEOREM AnswerIsRight == Spec => []SearchAnswer
<1>1. SearchInv => SearchAnswer
  <2> SUFFICES ASSUME SearchInv, job # NoJob, ~is_searching, ~blind
               PROVE  IF Visible = {} THEN Status = -2
                      ELSE Status = Min(Visible) \/ (cancelled /\ Status = -2)
    BY DEF SearchAnswer, Visible
  <2>1. pc = "none" /\ Answered /\ Status = search_result
    BY DEF SearchInv, Status
  <2>2. QED
    BY <2>1 DEF Answered, FirstVisible
<1>2. QED
  BY <1>1, SearchInvariant, PTL

(* A save on a 32-bit build loses of each piece of the file just what a    *)
(* stride has behind the end of a window.                                  *)
THEOREM SavesLose == Spec => []SaveCopies
<1>1. SearchInv => SaveCopies
  BY SavedPieces DEF SearchInv
<1>2. QED
  BY <1>1, SearchInvariant, PTL
=============================================================================
