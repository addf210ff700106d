------------------------------ MODULE Pager32 ------------------------------
(***************************************************************************)
(* The pager of 32-bit builds (src/core/pager_32.rs): the file is read in  *)
(* windows, of which a few are kept. Threads share the windows; a slice    *)
(* that get_chunk returns points into one, which may be thrown out of the  *)
(* cache at any time, so each thread pins the last window it was given.    *)
(*                                                                         *)
(* Windows in memory are [id, at] records; an address that nobody holds    *)
(* any more is used again. Offsets and sizes are in any unit.              *)
(***************************************************************************)
EXTENDS Integers, SequencesExt

CONSTANTS Threads, Address,
          Length,      \* of the file
          WINDOW_SIZE, MAX_WINDOWS

ASSUME PagerAssumption ==
  Length \in Nat /\ WINDOW_SIZE \in Nat \ {0} /\ MAX_WINDOWS \in Nat \ {0}

VARIABLES
  windows,   \* the cache, in the order of last_accessed
  request,   \* of each thread: the running call
  step,      \* of each thread: where it is in the call
  arc,       \* of each thread: the window in its local variable, or none
  pinned,    \* of each thread: PINNED
  slice      \* of each thread: the window it has a slice of, or none

pager == <<windows, request, step, arc, pinned, slice>>

Windows == [id : Nat, at : Address]
Requests == [kind : {"chunk", "byte"}, id : Nat]
Steps == {"idle", "lookup", "fetch", "pin"}
NoRequest == [kind |-> "byte", id |-> 0]

Shorter(a, b) == IF a < b THEN a ELSE b
WindowOf(from) == from \div WINDOW_SIZE

(* Mutant of Prefix: the last offset of a window is left out.              *)
PrefixShort(from, n) ==
  from .. Shorter(from + Shorter(n, WINDOW_SIZE - 1 - (from % WINDOW_SIZE)), Length) - 1

(* get_chunk: the offsets of the slice it returns, which ends with the window. *)
Prefix(from, n) ==
  from .. Shorter(from + Shorter(n, WINDOW_SIZE - (from % WINDOW_SIZE)), Length) - 1

-----------------------------------------------------------------------------
PagerInit ==
  /\ windows = << >>
  /\ request = [t \in Threads |-> NoRequest]
  /\ step = [t \in Threads |-> "idle"]
  /\ arc = [t \in Threads |-> {}] /\ pinned = [t \in Threads |-> {}]
  /\ slice = [t \in Threads |-> {}]

Used(cache) == Range(cache) \union UNION {arc[t] \union pinned[t] : t \in Threads}
Held == Used(windows)
Cached(t) == {w \in Range(windows) : w.id = request[t].id}

(* A call for at least a byte of the file: get_chunk, after which the slice *)
(* of the call before is not used any more, or get_byte.                   *)
Ask(t, kind, from) ==
  /\ step[t] = "idle" /\ from \in Nat /\ from < Length
  /\ request' = [request EXCEPT ![t] = [kind |-> kind, id |-> WindowOf(from)]]
  /\ step' = [step EXCEPT ![t] = "lookup"]
  /\ slice' = IF kind = "chunk" THEN [slice EXCEPT ![t] = {}] ELSE slice
  /\ UNCHANGED <<windows, arc, pinned>>

Returns(t) == step' = [step EXCEPT ![t] = "idle"] /\ request' = [request EXCEPT ![t] = NoRequest]

(* The thread got the window: a byte is read at once, a slice is pinned.   *)
Got(t, found) ==
  IF request[t].kind = "byte" THEN Returns(t) /\ UNCHANGED arc
  ELSE /\ step' = [step EXCEPT ![t] = "pin"]
       /\ arc' = [arc EXCEPT ![t] = found]
       /\ UNCHANGED request

(* Under the read lock: no window changes its place. *)
Lookup(t) ==
  /\ step[t] = "lookup"
  /\ IF Cached(t) # {} THEN Got(t, Cached(t))
     ELSE step' = [step EXCEPT ![t] = "fetch"] /\ UNCHANGED <<request, arc>>
  /\ UNCHANGED <<windows, pinned, slice>>

(* Under the write lock, in which another thread may have been first. *)
FetchFound(t) ==
  /\ step[t] = "fetch"
  /\ \E i \in DOMAIN windows :
       /\ windows[i] \in Cached(t)
       /\ windows' = Append(RemoveAt(windows, i), windows[i])
  /\ Got(t, Cached(t))
  /\ UNCHANGED <<pinned, slice>>

Evicted == IF Len(windows) >= MAX_WINDOWS THEN Tail(windows) ELSE windows

FetchReads(t) ==
  LET at == CHOOSE a \in Address : \A w \in Used(Evicted) : w.at # a
      new == [id |-> request[t].id, at |-> at]
  IN  /\ step[t] = "fetch" /\ Cached(t) = {}
      /\ at \in Address /\ \A w \in Used(Evicted) : w.at # at
      /\ windows' = Append(Evicted, new)
      /\ Got(t, {new})
      /\ UNCHANGED <<pinned, slice>>

(* There is no slice, and the window that made room is gone all the same. *)
FetchFails(t) ==
  /\ step[t] = "fetch" /\ Cached(t) = {}
  /\ windows' = Evicted
  /\ Returns(t)
  /\ UNCHANGED <<arc, pinned, slice>>

(* Mutant of Pinned: nothing is kept.                                      *)
PinnedNone(t) == {}

Pinned(t) == arc[t]

Pin(t) ==
  /\ step[t] = "pin"
  /\ pinned' = [pinned EXCEPT ![t] = Pinned(t)]
  /\ slice' = [slice EXCEPT ![t] = arc[t]]
  /\ arc' = [arc EXCEPT ![t] = {}]
  /\ Returns(t)
  /\ UNCHANGED windows

(* The thread ends, and its PINNED with it. *)
Unpin(t) ==
  /\ pinned' = [pinned EXCEPT ![t] = {}]
  /\ slice' = [slice EXCEPT ![t] = {}]
  /\ UNCHANGED <<windows, request, step, arc>>

PagerStep(t) == Lookup(t) \/ FetchFound(t) \/ FetchReads(t) \/ FetchFails(t) \/ Pin(t)

-----------------------------------------------------------------------------
(* A slice points into a window that is kept, whose memory nothing else has *)
(* taken, while the other threads throw windows out of the cache; the      *)
(* cache stays as small as it should be and holds no window twice.         *)
SliceAlive ==
  /\ Len(windows) <= MAX_WINDOWS
  /\ \A i, j \in DOMAIN windows : windows[i].id = windows[j].id => i = j
  /\ \A t \in Threads : slice[t] \subseteq Held
  /\ \A v, w \in Held : v.at = w.at => v = w

(* The loops that copy a piece of the file in strides (save_async): what   *)
(* they copy of start .. end - 1.                                          *)
Copied(start, end, stride) ==
  UNION {Prefix(from, Shorter(stride, end - from)) :
           from \in {f \in start .. end - 1 : (f - start) % stride = 0}}
=============================================================================
