-------------------------- MODULE SaveAsyncProofs --------------------------
(***************************************************************************)
(* Proofs about saves, for any number of engines, any file and any fault.  *)
(***************************************************************************)
EXTENDS SaveAsync, ListLemmas

(* What Lua keeps of an attached buffer, and what the editor keeps of it.  *)
Editors == [complete : BOOLEAN, saving : BOOLEAN, save_tick : Nat]

Buffers == [changedtick : Nat, modified : BOOLEAN]

(* The types of the part of the state that says who is saving.             *)
Attachments ==
  /\ attached \in Seq(Engines)
  /\ is_saving \in [Engines -> BOOLEAN]
  /\ editor \in [Engines -> Editors]
  /\ buffer \in Buffers

(* The inductive invariant: the shield needs no more than the types.       *)
Shielded == Attachments /\ ShieldUp

(* Changing one field leaves a state of a buffer what it is.               *)
LEMMA EditorFields ==
  ASSUME NEW r \in Editors, NEW b \in BOOLEAN, NEW t \in Nat
  PROVE  /\ [r EXCEPT !.save_tick = t, !.saving = b] \in Editors
         /\ [r EXCEPT !.save_tick = t, !.saving = b].saving = b
         /\ [r EXCEPT !.saving = b] \in Editors
         /\ [r EXCEPT !.complete = b] \in Editors
         /\ [r EXCEPT !.complete = b].saving = r.saving
<1>1. [r EXCEPT !.save_tick = t, !.saving = b] \in Editors
  BY DEF Editors
<1>2. [r EXCEPT !.save_tick = t, !.saving = b].saving = b
  BY DEF Editors
<1>3. [r EXCEPT !.saving = b] \in Editors
  BY DEF Editors
<1>4. [r EXCEPT !.complete = b] \in Editors
  BY DEF Editors
<1>5. [r EXCEPT !.complete = b].saving = r.saving
  BY DEF Editors
<1>6. QED
  BY <1>1, <1>2, <1>3, <1>4, <1>5

(* The buffers of the editor, after each of the changes the actions make to one. *)
LEMMA BufferFields ==
  ASSUME NEW r \in Buffers, NEW b \in BOOLEAN
  PROVE  /\ [r EXCEPT !.modified = b] \in Buffers
         /\ [r EXCEPT !.changedtick = @ + 1] \in Buffers
         /\ [changedtick |-> r.changedtick + 1, modified |-> b] \in Buffers
<1>1. [r EXCEPT !.modified = b] \in Buffers
  BY DEF Buffers
<1>2. r.changedtick + 1 \in Nat
  BY SMT DEF Buffers
<1>3. [r EXCEPT !.changedtick = @ + 1] \in Buffers
  BY <1>2, Zenon DEF Buffers
<1>4. [changedtick |-> r.changedtick + 1, modified |-> b] \in Buffers
  BY <1>2 DEF Buffers
<1>5. QED
  BY <1>1, <1>3, <1>4

(* What a buffer has before it is attached is a state of a buffer.         *)
LEMMA NewEditor == NoEditor \in Editors
BY DEF NoEditor, Editors

(* An attached engine joins those attached before it.                      *)
LEMMA RangeOfAppend ==
  ASSUME NEW S, NEW s \in Seq(S), NEW e \in S
  PROVE  Append(s, e) \in Seq(S) /\ Range(Append(s, e)) = Range(s) \cup {e}
<1>1. /\ Append(s, e) \in Seq(S) /\ Len(s) \in Nat
      /\ DOMAIN s = 1 .. Len(s) /\ DOMAIN Append(s, e) = 1 .. Len(s) + 1
      /\ \A i \in 1 .. Len(s) + 1 : Append(s, e)[i] = IF i <= Len(s) THEN s[i] ELSE e
  BY SMT
<1>2. Range(Append(s, e)) \subseteq Range(s) \cup {e}
  BY <1>1, SMT DEF Range
<1>3. Range(s) \cup {e} \subseteq Range(Append(s, e))
  <2>1. ASSUME NEW x \in Range(s) PROVE x \in Range(Append(s, e))
    <3>1. PICK i \in 1 .. Len(s) : x = s[i]
      BY <1>1 DEF Range
    <3>2. i \in 1 .. Len(s) + 1 /\ Append(s, e)[i] = x
      BY <1>1, <3>1, SMT
    <3>3. QED
      BY <1>1, <3>2 DEF Range
  <2>2. Len(s) + 1 \in 1 .. Len(s) + 1 /\ Append(s, e)[Len(s) + 1] = e
    BY <1>1, SMT
  <2>3. QED
    BY <1>1, <2>1, <2>2 DEF Range
<1>4. QED
  BY <1>1, <1>2, <1>3

(* Nothing is attached at the start, so nothing saves.                     *)
LEMMA InitShielded == Init => Shielded
<1> SUFFICES ASSUME Init PROVE Shielded
  OBVIOUS
<1>1. attached = << >> /\ is_saving \in [Engines -> BOOLEAN] /\ editor \in [Engines -> Editors]
  BY NewEditor DEF Init
<1>2. attached \in Seq(Engines) /\ Range(attached) = {}
  BY <1>1, SMT DEF Range
<1>3. buffer \in Buffers
  BY DEF Init, Buffers
<1>4. QED
  BY <1>1, <1>2, <1>3 DEF Shielded, Attachments, ShieldUp

(* A buffer is attached again, by :e!, with a new engine that is idle.     *)
LEMMA AttachKeepsShield ==
  ASSUME Shielded, NEW e \in Engines, NEW lazy \in BOOLEAN, Attach(e, lazy)
  PROVE  Shielded'
<1> USE DEF Shielded, Attachments, Attach
<1>1. attached' \in Seq(Engines) /\ Range(attached') = Range(attached) \cup {e}
  BY RangeOfAppend
<1>2. ~is_saving[e] /\ is_saving' = is_saving
  BY DEF Idle
<1>3. editor' \in [Engines -> Editors] /\ buffer' \in Buffers
  <2>1. [NoEditor EXCEPT !.complete = ~lazy] \in Editors
    BY EditorFields, NewEditor
  <2>2. QED
    BY <2>1, BufferFields
<1>4. \A f \in Engines \ {e} : editor'[f] = editor[f]
  OBVIOUS
<1>5. ShieldUp'
  BY <1>1, <1>2, <1>4 DEF ShieldUp
<1>6. QED
  BY <1>1, <1>2, <1>3, <1>5

(* BufWriteCmd raises the shield with the flag of the engine, or not.      *)
LEMMA WriteKeepsShield == Shielded /\ Write => Shielded'
<1> SUFFICES ASSUME Shielded, Write PROVE Shielded'
  OBVIOUS
<1> DEFINE asked == {e \in Range(attached) : ~editor[e].saving}
           saved == {e \in asked : ~is_saving[e]}
<1>1. Range(attached) \subseteq Engines
  BY SMT DEF Shielded, Attachments, Range
<1>2. /\ attached' = attached
      /\ is_saving' = [e \in Engines |-> is_saving[e] \/ e \in saved]
      /\ is_saving' \in [Engines -> BOOLEAN] /\ buffer' = buffer
      /\ editor' \in [Engines -> Editors]
  <2>1. /\ attached' = attached /\ buffer' = buffer
        /\ is_saving' = [e \in Engines |-> is_saving[e] \/ e \in saved]
    BY DEF Write
  <2>2. is_saving' \in [Engines -> BOOLEAN]
    BY <2>1
  <2>3. \A e \in Engines :
          [editor[e] EXCEPT !.save_tick = buffer.changedtick, !.saving = e \in saved] \in Editors
    <3>1. ASSUME NEW e \in Engines
          PROVE  [editor[e] EXCEPT !.save_tick = buffer.changedtick, !.saving = e \in saved]
                   \in Editors
      <4>1. editor[e] \in Editors /\ buffer.changedtick \in Nat /\ (e \in saved) \in BOOLEAN
        BY DEF Shielded, Attachments, Buffers
      <4>2. QED
        BY <4>1, EditorFields
    <3>2. QED
      BY <3>1
  <2>4. \A e \in Engines : editor[e] \in Editors
    BY DEF Shielded, Attachments
  <2>5. editor' \in [Engines -> Editors]
    BY <2>3, <2>4, Zenon DEF Write
  <2>6. QED
    BY <2>1, <2>2, <2>5
<1>3. ASSUME NEW e \in Range(attached), is_saving'[e]
      PROVE  editor'[e].saving
  <2>1. CASE e \in saved
    <3>1. e \in Engines /\ e \in asked /\ editor[e] \in Editors /\ buffer.changedtick \in Nat
      BY <1>1, <2>1 DEF Shielded, Attachments, Buffers
    <3>2. editor'[e] =
            [editor[e] EXCEPT !.save_tick = buffer.changedtick, !.saving = e \in saved]
      BY <3>1, Zenon DEF Write
    <3>3. [editor[e] EXCEPT !.save_tick = buffer.changedtick, !.saving = TRUE].saving
      BY <3>1, EditorFields
    <3>4. (e \in saved) = TRUE
      BY <2>1
    <3>5. QED
      BY <3>2, <3>3, <3>4
  <2>2. CASE e \notin saved
    <3>1. is_saving[e] /\ editor[e].saving
      BY <1>1, <1>2, <1>3, <2>2 DEF Shielded, ShieldUp
    <3>2. e \notin asked
      BY <3>1
    <3>3. QED
      BY <1>1, <3>1, <3>2, Zenon DEF Write
  <2>3. QED
    BY <2>1, <2>2
<1>4. QED
  BY <1>2, <1>3 DEF Shielded, Attachments, ShieldUp

(* The save timer lowers the shield only after the flag of the engine.     *)
LEMMA PollKeepsShield ==
  ASSUME Shielded, NEW e \in Engines, PollSave(e)
  PROVE  Shielded'
<1>1. UNCHANGED <<attached, is_saving>> /\ ~is_saving[e]
  BY DEF PollSave, SaveEnded
<1>2. /\ editor' \in [Engines -> Editors]
      /\ \A f \in Engines \ {e} : editor'[f] = editor[f]
      /\ buffer' \in Buffers
  <2>1. editor[e] \in Editors /\ buffer \in Buffers
    BY DEF Shielded, Attachments
  <2>2. [editor[e] EXCEPT !.saving = FALSE] \in Editors
    BY <2>1, EditorFields
  <2>3. buffer' \in Buffers
    <3>1. (buffer.modified /\ ~Unchanged(e)) \in BOOLEAN
      OBVIOUS
    <3>2. buffer' = [buffer EXCEPT !.modified = buffer.modified /\ ~Unchanged(e)]
      BY DEF PollSave
    <3>3. QED
      BY <2>1, <3>1, <3>2, BufferFields
  <2>4. editor' = [editor EXCEPT ![e] = [editor[e] EXCEPT !.saving = FALSE]]
    BY DEF PollSave
  <2>5. QED
    BY <2>2, <2>3, <2>4 DEF Shielded, Attachments
<1>3. Range(attached) \subseteq Engines
  BY SMT DEF Shielded, Attachments, Range
<1>4. QED
  BY <1>1, <1>2, <1>3 DEF Shielded, Attachments, ShieldUp

(* The thread only ever lowers the flag of the engine. *)
LEMMA ThreadKeepsShield ==
  ASSUME Shielded, NEW e \in Engines, SaveThread(e)
  PROVE  Shielded'
<1>1. UNCHANGED ui
  BY DEF SaveThread, Open, OpenFails, NextPiece, PieceEnd, WriteItem, WriteFails, NewlineFails,
         AllWritten, Flush, FlushFails, Rename, Reset
<1>2. is_saving' = is_saving \/ is_saving' = [is_saving EXCEPT ![e] = FALSE]
  BY DEF SaveThread, Open, OpenFails, NextPiece, PieceEnd, WriteItem, WriteFails, NewlineFails,
         AllWritten, Flush, FlushFails, Rename, Reset, SavingAfterOpenError
<1>3. is_saving' \in [Engines -> BOOLEAN] /\ \A f \in Engines : is_saving'[f] => is_saving[f]
  BY <1>2 DEF Shielded, Attachments
<1>4. Range(attached) \subseteq Engines
  BY SMT DEF Shielded, Attachments, Range
<1>5. QED
  BY <1>1, <1>3, <1>4 DEF Shielded, Attachments, ShieldUp, ui

(* Edits, the index and the writer of a failed save touch neither the flag *)
(* nor the shield.                                                         *)
LEMMA OthersKeepShield ==
  ASSUME Shielded, NEW e \in Engines,
         Edit(e) \/ ShiftWindow(e) \/ IndexCount(e) \/ IndexPublish(e) \/ IndexFinish(e)
         \/ PollIndex(e) \/ Drop(e)
  PROVE  Shielded'
<1>1. UNCHANGED <<attached, is_saving>>
  BY DEF Edit, ShiftWindow, IndexCount, IndexPublish, IndexFinish, PollIndex, Drop, ui
<1>2. editor[e] \in Editors /\ editor \in [Engines -> Editors] /\ buffer \in Buffers
  BY DEF Shielded, Attachments
<1>3. editor' \in [Engines -> Editors] /\ \A f \in Engines : editor'[f].saving = editor[f].saving
  <2>1. CASE PollIndex(e)
    <3> DEFINE done == engine[e].processed = Len(engine[e].original)
               new == [editor[e] EXCEPT !.complete = done]
    <3>1. editor' = [editor EXCEPT ![e] = new]
      BY <2>1 DEF PollIndex
    <3>2. done \in BOOLEAN
      OBVIOUS
    <3> HIDE DEF done
    <3>3. new \in Editors /\ new.saving = editor[e].saving
      BY <1>2, <3>2, EditorFields
    <3> HIDE DEF new
    <3>4. QED
      BY <1>2, <3>1, <3>3
  <2>2. CASE ~PollIndex(e)
    BY <1>2, <2>2 DEF Edit, ShiftWindow, IndexCount, IndexPublish, IndexFinish, Drop, ui
  <2>3. QED
    BY <2>1, <2>2
<1>4. buffer' \in Buffers
  <2>1. CASE Edit(e)
    BY <1>2, <2>1, BufferFields DEF Edit
  <2>2. CASE ShiftWindow(e)
    BY <1>2, <2>2, BufferFields DEF ShiftWindow
  <2>3. CASE ~Edit(e) /\ ~ShiftWindow(e)
    BY <1>2, <2>3 DEF IndexCount, IndexPublish, IndexFinish, PollIndex, Drop, ui
  <2>4. QED
    BY <2>1, <2>2, <2>3
<1>5. Range(attached) \subseteq Engines
  BY SMT DEF Shielded, Attachments, Range
<1>6. QED
  BY <1>1, <1>3, <1>4, <1>5 DEF Shielded, Attachments, ShieldUp

(* A wiped buffer and an editor that ended have nothing attached.          *)
LEMMA EndsKeepShield == Shielded /\ (Wipeout \/ Exit) => Shielded'
<1> SUFFICES ASSUME Shielded, Wipeout \/ Exit PROVE Shielded'
  OBVIOUS
<1>1. /\ attached' = << >> /\ editor' \in [Engines -> Editors]
      /\ buffer' \in Buffers
  BY NewEditor, BufferFields DEF Shielded, Attachments, Wipeout, Exit
<1>2. is_saving' \in [Engines -> BOOLEAN]
  BY DEF Shielded, Attachments, Wipeout, Exit
<1>3. Range(attached') = {}
  BY <1>1, SMT DEF Range
<1>4. QED
  BY <1>1, <1>2, <1>3, SMT DEF Shielded, Attachments, ShieldUp

(* No step of any actor lowers the shield too early.                       *)
LEMMA NextKeepsShield == Shielded /\ [Next]_vars => Shielded'
<1> SUFFICES ASSUME Shielded, [Next]_vars PROVE Shielded'
  OBVIOUS
<1>1. CASE Next
  BY <1>1, AttachKeepsShield, WriteKeepsShield, PollKeepsShield, ThreadKeepsShield,
     OthersKeepShield, EndsKeepShield DEF Next
<1>2. CASE UNCHANGED vars
  BY <1>2 DEF Shielded, Attachments, ShieldUp, vars, ui
<1>3. QED
  BY <1>1, <1>2

(* For any number of engines and whatever fails: while the engine of a     *)
(* buffer saves, the shield in Lua is up, and a :w never reaches           *)
(* save_async to be refused.                                               *)
THEOREM ShieldStaysUp == Spec => []ShieldUp
<1>1. Init => Shielded
  BY InitShielded
<1>2. Shielded /\ [Next]_vars => Shielded'
  BY NextKeepsShield
<1>3. Shielded => ShieldUp
  BY DEF Shielded
<1>4. QED
  BY <1>1, <1>2, <1>3, PTL DEF Spec

-----------------------------------------------------------------------------
(* Files, engines and threads.                                             *)

(* What files hold.                                                        *)
Items == Range(File) \cup {Text, LineEnd, "hole"}

Pieces == [kind : {"original"}, from : Nat, to : Nat] \cup [kind : {"memory"}, lines : Seq({Text})]

(* An engine, and the thread of a save; what a save may write and what the *)
(* user took for the file are histories, whatever they are.                *)
EngineType ==
  [original : Seq(Items), mapped : Inodes \cup {NoFile}, processed : Nat, published : Nat,
   finished : BOOLEAN, synced : Nat, pieces : Seq(Pieces)]

Steps == {"none", "open", "write", "end", "flush", "rename", "reset"}

ThreadType(outputs, document) ==
  [pc : Steps, pieces : Seq(Pieces), todo : Seq(Items), start : Nat, closing : BOOLEAN,
   fd : Inodes \cup {NoFile}, pos : Nat, unwritten : Seq(Items),
   outputs : {outputs}, document : {document}]

(* A writer that outlives its save.                                        *)
WriterType == [fd : Inodes \cup {NoFile}, pos : Nat, unwritten : Seq(Items)]

Disk ==
  /\ target \in Inodes /\ tmp \in Inodes \cup {NoFile} /\ tmp # target
  /\ content \in [Inodes -> Seq(Items)]
  /\ late \in [Engines -> WriterType]
  /\ \A e \in Engines : late[e].fd = NoFile => late[e] = NoWriter

(* An engine maps what it was given; the index is behind what was read.    *)
EnginesOK ==
  /\ engine \in [Engines -> EngineType]
  /\ \A e \in Engines :
       /\ engine[e].synced <= engine[e].published
       /\ engine[e].published <= engine[e].processed
       /\ engine[e].processed <= Len(engine[e].original)

ThreadOK(e) ==
  /\ thread[e] \in ThreadType(thread[e].outputs, thread[e].document)
  /\ is_saving[e] <=> thread[e].pc # "none"
  /\ thread[e].fd = NoFile <=> thread[e].pc \in {"none", "open"}
  /\ thread[e].fd = NoFile => thread[e].pos = 0 /\ thread[e].unwritten = << >>
  /\ thread[e].pc = "end" =>
       thread[e].pieces # << >> /\ Head(thread[e].pieces).kind = "original"

ThreadsOK == DOMAIN thread = Engines /\ \A e \in Engines : ThreadOK(e)

(* An engine in use: its buffer is there, or a save of its own goes on.    *)
Active(e) == e \in Range(attached) \/ thread[e].pc # "none"

Freed == \A e \in Engines : ~Active(e) => engine[e] = NoEngine

Counters ==
  /\ buffer.changedtick <= MaxTick
  /\ mishaps \subseteq {"fault", "newline", "unindexed", "reopened", "leftover"}

(* A file that is open once has one engine. What that engine has mapped is *)
(* neither what its save writes nor what the next one will open.           *)
Alone ==
  /\ \A e, f \in Engines : Active(e) /\ Active(f) => e = f
  /\ \A e \in Engines :
       /\ engine[e].mapped # NoFile =>
            /\ content[engine[e].mapped] = engine[e].original
            /\ engine[e].mapped \notin {tmp, thread[e].fd}
            /\ \A f \in Engines : engine[e].mapped # late[f].fd
       /\ thread[e].fd # NoFile => thread[e].pos <= Len(content[thread[e].fd])

Mapped ==
  /\ Disk /\ EnginesOK /\ ThreadsOK /\ Freed /\ Counters
  /\ "reopened" \notin mishaps => Alone

(* Names are numbers other than that of no file.                           *)
LEMMA InodesAreNumbers == Inodes \subseteq Nat /\ NoFile \notin Inodes
<1>1. Cardinality(Engines) \in Nat
  BY SaveAssumption, FS_CardinalityType
<1>2. QED
  BY <1>1, SMT DEF Inodes, NoFile

(* No more files than engines are mapped or written.                       *)
LEMMA FewUsed ==
  ASSUME NEW f, DOMAIN f = Engines
  PROVE  /\ IsFiniteSet({f[e] : e \in Engines})
         /\ Cardinality({f[e] : e \in Engines}) \in Nat
         /\ Cardinality({f[e] : e \in Engines}) <= Cardinality(Engines)
<1> DEFINE T == {f[e] : e \in Engines}
           g == [e \in Engines |-> f[e]]
<1>1. g \in Surjection(Engines, T)
  BY DEF Surjection
<1> HIDE DEF T, g
<1>2. IsFiniteSet(T) /\ Cardinality(T) <= Cardinality(Engines)
  BY <1>1, SaveAssumption, FS_Surjection
<1>3. Cardinality(T) \in Nat
  BY <1>2, FS_CardinalityType
<1>4. QED
  BY <1>2, <1>3 DEF T

(* There is always a name for a new file: at most one is the target, and   *)
(* every engine uses no more than three.                                   *)
LEMMA FreshExists ==
  ASSUME Disk, tmp = NoFile
  PROVE  /\ FreshInode \in Inodes /\ FreshInode # target
         /\ \A e \in Engines : FreshInode \notin {thread[e].fd, engine[e].mapped, late[e].fd}
<1> DEFINE fd == [e \in Engines |-> thread[e].fd]
           mapped == [e \in Engines |-> engine[e].mapped]
           old == [e \in Engines |-> late[e].fd]
           A == {fd[e] : e \in Engines}
           B == {mapped[e] : e \in Engines}
           L == {old[e] : e \in Engines}
           C == A \cup B
           E == C \cup L
           D == E \cup {target}
           n == Cardinality(Engines)
<1>1. n \in Nat
  BY SaveAssumption, FS_CardinalityType
<1>2. IsFiniteSet(A) /\ Cardinality(A) \in Nat /\ Cardinality(A) <= n
  <2>1. DOMAIN fd = Engines
    OBVIOUS
  <2> HIDE DEF fd
  <2>2. QED
    BY <2>1, FewUsed
<1>3. IsFiniteSet(B) /\ Cardinality(B) \in Nat /\ Cardinality(B) <= n
  <2>1. DOMAIN mapped = Engines
    OBVIOUS
  <2> HIDE DEF mapped
  <2>2. QED
    BY <2>1, FewUsed
<1>c. IsFiniteSet(L) /\ Cardinality(L) \in Nat /\ Cardinality(L) <= n
  <2>1. DOMAIN old = Engines
    OBVIOUS
  <2> HIDE DEF old
  <2>2. QED
    BY <2>1, FewUsed
<1>a. \A e \in Engines : thread[e].fd \in A /\ engine[e].mapped \in B /\ late[e].fd \in L
  <2>1. ASSUME NEW e \in Engines PROVE thread[e].fd \in A /\ engine[e].mapped \in B /\ late[e].fd \in L
    <3>1. fd[e] \in A /\ mapped[e] \in B /\ old[e] \in L
      OBVIOUS
    <3>2. QED
      BY <3>1
  <2>2. QED
    BY <2>1
<1>b. UNION {{thread[e].fd, engine[e].mapped, late[e].fd} : e \in Engines} \subseteq E
  BY <1>a
<1> HIDE DEF A, B, L
<1>4. IsFiniteSet(C) /\ Cardinality(C) <= n + n
  <2>1. /\ IsFiniteSet(C) /\ IsFiniteSet(A \cap B)
        /\ Cardinality(C) = Cardinality(A) + Cardinality(B) - Cardinality(A \cap B)
    BY <1>2, <1>3, FS_Union, FS_Intersection
  <2>2. Cardinality(A \cap B) \in Nat
    BY <2>1, FS_CardinalityType
  <2> HIDE DEF n, C
  <2>3. QED
    BY <1>1, <1>2, <1>3, <2>1, <2>2, SMT
<1>d. IsFiniteSet(E) /\ Cardinality(E) <= n + n + n
  <2> HIDE DEF C
  <2>1. /\ IsFiniteSet(E) /\ IsFiniteSet(C \cap L)
        /\ Cardinality(E) = Cardinality(C) + Cardinality(L) - Cardinality(C \cap L)
    BY <1>4, <1>c, FS_Union, FS_Intersection
  <2>2. Cardinality(C \cap L) \in Nat /\ Cardinality(C) \in Nat
    BY <1>4, <2>1, FS_CardinalityType
  <2> HIDE DEF n, E
  <2>3. QED
    BY <1>1, <1>4, <1>c, <2>1, <2>2, SMT
<1>5. IsFiniteSet(D) /\ Cardinality(D) <= n + n + n + 1
  <2>1. Cardinality(E) \in Nat
    BY <1>d, FS_CardinalityType
  <2>2. IsFiniteSet(D) /\ Cardinality(D) = IF target \in E THEN Cardinality(E) ELSE Cardinality(E) + 1
    BY <1>d, FS_AddElement
  <2> HIDE DEF n, E, D
  <2>3. QED
    BY <1>1, <1>d, <2>1, <2>2, SMT
<1>6. IsFiniteSet(Inodes) /\ Cardinality(Inodes) = 2 + 3 * n
  <2>1. IsFiniteSet(1 .. 2 + 3 * n) /\ Cardinality(1 .. 2 + 3 * n) = 2 + 3 * n
    BY <1>1, FS_Interval, SMT
  <2>2. QED
    BY <2>1 DEF Inodes
<1>7. \E i \in Inodes : i \notin D
  <2>1. SUFFICES ASSUME Inodes \subseteq D PROVE FALSE
    OBVIOUS
  <2>2. Cardinality(Inodes) <= Cardinality(D) /\ Cardinality(D) \in Nat
    BY <1>5, <2>1, FS_Subset, FS_CardinalityType
  <2> HIDE DEF n, D
  <2>3. QED
    BY <1>1, <1>5, <1>6, <2>2, SMT
<1>8. \E i \in Inodes : i \notin {target, tmp} \cup UNION {{thread[e].fd, engine[e].mapped, late[e].fd} : e \in Engines}
  BY <1>7, <1>b, InodesAreNumbers
<1>9. /\ FreshInode \in Inodes
      /\ FreshInode \notin {target, tmp} \cup UNION {{thread[e].fd, engine[e].mapped, late[e].fd} : e \in Engines}
  BY <1>8, Zenon DEF FreshInode
<1>10. QED
  BY <1>9

(* The field of a record of engines that a step changes, and the others.   *)
LEMMA EngineFields ==
  ASSUME NEW r \in EngineType, NEW n \in Nat
  PROVE  /\ [r EXCEPT !.processed = n] \in EngineType
         /\ [r EXCEPT !.processed = n].original = r.original
         /\ [r EXCEPT !.processed = n].mapped = r.mapped
         /\ [r EXCEPT !.processed = n].published = r.published
         /\ [r EXCEPT !.processed = n].synced = r.synced
         /\ [r EXCEPT !.processed = n].pieces = r.pieces
         /\ [r EXCEPT !.processed = n].processed = n
         /\ [r EXCEPT !.published = n] \in EngineType
         /\ [r EXCEPT !.published = n].original = r.original
         /\ [r EXCEPT !.published = n].mapped = r.mapped
         /\ [r EXCEPT !.published = n].published = n
         /\ [r EXCEPT !.published = n].synced = r.synced
         /\ [r EXCEPT !.published = n].pieces = r.pieces
         /\ [r EXCEPT !.published = n].processed = r.processed
         /\ [r EXCEPT !.finished = TRUE] \in EngineType
         /\ [r EXCEPT !.finished = TRUE].original = r.original
         /\ [r EXCEPT !.finished = TRUE].mapped = r.mapped
         /\ [r EXCEPT !.finished = TRUE].published = r.published
         /\ [r EXCEPT !.finished = TRUE].synced = r.synced
         /\ [r EXCEPT !.finished = TRUE].pieces = r.pieces
         /\ [r EXCEPT !.finished = TRUE].processed = r.processed
         /\ [r EXCEPT !.synced = n] \in EngineType
         /\ [r EXCEPT !.synced = n].original = r.original
         /\ [r EXCEPT !.synced = n].mapped = r.mapped
         /\ [r EXCEPT !.synced = n].pieces = r.pieces
         /\ [r EXCEPT !.synced = n].published = r.published
         /\ [r EXCEPT !.synced = n].synced = n
         /\ [r EXCEPT !.synced = n].processed = r.processed
BY Zenon DEF EngineType

(* The pieces are a field like others.                                     *)
LEMMA PiecesField ==
  ASSUME NEW r \in EngineType, NEW p \in Seq(Pieces)
  PROVE  /\ [r EXCEPT !.pieces = p] \in EngineType
         /\ [r EXCEPT !.pieces = p].pieces = p
         /\ [r EXCEPT !.pieces = p].original = r.original
         /\ [r EXCEPT !.pieces = p].mapped = r.mapped
         /\ [r EXCEPT !.pieces = p].published = r.published
         /\ [r EXCEPT !.pieces = p].synced = r.synced
         /\ [r EXCEPT !.pieces = p].processed = r.processed
BY Zenon DEF EngineType

(* Two fields at once are one after the other.                             *)
LEMMA FieldsInTurn ==
  ASSUME NEW f, NEW e, e \in DOMAIN f, NEW p, NEW n, NEW b
  PROVE  /\ [f EXCEPT ![e].pieces = p, ![e].synced = n] =
              [f EXCEPT ![e] = [[f[e] EXCEPT !.pieces = p] EXCEPT !.synced = n]]
         /\ [f EXCEPT ![e].published = n, ![e].finished = b] =
              [f EXCEPT ![e] = [[f[e] EXCEPT !.published = n] EXCEPT !.finished = b]]
OBVIOUS

(* An engine that nobody uses has nothing, and one that is used may change *)
(* as long as it maps the same file and its numbers keep their order.      *)
LEMMA EngineMoves ==
  ASSUME Mapped, NEW e \in Engines, Active(e), NEW new \in EngineType,
         engine' = [engine EXCEPT ![e] = new],
         new.original = engine[e].original, new.mapped = engine[e].mapped,
         new.synced <= new.published, new.published <= new.processed,
         new.processed <= Len(new.original),
         UNCHANGED <<is_saving, thread, attached, disk>>, Counters',
         "reopened" \in mishaps => "reopened" \in mishaps'
  PROVE  Mapped'
<1> USE DEF Mapped
<1>1. /\ \A f \in Engines : engine'[f] = IF f = e THEN new ELSE engine[f]
      /\ engine' \in [Engines -> EngineType]
  BY DEF EnginesOK
<1>2. EnginesOK'
  BY <1>1 DEF EnginesOK
<1>3. Disk' /\ ThreadsOK'
  BY DEF Disk, disk, ThreadsOK, ThreadOK
<1>4. Freed' /\ \A f \in Engines : Active(f)' <=> Active(f)
  BY <1>1 DEF Freed, Active
<1>5. Alone => Alone'
  <2>1. \A f \in Engines : engine'[f].mapped = engine[f].mapped /\ engine'[f].original = engine[f].original
    BY <1>1
  <2>2. QED
    BY <1>4, <2>1 DEF Alone, disk
<1>6. QED
  BY <1>2, <1>3, <1>4, <1>5

(* Who is attached has an engine, and who has a thread. *)
LEMMA AttachedActive == ASSUME NEW e \in Range(attached) PROVE Active(e)
BY DEF Active

(* The file as a list, a piece more or a longer piece.                     *)
LEMMA PieceFields ==
  ASSUME NEW p \in Pieces, p.kind = "original", NEW n \in Nat
  PROVE  [p EXCEPT !.to = n] \in Pieces
BY DEF Pieces

(* The pieces that the model makes are pieces. *)
LEMMA PiecesMade ==
  /\ \A a, b \in Nat : Original(a, b) \in Pieces
  /\ Memory(<<Text>>) \in Pieces
<1>1. \A a, b \in Nat : Original(a, b) \in Pieces
  BY DEF Original, Pieces
<1>2. <<Text>> \in Seq({Text})
  BY SMT
<1>3. Memory(<<Text>>) \in Pieces
  BY <1>2 DEF Memory, Pieces
<1>4. QED
  BY <1>1, <1>3

(* Lines that are published give a list of pieces. *)
LEMMA ExtendedType ==
  ASSUME NEW e \in Engines, engine[e] \in EngineType, NEW n \in Nat
  PROVE  Extended(e, n) \in Seq(Pieces)
<1> DEFINE pieces == engine[e].pieces
           synced == engine[e].synced
<1>1. pieces \in Seq(Pieces) /\ synced \in Nat
  BY DEF EngineType
<1> HIDE DEF pieces, synced
<1>2. CASE n <= synced
  BY <1>1, <1>2 DEF Extended, pieces, synced
<1>3. CASE ~(n <= synced) /\ pieces # << >> /\ Last(pieces).kind = "original" /\ Last(pieces).to = synced
  <2>1. Len(pieces) \in 1 .. Len(pieces) /\ Last(pieces) = pieces[Len(pieces)] /\ Last(pieces) \in Pieces
    BY <1>1, <1>3, SMT DEF Last
  <2>2. [pieces[Len(pieces)] EXCEPT !.to = n] \in Pieces
    BY <1>3, <2>1, PieceFields
  <2>3. Extended(e, n) = [pieces EXCEPT ![Len(pieces)] = [pieces[Len(pieces)] EXCEPT !.to = n]]
    BY <1>3 DEF Extended, pieces, synced
  <2> DEFINE p == [pieces[Len(pieces)] EXCEPT !.to = n]
  <2> HIDE DEF p
  <2>4. [pieces EXCEPT ![Len(pieces)] = p] \in Seq(Pieces)
    BY <1>1, <2>1, <2>2, SMT DEF p
  <2>5. QED
    BY <2>3, <2>4 DEF p
<1>4. CASE ~(n <= synced) /\ ~(pieces # << >> /\ Last(pieces).kind = "original" /\ Last(pieces).to = synced)
  <2>1. Extended(e, n) = Append(pieces, Original(synced, n))
    BY <1>4 DEF Extended, pieces, synced
  <2>2. Original(synced, n) \in Pieces
    BY <1>1, PiecesMade
  <2>3. QED
    BY <1>1, <2>1, <2>2, SMT
<1>5. QED
  BY <1>2, <1>3, <1>4

(* So does the deletion at the front. *)
LEMMA WithoutFirstType == ASSUME NEW s \in Seq(Pieces) PROVE WithoutFirst(s) \in Seq(Pieces)
<1>1. CASE s = << >>
  BY <1>1, SMT DEF WithoutFirst
<1>2. CASE s # << >>
  <2> DEFINE first == Head(s)
             new == Original(first.from + 1, first.to)
  <2>1. Tail(s) \in Seq(Pieces) /\ first \in Pieces
    BY <1>2, SMT
  <2>2. CASE first.kind = "original" /\ first.from + 1 < first.to
    <3>1. first.from \in Nat /\ first.to \in Nat
      BY <2>1, <2>2 DEF Pieces
    <3>2. first.from + 1 \in Nat
      BY <3>1
    <3>3. new \in Pieces
      BY <3>1, <3>2, PiecesMade
    <3> HIDE DEF new
    <3>4. <<new>> \o Tail(s) \in Seq(Pieces)
      BY <2>1, <3>3, SMT
    <3>5. QED
      BY <1>2, <2>2, <3>4 DEF WithoutFirst, new
  <2>3. CASE ~(first.kind = "original" /\ first.from + 1 < first.to)
    BY <1>2, <2>1, <2>3 DEF WithoutFirst
  <2>4. QED
    BY <2>2, <2>3
<1>3. QED
  BY <1>1, <1>2

(* No more lines can be published than were read.                          *)
LEMMA LineEndsBehind ==
  ASSUME NEW e, NEW n \in Nat
  PROVE  LineEnds(e, n) \in 0 .. n
<1> DEFINE S == {0} \cup {k \in 1 .. n : ~Unterminated(SubSeq(engine[e].original, 1, k))}
<1>1. S \in SUBSET (0 .. n) /\ S # {}
  <2>1. 1 .. n \subseteq 0 .. n /\ 0 \in 0 .. n
    BY SMT
  <2>2. QED
    BY <2>1
<1> HIDE DEF S
<1>2. Max(S) \in S
  BY <1>1, GreatestExists
<1>3. QED
  BY <1>1, <1>2 DEF LineEnds, S

(* The indexer reads and publishes, but never more than there is, and only *)
(* of a file that somebody has open.                                       *)
LEMMA IndexKeepsMapped ==
  ASSUME Mapped, NEW e \in Engines, IndexCount(e) \/ IndexPublish(e) \/ IndexFinish(e)
  PROVE  Mapped'
<1>1. /\ engine \in [Engines -> EngineType] /\ engine[e] \in EngineType
      /\ engine[e].processed \in Nat /\ engine[e].published \in Nat /\ engine[e].synced \in Nat
      /\ engine[e].synced <= engine[e].published /\ engine[e].published <= engine[e].processed
      /\ engine[e].processed <= Len(engine[e].original)
  BY DEF Mapped, EnginesOK, EngineType
<1>2. Counters' /\ UNCHANGED <<is_saving, thread, attached, disk, mishaps>>
  BY DEF Mapped, Counters, IndexCount, IndexPublish, IndexFinish, ui, history
<1>3. Len(engine[e].original) \in Nat
  BY <1>1, LenInNat DEF EngineType
<1>4. Active(e)
  <2>1. CASE IndexCount(e)
    BY <2>1 DEF IndexCount, Active
  <2>2. CASE IndexPublish(e)
    <3>1. SUFFICES ASSUME engine[e] = NoEngine PROVE FALSE
      BY DEF Mapped, Freed
    <3>2. engine[e].processed = 0 /\ engine[e].published = 0
      BY <3>1 DEF NoEngine
    <3>3. LineEnds(e, 0) = 0
      BY LineEndsBehind, SMT
    <3>4. QED
      BY <2>2, <3>2, <3>3 DEF IndexPublish
  <2>3. CASE IndexFinish(e)
    BY <2>3 DEF IndexFinish, Mapped, Freed, NoEngine
  <2>4. QED
    BY <2>1, <2>2, <2>3
<1>5. CASE IndexCount(e)
  <2> DEFINE n == engine[e].processed + 1
             new == [engine[e] EXCEPT !.processed = n]
  <2>1. engine' = [engine EXCEPT ![e] = new]
    BY <1>5 DEF IndexCount
  <2>2. n \in Nat /\ n <= Len(engine[e].original) /\ engine[e].published <= n
    BY <1>1, <1>3, <1>5, SMT DEF IndexCount
  <2> HIDE DEF n
  <2>3. /\ new \in EngineType /\ new.original = engine[e].original /\ new.mapped = engine[e].mapped
        /\ new.published = engine[e].published /\ new.synced = engine[e].synced
        /\ new.processed = n
    BY <1>1, <2>2, EngineFields
  <2> HIDE DEF new
  <2>4. QED
    BY <1>1, <1>2, <1>4, <2>1, <2>2, <2>3, EngineMoves
<1>6. CASE IndexPublish(e)
  <2> DEFINE n == LineEnds(e, engine[e].processed)
             new == [engine[e] EXCEPT !.published = n]
  <2>1. engine' = [engine EXCEPT ![e] = new]
    BY <1>6 DEF IndexPublish
  <2>2. n \in Nat /\ n <= engine[e].processed /\ engine[e].synced <= n
    <3>1. n \in 0 .. engine[e].processed
      BY <1>1, LineEndsBehind
    <3>2. engine[e].published < n
      BY <1>6 DEF IndexPublish
    <3> HIDE DEF n
    <3>3. QED
      BY <1>1, <3>1, <3>2, SMT
  <2> HIDE DEF n
  <2>3. /\ new \in EngineType /\ new.original = engine[e].original /\ new.mapped = engine[e].mapped
        /\ new.published = n /\ new.synced = engine[e].synced
        /\ new.processed = engine[e].processed
    BY <1>1, <2>2, EngineFields
  <2> HIDE DEF new
  <2>4. QED
    BY <1>1, <1>2, <1>4, <2>1, <2>2, <2>3, EngineMoves
<1>7. CASE IndexFinish(e)
  <2> DEFINE n == engine[e].processed
             mid == [engine[e] EXCEPT !.published = n]
             new == [mid EXCEPT !.finished = TRUE]
  <2>1. engine' = [engine EXCEPT ![e] = new]
    BY <1>1, <1>7, FieldsInTurn DEF IndexFinish
  <2>2. n \in Nat /\ engine[e].synced <= n
    BY <1>1, SMT
  <2>a. n = engine[e].processed /\ n <= engine[e].processed
    BY <1>1
  <2> HIDE DEF n
  <2>3. /\ mid \in EngineType /\ mid.original = engine[e].original /\ mid.mapped = engine[e].mapped
        /\ mid.published = n /\ mid.synced = engine[e].synced
        /\ mid.processed = engine[e].processed
    BY <1>1, <2>2, EngineFields
  <2> HIDE DEF mid
  <2>4. /\ new \in EngineType /\ new.original = engine[e].original /\ new.mapped = engine[e].mapped
        /\ new.published = n /\ new.synced = engine[e].synced
        /\ new.processed = engine[e].processed
    BY <2>2, <2>3, EngineFields
  <2> HIDE DEF new
  <2>5. QED
    BY <1>1, <1>2, <1>4, <2>1, <2>2, <2>4, <2>a, EngineMoves
<1>8. QED
  BY <1>5, <1>6, <1>7

(* A synchronisation takes what is published, and nothing else of what the *)
(* engine knows about the file.                                            *)
LEMMA SyncKeepsMapped ==
  ASSUME Mapped, NEW e \in Engines, Active(e), NEW p \in Seq(Pieces), engine' = Synced(e, p),
         UNCHANGED <<is_saving, thread, attached, disk>>, Counters',
         "reopened" \in mishaps => "reopened" \in mishaps'
  PROVE  Mapped'
<1>1. /\ engine \in [Engines -> EngineType] /\ engine[e] \in EngineType
      /\ engine[e].processed \in Nat /\ engine[e].published \in Nat
      /\ engine[e].published <= engine[e].processed
      /\ engine[e].processed <= Len(engine[e].original)
  BY DEF Mapped, EnginesOK, EngineType
<1> DEFINE n == engine[e].published
           mid == [engine[e] EXCEPT !.pieces = p]
           new == [mid EXCEPT !.synced = n]
<1>2. engine' = [engine EXCEPT ![e] = new]
  BY <1>1, FieldsInTurn DEF Synced, Arrived
<1>3. n \in Nat /\ n <= n /\ n = engine[e].published
  BY <1>1
<1> HIDE DEF n
<1>4. /\ mid \in EngineType /\ mid.original = engine[e].original /\ mid.mapped = engine[e].mapped
      /\ mid.published = engine[e].published /\ mid.processed = engine[e].processed
  BY <1>1, PiecesField
<1> HIDE DEF mid
<1>5. /\ new \in EngineType /\ new.original = engine[e].original /\ new.mapped = engine[e].mapped
      /\ new.published = engine[e].published /\ new.synced = n
      /\ new.processed = engine[e].processed
  BY <1>3, <1>4, EngineFields
<1> HIDE DEF new
<1>6. QED
  BY <1>1, <1>2, <1>3, <1>5, EngineMoves

(* Polls, edits and moves of the window synchronise the engine of an       *)
(* attached buffer, whatever becomes of the pieces.                        *)
LEMMA UserKeepsMapped ==
  ASSUME Mapped, Shielded, NEW e \in Engines, PollIndex(e) \/ Edit(e) \/ ShiftWindow(e)
  PROVE  Mapped'
<1>1. attached \in Seq(Engines) /\ buffer.changedtick \in Nat
  BY DEF Shielded, Attachments, Buffers
<1>2. Active(e)
  <2>1. CASE PollIndex(e)
    BY <2>1 DEF PollIndex, Active
  <2>2. CASE Edit(e) \/ ShiftWindow(e)
    <3>1. attached # << >> /\ e = Last(attached)
      BY <2>2 DEF Edit, ShiftWindow
    <3>2. e \in Range(attached)
      BY <1>1, <3>1, SMT DEF Range, Last
    <3>3. QED
      BY <3>2 DEF Active
  <2>3. QED
    BY <2>1, <2>2
<1>3. engine[e] \in EngineType /\ engine[e].published \in Nat
  BY DEF Mapped, EnginesOK, EngineType
<1>4. SyncedPieces(e) \in Seq(Pieces)
  BY <1>3, ExtendedType DEF SyncedPieces, Arrived
<1>5. UNCHANGED <<is_saving, thread, attached, disk>> /\ ("reopened" \in mishaps => "reopened" \in mishaps')
  BY DEF PollIndex, Edit, ShiftWindow, history
<1>6. Counters'
  <2>1. Counters /\ MaxTick \in Nat
    BY SaveAssumption DEF Mapped
  <2>2. CASE PollIndex(e)
    BY <2>1, <2>2 DEF PollIndex, Counters, history
  <2>3. CASE Edit(e)
    <3>1. buffer'.changedtick = buffer.changedtick + 1 /\ buffer.changedtick < MaxTick
      BY <2>3 DEF Edit
    <3>2. buffer'.changedtick <= MaxTick
      BY <1>1, <2>1, <3>1, SMT
    <3>3. QED
      BY <2>1, <2>3, <3>2 DEF Edit, Counters
  <2>4. CASE ShiftWindow(e)
    <3>1. buffer'.changedtick = buffer.changedtick + 1 /\ buffer.changedtick < MaxTick
      <4>1. buffer \in Buffers
        BY DEF Shielded, Attachments
      <4>2. QED
        BY <2>4, <4>1 DEF ShiftWindow, Buffers
    <3>2. buffer'.changedtick <= MaxTick
      BY <1>1, <2>1, <3>1, SMT
    <3>3. QED
      BY <2>1, <2>4, <3>2 DEF ShiftWindow, Counters, history
  <2>5. QED
    BY <2>2, <2>3, <2>4
<1>7. CASE PollIndex(e)
  <2>1. engine' = Synced(e, SyncedPieces(e))
    BY <1>7 DEF PollIndex
  <2>2. QED
    BY <1>2, <1>4, <1>5, <1>6, <2>1, SyncKeepsMapped
<1>8. CASE ShiftWindow(e)
  <2>1. engine' = Synced(e, SyncedPieces(e))
    BY <1>8 DEF ShiftWindow
  <2>2. QED
    BY <1>2, <1>4, <1>5, <1>6, <2>1, SyncKeepsMapped
<1>9. CASE Edit(e) /\ editor[e].complete
  <2>1. PICK p \in {<<Memory(<<Text>>)>> \o SyncedPieces(e), WithoutFirst(SyncedPieces(e))} :
          engine' = Synced(e, p)
    BY <1>9 DEF Edit
  <2>2. p \in Seq(Pieces)
    <3>1. WithoutFirst(SyncedPieces(e)) \in Seq(Pieces)
      BY <1>4, WithoutFirstType
    <3>2. <<Memory(<<Text>>)>> \o SyncedPieces(e) \in Seq(Pieces)
      BY <1>4, PiecesMade, SMT
    <3>3. QED
      BY <3>1, <3>2
  <2>3. QED
    BY <1>2, <1>5, <1>6, <2>1, <2>2, SyncKeepsMapped
<1>10. CASE Edit(e) /\ ~editor[e].complete
  <2>1. UNCHANGED engine
    BY <1>10 DEF Edit
  <2>2. EnginesOK' /\ Disk' /\ ThreadsOK' /\ Freed' /\ (Alone => Alone')
    BY <1>5, <2>1 DEF Mapped, EnginesOK, Disk, disk, ThreadsOK, ThreadOK, Freed, Active, Alone
  <2>3. QED
    BY <1>5, <1>6, <2>2 DEF Mapped
<1>11. QED
  BY <1>7, <1>8, <1>9, <1>10

(* A step of a save sets a field of its thread and leaves the others.      *)
LEMMA SetPc ==
  ASSUME NEW o, NEW d, NEW r \in ThreadType(o, d), NEW x \in Steps
  PROVE  LET new == [r EXCEPT !.pc = x]
         IN  /\ new \in ThreadType(o, d) /\ new.pc = x
             /\ new.pieces = r.pieces /\ new.todo = r.todo /\ new.start = r.start
             /\ new.closing = r.closing /\ new.fd = r.fd /\ new.pos = r.pos
             /\ new.unwritten = r.unwritten /\ new.outputs = r.outputs /\ new.document = r.document
BY Zenon DEF ThreadType

(* A thread with other pieces is a thread, and the rest of it is as it was; the same for each of its
   other fields. *)
LEMMA SetPieces ==
  ASSUME NEW o, NEW d, NEW r \in ThreadType(o, d), NEW p \in Seq(Pieces)
  PROVE  LET new == [r EXCEPT !.pieces = p]
         IN  /\ new \in ThreadType(o, d) /\ new.pieces = p
             /\ new.pc = r.pc /\ new.todo = r.todo /\ new.start = r.start
             /\ new.closing = r.closing /\ new.fd = r.fd /\ new.pos = r.pos
             /\ new.unwritten = r.unwritten /\ new.outputs = r.outputs /\ new.document = r.document
BY Zenon DEF ThreadType

(* The items that are still to be written. *)
LEMMA SetTodo ==
  ASSUME NEW o, NEW d, NEW r \in ThreadType(o, d), NEW s \in Seq(Items)
  PROVE  LET new == [r EXCEPT !.todo = s]
         IN  /\ new \in ThreadType(o, d) /\ new.todo = s
             /\ new.pc = r.pc /\ new.pieces = r.pieces /\ new.start = r.start
             /\ new.closing = r.closing /\ new.fd = r.fd /\ new.pos = r.pos
             /\ new.unwritten = r.unwritten /\ new.outputs = r.outputs /\ new.document = r.document
BY Zenon DEF ThreadType

(* The block the next piece begins at. *)
LEMMA SetStart ==
  ASSUME NEW o, NEW d, NEW r \in ThreadType(o, d), NEW n \in Nat
  PROVE  LET new == [r EXCEPT !.start = n]
         IN  /\ new \in ThreadType(o, d) /\ new.start = n
             /\ new.pc = r.pc /\ new.pieces = r.pieces /\ new.todo = r.todo
             /\ new.closing = r.closing /\ new.fd = r.fd /\ new.pos = r.pos
             /\ new.unwritten = r.unwritten /\ new.outputs = r.outputs /\ new.document = r.document
BY Zenon DEF ThreadType

(* Whether the buffered writer is being closed. *)
LEMMA SetClosing ==
  ASSUME NEW o, NEW d, NEW r \in ThreadType(o, d), NEW b \in BOOLEAN
  PROVE  LET new == [r EXCEPT !.closing = b]
         IN  /\ new \in ThreadType(o, d) /\ new.closing = b
             /\ new.pc = r.pc /\ new.pieces = r.pieces /\ new.todo = r.todo
             /\ new.start = r.start /\ new.fd = r.fd /\ new.pos = r.pos
             /\ new.unwritten = r.unwritten /\ new.outputs = r.outputs /\ new.document = r.document
BY Zenon DEF ThreadType

(* The open file. *)
LEMMA SetFd ==
  ASSUME NEW o, NEW d, NEW r \in ThreadType(o, d), NEW i \in Inodes \cup {NoFile}
  PROVE  LET new == [r EXCEPT !.fd = i]
         IN  /\ new \in ThreadType(o, d) /\ new.fd = i
             /\ new.pc = r.pc /\ new.pieces = r.pieces /\ new.todo = r.todo
             /\ new.start = r.start /\ new.closing = r.closing /\ new.pos = r.pos
             /\ new.unwritten = r.unwritten /\ new.outputs = r.outputs /\ new.document = r.document
BY Zenon DEF ThreadType

(* The position in the open file. *)
LEMMA SetPos ==
  ASSUME NEW o, NEW d, NEW r \in ThreadType(o, d), NEW n \in Nat
  PROVE  LET new == [r EXCEPT !.pos = n]
         IN  /\ new \in ThreadType(o, d) /\ new.pos = n
             /\ new.pc = r.pc /\ new.pieces = r.pieces /\ new.todo = r.todo
             /\ new.start = r.start /\ new.closing = r.closing /\ new.fd = r.fd
             /\ new.unwritten = r.unwritten /\ new.outputs = r.outputs /\ new.document = r.document
BY Zenon DEF ThreadType

(* What the buffered writer holds. *)
LEMMA SetUnwritten ==
  ASSUME NEW o, NEW d, NEW r \in ThreadType(o, d), NEW s \in Seq(Items)
  PROVE  LET new == [r EXCEPT !.unwritten = s]
         IN  /\ new \in ThreadType(o, d) /\ new.unwritten = s
             /\ new.pc = r.pc /\ new.pieces = r.pieces /\ new.todo = r.todo
             /\ new.start = r.start /\ new.closing = r.closing /\ new.fd = r.fd
             /\ new.pos = r.pos /\ new.outputs = r.outputs /\ new.document = r.document
BY Zenon DEF ThreadType

(* The history of what the save may write. *)
LEMMA SetOutputs ==
  ASSUME NEW o, NEW d, NEW r \in ThreadType(o, d), NEW h
  PROVE  LET new == [r EXCEPT !.outputs = h]
         IN  /\ new \in ThreadType(h, d) /\ new.outputs = h
             /\ new.pc = r.pc /\ new.pieces = r.pieces /\ new.todo = r.todo
             /\ new.start = r.start /\ new.closing = r.closing /\ new.fd = r.fd
             /\ new.pos = r.pos /\ new.unwritten = r.unwritten /\ new.document = r.document
BY Zenon DEF ThreadType

(* The history of the document the save was asked for. *)
LEMMA SetDocument ==
  ASSUME NEW o, NEW d, NEW r \in ThreadType(o, d), NEW h
  PROVE  LET new == [r EXCEPT !.document = h]
         IN  /\ new \in ThreadType(o, h) /\ new.document = h
             /\ new.pc = r.pc /\ new.pieces = r.pieces /\ new.todo = r.todo
             /\ new.start = r.start /\ new.closing = r.closing /\ new.fd = r.fd
             /\ new.pos = r.pos /\ new.unwritten = r.unwritten /\ new.outputs = r.outputs
BY Zenon DEF ThreadType

(* A thread that does not run, and an engine that was freed.               *)
LEMMA NothingTyped ==
  /\ NoThread \in ThreadType(NoThread.outputs, NoThread.document)
  /\ NoThread.pc = "none" /\ NoThread.fd = NoFile /\ NoThread.pos = 0
  /\ NoThread.unwritten = << >>
  /\ NoEngine \in EngineType
  /\ NoEngine.mapped = NoFile /\ NoEngine.synced <= NoEngine.published
  /\ NoEngine.published <= NoEngine.processed /\ NoEngine.processed <= Len(NoEngine.original)
<1>1. << >> \in Seq(Items) /\ << >> \in Seq(Pieces) /\ Len(<< >>) = 0
  BY SMT
<1>2. NoThread \in ThreadType(NoThread.outputs, NoThread.document)
  BY <1>1 DEF NoThread, ThreadType, Steps
<1>3. NoEngine \in EngineType
  BY <1>1 DEF NoEngine, EngineType
<1>4. /\ NoThread.pc = "none" /\ NoThread.fd = NoFile /\ NoThread.pos = 0
      /\ NoThread.unwritten = << >>
  BY DEF NoThread
<1>5. /\ NoEngine.mapped = NoFile /\ NoEngine.synced <= NoEngine.published
      /\ NoEngine.published <= NoEngine.processed /\ NoEngine.processed <= Len(NoEngine.original)
  BY <1>1, SMT DEF NoEngine
<1>6. QED
  BY <1>2, <1>3, <1>4, <1>5

(* An idle engine is one without a thread.                                 *)
LEMMA IdleIsNone == ASSUME Mapped, NEW e \in Engines PROVE Idle(e) <=> thread[e].pc = "none"
BY DEF Mapped, ThreadsOK, ThreadOK, Idle

(* At the start one file exists, and nobody has it open.                   *)
LEMMA InitMapped == Init => Mapped
<1> SUFFICES ASSUME Init PROVE Mapped
  OBVIOUS
<1>1. 1 \in Inodes /\ NoFile # 1
  <2>1. Cardinality(Engines) \in Nat
    BY SaveAssumption, FS_CardinalityType
  <2>2. QED
    BY <2>1, SMT DEF Inodes, NoFile
<1>2. File \in Seq(Items) /\ << >> \in Seq(Items)
  <2>1. Range(File) \subseteq Items /\ File \in Seq(Range(File))
    BY SaveAssumption DEF Items
  <2>2. QED
    BY <2>1, SMT
<1>3. Disk
  <2>1. content \in [Inodes -> Seq(Items)]
    BY <1>2 DEF Init
  <2>2. NoWriter \in WriterType /\ late = [e \in Engines |-> NoWriter]
    BY <1>2 DEF Init, NoWriter, WriterType
  <2>3. QED
    BY <1>1, <2>1, <2>2 DEF Init, Disk
<1>4. engine = [e \in Engines |-> NoEngine] /\ thread = [e \in Engines |-> NoThread]
  BY DEF Init
<1>5. EnginesOK
  BY <1>4, NothingTyped DEF EnginesOK
<1>6. ThreadsOK
  <2>1. ASSUME NEW e \in Engines PROVE ThreadOK(e)
    <3>1. thread[e] = NoThread /\ ~is_saving[e]
      BY <1>4 DEF Init
    <3>2. QED
      BY <3>1, NothingTyped DEF ThreadOK
  <2>2. QED
    BY <1>4, <2>1 DEF ThreadsOK
<1>7. \A e \in Engines : engine[e] = NoEngine
  BY <1>4
<1>8. \A e \in Engines : ~Active(e)
  <2>1. attached = << >>
    BY DEF Init
  <2>2. Range(attached) = {}
    BY <2>1, SMT DEF Range
  <2>3. QED
    BY <1>4, <2>2, NothingTyped DEF Active
<1>9. Counters
  BY SaveAssumption DEF Init, Counters
<1>10. Alone
  BY <1>4, <1>8, NothingTyped DEF Alone
<1>11. QED
  BY <1>3, <1>5, <1>6, <1>7, <1>9, <1>10 DEF Mapped, Freed

(* What log_engine_new makes of a file.                                    *)
LEMMA NewEngineTyped ==
  ASSUME Disk, NEW lazy \in BOOLEAN
  PROVE  LET new == NewEngine(lazy)
         IN  /\ new \in EngineType /\ new.mapped = target /\ new.original = content[target]
             /\ new.synced <= new.published /\ new.published <= new.processed
             /\ new.processed <= Len(new.original)
<1> DEFINE original == content[target]
           all == IF lazy THEN 0 ELSE Len(original)
           new == NewEngine(lazy)
<1>1. original \in Seq(Items)
  BY DEF Disk
<1> HIDE DEF original
<1>2. Len(original) \in Nat
  BY <1>1, LenInNat
<1>3. all \in Nat /\ all <= Len(original) /\ all <= all
  BY <1>2, SMT
<1> HIDE DEF all
<1>4. <<Original(0, all)>> \in Seq(Pieces)
  <2>1. Original(0, all) \in Pieces
    BY <1>3, PiecesMade
  <2>2. QED
    BY <2>1, SMT
<1>5. new = [original |-> original, mapped |-> target, processed |-> all, published |-> all,
             finished |-> ~lazy, synced |-> all, pieces |-> <<Original(0, all)>>]
  BY DEF NewEngine, original, all
<1> HIDE DEF new
<1>6. new \in EngineType
  <2>1. target \in Inodes
    BY DEF Disk
  <2>2. QED
    BY <1>1, <1>3, <1>4, <1>5, <2>1 DEF EngineType
<1>7. /\ new.mapped = target /\ new.original = original /\ new.synced = all
      /\ new.published = all /\ new.processed = all
  BY <1>5
<1>8. QED
  BY <1>3, <1>6, <1>7 DEF new, original

(* A file that is opened by nobody else is mapped by the engine that is    *)
(* made, and no save writes.                                               *)
LEMMA AttachKeepsMapped ==
  ASSUME Mapped, Shielded, NEW e \in Engines, NEW lazy \in BOOLEAN, Attach(e, lazy)
  PROVE  Mapped'
<1> DEFINE new == NewEngine(lazy)
<1>1. /\ new \in EngineType /\ new.mapped = target /\ new.original = content[target]
      /\ new.synced <= new.published /\ new.published <= new.processed
      /\ new.processed <= Len(new.original)
  BY NewEngineTyped DEF Mapped
<1>2. /\ engine' = [engine EXCEPT ![e] = new]
      /\ UNCHANGED <<is_saving, thread, target, tmp, content, late>>
      /\ buffer' = [changedtick |-> buffer.changedtick + 1, modified |-> FALSE]
      /\ mishaps' = IF OthersAbout THEN mishaps \cup {"reopened"} ELSE {}
      /\ e \notin Range(attached) /\ Idle(e) /\ buffer.changedtick < MaxTick
  BY DEF Attach, disk
<1> HIDE DEF new
<1>3. Range(attached') = Range(attached) \cup {e}
  BY RangeOfAppend DEF Shielded, Attachments, Attach
<1>4. engine \in [Engines -> EngineType]
  BY DEF Mapped, EnginesOK
<1>5. \A f \in Engines : engine'[f] = IF f = e THEN new ELSE engine[f]
  BY <1>2, <1>4
<1>6. EnginesOK'
  BY <1>1, <1>2, <1>4, <1>5 DEF Mapped, EnginesOK
<1>7. Disk' /\ ThreadsOK'
  BY <1>2 DEF Mapped, Disk, ThreadsOK, ThreadOK
<1>8. Freed'
  BY <1>2, <1>3, <1>5 DEF Mapped, Freed, Active
<1>9. Counters'
  <2>1. buffer.changedtick \in Nat /\ MaxTick \in Nat
    BY SaveAssumption DEF Shielded, Attachments, Buffers
  <2>2. buffer.changedtick + 1 <= MaxTick
    BY <1>2, <2>1, SMT
  <2>3. QED
    BY <1>2, <2>2 DEF Mapped, Counters
<1>10. ASSUME "reopened" \notin mishaps' PROVE Alone'
  <2>1. ~OthersAbout
    BY <1>2, <1>10
  <2>2. attached = << >> /\ \A f \in Engines : Idle(f) /\ late[f] = NoWriter
    BY <2>1 DEF OthersAbout
  <2>3. Range(attached) = {}
    BY <2>2, SMT DEF Range
  <2>4. \A f \in Engines : thread[f].pc = "none" /\ thread[f].fd = NoFile
    BY <2>2, IdleIsNone DEF Mapped, ThreadsOK, ThreadOK
  <2>5. \A f \in Engines : f # e => engine[f] = NoEngine
    BY <2>3, <2>4 DEF Mapped, Freed, Active
  <2>6. \A f \in Engines : Active(f)' <=> f = e
    BY <1>2, <1>3, <2>3, <2>4 DEF Active
  <2>7. \A f \in Engines : engine'[f].mapped # NoFile =>
          f = e /\ engine'[f].mapped = target /\ engine'[f].original = content[target]
    BY <1>1, <1>5, <2>5, NothingTyped
  <2>8. target # tmp /\ target # NoFile /\ \A f \in Engines : late[f].fd = NoFile
    BY <2>2, InodesAreNumbers DEF Mapped, Disk, NoWriter
  <2>9. QED
    BY <1>2, <2>4, <2>6, <2>7, <2>8 DEF Alone
<1>11. QED
  BY <1>6, <1>7, <1>8, <1>9, <1>10 DEF Mapped

(* A wiped buffer frees its engine, unless a save needs it. *)
LEMMA WipeoutKeepsMapped == Mapped /\ Shielded /\ Wipeout => Mapped'
<1> SUFFICES ASSUME Mapped, Shielded, Wipeout PROVE Mapped'
  OBVIOUS
<1>1. /\ attached' = << >> /\ UNCHANGED <<is_saving, thread, target, tmp, content, late, mishaps>>
      /\ engine' = [f \in Engines |-> IF Idle(f) THEN NoEngine ELSE engine[f]]
      /\ buffer' = [buffer EXCEPT !.modified = FALSE]
  BY DEF Wipeout, disk, history
<1>2. Range(attached') = {}
  BY <1>1, SMT DEF Range
<1>3. EnginesOK'
  BY <1>1, NothingTyped DEF Mapped, EnginesOK
<1>4. Disk' /\ ThreadsOK'
  BY <1>1 DEF Mapped, Disk, ThreadsOK, ThreadOK
<1>5. \A f \in Engines : Active(f)' <=> ~Idle(f)
  BY <1>1, <1>2, IdleIsNone DEF Active
<1>6. Freed'
  BY <1>1, <1>5 DEF Freed
<1>7. Counters'
  BY <1>1 DEF Mapped, Counters, Shielded, Attachments, Buffers
<1>8. Alone => Alone'
  <2>1. \A f \in Engines : Active(f)' => Active(f)
    BY <1>5, IdleIsNone DEF Active
  <2>2. \A f \in Engines : engine'[f].mapped # NoFile => engine'[f] = engine[f]
    BY <1>1, NothingTyped
  <2>3. QED
    BY <1>1, <2>1, <2>2 DEF Alone
<1>9. QED
  BY <1>1, <1>3, <1>4, <1>6, <1>7, <1>8 DEF Mapped

(* What has a name survives the editor, and nothing is mapped any more. *)
LEMMA ExitKeepsMapped == Mapped /\ Shielded /\ Exit => Mapped'
<1> SUFFICES ASSUME Mapped, Shielded, Exit PROVE Mapped'
  OBVIOUS
<1>1. /\ attached' = << >> /\ UNCHANGED <<target, tmp, mishaps>>
      /\ engine' = [f \in Engines |-> NoEngine] /\ thread' = [f \in Engines |-> NoThread]
      /\ is_saving' = [f \in Engines |-> FALSE]
      /\ buffer' = [buffer EXCEPT !.modified = FALSE]
      /\ content' = [i \in Inodes |-> IF i \in {target, tmp} THEN content[i] ELSE << >>]
      /\ late' = [f \in Engines |-> NoWriter]
  BY DEF Exit, history
<1>2. Range(attached') = {}
  BY <1>1, SMT DEF Range
<1>3. EnginesOK'
  BY <1>1, NothingTyped DEF EnginesOK
<1>4. Disk'
  <2>1. << >> \in Seq(Items)
    BY SMT
  <2>2. NoWriter \in WriterType
    BY <2>1 DEF NoWriter, WriterType
  <2>3. QED
    BY <1>1, <2>1, <2>2 DEF Mapped, Disk
<1>5. ThreadsOK'
  <2>1. ASSUME NEW e \in Engines PROVE ThreadOK(e)'
    <3>1. thread'[e] = NoThread /\ ~is_saving'[e]
      BY <1>1
    <3>2. QED
      BY <3>1, NothingTyped DEF ThreadOK
  <2>2. QED
    BY <1>1, <2>1 DEF ThreadsOK
<1>6. \A f \in Engines : ~Active(f)'
  BY <1>1, <1>2, NothingTyped DEF Active
<1>7. Freed' /\ Alone'
  <2>1. \A f \in Engines : engine'[f] = NoEngine /\ thread'[f] = NoThread
    BY <1>1
  <2>2. QED
    BY <1>6, <2>1, NothingTyped DEF Freed, Alone
<1>8. Counters'
  BY <1>1 DEF Mapped, Counters, Shielded, Attachments, Buffers
<1>9. QED
  BY <1>3, <1>4, <1>5, <1>7, <1>8 DEF Mapped

(* A save begins with the pieces of the engine, and has no file yet. *)
SavingThread(p, o, d) ==
  [NoThread EXCEPT !.pc = "open", !.pieces = p, !.outputs = o, !.document = d]

(* A thread as save_async starts it. *)
LEMMA NewThreadTyped ==
  ASSUME NEW p \in Seq(Pieces), NEW o, NEW d
  PROVE  LET new == SavingThread(p, o, d)
         IN  /\ new \in ThreadType(new.outputs, new.document)
             /\ new.pc = "open" /\ new.fd = NoFile /\ new.pos = 0 /\ new.unwritten = << >>
             /\ new.pieces = p /\ new.outputs = o /\ new.document = d /\ new.todo = << >>
<1> DEFINE r1 == [NoThread EXCEPT !.pc = "open"]
           r2 == [r1 EXCEPT !.pieces = p]
           r3 == [r2 EXCEPT !.outputs = o]
           r4 == [r3 EXCEPT !.document = d]
           o0 == NoThread.outputs
           d0 == NoThread.document
<1>1. /\ NoThread \in ThreadType(o0, d0) /\ NoThread.fd = NoFile /\ NoThread.pos = 0
      /\ NoThread.unwritten = << >> /\ NoThread.todo = << >>
  BY NothingTyped DEF NoThread
<1> HIDE DEF o0, d0
<1>2. /\ r1 \in ThreadType(o0, d0) /\ r1.pc = "open" /\ r1.fd = NoFile /\ r1.pos = 0
      /\ r1.unwritten = << >> /\ r1.todo = << >>
  <2>1. "open" \in Steps
    BY DEF Steps
  <2>2. QED
    BY <1>1, <2>1, SetPc
<1> HIDE DEF r1
<1>3. /\ r2 \in ThreadType(o0, d0) /\ r2.pc = "open" /\ r2.fd = NoFile /\ r2.pos = 0
      /\ r2.unwritten = << >> /\ r2.todo = << >> /\ r2.pieces = p
  BY <1>2, SetPieces
<1> HIDE DEF r2
<1>4. /\ r3 \in ThreadType(o, d0) /\ r3.pc = "open" /\ r3.fd = NoFile /\ r3.pos = 0
      /\ r3.unwritten = << >> /\ r3.todo = << >> /\ r3.pieces = p /\ r3.outputs = o
  BY <1>3, SetOutputs
<1> HIDE DEF r3
<1>5. /\ r4 \in ThreadType(o, d) /\ r4.pc = "open" /\ r4.fd = NoFile /\ r4.pos = 0
      /\ r4.unwritten = << >> /\ r4.todo = << >> /\ r4.pieces = p /\ r4.outputs = o
      /\ r4.document = d
  BY <1>4, SetDocument
<1>6. QED
  BY <1>5 DEF SavingThread, r4, r3, r2, r1

(* A save begins in an engine that somebody has attached.                  *)
LEMMA WriteKeepsMapped == Mapped /\ Shielded /\ Write => Mapped'
<1> SUFFICES ASSUME Mapped, Shielded, Write PROVE Mapped'
  OBVIOUS
<1> DEFINE asked == {e \in Range(attached) : ~editor[e].saving}
           saved == {e \in asked : ~is_saving[e]}
           new(e) == [NoThread EXCEPT !.pc = "open", !.pieces = engine[e].pieces,
                                      !.outputs = Outputs(e), !.document = Document(e)]
<1>1. /\ UNCHANGED <<engine, attached, buffer, target, tmp, content, late>>
      /\ is_saving' = [e \in Engines |-> is_saving[e] \/ e \in saved]
      /\ thread' = [e \in Engines |-> IF e \in saved THEN new(e) ELSE thread[e]]
      /\ mishaps' = mishaps \cup
           (IF \E e \in saved : engine[e].synced < Len(engine[e].original)
            THEN {"unindexed"} ELSE {})
  BY Zenon DEF Write, disk
<1>2. saved \subseteq Range(attached) /\ \A e \in saved : ~is_saving[e]
  OBVIOUS
<1>3. ASSUME NEW e \in Engines, e \in saved
      PROVE  /\ new(e) \in ThreadType(new(e).outputs, new(e).document)
             /\ new(e).pc = "open" /\ new(e).fd = NoFile /\ new(e).pos = 0
             /\ new(e).unwritten = << >>
  <2> DEFINE p == engine[e].pieces
             o == Outputs(e)
             d == Document(e)
             w == SavingThread(p, o, d)
  <2>1. p \in Seq(Pieces)
    BY DEF Mapped, EnginesOK, EngineType
  <2>2. new(e) = w
    BY DEF SavingThread
  <2> HIDE DEF p, o, d, new
  <2>3. /\ w \in ThreadType(w.outputs, w.document)
        /\ w.pc = "open" /\ w.fd = NoFile /\ w.pos = 0 /\ w.unwritten = << >>
    BY <2>1, NewThreadTyped
  <2> HIDE DEF w
  <2>4. QED
    BY <2>2, <2>3
<1> HIDE DEF saved, new
<1>4. ThreadsOK'
  <2>1. ASSUME NEW e \in Engines PROVE ThreadOK(e)'
    <3>1. CASE e \in saved
      <4>1. thread'[e] = new(e) /\ is_saving'[e]
        BY <1>1, <3>1
      <4>2. QED
        BY <1>3, <3>1, <4>1 DEF ThreadOK
    <3>2. CASE e \notin saved
      <4>1. thread'[e] = thread[e] /\ (is_saving'[e] <=> is_saving[e])
        BY <1>1, <3>2
      <4>2. QED
        BY <4>1 DEF Mapped, ThreadsOK, ThreadOK
    <3>3. QED
      BY <3>1, <3>2
  <2>2. QED
    BY <1>1, <2>1 DEF ThreadsOK
<1>5. EnginesOK' /\ Disk' /\ Counters'
  BY <1>1 DEF Mapped, EnginesOK, Disk, Counters
<1>6. \A e \in Engines : Active(e)' <=> Active(e)
  <2>1. ASSUME NEW e \in Engines PROVE Active(e)' <=> Active(e)
    <3>1. CASE e \in saved
      BY <1>1, <1>2, <3>1 DEF Active
    <3>2. CASE e \notin saved
      BY <1>1, <3>2 DEF Active
    <3>3. QED
      BY <3>1, <3>2
  <2>2. QED
    BY <2>1
<1>7. Freed'
  BY <1>1, <1>6 DEF Mapped, Freed
<1>8. Alone => Alone'
  <2>1. \A e \in Engines : thread'[e].fd # NoFile => thread'[e] = thread[e]
    BY <1>1, <1>3
  <2>2. \A e \in Engines : thread'[e].fd \in {thread[e].fd, NoFile}
    BY <1>1, <1>3
  <2>3. \A e \in Engines : engine[e].mapped # NoFile /\ engine[e].mapped \notin {tmp, thread[e].fd}
          => engine[e].mapped \notin {tmp, thread'[e].fd}
    BY <2>2
  <2>4. QED
    BY <1>1, <1>6, <2>1, <2>3 DEF Alone
<1>9. QED
  BY <1>1, <1>4, <1>5, <1>7, <1>8 DEF Mapped

(* The answer of a save changes nothing but the editor. *)
LEMMA PollSaveKeepsMapped == ASSUME Mapped, Shielded, NEW e \in Engines, PollSave(e) PROVE Mapped'
<1>1. UNCHANGED <<engine, is_saving, thread, attached, target, tmp, content, late, mishaps>>
  BY DEF PollSave, disk, history
<1>2. buffer'.changedtick = buffer.changedtick
  BY DEF PollSave, Shielded, Attachments, Buffers
<1>3. QED
  BY <1>1, <1>2 DEF Mapped, EnginesOK, Disk, ThreadsOK, ThreadOK, Freed, Active, Counters, Alone

-----------------------------------------------------------------------------
(* The thread of a save.                                                   *)

(* What is written ends where the position is put next, or before the end  *)
(* of what was there.                                                      *)
LEMMA PutType ==
  ASSUME NEW old \in Seq(Items), NEW pos \in Nat, NEW items \in Seq(Items)
  PROVE  /\ Put(old, pos, items) \in Seq(Items)
         /\ Len(Put(old, pos, items)) \in Nat
         /\ pos + Len(items) <= Len(Put(old, pos, items))
         /\ Len(old) <= Len(Put(old, pos, items))
<1> DEFINE n == IF pos + Len(items) > Len(old) THEN pos + Len(items) ELSE Len(old)
           item(i) == IF pos < i /\ i <= pos + Len(items) THEN items[i - pos]
                      ELSE IF i <= Len(old) THEN old[i] ELSE "hole"
<1>1. Len(old) \in Nat /\ Len(items) \in Nat
  BY LenInNat
<1>2. n \in Nat /\ pos + Len(items) <= n /\ Len(old) <= n
  BY <1>1, SMT
<1>3. ASSUME NEW i \in 1 .. n PROVE item(i) \in Items
  <2>1. CASE pos < i /\ i <= pos + Len(items)
    <3>1. i - pos \in 1 .. Len(items)
      BY <1>1, <1>2, <2>1, SMT
    <3>2. items[i - pos] \in Items
      BY <3>1
    <3>3. QED
      BY <2>1, <3>2
  <2>2. CASE ~(pos < i /\ i <= pos + Len(items)) /\ i <= Len(old)
    <3>1. i \in 1 .. Len(old)
      BY <1>1, <1>2, <2>2, SMT
    <3>2. old[i] \in Items
      BY <3>1
    <3>3. QED
      BY <2>2, <3>2
  <2>3. CASE ~(pos < i /\ i <= pos + Len(items)) /\ ~(i <= Len(old))
    BY <2>3 DEF Items
  <2>4. QED
    BY <2>1, <2>2, <2>3
<1>4. Put(old, pos, items) = [i \in 1 .. n |-> item(i)]
  BY DEF Put
<1> HIDE DEF n, item
<1>5. [i \in 1 .. n |-> item(i)] \in Seq(Items) /\ Len([i \in 1 .. n |-> item(i)]) = n
  BY <1>2, <1>3, SMT
<1>6. QED
  BY <1>2, <1>4, <1>5

(* While a save has a file, it may write there, lose its name or give it   *)
(* to the target: the engine is left alone, and what it maps is not there. *)
LEMMA ThreadWorks ==
  ASSUME Mapped, NEW e \in Engines, thread[e].fd # NoFile,
         NEW new \in ThreadType(thread[e].outputs, thread[e].document),
         thread' = [thread EXCEPT ![e] = new],
         new.pc \notin {"none", "open"}, new.fd = thread[e].fd,
         new.pc = "end" => new.pieces # << >> /\ Head(new.pieces).kind = "original",
         UNCHANGED <<engine, is_saving, attached, buffer, late>>,
         Disk', tmp' \in {tmp, NoFile},
         \A i \in Inodes \ {thread[e].fd} : content'[i] = content[i],
         Counters', "reopened" \in mishaps => "reopened" \in mishaps',
         Alone => new.pos <= Len(content'[thread[e].fd])
  PROVE  Mapped'
<1>1. /\ thread[e].pc # "none" /\ is_saving[e] /\ thread[e].fd \in Inodes
      /\ DOMAIN thread = Engines
  BY DEF Mapped, ThreadsOK, ThreadOK, ThreadType
<1>2. \A f \in Engines : thread'[f] = IF f = e THEN new ELSE thread[f]
  BY <1>1
<1>3. ThreadsOK'
  <2>1. ASSUME NEW f \in Engines PROVE ThreadOK(f)'
    <3>1. CASE f = e
      <4>1. new.outputs = thread[e].outputs /\ new.document = thread[e].document
        BY DEF ThreadType
      <4>2. QED
        BY <1>1, <1>2, <3>1, <4>1 DEF ThreadOK
    <3>2. CASE f # e
      <4>1. thread'[f] = thread[f]
        BY <1>2, <3>2
      <4>2. QED
        BY <4>1 DEF Mapped, ThreadsOK, ThreadOK
    <3>3. QED
      BY <3>1, <3>2
  <2>2. QED
    BY <1>1, <2>1 DEF ThreadsOK
<1>4. \A f \in Engines : Active(f)' <=> Active(f)
  BY <1>1, <1>2 DEF Active
<1>5. EnginesOK' /\ Freed'
  BY <1>4 DEF Mapped, EnginesOK, Freed
<1>6. Alone => Alone'
  <2>1. SUFFICES ASSUME Alone PROVE Alone'
    OBVIOUS
  <2>2. \A f, g \in Engines : Active(f)' /\ Active(g)' => f = g
    BY <1>4, <2>1 DEF Alone
  <2>3. \A f \in Engines : f # e => engine[f].mapped = NoFile /\ thread[f].fd = NoFile
    BY <1>1, <2>1, NothingTyped DEF Alone, Active, Mapped, Freed, ThreadsOK, ThreadOK
  <2>4. ASSUME NEW f \in Engines, engine'[f].mapped # NoFile
        PROVE  /\ content'[engine'[f].mapped] = engine'[f].original
               /\ engine'[f].mapped \notin {tmp', thread'[f].fd}
               /\ \A g \in Engines : engine'[f].mapped # late'[g].fd
    <3>1. f = e /\ engine'[f] = engine[f]
      BY <2>3, <2>4
    <3>2. /\ content[engine[e].mapped] = engine[e].original
          /\ engine[e].mapped \notin {tmp, thread[e].fd} /\ engine[e].mapped # NoFile
          /\ \A g \in Engines : engine[e].mapped # late[g].fd
      BY <2>1, <2>4, <3>1 DEF Alone
    <3>3. engine[e].mapped \in Inodes
      BY <3>2 DEF Mapped, EnginesOK, EngineType
    <3>4. content'[engine[e].mapped] = content[engine[e].mapped]
      BY <3>2, <3>3
    <3>5. thread'[e].fd = thread[e].fd
      BY <1>2
    <3>6. QED
      BY <3>1, <3>2, <3>4, <3>5
  <2>5. \A f \in Engines : thread'[f].fd # NoFile => thread'[f].pos <= Len(content'[thread'[f].fd])
    BY <1>2, <2>1, <2>3
  <2>6. QED
    BY <2>2, <2>4, <2>5 DEF Alone
<1>7. QED
  BY <1>3, <1>5, <1>6 DEF Mapped

(* A thread that ends leaves its engine to those who have it attached, and *)
(* otherwise to nobody. What its writer holds may stay.                    *)
LEMMA ThreadEnds ==
  ASSUME Mapped, NEW e \in Engines, thread[e].pc # "none",
         thread' = [thread EXCEPT ![e] = NoThread],
         is_saving' = [is_saving EXCEPT ![e] = FALSE],
         engine' = [engine EXCEPT ![e] = Released(e)],
         UNCHANGED <<attached, buffer, target, tmp, content>>,
         \A f \in Engines : late'[f].fd \in {late[f].fd, thread[e].fd},
         Disk', Counters', "reopened" \in mishaps => "reopened" \in mishaps',
         is_saving \in [Engines -> BOOLEAN]
  PROVE  Mapped'
<1>1. DOMAIN thread = Engines /\ engine \in [Engines -> EngineType]
  BY DEF Mapped, ThreadsOK, EnginesOK
<1>2. /\ \A f \in Engines : thread'[f] = IF f = e THEN NoThread ELSE thread[f]
      /\ \A f \in Engines : engine'[f] = IF f = e THEN Released(e) ELSE engine[f]
      /\ \A f \in Engines : is_saving'[f] = IF f = e THEN FALSE ELSE is_saving[f]
  BY <1>1
<1>3. Released(e) \in {engine[e], NoEngine} /\ (e \notin Range(attached) => Released(e) = NoEngine)
  BY DEF Released
<1>4. EnginesOK'
  <2>1. \A f \in Engines : engine'[f] \in {engine[f], NoEngine}
    BY <1>2, <1>3
  <2>2. engine' \in [Engines -> EngineType]
    BY <1>1, <1>2, <1>3, NothingTyped
  <2>3. QED
    BY <2>1, <2>2, NothingTyped DEF Mapped, EnginesOK
<1>5. ThreadsOK'
  <2>1. ASSUME NEW f \in Engines PROVE ThreadOK(f)'
    <3>1. CASE f = e
      <4>1. thread'[f] = NoThread /\ ~is_saving'[f]
        BY <1>2, <3>1
      <4>2. QED
        BY <4>1, NothingTyped DEF ThreadOK
    <3>2. CASE f # e
      <4>1. thread'[f] = thread[f] /\ is_saving'[f] = is_saving[f]
        BY <1>2, <3>2
      <4>2. QED
        BY <4>1 DEF Mapped, ThreadsOK, ThreadOK
    <3>3. QED
      BY <3>1, <3>2
  <2>2. QED
    BY <1>1, <2>1 DEF ThreadsOK
<1>6. \A f \in Engines : Active(f)' <=> (IF f = e THEN e \in Range(attached) ELSE Active(f))
  BY <1>2, NothingTyped DEF Active
<1>7. Freed'
  BY <1>2, <1>3, <1>6 DEF Mapped, Freed
<1>8. Alone => Alone'
  <2>1. SUFFICES ASSUME Alone PROVE Alone'
    OBVIOUS
  <2>a. Active(e)
    BY DEF Active
  <2>2. \A f, g \in Engines : Active(f)' /\ Active(g)' => f = g
    BY <1>6, <2>1, <2>a DEF Alone
  <2>3. \A f \in Engines : f # e => engine[f].mapped = NoFile /\ thread[f].fd = NoFile
    BY <2>1, <2>a, NothingTyped DEF Alone, Active, Mapped, Freed, ThreadsOK, ThreadOK
  <2>4. \A f \in Engines : thread'[f].fd = NoFile
    BY <1>2, <2>3, NothingTyped
  <2>5. ASSUME NEW f \in Engines, engine'[f].mapped # NoFile
        PROVE  /\ content'[engine'[f].mapped] = engine'[f].original
               /\ engine'[f].mapped \notin {tmp', thread'[f].fd}
               /\ \A g \in Engines : engine'[f].mapped # late'[g].fd
    <3>1. f = e /\ engine'[f] = engine[f]
      BY <1>2, <1>3, <2>3, <2>5, NothingTyped
    <3>2. /\ content[engine[e].mapped] = engine[e].original
          /\ engine[e].mapped \notin {tmp, thread[e].fd} /\ engine[e].mapped # NoFile
          /\ \A g \in Engines : engine[e].mapped # late[g].fd
      BY <2>1, <2>5, <3>1 DEF Alone
    <3>3. engine[e].mapped \in Inodes
      BY <3>2 DEF Mapped, EnginesOK, EngineType
    <3>4. content'[engine[e].mapped] = content[engine[e].mapped]
      BY <3>2, <3>3
    <3>5. QED
      BY <2>4, <3>1, <3>2, <3>4
  <2>6. QED
    BY <2>2, <2>4, <2>5 DEF Alone
<1>9. QED
  BY <1>4, <1>5, <1>7, <1>8 DEF Mapped

(* What is written goes to the file of the writer alone.                   *)
LEMMA WriteOutKeepsDisk ==
  ASSUME Disk, NEW w, w.fd \in Inodes, w.pos \in Nat, w.unwritten \in Seq(Items),
         NEW more \in Seq(Items), WriteOut(w, more), UNCHANGED <<target, tmp>>,
         late' \in [Engines -> WriterType],
         \A e \in Engines : late'[e].fd = NoFile => late'[e] = NoWriter
  PROVE  /\ Disk'
         /\ \A i \in Inodes \ {w.fd} : content'[i] = content[i]
         /\ w.pos + Len(w.unwritten) + Len(more) \in Nat
         /\ w.pos + Len(w.unwritten) + Len(more) <= Len(content'[w.fd])
<1> DEFINE fd == w.fd
           u == w.unwritten
           pos == w.pos
           old == content[fd]
           items == u \o more
           new == Put(old, pos, items)
<1>1. fd \in Inodes /\ u \in Seq(Items) /\ pos \in Nat /\ content \in [Inodes -> Seq(Items)]
  BY DEF Disk
<1>2. content' = [content EXCEPT ![fd] = new]
  BY DEF WriteOut
<1> HIDE DEF u, pos
<1>3. items \in Seq(Items) /\ Len(items) = Len(u) + Len(more) /\ Len(u) \in Nat /\ Len(more) \in Nat
  BY <1>1, SMT
<1>4. old \in Seq(Items)
  BY <1>1
<1> HIDE DEF old, items
<1>5. new \in Seq(Items) /\ Len(new) \in Nat /\ pos + Len(items) <= Len(new)
  BY <1>1, <1>3, <1>4, PutType
<1> HIDE DEF new, fd
<1>6. /\ content' \in [Inodes -> Seq(Items)] /\ content'[fd] = new
      /\ \A i \in Inodes \ {fd} : content'[i] = content[i]
  BY <1>1, <1>2, <1>5
<1>7. Disk'
  BY <1>6 DEF Disk
<1>8. pos + Len(u) + Len(more) \in Nat /\ pos + Len(u) + Len(more) <= Len(new)
  BY <1>1, <1>3, <1>5, SMT
<1>9. QED
  BY <1>6, <1>7, <1>8 DEF fd, u, pos

(* What a save writes is made of items.                                    *)
LEMMA MemoryItemsType == ASSUME NEW lines \in Seq({Text}) PROVE MemoryItems(lines) \in Seq(Items)
<1> DEFINE n == Len(lines)
           ss == [i \in 1 .. n |-> <<lines[i], LineEnd>>]
<1>1. n \in Nat /\ \A i \in 1 .. n : lines[i] = Text
  BY SMT
<1>2. ASSUME NEW i \in 1 .. n PROVE <<lines[i], LineEnd>> \in Seq(Items)
  <2>1. lines[i] \in Items /\ LineEnd \in Items
    BY <1>1 DEF Items
  <2>2. QED
    BY <2>1, SMT
<1>3. ss \in Seq(Seq(Items))
  <2> HIDE DEF n
  <2>1. ss \in [1 .. n -> Seq(Items)]
    BY <1>2
  <2> HIDE DEF ss
  <2>2. QED
    BY <1>1, <2>1, SMT
<1> HIDE DEF ss
<1>4. FlattenSeq(ss) \in Seq(Items)
  BY <1>3, FlattenType
<1>5. QED
  BY <1>4 DEF MemoryItems, ss, n

(* The blocks of the file among some items are items. *)
LEMMA OriginalItemsType == ASSUME NEW s \in Seq(Items) PROVE OriginalItems(s) \in Seq(Items)
<1>1. LineEnd \in Items
  BY DEF Items
<1>2. Append(s, LineEnd) \in Seq(Items)
  BY <1>1, SMT
<1>3. QED
  BY <1>2 DEF OriginalItems

(* A line begins within the file. *)
LEMMA OffsetInFile ==
  ASSUME Mapped, NEW e \in Engines, NEW line \in Nat
  PROVE  calc_offset(e, line) \in Nat /\ calc_offset(e, line) <= Len(engine[e].original)
<1>1. /\ engine[e].published \in Nat /\ engine[e].processed \in Nat
      /\ engine[e].published <= engine[e].processed
      /\ engine[e].processed <= Len(engine[e].original)
      /\ Len(engine[e].original) \in Nat
  BY LenInNat DEF Mapped, EnginesOK, EngineType
<1> DEFINE l == Len(engine[e].original)
<1>2. l \in Nat /\ engine[e].processed <= l /\ calc_offset(e, line) =
        IF line < engine[e].published THEN line
        ELSE IF engine[e].finished THEN l ELSE engine[e].processed
  BY <1>1 DEF calc_offset
<1> HIDE DEF l
<1>3. calc_offset(e, line) \in Nat /\ calc_offset(e, line) <= l
  BY <1>1, <1>2, SMT
<1>4. QED
  BY <1>3 DEF l

(* What a thread has, by the steps of its save.                            *)
LEMMA ThreadHas ==
  ASSUME Mapped, NEW e \in Engines
  PROVE  /\ thread[e] \in ThreadType(thread[e].outputs, thread[e].document)
         /\ thread[e].pieces \in Seq(Pieces) /\ thread[e].todo \in Seq(Items)
         /\ thread[e].start \in Nat /\ thread[e].pos \in Nat /\ thread[e].unwritten \in Seq(Items)
         /\ thread[e].pc \notin {"none", "open"} => thread[e].fd \in Inodes /\ thread[e].fd # NoFile
         /\ thread[e].pc \in {"none", "open"} =>
              thread[e].fd = NoFile /\ thread[e].pos = 0 /\ thread[e].unwritten = << >>
BY DEF Mapped, ThreadsOK, ThreadOK, ThreadType

(* A save creates or truncates <path>.tmp, which nobody has mapped.        *)
LEMMA OpenKeepsMapped == ASSUME Mapped, NEW e \in Engines, Open(e) PROVE Mapped'
<1> DEFINE inode == IF tmp # NoFile THEN tmp ELSE FreshInode
           mid == [thread[e] EXCEPT !.pc = "write"]
           new == [mid EXCEPT !.fd = inode]
<1>1. /\ thread[e].pc = "open" /\ tmp' = inode /\ content' = [content EXCEPT ![inode] = << >>]
      /\ thread' = [thread EXCEPT ![e].pc = "write", ![e].fd = inode]
      /\ UNCHANGED <<engine, is_saving, attached, buffer, target, late>>
      /\ mishaps' \in {mishaps, mishaps \cup {"leftover"}}
  BY DEF Open, OpensTarget, ui
<1>2. /\ inode \in Inodes /\ inode # target
      /\ \A f \in Engines : tmp = NoFile => inode \notin {thread[f].fd, engine[f].mapped, late[f].fd}
  <2>1. CASE tmp = NoFile
    BY <2>1, FreshExists DEF Mapped
  <2>2. CASE tmp # NoFile
    BY <2>2 DEF Mapped, Disk
  <2>3. QED
    BY <2>1, <2>2
<1>3. inode # NoFile /\ (tmp # NoFile => inode = tmp)
  BY <1>2, InodesAreNumbers
<1> HIDE DEF inode
<1>4. DOMAIN thread = Engines
  BY DEF Mapped, ThreadsOK
<1>5. thread' = [thread EXCEPT ![e] = new]
  BY <1>1, <1>4
<1> DEFINE o == thread[e].outputs
           d == thread[e].document
           r == thread[e]
<1>6. /\ r \in ThreadType(o, d) /\ r.fd = NoFile /\ r.pos = 0 /\ r.unwritten = << >>
      /\ o = r.outputs /\ d = r.document
  BY <1>1, ThreadHas
<1>a. mid = [r EXCEPT !.pc = "write"]
  OBVIOUS
<1> HIDE DEF o, d, r, mid
<1>7. /\ mid \in ThreadType(o, d) /\ mid.pc = "write" /\ mid.pos = 0 /\ mid.unwritten = << >>
      /\ mid.outputs = o /\ mid.document = d
  <2>1. "write" \in Steps
    BY DEF Steps
  <2>2. QED
    BY <1>6, <1>a, <2>1, SetPc
<1>8. /\ new \in ThreadType(o, d) /\ new.pc = "write" /\ new.pos = 0 /\ new.unwritten = << >>
      /\ new.fd = inode /\ new.outputs = o /\ new.document = d
  <2>1. inode \in Inodes \cup {NoFile}
    BY <1>2
  <2>2. QED
    BY <1>7, <2>1, SetFd
<1> HIDE DEF new
<1>9. \A f \in Engines : thread'[f] = IF f = e THEN new ELSE thread[f]
  BY <1>4, <1>5
<1>10. ThreadsOK'
  <2>1. ASSUME NEW f \in Engines PROVE ThreadOK(f)'
    <3>1. CASE f = e
      <4>1. thread'[f] = new /\ is_saving'[f]
        BY <1>1, <1>9, <3>1 DEF Mapped, ThreadsOK, ThreadOK
      <4>2. QED
        BY <1>3, <1>8, <4>1 DEF ThreadOK
    <3>2. CASE f # e
      <4>1. thread'[f] = thread[f] /\ is_saving' = is_saving
        BY <1>1, <1>9, <3>2
      <4>2. QED
        BY <4>1 DEF Mapped, ThreadsOK, ThreadOK
    <3>3. QED
      BY <3>1, <3>2
  <2>2. QED
    BY <1>4, <1>5, <2>1 DEF ThreadsOK
<1>11. Disk'
  <2>1. << >> \in Seq(Items)
    BY SMT
  <2>2. QED
    BY <1>1, <1>2, <2>1 DEF Mapped, Disk
<1>12. EnginesOK' /\ Counters'
  BY <1>1 DEF Mapped, EnginesOK, Counters
<1>13. \A f \in Engines : Active(f)' <=> Active(f)
  BY <1>1, <1>8, <1>9 DEF Active
<1>14. Freed'
  BY <1>1, <1>13 DEF Mapped, Freed
<1>15. Alone => Alone'
  <2>1. SUFFICES ASSUME Alone PROVE Alone'
    OBVIOUS
  <2>2. Active(e)
    BY <1>1 DEF Active
  <2>3. \A f \in Engines : f # e => engine[f].mapped = NoFile /\ thread[f].fd = NoFile
    BY <2>1, <2>2, NothingTyped DEF Alone, Active, Mapped, Freed, ThreadsOK, ThreadOK
  <2>4. ASSUME NEW f \in Engines, engine'[f].mapped # NoFile
        PROVE  /\ content'[engine'[f].mapped] = engine'[f].original
               /\ engine'[f].mapped \notin {tmp', thread'[f].fd}
               /\ \A g \in Engines : engine'[f].mapped # late'[g].fd
    <3>1. f = e /\ engine' = engine
      BY <1>1, <2>3, <2>4
    <3>2. /\ content[engine[e].mapped] = engine[e].original /\ engine[e].mapped # tmp
          /\ \A g \in Engines : engine[e].mapped # late[g].fd
      BY <2>1, <2>4, <3>1 DEF Alone
    <3>3. inode # engine[e].mapped
      BY <1>2, <1>3, <3>2
    <3>4. engine[e].mapped \in Inodes
      BY <2>4, <3>1 DEF Mapped, EnginesOK, EngineType
    <3>5. content'[engine[e].mapped] = content[engine[e].mapped]
      BY <1>1, <3>3, <3>4 DEF Mapped, Disk
    <3>6. QED
      BY <1>1, <1>8, <1>9, <3>1, <3>2, <3>3, <3>5
  <2>5. ASSUME NEW f \in Engines, thread'[f].fd # NoFile
        PROVE  thread'[f].pos <= Len(content'[thread'[f].fd])
    <3>1. f = e
      BY <1>9, <2>3, <2>5
    <3>2. content'[inode] = << >>
      BY <1>1, <1>2 DEF Mapped, Disk
    <3>3. Len(<< >>) = 0
      BY SMT
    <3>4. QED
      BY <1>8, <1>9, <3>1, <3>2, <3>3
  <2>6. QED
    BY <1>13, <2>1, <2>4, <2>5 DEF Alone
<1>16. QED
  BY <1>1, <1>10, <1>11, <1>12, <1>14, <1>15 DEF Mapped

(* A save that cannot begin, and one that ends.                            *)
LEMMA EndKeepsMapped ==
  ASSUME Mapped, Shielded, NEW e \in Engines, OpenFails(e) \/ Reset(e)
  PROVE  Mapped'
<1>1. is_saving \in [Engines -> BOOLEAN]
  BY DEF Shielded, Attachments
<1>2. CASE OpenFails(e)
  <2>1. /\ thread[e].pc # "none" /\ thread' = [thread EXCEPT ![e] = NoThread]
        /\ is_saving' = [is_saving EXCEPT ![e] = FALSE]
        /\ engine' = [engine EXCEPT ![e] = Released(e)]
        /\ UNCHANGED <<attached, buffer, target, tmp, content, late>>
        /\ mishaps' = mishaps \cup {"fault"}
    BY <1>2 DEF OpenFails, SavingAfterOpenError, ui, disk
  <2>2. Disk' /\ Counters'
    BY <2>1 DEF Mapped, Disk, Counters
  <2>3. QED
    BY <1>1, <2>1, <2>2, ThreadEnds
<1>3. CASE Reset(e)
  <2> DEFINE left == [fd |-> thread[e].fd, pos |-> thread[e].pos,
                      unwritten |-> thread[e].unwritten]
  <2>1. /\ thread[e].pc = "reset" /\ thread' = [thread EXCEPT ![e] = NoThread]
        /\ is_saving' = [is_saving EXCEPT ![e] = FALSE]
        /\ engine' = [engine EXCEPT ![e] = Released(e)]
        /\ UNCHANGED <<attached, buffer, target, tmp, content, mishaps>>
        /\ late' = [late EXCEPT ![e] = IF thread[e].unwritten = << >> THEN @ ELSE left]
    BY <1>3 DEF Reset, ui, history
  <2>2. thread[e].fd \in Inodes /\ left \in WriterType /\ left.fd = thread[e].fd
    BY <2>1, ThreadHas DEF WriterType
  <2> HIDE DEF left
  <2>3. /\ \A f \in Engines : late'[f] \in {late[f], left}
        /\ late' \in [Engines -> WriterType]
    BY <2>1, <2>2 DEF Mapped, Disk
  <2>4. Disk' /\ \A f \in Engines : late'[f].fd \in {late[f].fd, thread[e].fd}
    BY <2>1, <2>2, <2>3, InodesAreNumbers DEF Mapped, Disk
  <2>5. Counters'
    BY <2>1 DEF Mapped, Counters
  <2>6. QED
    BY <1>1, <2>1, <2>4, <2>5, ThreadEnds
<1>4. QED
  BY <1>2, <1>3

(* The writer of a failed save writes where no engine has mapped, and goes. *)
LEMMA DropKeepsMapped == ASSUME Mapped, NEW e \in Engines, Drop(e) PROVE Mapped'
<1> DEFINE w == late[e]
<1>1. /\ w # NoWriter /\ late' = [late EXCEPT ![e] = NoWriter]
      /\ WriteOut(w, << >>) \/ UNCHANGED content
      /\ UNCHANGED <<engine, is_saving, thread, attached, buffer, target, tmp, mishaps>>
  BY DEF Drop, ui, history
<1>2. w.fd \in Inodes /\ w.pos \in Nat /\ w.unwritten \in Seq(Items) /\ << >> \in Seq(Items)
  BY <1>1, SMT DEF Mapped, Disk, WriterType
<1>a. w.unwritten \o << >> \in Seq(Items)
  BY <1>2, SMT
<1>3. /\ late' \in [Engines -> WriterType]
      /\ \A f \in Engines : late'[f] \in {late[f], NoWriter}
  <2>1. NoWriter \in WriterType
    BY <1>2 DEF NoWriter, WriterType
  <2>2. QED
    BY <1>1, <2>1 DEF Mapped, Disk
<1>4. \A f \in Engines : late'[f].fd = NoFile => late'[f] = NoWriter
  BY <1>3 DEF Mapped, Disk
<1> HIDE DEF w
<1>5. Disk' /\ \A i \in Inodes \ {w.fd} : content'[i] = content[i]
  <2>1. CASE WriteOut(w, << >>)
    BY <1>1, <1>2, <1>3, <1>4, <2>1, WriteOutKeepsDisk DEF Mapped
  <2>2. CASE UNCHANGED content
    BY <1>1, <1>3, <1>4, <2>2 DEF Mapped, Disk
  <2>3. QED
    BY <1>1, <2>1, <2>2
<1>6. Len(content[w.fd]) <= Len(content'[w.fd])
  <2>1. CASE WriteOut(w, << >>)
    <3>1. content'[w.fd] = Put(content[w.fd], w.pos, w.unwritten \o << >>)
      BY <1>2, <2>1 DEF WriteOut, Mapped, Disk
    <3>2. content[w.fd] \in Seq(Items)
      BY <1>2 DEF Mapped, Disk
    <3>3. QED
      BY <1>2, <1>a, <3>1, <3>2, PutType
  <2>2. CASE UNCHANGED content
    BY <1>2, <2>2, LenInNat DEF Mapped, Disk
  <2>3. QED
    BY <1>1, <2>1, <2>2
<1>7. Alone => Alone'
  <2>1. SUFFICES ASSUME Alone PROVE Alone'
    OBVIOUS
  <2>2. \A f \in Engines : Active(f)' <=> Active(f)
    BY <1>1 DEF Active
  <2>3. ASSUME NEW f \in Engines, engine[f].mapped # NoFile
        PROVE  /\ content'[engine[f].mapped] = engine[f].original
               /\ \A g \in Engines : engine[f].mapped # late'[g].fd
    <3>1. /\ content[engine[f].mapped] = engine[f].original /\ engine[f].mapped # w.fd
          /\ \A g \in Engines : engine[f].mapped # late[g].fd
      BY <2>1, <2>3 DEF Alone, w
    <3>2. engine[f].mapped \in Inodes
      BY <2>3 DEF Mapped, EnginesOK, EngineType
    <3>3. QED
      BY <1>3, <1>5, <2>3, <3>1, <3>2 DEF NoWriter
  <2>4. ASSUME NEW f \in Engines, thread[f].fd # NoFile
        PROVE  thread[f].pos <= Len(content'[thread[f].fd])
    <3>1. thread[f].pos <= Len(content[thread[f].fd]) /\ thread[f].pos \in Nat /\ thread[f].fd \in Inodes
      BY <2>1, <2>4 DEF Alone, Mapped, ThreadsOK, ThreadOK, ThreadType
    <3>2. content[thread[f].fd] \in Seq(Items) /\ content'[thread[f].fd] \in Seq(Items)
      BY <1>5, <3>1 DEF Mapped, Disk
    <3>3. Len(content[thread[f].fd]) <= Len(content'[thread[f].fd])
      BY <1>5, <1>6, <3>1, <3>2, LenInNat
    <3>4. QED
      BY <3>1, <3>2, <3>3, LenInNat, SMT
  <2>5. QED
    BY <1>1, <2>1, <2>2, <2>3, <2>4 DEF Alone
<1>8. QED
  BY <1>1, <1>5, <1>7 DEF Mapped, EnginesOK, ThreadsOK, ThreadOK, Freed, Active, Counters

(* A step of a save that touches no file.                                  *)
LEMMA ThreadThinks ==
  ASSUME Mapped, NEW e \in Engines, thread[e].fd # NoFile,
         NEW new \in ThreadType(thread[e].outputs, thread[e].document),
         thread' = [thread EXCEPT ![e] = new],
         new.pc \notin {"none", "open"}, new.fd = thread[e].fd, new.pos = thread[e].pos,
         new.pc = "end" => new.pieces # << >> /\ Head(new.pieces).kind = "original",
         UNCHANGED <<engine, is_saving, ui, disk, counts>>,
         mishaps' \in {mishaps, mishaps \cup {"fault"}, mishaps \cup {"newline"}}
  PROVE  Mapped'
<1>1. /\ UNCHANGED <<engine, is_saving, attached, buffer, late>> /\ tmp' \in {tmp, NoFile}
      /\ \A i \in Inodes \ {thread[e].fd} : content'[i] = content[i]
      /\ "reopened" \in mishaps => "reopened" \in mishaps'
  BY DEF ui, disk
<1>2. Disk' /\ Counters'
  BY DEF Mapped, Disk, Counters, disk, ui
<1>3. Alone => new.pos <= Len(content'[thread[e].fd])
  BY DEF Alone, disk
<1>4. QED
  BY <1>1, <1>2, <1>3, ThreadWorks

(* The next piece of the save, and the end of one of the original.         *)
LEMMA PieceKeepsMapped ==
  ASSUME Mapped, NEW e \in Engines, NextPiece(e) \/ PieceEnd(e)
  PROVE  Mapped'
<1> DEFINE o == thread[e].outputs
           d == thread[e].document
           r == thread[e]
           piece == Head(r.pieces)
<1>1. /\ r \in ThreadType(o, d) /\ r.pc \in {"write", "end"} /\ r.pieces # << >>
      /\ r.fd # NoFile /\ r.pieces \in Seq(Pieces)
  <2>1. r.pc \in {"write", "end"} /\ r.pieces # << >>
    BY DEF NextPiece, PieceEnd, Mapped, ThreadsOK, ThreadOK
  <2>2. QED
    BY <2>1, ThreadHas
<1>2. UNCHANGED <<engine, is_saving, ui, disk, counts>> /\ mishaps' = mishaps
  BY DEF NextPiece, PieceEnd, history
<1>3. piece \in Pieces /\ Tail(r.pieces) \in Seq(Pieces)
  BY <1>1, SMT
<1>4. CASE NextPiece(e) /\ piece.kind = "memory"
  <2> DEFINE p == Tail(r.pieces)
             items == MemoryItems(piece.lines)
             r1 == [r EXCEPT !.pieces = p]
             r2 == [r1 EXCEPT !.todo = items]
             no == FALSE
             new == [r2 EXCEPT !.closing = no]
  <2>1. thread' = [thread EXCEPT ![e] = new] /\ r.pc = "write"
    BY <1>4 DEF NextPiece
  <2>2. items \in Seq(Items) /\ p \in Seq(Pieces)
    BY <1>3, <1>4, MemoryItemsType DEF Pieces
  <2>b. no \in BOOLEAN
    OBVIOUS
  <2> HIDE DEF p, items, no
  <2>3. r1 \in ThreadType(o, d) /\ r1.pc = "write" /\ r1.fd = r.fd /\ r1.pos = r.pos
    BY <1>1, <2>1, <2>2, SetPieces
  <2> HIDE DEF r1
  <2>4. r2 \in ThreadType(o, d) /\ r2.pc = "write" /\ r2.fd = r.fd /\ r2.pos = r.pos
    BY <2>2, <2>3, SetTodo
  <2> HIDE DEF r2
  <2>5. new \in ThreadType(o, d) /\ new.pc = "write" /\ new.fd = r.fd /\ new.pos = r.pos
    BY <2>4, <2>b, SetClosing
  <2> HIDE DEF new
  <2>6. QED
    BY <1>1, <1>2, <2>1, <2>5, ThreadThinks
<1>5. CASE NextPiece(e) /\ piece.kind # "memory"
  <2> DEFINE n == calc_offset(e, piece.from)
             r1 == [r EXCEPT !.pc = "end"]
             new == [r1 EXCEPT !.start = n]
  <2>1. thread' = [thread EXCEPT ![e] = new]
    BY <1>5 DEF NextPiece
  <2>2. n \in Nat /\ "end" \in Steps
    BY <1>3, <1>5, OffsetInFile DEF Pieces, Steps
  <2> HIDE DEF n
  <2>3. r1 \in ThreadType(o, d) /\ r1.pc = "end" /\ r1.fd = r.fd /\ r1.pos = r.pos /\ r1.pieces = r.pieces
    BY <1>1, <2>2, SetPc
  <2> HIDE DEF r1
  <2>4. /\ new \in ThreadType(o, d) /\ new.pc = "end" /\ new.fd = r.fd /\ new.pos = r.pos
        /\ new.pieces = r.pieces
    BY <2>2, <2>3, SetStart
  <2>b. piece.kind = "original"
    BY <1>3, <1>5 DEF Pieces
  <2> HIDE DEF new
  <2>5. QED
    BY <1>1, <1>2, <2>1, <2>4, <2>b, ThreadThinks
<1>6. CASE PieceEnd(e)
  <2> DEFINE p == Tail(r.pieces)
             to == calc_offset(e, piece.to)
             blocks == SubSeq(engine[e].original, r.start + 1, to)
             items == OriginalItems(blocks)
             open == Unterminated(blocks)
             r1 == [r EXCEPT !.pc = "write"]
             r2 == [r1 EXCEPT !.pieces = p]
             r3 == [r2 EXCEPT !.start = 0]
             r4 == [r3 EXCEPT !.todo = items]
             new == [r4 EXCEPT !.closing = open]
  <2>1. thread' = [thread EXCEPT ![e] = new]
    <3>1. r1.pieces = r.pieces
      BY <1>1 DEF ThreadType
    <3>2. thread' = [thread EXCEPT ![e] =
            [[[[r1 EXCEPT !.pieces = Tail(r.pieces)] EXCEPT !.start = 0]
               EXCEPT !.todo = items] EXCEPT !.closing = open]]
      BY <1>6 DEF PieceEnd
    <3> HIDE DEF r1
    <3>3. QED
      BY <3>1, <3>2
  <2>a. r.pc = "end"
    BY <1>6 DEF PieceEnd
  <2>2. blocks \in Seq(Items)
    <3>1. r.start \in Nat /\ engine[e].original \in Seq(Items)
      BY ThreadHas DEF Mapped, EnginesOK, EngineType
    <3>2. to \in Nat /\ to <= Len(engine[e].original)
      <4>1. piece.kind = "original"
        BY <2>a DEF Mapped, ThreadsOK, ThreadOK
      <4>2. piece.to \in Nat
        BY <1>3, <4>1 DEF Pieces
      <4>3. QED
        BY <4>2, OffsetInFile
    <3> HIDE DEF to
    <3>3. QED
      BY <3>1, <3>2, SMT
  <2>3. items \in Seq(Items) /\ open \in BOOLEAN /\ "write" \in Steps
    BY <2>2, OriginalItemsType DEF Unterminated, Steps
  <2>b. p \in Seq(Pieces)
    BY <1>3
  <2> HIDE DEF blocks, items, open, p
  <2>4. r1 \in ThreadType(o, d) /\ r1.pc = "write" /\ r1.fd = r.fd /\ r1.pos = r.pos
    BY <1>1, <2>3, SetPc
  <2> HIDE DEF r1
  <2>5. r2 \in ThreadType(o, d) /\ r2.pc = "write" /\ r2.fd = r.fd /\ r2.pos = r.pos
    BY <2>4, <2>b, SetPieces
  <2> HIDE DEF r2
  <2>6. r3 \in ThreadType(o, d) /\ r3.pc = "write" /\ r3.fd = r.fd /\ r3.pos = r.pos
    BY <2>5, SetStart
  <2> HIDE DEF r3
  <2>7. r4 \in ThreadType(o, d) /\ r4.pc = "write" /\ r4.fd = r.fd /\ r4.pos = r.pos
    BY <2>3, <2>6, SetTodo
  <2> HIDE DEF r4
  <2>8. new \in ThreadType(o, d) /\ new.pc = "write" /\ new.fd = r.fd /\ new.pos = r.pos
    BY <2>3, <2>7, SetClosing
  <2> HIDE DEF new
  <2>9. QED
    BY <1>1, <1>2, <2>1, <2>8, ThreadThinks
<1>7. QED
  BY <1>4, <1>5, <1>6

(* An item goes to the BufWriter, or to the file with all it holds.        *)
LEMMA ItemKeepsMapped == ASSUME Mapped, NEW e \in Engines, WriteItem(e) PROVE Mapped'
<1> DEFINE o == thread[e].outputs
           d == thread[e].document
           r == thread[e]
           item == Head(r.todo)
           s == Tail(r.todo)
           rest == [r EXCEPT !.todo = s]
           through == IF item \in Large THEN <<item>> ELSE << >>
           kept == IF item \in Large THEN << >> ELSE <<item>>
<1>1. /\ r \in ThreadType(o, d) /\ r.pc = "write" /\ r.todo # << >> /\ r.fd # NoFile
      /\ r.todo \in Seq(Items) /\ r.unwritten \in Seq(Items) /\ r.pos \in Nat /\ r.fd \in Inodes
  <2>1. r.pc = "write" /\ r.todo # << >>
    BY DEF WriteItem
  <2>2. QED
    BY <2>1, ThreadHas
<1>2. /\ UNCHANGED <<engine, is_saving, ui, target, tmp, late, counts>> /\ mishaps' = mishaps
      /\ IF Spills(e)
         THEN /\ thread' = [thread EXCEPT ![e] = [Written(rest, through) EXCEPT !.unwritten = kept]]
              /\ WriteOut(r, through)
         ELSE /\ thread' = [thread EXCEPT ![e] = [rest EXCEPT !.unwritten = @ \o <<item>>]]
              /\ UNCHANGED content
  BY DEF WriteItem, history
<1>3. /\ item \in Items /\ Tail(r.todo) \in Seq(Items)
      /\ <<item>> \in Seq(Items) /\ << >> \in Seq(Items)
  BY <1>1, SMT
<1>a. through \in Seq(Items) /\ kept \in Seq(Items)
  BY <1>3
<1>4. /\ rest \in ThreadType(o, d) /\ rest.pc = "write" /\ rest.fd = r.fd /\ rest.pos = r.pos
      /\ rest.unwritten = r.unwritten
  <2>1. s \in Seq(Items)
    BY <1>3
  <2> HIDE DEF s
  <2>2. QED
    BY <1>1, <2>1, SetTodo
<1> HIDE DEF item, rest, s, through, kept
<1>5. Counters'
  BY <1>2 DEF Mapped, Counters, ui
<1>6. CASE Spills(e)
  <2> DEFINE n == rest.pos + Len(rest.unwritten) + Len(through)
             none == << >>
             r1 == [rest EXCEPT !.pos = n]
             r2 == [r1 EXCEPT !.unwritten = none]
             new == [r2 EXCEPT !.unwritten = kept]
  <2>1. thread' = [thread EXCEPT ![e] = new]
    BY <1>2, <1>6 DEF Written
  <2>2. /\ Disk' /\ \A i \in Inodes \ {r.fd} : content'[i] = content[i]
        /\ n \in Nat /\ n <= Len(content'[r.fd])
    BY <1>1, <1>2, <1>4, <1>6, <1>a, WriteOutKeepsDisk DEF Mapped, Disk
  <2>3. none \in Seq(Items)
    BY <1>3
  <2> HIDE DEF n, none
  <2>4. r1 \in ThreadType(o, d) /\ r1.pc = "write" /\ r1.fd = r.fd /\ r1.pos = n
    BY <1>4, <2>2, SetPos
  <2> HIDE DEF r1
  <2>5. r2 \in ThreadType(o, d) /\ r2.pc = "write" /\ r2.fd = r.fd /\ r2.pos = n
    BY <2>3, <2>4, SetUnwritten
  <2> HIDE DEF r2
  <2>6. new \in ThreadType(o, d) /\ new.pc = "write" /\ new.fd = r.fd /\ new.pos = n
    BY <1>a, <2>5, SetUnwritten
  <2> HIDE DEF new
  <2>7. QED
    BY <1>1, <1>2, <1>5, <2>1, <2>2, <2>6, ThreadWorks DEF ui
<1>7. CASE ~Spills(e)
  <2> DEFINE held == rest.unwritten \o <<item>>
             new == [rest EXCEPT !.unwritten = held]
  <2>1. thread' = [thread EXCEPT ![e] = new] /\ UNCHANGED content
    BY <1>2, <1>7
  <2>2. held \in Seq(Items)
    BY <1>1, <1>3, <1>4, SMT
  <2> HIDE DEF held
  <2>3. new \in ThreadType(o, d) /\ new.pc = "write" /\ new.fd = r.fd /\ new.pos = r.pos
    BY <1>4, <2>2, SetUnwritten
  <2> HIDE DEF new
  <2>4. UNCHANGED <<engine, is_saving, ui, disk, counts>>
    BY <1>2, <2>1 DEF disk
  <2>5. QED
    BY <1>1, <1>2, <2>1, <2>3, <2>4, ThreadThinks
<1>8. QED
  BY <1>6, <1>7

(* A write that fails takes the name of the file away; a line feed that    *)
(* fails is forgotten.                                                     *)
LEMMA FailureKeepsMapped ==
  ASSUME Mapped, NEW e \in Engines, WriteFails(e) \/ NewlineFails(e)
  PROVE  Mapped'
<1> DEFINE o == thread[e].outputs
           d == thread[e].document
           r == thread[e]
           s == IF WriteFails(e) /\ r.closing THEN <<LineEnd>> ELSE << >>
           new == [r EXCEPT !.todo = s]
<1>1. r \in ThreadType(o, d) /\ r.pc = "write" /\ r.fd # NoFile
  <2>1. r.pc = "write"
    BY DEF WriteFails, NewlineFails
  <2>2. QED
    BY <2>1, ThreadHas
<1>2. s \in Seq(Items)
  <2>1. LineEnd \in Items
    BY DEF Items
  <2>2. <<LineEnd>> \in Seq(Items) /\ << >> \in Seq(Items)
    BY <2>1, SMT
  <2>3. QED
    BY <2>2
<1>3. WriteFails(e) => thread' = [thread EXCEPT ![e] = new]
  BY DEF WriteFails
<1>a. NewlineFails(e) /\ ~WriteFails(e) => thread' = [thread EXCEPT ![e] = new]
  BY DEF NewlineFails
<1> HIDE DEF s
<1>4. new \in ThreadType(o, d) /\ new.pc = "write" /\ new.fd = r.fd /\ new.pos = r.pos
  BY <1>1, <1>2, SetTodo
<1> HIDE DEF new
<1>5. CASE WriteFails(e)
  <2>1. /\ UNCHANGED <<engine, is_saving, attached, buffer, target, content, late>>
        /\ tmp' = NoFile /\ mishaps' = mishaps \cup {"fault"}
    BY <1>5 DEF WriteFails, TmpAfterWriteError, ui
  <2>2. Disk'
    BY <2>1, InodesAreNumbers DEF Mapped, Disk
  <2>3. Counters'
    BY <2>1 DEF Mapped, Counters
  <2>4. Alone => new.pos <= Len(content'[r.fd])
    BY <1>1, <1>4, <2>1 DEF Alone
  <2>5. \A i \in Inodes \ {r.fd} : content'[i] = content[i]
    BY <2>1
  <2>6. QED
    BY <1>1, <1>3, <1>4, <1>5, <2>1, <2>2, <2>3, <2>4, <2>5, ThreadWorks
<1>6. CASE ~WriteFails(e)
  <2>1. /\ UNCHANGED <<engine, is_saving, ui, disk, counts>>
        /\ mishaps' = mishaps \cup {"newline"}
    BY <1>6 DEF NewlineFails
  <2>2. QED
    BY <1>1, <1>a, <1>4, <1>6, <2>1, ThreadThinks
<1>7. QED
  BY <1>5, <1>6

(* The BufWriter is flushed, or is not.                                    *)
LEMMA FlushKeepsMapped ==
  ASSUME Mapped, NEW e \in Engines, AllWritten(e) \/ Flush(e) \/ FlushFails(e)
  PROVE  Mapped'
<1> DEFINE o == thread[e].outputs
           d == thread[e].document
           r == thread[e]
<1>1. /\ r \in ThreadType(o, d) /\ r.fd # NoFile /\ r.unwritten \in Seq(Items) /\ r.pos \in Nat
      /\ r.fd \in Inodes
  <2>1. r.pc \notin {"none", "open"}
    BY DEF AllWritten, Flush, FlushFails
  <2>2. QED
    BY <2>1, ThreadHas
<1>2. CASE AllWritten(e) \/ FlushFails(e)
  <2>1. PICK x \in {"flush", "reset"} : thread' = [thread EXCEPT ![e] = [thread[e] EXCEPT !.pc = x]]
    BY <1>2 DEF AllWritten, FlushFails
  <2> DEFINE new == [r EXCEPT !.pc = x]
  <2>2. thread' = [thread EXCEPT ![e] = new] /\ x \in Steps /\ x \notin {"none", "open", "end"}
    BY <2>1 DEF Steps
  <2>3. new \in ThreadType(o, d) /\ new.pc = x /\ new.fd = r.fd /\ new.pos = r.pos
    BY <1>1, <2>2, SetPc
  <2> HIDE DEF new
  <2>4. /\ UNCHANGED <<engine, is_saving, ui, disk, counts>>
        /\ mishaps' \in {mishaps, mishaps \cup {"fault"}, mishaps \cup {"newline"}}
    BY <1>2 DEF AllWritten, FlushFails, history
  <2>5. QED
    BY <1>1, <2>2, <2>3, <2>4, ThreadThinks
<1>3. CASE Flush(e)
  <2> DEFINE none == << >>
             n == r.pos + Len(r.unwritten) + Len(none)
             r1 == [r EXCEPT !.pos = n]
             r2 == [r1 EXCEPT !.unwritten = none]
             new == [r2 EXCEPT !.pc = "rename"]
  <2>1. /\ thread' = [thread EXCEPT ![e] = new] /\ WriteOut(r, none)
        /\ UNCHANGED <<engine, is_saving, ui, target, tmp, late, mishaps>>
    BY <1>3 DEF Flush, Written, history
  <2>2. none \in Seq(Items)
    BY SMT
  <2> HIDE DEF none
  <2>3. /\ Disk' /\ \A i \in Inodes \ {r.fd} : content'[i] = content[i]
        /\ n \in Nat /\ n <= Len(content'[r.fd])
    BY <1>1, <2>1, <2>2, WriteOutKeepsDisk DEF Mapped, Disk
  <2> HIDE DEF n
  <2>4. r1 \in ThreadType(o, d) /\ r1.fd = r.fd /\ r1.pos = n
    BY <1>1, <2>3, SetPos
  <2> HIDE DEF r1
  <2>5. r2 \in ThreadType(o, d) /\ r2.fd = r.fd /\ r2.pos = n
    BY <2>2, <2>4, SetUnwritten
  <2> HIDE DEF r2
  <2>6. new \in ThreadType(o, d) /\ new.pc = "rename" /\ new.fd = r.fd /\ new.pos = n
    <3>1. "rename" \in Steps
      BY DEF Steps
    <3>2. QED
      BY <2>5, <3>1, SetPc
  <2> HIDE DEF new
  <2>7. Counters'
    BY <2>1 DEF Mapped, Counters, ui
  <2>8. QED
    BY <1>1, <2>1, <2>3, <2>6, <2>7, ThreadWorks DEF ui
<1>4. QED
  BY <1>2, <1>3

(* The file that was written takes the name of the target; what the engine *)
(* has mapped stays where it is.                                           *)
LEMMA RenameKeepsMapped == ASSUME Mapped, NEW e \in Engines, Rename(e) PROVE Mapped'
<1> DEFINE o == thread[e].outputs
           d == thread[e].document
           r == thread[e]
           new == [r EXCEPT !.pc = "reset"]
<1>1. r \in ThreadType(o, d) /\ r.fd # NoFile /\ r.pos \in Nat
  <2>1. r.pc = "rename"
    BY DEF Rename
  <2>2. QED
    BY <2>1, ThreadHas
<1>2. /\ thread' = [thread EXCEPT ![e] = new]
      /\ UNCHANGED <<engine, is_saving, attached, buffer, content, late>>
  BY DEF Rename, ui
<1>3. new \in ThreadType(o, d) /\ new.pc = "reset" /\ new.fd = r.fd /\ new.pos = r.pos
  <2>1. "reset" \in Steps
    BY DEF Steps
  <2>2. QED
    BY <1>1, <2>1, SetPc
<1> HIDE DEF new
<1>4. /\ tmp' \in {tmp, NoFile}
      /\ \/ target' = tmp /\ tmp' = NoFile /\ tmp # NoFile
         \/ target' = target /\ tmp' = tmp
      /\ mishaps' \in {mishaps, mishaps \cup {"fault"}}
  BY DEF Rename
<1>5. Disk'
  BY <1>2, <1>4, InodesAreNumbers DEF Mapped, Disk
<1>6. Counters'
  BY <1>2, <1>4 DEF Mapped, Counters
<1>7. Alone => new.pos <= Len(content'[r.fd])
  BY <1>1, <1>2, <1>3 DEF Alone
<1>8. QED
  BY <1>1, <1>2, <1>3, <1>4, <1>5, <1>6, <1>7, ThreadWorks

-----------------------------------------------------------------------------
(* Every step keeps what is mapped. *)
LEMMA NextKeepsMapped == Mapped /\ Shielded /\ [Next]_vars => Mapped'
<1> SUFFICES ASSUME Mapped, Shielded, [Next]_vars PROVE Mapped'
  OBVIOUS
<1>1. ASSUME NEW e \in Engines, SaveThread(e) PROVE Mapped'
  BY <1>1, OpenKeepsMapped, EndKeepsMapped, PieceKeepsMapped, ItemKeepsMapped,
     FailureKeepsMapped, FlushKeepsMapped, RenameKeepsMapped DEF SaveThread
<1>2. CASE Next
  BY <1>1, <1>2, DropKeepsMapped, WriteKeepsMapped, WipeoutKeepsMapped, ExitKeepsMapped, AttachKeepsMapped,
     UserKeepsMapped, IndexKeepsMapped, PollSaveKeepsMapped DEF Next
<1>3. CASE UNCHANGED vars
  BY <1>3 DEF Mapped, EnginesOK, Disk, ThreadsOK, ThreadOK, Freed, Active, Counters, Alone,
              vars, ui, disk, history
<1>4. QED
  BY <1>2, <1>3

(* As long as nobody opens the file again while an engine or a save of it  *)
(* is about, the file that is mapped, those that are written and           *)
(* <path>.tmp are kept apart, for any file and any fault; the types hold   *)
(* without that condition, for any number of engines.                      *)
THEOREM FilesKeptApart == Spec => [](Mapped /\ Shielded)
<1>1. Init => Mapped /\ Shielded
  BY InitMapped, InitShielded
<1>2. (Mapped /\ Shielded) /\ [Next]_vars => (Mapped /\ Shielded)'
  BY NextKeepsMapped, NextKeepsShield
<1>3. QED
  BY <1>1, <1>2, PTL DEF Spec

(* Types; the index of an engine never runs ahead of what was read, and a  *)
(* save never leaves a hole in what it writes, unless two of them write.   *)
THEOREM SaveTypesCorrect == Spec => []SaveTypeOK
<1>1. Mapped /\ Shielded => SaveTypeOK
  <2> SUFFICES ASSUME Mapped, Shielded PROVE SaveTypeOK
    OBVIOUS
  <2>1. /\ target \in Inodes /\ tmp \in Inodes \cup {NoFile}
        /\ is_saving \in [Engines -> BOOLEAN]
    BY DEF Mapped, Disk, Shielded, Attachments
  <2>2. ASSUME NEW e \in Engines
        PROVE  /\ engine[e].mapped \in Inodes \cup {NoFile}
               /\ engine[e].synced <= engine[e].published
               /\ engine[e].published <= engine[e].processed
               /\ engine[e].processed <= Len(engine[e].original)
    BY DEF Mapped, EnginesOK, EngineType
  <2>3. ASSUME NEW e \in Engines
        PROVE  /\ thread[e].pc \in {"none", "open", "write", "end", "flush", "rename", "reset"}
               /\ thread[e].fd \in Inodes \cup {NoFile}
               /\ late[e] = NoWriter <=> late[e].fd \notin Inodes
               /\ thread[e].fd # NoFile /\ "reopened" \notin mishaps =>
                    thread[e].pos <= Len(content[thread[e].fd])
    BY InodesAreNumbers DEF Mapped, Disk, WriterType, NoWriter, ThreadsOK, ThreadOK, ThreadType,
       Steps, Alone
  <2>4. Range(attached) \subseteq Engines
    BY SMT DEF Shielded, Attachments, Range
  <2>5. buffer.changedtick \in 0 .. MaxTick /\ buffer.modified \in BOOLEAN
    <3>1. buffer.changedtick \in Nat /\ buffer.changedtick <= MaxTick /\ MaxTick \in Nat
      BY SaveAssumption DEF Mapped, Counters, Shielded, Attachments, Buffers
    <3>2. QED
      BY <3>1, SMT DEF Shielded, Attachments, Buffers
  <2>6. mishaps \subseteq {"fault", "newline", "unindexed", "reopened", "leftover"}
    BY DEF Mapped, Counters
  <2>7. QED
    BY <2>1, <2>2, <2>3, <2>4, <2>5, <2>6 DEF SaveTypeOK
<1>2. QED
  BY <1>1, FilesKeptApart, PTL

(* The file that an engine has mapped is never truncated or written, not   *)
(* by the first save and not by those that come after the name has gone to *)
(* another file: the engine reads what it always read.                     *)
THEOREM MappedStays == Spec => []MappedFileUntouched
<1>1. Mapped => MappedFileUntouched
  BY DEF Mapped, Alone, MappedFileUntouched
<1>2. QED
  BY <1>1, FilesKeptApart, PTL

-----------------------------------------------------------------------------
(* The swap of the file. What a save has written and all that it has still *)
(* to write is one of the outputs that were possible when it began.        *)

(* What a list of pieces writes of a file in which `pub` lines are         *)
(* published, if a line behind them begins at f and ends at l.             *)
AtLine(line, pub, open) == IF line < pub THEN line ELSE open

PieceItems(o, p, pub, f, l) ==
  IF p.kind = "memory" THEN MemoryItems(p.lines)
  ELSE OriginalItems(SubSeq(o, AtLine(p.from, pub, f) + 1, AtLine(p.to, pub, l)))

ItemLists(o, ps, pub, f, l) == [i \in 1 .. Len(ps) |-> PieceItems(o, ps[i], pub, f, l)]

Rest(o, ps, pub, f, l) == FlattenSeq(ItemLists(o, ps, pub, f, l))

(* Where a line that is not published may be taken to begin or end.        *)
Offsets(o, pub, proc) == {pub} \cup proc .. Len(o)

(* The pieces have lines up to a bound, and only one reaches it: the only  *)
(* one that the index can lengthen during a save.                          *)
Within(p, bound) == p.kind = "original" => p.from <= p.to /\ p.to <= bound

Reaches(p, bound) == p.kind = "original" /\ p.to = bound

OneOpen(ps, bound) ==
  /\ \A i \in 1 .. Len(ps) : Within(ps[i], bound)
  /\ \A i, j \in 1 .. Len(ps) : Reaches(ps[i], bound) /\ Reaches(ps[j], bound) => i = j

NoneOpen(ps, bound) ==
  \A i \in 1 .. Len(ps) : Within(ps[i], bound) /\ ~Reaches(ps[i], bound)

(* What a thread has done, and all that it has still to write, is one of   *)
(* the outputs that were possible when the save was asked for.             *)
Ahead(t, o, pub, proc, done) ==
  IF t.pc = "end"
  THEN \A f, l \in Offsets(o, pub, proc) :
         done \o (OriginalItems(SubSeq(o, t.start + 1, AtLine(Head(t.pieces).to, pub, l)))
                  \o Rest(o, Tail(t.pieces), pub, f, l)) \in t.outputs
  ELSE \A f, l \in Offsets(o, pub, proc) : done \o Rest(o, t.pieces, pub, f, l) \in t.outputs

Promised(t, r, done) ==
  \E pub, proc \in Nat :
    /\ pub <= r.published /\ proc <= r.processed /\ OneOpen(t.pieces, pub)
    /\ Ahead(t, r.original, pub, proc, done)

(* The thread of a save, alone with its file. While <path>.tmp has its     *)
(* name, the file keeps the promise; the target is not written any more.   *)
Keeps(e) ==
  LET t == thread[e] IN
  /\ t.pc = "open" => t.todo = << >> /\ Promised(t, engine[e], << >>)
  /\ t.pc \in {"write", "end", "flush", "rename"} =>
       /\ t.fd # target /\ tmp \in {t.fd, NoFile}
       /\ tmp = t.fd => /\ t.pos = Len(content[t.fd])
                        /\ Promised(t, engine[e], (content[t.fd] \o t.unwritten) \o t.todo)
  /\ t.pc = "end" => t.todo = << >>
  /\ t.pc \in {"flush", "rename"} => t.todo = << >> /\ t.pieces = << >>
  /\ t.pc = "rename" => t.unwritten = << >>
  /\ t.pc = "reset" /\ t.fd = target => t.unwritten = << >>

Unblamed == mishaps \cap {"reopened", "newline", "leftover"} = {}

(* A failed save's writer that lingers has a file of its own.              *)
Apart ==
  Unblamed => \A s \in Engines : late[s].fd # NoFile =>
                late[s].fd # target /\ \A e \in Engines : thread[e].fd # late[s].fd

Atomic ==
  /\ \A e \in Engines : OneOpen(engine[e].pieces, engine[e].synced)
  /\ Unblamed => \A e \in Engines : Keeps(e)

(* A piece writes items. *)
LEMMA PieceItemsType ==
  ASSUME NEW o \in Seq(Items), NEW p \in Pieces, NEW pub \in 0 .. Len(o),
         NEW f \in 0 .. Len(o), NEW l \in 0 .. Len(o)
  PROVE  PieceItems(o, p, pub, f, l) \in Seq(Items)
<1>1. CASE p.kind = "memory"
  <2>1. p.lines \in Seq({Text})
    BY <1>1 DEF Pieces
  <2>2. QED
    BY <1>1, <2>1, MemoryItemsType DEF PieceItems
<1>2. CASE p.kind # "memory"
  <2> DEFINE a == AtLine(p.from, pub, f)
             b == AtLine(p.to, pub, l)
             s == SubSeq(o, a + 1, b)
  <2>1. p.from \in Nat /\ p.to \in Nat /\ Len(o) \in Nat
    BY <1>2, SMT DEF Pieces
  <2>2. a \in Nat /\ b \in Nat /\ b <= Len(o)
    BY <2>1, SMT DEF AtLine
  <2> HIDE DEF a, b
  <2>3. s \in Seq(Items)
    BY <2>2, SMT
  <2> HIDE DEF s
  <2>4. OriginalItems(s) \in Seq(Items)
    BY <2>3, OriginalItemsType
  <2>5. QED
    BY <1>2, <2>4 DEF PieceItems, s, a, b
<1>3. QED
  BY <1>1, <1>2

(* Nothing is left of no pieces, and the first piece goes first.           *)
LEMMA RestStep ==
  ASSUME NEW o \in Seq(Items), NEW ps \in Seq(Pieces), NEW pub \in 0 .. Len(o),
         NEW f \in 0 .. Len(o), NEW l \in 0 .. Len(o)
  PROVE  /\ Rest(o, ps, pub, f, l) \in Seq(Items)
         /\ ps = << >> => Rest(o, ps, pub, f, l) = << >>
         /\ ps # << >> => Rest(o, ps, pub, f, l)
                            = PieceItems(o, Head(ps), pub, f, l) \o Rest(o, Tail(ps), pub, f, l)
<1> DEFINE ss == ItemLists(o, ps, pub, f, l)
           n == Len(ps)
<1>1. n \in Nat /\ \A i \in 1 .. n : ps[i] \in Pieces
  BY SMT
<1>2. \A i \in 1 .. n : PieceItems(o, ps[i], pub, f, l) \in Seq(Items)
  BY <1>1, PieceItemsType
<1>3. /\ ss \in Seq(Seq(Items)) /\ Len(ss) = n
      /\ \A i \in 1 .. n : ss[i] = PieceItems(o, ps[i], pub, f, l)
  BY <1>1, <1>2, SMT DEF ItemLists
<1>4. Rest(o, ps, pub, f, l) \in Seq(Items)
  BY <1>3, FlattenType DEF Rest
<1>5. ASSUME ps = << >> PROVE Rest(o, ps, pub, f, l) = << >>
  <2>1. n = 0
    BY <1>5, SMT
  <2> HIDE DEF ss
  <2>2. ss = << >>
    BY <1>3, <2>1, SMT
  <2>3. QED
    BY <2>2, FlattenEmpty DEF Rest, ss
<1>6. ASSUME ps # << >>
      PROVE  Rest(o, ps, pub, f, l)
               = PieceItems(o, Head(ps), pub, f, l) \o Rest(o, Tail(ps), pub, f, l)
  <2> DEFINE q == Tail(ps)
             tt == ItemLists(o, q, pub, f, l)
             z == 0
  <2>1. /\ q \in Seq(Pieces) /\ Len(q) = n - 1 /\ n > 0 /\ Head(ps) = ps[1]
        /\ \A i \in 1 .. n - 1 : q[i] = ps[i + 1]
    BY <1>6, SMT
  <2> HIDE DEF q
  <2>2. \A i \in 1 .. n - 1 : q[i] \in Pieces
    BY <2>1, SMT
  <2>3. \A i \in 1 .. n - 1 : PieceItems(o, q[i], pub, f, l) \in Seq(Items)
    BY <2>2, PieceItemsType
  <2>4. /\ tt \in Seq(Seq(Items)) /\ Len(tt) = n - 1
        /\ \A i \in 1 .. n - 1 : tt[i] = PieceItems(o, q[i], pub, f, l)
    BY <1>1, <2>1, <2>3, SMT DEF ItemLists
  <2> HIDE DEF ss, tt
  <2>5. Behind(ss, 1) \in Seq(Seq(Items)) /\ Len(Behind(ss, 1)) = n - 1
        /\ \A i \in 1 .. n - 1 : Behind(ss, 1)[i] = ss[i + 1]
    BY <1>1, <1>3, <2>1, SMT DEF Behind
  <2>6. Behind(ss, 1) = tt
    <3>1. \A i \in 1 .. n - 1 : i + 1 \in 1 .. n /\ i \in 1 .. n - 1
      BY <1>1
    <3>2. \A i \in 1 .. Len(Behind(ss, 1)) : Behind(ss, 1)[i] = tt[i]
      BY <1>3, <2>1, <2>4, <2>5, <3>1
    <3>3. QED
      BY <2>4, <2>5, <3>2, SameList
  <2>7. z \in 0 .. Len(ss) /\ z < Len(ss) /\ z + 1 = 1
    BY <1>1, <1>3, <2>1
  <2> HIDE DEF z
  <2>8. /\ FlattenSeq(ss) = FlattenSeq(UpTo(ss, z)) \o FlattenSeq(Behind(ss, z))
        /\ FlattenSeq(Behind(ss, z)) = ss[z + 1] \o FlattenSeq(Behind(ss, z + 1))
    BY <1>3, <2>7, FlattenParts
  <2>9. UpTo(ss, z) = << >> /\ Behind(ss, z) = ss
    BY <1>3, SMT DEF UpTo, Behind, z
  <2>a. FlattenSeq(ss) = ss[1] \o FlattenSeq(tt)
    BY <2>6, <2>7, <2>8, <2>9
  <2>b. ss[1] = PieceItems(o, Head(ps), pub, f, l)
    BY <1>1, <1>3, <2>1
  <2>c. QED
    BY <2>a, <2>b DEF Rest, ss, tt, q
<1>7. QED
  BY <1>4, <1>5, <1>6

(* Where no piece reaches the end of what is published, nothing depends on *)
(* where a line begins or ends that is not.                                *)
LEMMA RestClosed ==
  ASSUME NEW o, NEW ps \in Seq(Pieces), NEW pub \in Nat, NoneOpen(ps, pub),
         NEW f, NEW l, NEW g, NEW m
  PROVE  Rest(o, ps, pub, f, l) = Rest(o, ps, pub, g, m)
<1>1. ASSUME NEW i \in 1 .. Len(ps)
      PROVE  PieceItems(o, ps[i], pub, f, l) = PieceItems(o, ps[i], pub, g, m)
  <2> DEFINE p == ps[i]
  <2>1. p \in Pieces /\ Within(p, pub) /\ ~Reaches(p, pub)
    BY SMT DEF NoneOpen
  <2> HIDE DEF p
  <2>2. CASE p.kind = "memory"
    BY <2>2 DEF PieceItems, p
  <2>3. CASE p.kind # "memory"
    <3>1. p.kind = "original" /\ p.from \in Nat /\ p.to \in Nat
      BY <2>1, <2>3 DEF Pieces
    <3>2. p.from < pub /\ p.to < pub
      BY <2>1, <3>1, SMT DEF Within, Reaches
    <3>3. QED
      BY <3>2 DEF PieceItems, AtLine, p
  <2>4. QED
    BY <2>2, <2>3
<1>2. ItemLists(o, ps, pub, f, l) = ItemLists(o, ps, pub, g, m)
  BY <1>1, Zenon DEF ItemLists
<1>3. QED
  BY <1>2 DEF Rest

(* Without its first piece a list has no more pieces that reach the end.   *)
LEMMA OneOpenTail ==
  ASSUME NEW ps \in Seq(Pieces), NEW b, OneOpen(ps, b), ps # << >>
  PROVE  /\ Tail(ps) \in Seq(Pieces) /\ Head(ps) \in Pieces
         /\ OneOpen(Tail(ps), b) /\ Within(Head(ps), b)
         /\ Reaches(Head(ps), b) => NoneOpen(Tail(ps), b)
<1> DEFINE q == Tail(ps)
           n == Len(ps)
<1>1. /\ q \in Seq(Pieces) /\ Len(q) = n - 1 /\ n \in Nat /\ n > 0 /\ Head(ps) = ps[1]
      /\ \A i \in 1 .. n - 1 : q[i] = ps[i + 1]
      /\ ps[1] \in Pieces
  BY SMT
<1> HIDE DEF q
<1>2. /\ \A i \in 1 .. n - 1 : i + 1 \in 1 .. n /\ i + 1 # 1
      /\ \A i, j \in 1 .. n - 1 : i + 1 = j + 1 => i = j
      /\ 1 \in 1 .. n
  BY <1>1, SMT
<1>3. /\ \A i \in 1 .. n : Within(ps[i], b)
      /\ \A i, j \in 1 .. n : Reaches(ps[i], b) /\ Reaches(ps[j], b) => i = j
  BY DEF OneOpen
<1> HIDE DEF n
<1>4. OneOpen(q, b)
  BY <1>1, <1>2, <1>3, Zenon DEF OneOpen
<1>5. Within(Head(ps), b)
  BY <1>1, <1>2, <1>3
<1>6. Reaches(Head(ps), b) => NoneOpen(q, b)
  BY <1>1, <1>2, <1>3, Zenon DEF NoneOpen
<1>7. QED
  BY <1>1, <1>4, <1>5, <1>6 DEF q

(* A greater bound is reached by none.                                     *)
LEMMA OneOpenGrows ==
  ASSUME NEW ps \in Seq(Pieces), NEW a \in Nat, OneOpen(ps, a), NEW b \in Nat, a <= b
  PROVE  /\ OneOpen(ps, b)
         /\ a < b => NoneOpen(ps, b)
<1>1. ASSUME NEW i \in 1 .. Len(ps)
      PROVE  Within(ps[i], b) /\ (a < b => ~Reaches(ps[i], b))
  <2>1. ps[i] \in Pieces /\ Within(ps[i], a)
    BY SMT DEF OneOpen
  <2>2. ps[i].kind = "original" => ps[i].from \in Nat /\ ps[i].to \in Nat
    BY <2>1 DEF Pieces
  <2>3. QED
    BY <2>1, <2>2, SMT DEF Within, Reaches
<1>2. CASE a < b
  BY <1>1, <1>2 DEF OneOpen, NoneOpen
<1>3. CASE a = b
  BY <1>3
<1>4. QED
  BY <1>2, <1>3


(* What has arrived lengthens the one piece that reached the end, or comes *)
(* behind all others.                                                      *)
LEMMA OneOpenExtended ==
  ASSUME NEW e \in Engines, engine[e] \in EngineType, NEW n \in Nat, engine[e].synced <= n,
         OneOpen(engine[e].pieces, engine[e].synced)
  PROVE  OneOpen(Extended(e, n), n)
<1> DEFINE ps == engine[e].pieces
           s == engine[e].synced
           k == Len(ps)
           x == ps[k]
<1>1. ps \in Seq(Pieces) /\ s \in Nat /\ k \in Nat /\ s <= n /\ OneOpen(ps, s)
  BY SMT DEF EngineType
<1>2. Extended(e, n) =
        IF n <= s THEN ps
        ELSE IF ps # << >> /\ Last(ps).kind = "original" /\ Last(ps).to = s
        THEN [ps EXCEPT ![Len(ps)].to = n]
        ELSE Append(ps, Original(s, n))
  BY DEF Extended
<1>3. CASE n <= s
  <2>1. n = s
    BY <1>1, <1>3
  <2>2. QED
    BY <1>1, <1>2, <1>3, <2>1
<1>a. ps \in Seq(Pieces) /\ s \in Nat
  BY <1>1
<1> HIDE DEF ps, s
<1>4. CASE ~(n <= s)
  <2>1. s < n
    BY <1>1, <1>4
  <2>2. NoneOpen(ps, n)
    BY <1>1, <2>1, OneOpenGrows
  <2>3. CASE ps # << >> /\ Last(ps).kind = "original" /\ Last(ps).to = s
    <3> DEFINE y == [x EXCEPT !.to = n]
               q == [ps EXCEPT ![k] = y]
    <3>1. Last(ps) = x /\ k \in 1 .. k /\ x \in Pieces /\ Len(ps) = k
      BY <1>1, <2>3, SMT DEF Last
    <3>2. Extended(e, n) = q
      BY <1>2, <1>4, <2>3
    <3>3. x.kind = "original" /\ x.to = s /\ Within(x, s)
      BY <1>1, <2>3, <3>1 DEF OneOpen
    <3>4. y \in Pieces /\ y.kind = "original" /\ y.from = x.from /\ y.to = n /\ x.from \in Nat
      <4> HIDE DEF x
      <4>1. x \in [kind : {"original"}, from : Nat, to : Nat]
        BY <3>1, <3>3 DEF Pieces
      <4>2. y \in [kind : {"original"}, from : Nat, to : Nat] /\ y.to = n /\ y.from = x.from
            /\ y.kind = x.kind
        BY <4>1
      <4>3. QED
        BY <3>3, <4>1, <4>2 DEF Pieces
    <3>5. Within(y, n)
      BY <1>1, <2>1, <3>3, <3>4, SMT DEF Within
    <3> HIDE DEF x, y
    <3>6. /\ Len(q) = k /\ \A i \in 1 .. k : q[i] = IF i = k THEN y ELSE ps[i]
      BY <1>1, <3>1, <3>4, SMT
    <3> HIDE DEF q
    <3>7. OneOpen(q, n)
      BY <2>2, <3>1, <3>5, <3>6, Zenon DEF OneOpen, NoneOpen
    <3>8. QED
      BY <3>2, <3>7
  <2>4. CASE ~(ps # << >> /\ Last(ps).kind = "original" /\ Last(ps).to = s)
    <3> DEFINE y == Original(s, n)
               q == Append(ps, y)
    <3>1. Extended(e, n) = q
      BY <1>2, <1>4, <2>4
    <3>2. y \in Pieces /\ y.kind = "original" /\ y.from = s /\ y.to = n
      BY <1>1, PiecesMade DEF Original
    <3>3. Within(y, n)
      BY <1>1, <2>1, <3>2, SMT DEF Within
    <3> HIDE DEF y
    <3>4. /\ Len(q) = k + 1 /\ q[k + 1] = y
          /\ \A i \in 1 .. k + 1 : i # k + 1 => i \in 1 .. k /\ q[i] = ps[i]
      BY <1>1, <3>2, SMT
    <3> HIDE DEF q
    <3>5. Len(ps) = k
      BY <1>1
    <3> HIDE DEF k
    <3>6. OneOpen(q, n)
      BY <2>2, <3>3, <3>4, <3>5, Zenon DEF OneOpen, NoneOpen
    <3>7. QED
      BY <3>1, <3>6
  <2>5. QED
    BY <2>3, <2>4
<1>5. QED
  BY <1>3, <1>4

(* A line of an edit in front, or a line less in front, opens no piece.    *)
LEMMA OneOpenEdited ==
  ASSUME NEW ps \in Seq(Pieces), NEW b \in Nat, OneOpen(ps, b)
  PROVE  OneOpen(<<Memory(<<Text>>)>> \o ps, b) /\ OneOpen(WithoutFirst(ps), b)
<1> DEFINE k == Len(ps)
<1>1. k \in Nat /\ \A i \in 1 .. k : ps[i] \in Pieces
  BY SMT
<1>2. /\ \A i \in 1 .. k : Within(ps[i], b)
      /\ \A i, j \in 1 .. k : Reaches(ps[i], b) /\ Reaches(ps[j], b) => i = j
  BY DEF OneOpen
<1>3. OneOpen(<<Memory(<<Text>>)>> \o ps, b)
  <2> DEFINE y == Memory(<<Text>>)
             q == <<y>> \o ps
  <2>1. y \in Pieces /\ y.kind = "memory"
    BY PiecesMade DEF Memory
  <2>2. Within(y, b) /\ ~Reaches(y, b)
    BY <2>1 DEF Within, Reaches
  <2> HIDE DEF y
  <2>3. /\ Len(q) = k + 1 /\ q[1] = y
        /\ \A i \in 1 .. k + 1 : i # 1 => i - 1 \in 1 .. k /\ q[i] = ps[i - 1]
    BY <1>1, <2>1, SMT
  <2> HIDE DEF q, k
  <2>4. \A i, j \in 1 .. k + 1 : i - 1 = j - 1 => i = j
    BY <1>1
  <2>5. OneOpen(q, b)
    BY <1>2, <2>2, <2>3, <2>4, Zenon DEF OneOpen
  <2>6. QED
    BY <2>5 DEF q, y
<1>4. OneOpen(WithoutFirst(ps), b)
  <2>1. CASE ps = << >>
    BY <2>1 DEF WithoutFirst
  <2>2. CASE ps # << >> /\ ~(Head(ps).kind = "original" /\ Head(ps).from + 1 < Head(ps).to)
    BY <2>2, OneOpenTail DEF WithoutFirst
  <2>3. CASE ps # << >> /\ Head(ps).kind = "original" /\ Head(ps).from + 1 < Head(ps).to
    <3> DEFINE h == Head(ps)
               y == Original(h.from + 1, h.to)
               t == Tail(ps)
               q == <<y>> \o t
    <3>1. WithoutFirst(ps) = q
      BY <2>3 DEF WithoutFirst
    <3>2. h \in Pieces /\ h = ps[1] /\ 1 \in 1 .. k /\ t \in Seq(Pieces) /\ Len(t) = k - 1
          /\ \A i \in 1 .. k : i # 1 => i - 1 \in 1 .. k - 1 /\ t[i - 1] = ps[i]
      BY <1>1, <2>3, SMT
    <3>3. h.kind = "original" /\ h.from \in Nat /\ h.to \in Nat /\ h.from + 1 < h.to
      BY <2>3, <3>2 DEF Pieces
    <3>4. Within(h, b)
      BY <1>2, <3>2
    <3>5. h.from + 1 \in Nat /\ h.from + 1 <= h.to /\ h.to <= b
      BY <3>3, <3>4, SMT DEF Within
    <3>6. y \in Pieces /\ y.kind = "original" /\ y.from = h.from + 1 /\ y.to = h.to
      BY <3>3, <3>5, PiecesMade DEF Original
    <3>7. Within(y, b) /\ (Reaches(y, b) => Reaches(h, b))
      BY <3>3, <3>5, <3>6 DEF Within, Reaches
    <3> HIDE DEF y, h, t
    <3>8. /\ Len(q) = k /\ q[1] = y
          /\ \A i \in 1 .. k : i # 1 => q[i] = t[i - 1]
      BY <1>1, <3>2, <3>6, SMT
    <3> HIDE DEF q, k
    <3>9. \A i \in 1 .. k : Within(q[i], b) /\ (Reaches(q[i], b) => Reaches(ps[i], b))
      BY <1>2, <3>2, <3>7, <3>8, Zenon
    <3>a. OneOpen(q, b)
      BY <1>2, <3>8, <3>9, Zenon DEF OneOpen
    <3>b. QED
      BY <3>1, <3>a
  <2>4. QED
    BY <2>1, <2>2, <2>3
<1>5. QED
  BY <1>3, <1>4

(* Where a save finds a line that it was not told when it began: only as   *)
(* far away as the index had been, or further.                             *)
LEMMA OffsetTaken ==
  ASSUME Mapped, NEW e \in Engines, NEW line \in Nat, NEW pub \in Nat, NEW proc \in Nat,
         pub <= engine[e].published, proc <= engine[e].processed, line <= pub
  PROVE  /\ line < pub => calc_offset(e, line) = line
         /\ line = pub => calc_offset(e, line) \in Offsets(engine[e].original, pub, proc)
<1> DEFINE r == engine[e]
           m == Len(r.original)
<1>1. /\ m \in Nat /\ r.published \in Nat /\ r.processed \in Nat
      /\ r.published <= r.processed /\ r.processed <= m /\ pub <= r.published
      /\ proc <= r.processed
  <2>1. r \in EngineType /\ r.published <= r.processed /\ r.processed <= m
    BY DEF Mapped, EnginesOK
  <2>2. r.original \in Seq(Items)
    BY <2>1 DEF EngineType
  <2>3. m \in Nat
    BY <2>2, LenInNat
  <2>4. QED
    BY <2>1, <2>3 DEF EngineType
<1>2. calc_offset(e, line) = IF line < r.published THEN line
                             ELSE IF r.finished THEN m ELSE r.processed
  BY DEF calc_offset
<1>3. Offsets(r.original, pub, proc) = {pub} \cup proc .. m
  BY DEF Offsets
<1> HIDE DEF m
<1>4. line < pub => calc_offset(e, line) = line
  BY <1>1, <1>2
<1>5. line = pub => calc_offset(e, line) \in {pub} \cup proc .. m
  BY <1>1, <1>2, SMT
<1>6. QED
  BY <1>3, <1>4, <1>5

(* These places are in the file.                                           *)
LEMMA OffsetsInFile ==
  ASSUME Mapped, NEW e \in Engines, NEW pub \in Nat, NEW proc \in Nat,
         pub <= engine[e].published
  PROVE  /\ engine[e].original \in Seq(Items) /\ pub \in 0 .. Len(engine[e].original)
         /\ Offsets(engine[e].original, pub, proc) \subseteq 0 .. Len(engine[e].original)
         /\ pub \in Offsets(engine[e].original, pub, proc)
<1> DEFINE r == engine[e]
           o == r.original
<1>1. r \in EngineType /\ r.published <= r.processed /\ r.processed <= Len(o)
  BY DEF Mapped, EnginesOK
<1>2. o \in Seq(Items) /\ r.published \in Nat /\ r.processed \in Nat
  BY <1>1 DEF EngineType
<1>3. Len(o) \in Nat
  BY <1>2, LenInNat
<1>4. pub \in 0 .. Len(o)
  BY <1>1, <1>2, <1>3
<1>5. Offsets(o, pub, proc) \subseteq 0 .. Len(o) /\ pub \in Offsets(o, pub, proc)
  BY <1>3, <1>4 DEF Offsets
<1>6. QED
  BY <1>2, <1>4, <1>5

(* Items that are written at the end of a file come behind what it holds,  *)
(* and nothing that is written changes nothing.                            *)
LEMMA PutAtEnd ==
  ASSUME NEW old \in Seq(Items), NEW items \in Seq(Items)
  PROVE  /\ Put(old, Len(old), items) = old \o items
         /\ \A pos \in 0 .. Len(old) : Put(old, pos, << >>) = old
<1> DEFINE n == Len(old)
           m == Len(items)
<1>1. /\ n \in Nat /\ m \in Nat
      /\ Len(old \o items) = n + m
      /\ \A i \in 1 .. n + m : (old \o items)[i] = IF i <= n THEN old[i] ELSE items[i - n]
      /\ old \o items \in Seq(Items)
  BY ConcatElements, LenInNat
<1>2. Put(old, n, items) = old \o items
  <2> DEFINE s == Put(old, n, items)
             c == old \o items
  <2>1. (IF n + m > n THEN n + m ELSE n) = n + m
    BY <1>1
  <2>2. s = [i \in 1 .. n + m |-> IF n < i /\ i <= n + m THEN items[i - n]
                                  ELSE IF i <= n THEN old[i] ELSE "hole"]
    BY <2>1 DEF Put
  <2>3. s \in Seq(Items)
    BY <1>1, PutType
  <2>4. c \in Seq(Items) /\ Len(c) = n + m
        /\ \A i \in 1 .. n + m : c[i] = IF i <= n THEN old[i] ELSE items[i - n]
    BY <1>1
  <2> HIDE DEF s, c, n, m
  <2>5. Len(s) = n + m
    BY <1>1, <2>2, <2>3, SMT
  <2>6. ASSUME NEW i \in 1 .. Len(s) PROVE s[i] = c[i]
    <3>1. i \in 1 .. n + m /\ (i <= n \/ (n < i /\ i <= n + m)) /\ ~(i <= n /\ n < i)
      BY <1>1, <2>5
    <3>2. s[i] = IF n < i /\ i <= n + m THEN items[i - n] ELSE IF i <= n THEN old[i] ELSE "hole"
      BY <2>2, <3>1
    <3>3. QED
      BY <2>4, <3>1, <3>2
  <2>7. s = c
    BY <2>3, <2>4, <2>5, <2>6, SameList
  <2>8. QED
    BY <2>7 DEF s, c
<1>3. ASSUME NEW pos \in 0 .. n PROVE Put(old, pos, << >>) = old
  <2> DEFINE s == Put(old, pos, << >>)
  <2>1. << >> \in Seq(Items) /\ Len(<< >>) = 0
    BY SMT
  <2>2. pos \in Nat /\ pos + 0 = pos /\ (IF pos > n THEN pos ELSE n) = n
    BY <1>1
  <2>3. s \in Seq(Items)
    BY <2>1, <2>2, PutType
  <2>4. s = [i \in 1 .. n |-> IF pos < i /\ i <= pos THEN << >>[i - pos]
                              ELSE IF i <= n THEN old[i] ELSE "hole"]
    BY <2>1, <2>2 DEF Put
  <2> HIDE DEF s, n, m
  <2>5. Len(s) = n
    BY <1>1, <2>3, <2>4, SMT
  <2>6. ASSUME NEW i \in 1 .. Len(s) PROVE s[i] = old[i]
    <3>1. i \in 1 .. n /\ i <= n /\ ~(pos < i /\ i <= pos)
      BY <1>1, <2>2, <2>5
    <3>2. QED
      BY <2>4, <3>1
  <2>7. s = old
    BY <2>3, <2>5, <2>6, SameList DEF n
  <2>8. QED
    BY <2>7 DEF s
<1>4. QED
  BY <1>2, <1>3

(* What was promised when less was indexed holds when more is.             *)
LEMMA PromiseGrows ==
  ASSUME NEW t, NEW r \in EngineType, NEW s \in EngineType, NEW done,
         s.original = r.original, r.published <= s.published, r.processed <= s.processed,
         Promised(t, r, done)
  PROVE  Promised(t, s, done)
<1>1. PICK pub \in Nat, proc \in Nat :
        /\ pub <= r.published /\ proc <= r.processed /\ OneOpen(t.pieces, pub)
        /\ Ahead(t, r.original, pub, proc, done)
  BY DEF Promised
<1>2. /\ r.published \in Nat /\ s.published \in Nat /\ r.processed \in Nat /\ s.processed \in Nat
  BY DEF EngineType
<1>3. pub <= s.published /\ proc <= s.processed
  BY <1>1, <1>2
<1>4. QED
  BY <1>1, <1>3 DEF Promised

(* A thread that does nothing keeps its promise while the index grows.     *)
LEMMA KeepsStays ==
  ASSUME NEW e \in Engines, Keeps(e), thread'[e] = thread[e], UNCHANGED disk,
         engine[e] \in EngineType, engine'[e] \in EngineType,
         engine'[e].original = engine[e].original,
         engine[e].published <= engine'[e].published,
         engine[e].processed <= engine'[e].processed
  PROVE  Keeps(e)'
<1> DEFINE t == thread[e]
<1>1. \A done : Promised(t, engine[e], done) => Promised(t, engine'[e], done)
  BY PromiseGrows
<1>2. thread'[e] = t /\ content' = content /\ target' = target /\ tmp' = tmp
  BY DEF disk
<1>3. Keeps(e)' <=>
        /\ t.pc = "open" => t.todo = << >> /\ Promised(t, engine'[e], << >>)
        /\ t.pc \in {"write", "end", "flush", "rename"} =>
             /\ t.fd # target /\ tmp \in {t.fd, NoFile}
             /\ tmp = t.fd => /\ t.pos = Len(content[t.fd])
                              /\ Promised(t, engine'[e], (content[t.fd] \o t.unwritten) \o t.todo)
        /\ t.pc = "end" => t.todo = << >>
        /\ t.pc \in {"flush", "rename"} => t.todo = << >> /\ t.pieces = << >>
        /\ t.pc = "rename" => t.unwritten = << >>
        /\ t.pc = "reset" /\ t.fd = target => t.unwritten = << >>
  BY <1>2 DEF Keeps
<1>4. QED
  BY <1>1, <1>3 DEF Keeps

(* A thread that has not begun or that has ended promises nothing.         *)
LEMMA NothingKept ==
  ASSUME NEW e
  PROVE  /\ thread[e].pc = "none" => Keeps(e)
         /\ thread'[e].pc = "none" => Keeps(e)'
BY DEF Keeps

(* A step of a save is left to that save: nobody else has one.             *)
LEMMA ThreadMoves ==
  ASSUME Mapped, Atomic, NEW e \in Engines, thread[e].pc # "none", NEW new,
         thread' = [thread EXCEPT ![e] = new],
         \A f \in Engines : OneOpen(engine'[f].pieces, engine'[f].synced),
         Unblamed' => Unblamed,
         Unblamed' /\ Alone /\ Keeps(e) => Keeps(e)'
  PROVE  Atomic'
<1> SUFFICES ASSUME Unblamed', NEW f \in Engines PROVE Keeps(f)'
  BY DEF Atomic
<1>1. Unblamed /\ Alone
  BY DEF Unblamed, Mapped
<1>2. CASE f = e
  BY <1>1, <1>2 DEF Atomic
<1>3. CASE f # e
  <2>1. thread[f].pc = "none"
    BY <1>1, <1>3 DEF Alone, Active
  <2>2. thread'[f] = thread[f]
    BY <1>3 DEF Mapped, ThreadsOK
  <2>3. QED
    BY <2>1, <2>2, NothingKept
<1>4. QED
  BY <1>2, <1>3

(* A step of somebody else leaves the saves alone.                         *)
LEMMA OthersMove ==
  ASSUME Mapped, Mapped', Atomic, UNCHANGED <<thread, disk>>, Unblamed' => Unblamed,
         \A f \in Engines : OneOpen(engine'[f].pieces, engine'[f].synced),
         \A f \in Engines : thread[f].pc # "none" =>
           /\ engine'[f].original = engine[f].original
           /\ engine[f].published <= engine'[f].published
           /\ engine[f].processed <= engine'[f].processed
  PROVE  Atomic'
<1> SUFFICES ASSUME Unblamed', NEW f \in Engines PROVE Keeps(f)'
  BY DEF Atomic
<1>1. Keeps(f)
  BY DEF Atomic
<1>2. engine[f] \in EngineType /\ engine'[f] \in EngineType
  BY DEF Mapped, EnginesOK
<1>3. thread'[f] = thread[f]
  OBVIOUS
<1>4. CASE thread[f].pc = "none"
  BY <1>3, <1>4, NothingKept
<1>5. CASE thread[f].pc # "none"
  BY <1>1, <1>2, <1>3, <1>5, KeepsStays
<1>6. QED
  BY <1>4, <1>5

(* An engine may read and publish more, and take over what is published.   *)
LEMMA EngineSteps ==
  ASSUME Mapped, Mapped', Atomic, NEW e \in Engines, NEW new \in EngineType,
         engine' = [engine EXCEPT ![e] = new], UNCHANGED <<thread, disk>>, Unblamed' => Unblamed,
         OneOpen(new.pieces, new.synced), new.original = engine[e].original,
         engine[e].published <= new.published, engine[e].processed <= new.processed
  PROVE  Atomic'
<1>1. engine \in [Engines -> EngineType]
  BY DEF Mapped, EnginesOK
<1>2. ASSUME NEW f \in Engines
      PROVE  /\ OneOpen(engine'[f].pieces, engine'[f].synced)
             /\ engine'[f].original = engine[f].original
             /\ engine[f].published <= engine'[f].published
             /\ engine[f].processed <= engine'[f].processed
  <2>1. CASE f = e
    <3>1. engine'[f] = new
      BY <1>1, <2>1
    <3>2. QED
      BY <2>1, <3>1
  <2>2. CASE f # e
    <3>1. engine'[f] = engine[f] /\ engine[f] \in EngineType
      BY <1>1, <2>2
    <3>2. engine[f].published <= engine[f].published /\ engine[f].processed <= engine[f].processed
      BY <3>1 DEF EngineType
    <3>3. QED
      BY <3>1, <3>2 DEF Atomic
  <2>3. QED
    BY <2>1, <2>2
<1>3. QED
  BY <1>2, OthersMove

(* The index grows under a save. *)
LEMMA IndexKeepsAtomic ==
  ASSUME Mapped, Atomic, NEW e \in Engines, IndexCount(e) \/ IndexPublish(e) \/ IndexFinish(e)
  PROVE  Atomic'
<1> DEFINE r == engine[e]
<1>1. /\ engine \in [Engines -> EngineType] /\ r \in EngineType
      /\ r.processed \in Nat /\ r.published \in Nat /\ r.published <= r.processed
  BY DEF Mapped, EnginesOK, EngineType
<1>2. Mapped'
  BY IndexKeepsMapped
<1>3. UNCHANGED <<thread, disk>> /\ (Unblamed' => Unblamed)
  BY DEF IndexCount, IndexPublish, IndexFinish, ui, history, Unblamed
<1>4. OneOpen(r.pieces, r.synced)
  BY DEF Atomic
<1>5. CASE IndexCount(e)
  <2> DEFINE n == r.processed + 1
             new == [r EXCEPT !.processed = n]
  <2>1. engine' = [engine EXCEPT ![e] = new]
    BY <1>5 DEF IndexCount
  <2>2. n \in Nat /\ r.processed <= n /\ r.published <= r.published
    BY <1>1, SMT
  <2> HIDE DEF n
  <2>3. /\ new \in EngineType /\ new.original = r.original /\ new.pieces = r.pieces
        /\ new.published = r.published /\ new.synced = r.synced /\ new.processed = n
    BY <1>1, <2>2, EngineFields
  <2> HIDE DEF new
  <2>4. QED
    BY <1>1, <1>2, <1>3, <1>4, <2>1, <2>2, <2>3, EngineSteps
<1>6. CASE IndexPublish(e)
  <2> DEFINE n == LineEnds(e, r.processed)
             new == [r EXCEPT !.published = n]
  <2>1. engine' = [engine EXCEPT ![e] = new]
    BY <1>6 DEF IndexPublish
  <2>2. n \in Nat /\ r.published <= n /\ r.processed <= r.processed
    <3>1. n \in 0 .. r.processed
      BY <1>1, LineEndsBehind
    <3>2. r.published < n
      BY <1>6 DEF IndexPublish
    <3> HIDE DEF n
    <3>3. QED
      BY <1>1, <3>1, <3>2, SMT
  <2> HIDE DEF n
  <2>3. /\ new \in EngineType /\ new.original = r.original /\ new.pieces = r.pieces
        /\ new.published = n /\ new.synced = r.synced /\ new.processed = r.processed
    BY <1>1, <2>2, EngineFields
  <2> HIDE DEF new
  <2>4. QED
    BY <1>1, <1>2, <1>3, <1>4, <2>1, <2>2, <2>3, EngineSteps
<1>7. CASE IndexFinish(e)
  <2> DEFINE n == r.processed
             mid == [r EXCEPT !.published = n]
             new == [mid EXCEPT !.finished = TRUE]
  <2>1. engine' = [engine EXCEPT ![e] = new]
    BY <1>1, <1>7, FieldsInTurn DEF IndexFinish
  <2>2. n \in Nat /\ r.published <= n /\ r.processed <= r.processed
    BY <1>1, SMT
  <2> HIDE DEF n
  <2>3. /\ mid \in EngineType /\ mid.original = r.original /\ mid.pieces = r.pieces
        /\ mid.published = n /\ mid.synced = r.synced /\ mid.processed = r.processed
    BY <1>1, <2>2, EngineFields
  <2> HIDE DEF mid
  <2>4. /\ new \in EngineType /\ new.original = r.original /\ new.pieces = r.pieces
        /\ new.published = n /\ new.synced = r.synced /\ new.processed = r.processed
    BY <2>2, <2>3, EngineFields
  <2> HIDE DEF new
  <2>5. QED
    BY <1>1, <1>2, <1>3, <1>4, <2>1, <2>2, <2>4, EngineSteps
<1>8. QED
  BY <1>5, <1>6, <1>7

(* A synchronisation under a save. *)
LEMMA SyncKeepsAtomic ==
  ASSUME Mapped, Mapped', Atomic, NEW e \in Engines, NEW p \in Seq(Pieces),
         engine' = Synced(e, p), OneOpen(p, engine[e].published),
         UNCHANGED <<thread, disk>>, Unblamed' => Unblamed
  PROVE  Atomic'
<1> DEFINE r == engine[e]
           n == r.published
           mid == [r EXCEPT !.pieces = p]
           new == [mid EXCEPT !.synced = n]
<1>1. /\ engine \in [Engines -> EngineType] /\ r \in EngineType
      /\ r.processed \in Nat /\ n \in Nat
  BY DEF Mapped, EnginesOK, EngineType
<1>2. engine' = [engine EXCEPT ![e] = new]
  BY <1>1, FieldsInTurn DEF Synced, Arrived
<1>3. n <= n /\ r.processed <= r.processed /\ n = r.published /\ OneOpen(p, n)
  BY <1>1
<1> HIDE DEF n
<1>4. /\ mid \in EngineType /\ mid.original = r.original /\ mid.pieces = p
      /\ mid.published = r.published /\ mid.processed = r.processed
  BY <1>1, PiecesField
<1> HIDE DEF mid
<1>5. /\ new \in EngineType /\ new.original = r.original /\ new.pieces = p
      /\ new.published = r.published /\ new.synced = n /\ new.processed = r.processed
  BY <1>1, <1>4, EngineFields
<1> HIDE DEF new
<1>6. QED
  BY <1>1, <1>2, <1>3, <1>5, EngineSteps

(* Edits, polls and moves of the window under a save.                      *)
LEMMA UserKeepsAtomic ==
  ASSUME Mapped, Shielded, Atomic, NEW e \in Engines, PollIndex(e) \/ Edit(e) \/ ShiftWindow(e)
  PROVE  Atomic'
<1> DEFINE r == engine[e]
           all == SyncedPieces(e)
<1>1. r \in EngineType /\ r.published \in Nat /\ r.synced <= r.published
  BY DEF Mapped, EnginesOK, EngineType
<1>2. Mapped'
  BY UserKeepsMapped
<1>3. UNCHANGED <<thread, disk>> /\ (Unblamed' => Unblamed)
  BY DEF PollIndex, Edit, ShiftWindow, history, Unblamed
<1>4. all \in Seq(Pieces) /\ OneOpen(all, r.published)
  <2>1. OneOpen(r.pieces, r.synced)
    BY DEF Atomic
  <2>2. QED
    BY <1>1, <2>1, ExtendedType, OneOpenExtended DEF SyncedPieces, Arrived
<1>5. CASE PollIndex(e) \/ ShiftWindow(e)
  <2>1. engine' = Synced(e, all)
    BY <1>5 DEF PollIndex, ShiftWindow
  <2>2. QED
    BY <1>2, <1>3, <1>4, <2>1, SyncKeepsAtomic
<1>6. CASE Edit(e) /\ editor[e].complete
  <2>1. PICK p \in {<<Memory(<<Text>>)>> \o all, WithoutFirst(all)} : engine' = Synced(e, p)
    BY <1>6 DEF Edit
  <2>2. p \in Seq(Pieces) /\ OneOpen(p, r.published)
    <3> HIDE DEF all
    <3>1. WithoutFirst(all) \in Seq(Pieces)
      BY <1>4, WithoutFirstType
    <3>2. <<Memory(<<Text>>)>> \o all \in Seq(Pieces)
      BY <1>4, PiecesMade, SMT
    <3>3. QED
      BY <1>1, <1>4, <2>1, <3>1, <3>2, OneOpenEdited
  <2>3. QED
    BY <1>2, <1>3, <2>1, <2>2, SyncKeepsAtomic
<1>7. CASE Edit(e) /\ ~editor[e].complete
  <2>1. UNCHANGED engine
    BY <1>7 DEF Edit
  <2>2. \A f \in Engines : /\ OneOpen(engine'[f].pieces, engine'[f].synced)
                           /\ engine'[f].original = engine[f].original
                           /\ engine[f].published <= engine'[f].published
                           /\ engine[f].processed <= engine'[f].processed
    BY <2>1 DEF Atomic, Mapped, EnginesOK, EngineType
  <2>3. QED
    BY <1>2, <1>3, <2>2, OthersMove
<1>8. QED
  BY <1>5, <1>6, <1>7

(* Nothing is promised at the start.                                       *)
LEMMA InitAtomic == Init => Atomic
<1> SUFFICES ASSUME Init PROVE Atomic
  OBVIOUS
<1>1. ASSUME NEW e \in Engines
      PROVE  OneOpen(engine[e].pieces, engine[e].synced) /\ thread[e].pc = "none"
  <2>1. engine[e].pieces = << >> /\ thread[e].pc = "none"
    BY DEF Init, NoEngine, NoThread
  <2>2. QED
    BY <2>1 DEF OneOpen
<1>2. QED
  BY <1>1, NothingKept DEF Atomic

(* No writer lingers at the start. *)
LEMMA InitApart == Init => Apart
BY DEF Init, Apart, NoWriter

(* A save that begins promises what it may write from now on.              *)
LEMMA WriteKeepsAtomic == Mapped /\ Shielded /\ Atomic /\ Write => Atomic'
<1> SUFFICES ASSUME Mapped, Shielded, Atomic, Write PROVE Atomic'
  OBVIOUS
<1> DEFINE asked == {e \in Range(attached) : ~editor[e].saving}
           saved == {e \in asked : ~is_saving[e]}
           new(e) == [NoThread EXCEPT !.pc = "open", !.pieces = engine[e].pieces,
                                      !.outputs = Outputs(e), !.document = Document(e)]
<1>1. /\ UNCHANGED <<engine, target, tmp, content, late>>
      /\ thread' = [e \in Engines |-> IF e \in saved THEN new(e) ELSE thread[e]]
      /\ Unblamed' => Unblamed
  BY Zenon DEF Write, disk, Unblamed
<1>2. ASSUME NEW e \in Engines, e \in saved, thread'[e] = new(e) PROVE Keeps(e)'
  <2> DEFINE r == engine[e]
             p == r.pieces
             o == Outputs(e)
             d == Document(e)
             w == SavingThread(p, o, d)
             pub == r.published
             proc == r.processed
             none == << >>
  <2>1. /\ r \in EngineType /\ p \in Seq(Pieces) /\ pub \in Nat /\ proc \in Nat
        /\ r.synced \in Nat /\ r.synced <= pub /\ pub <= proc /\ r.original \in Seq(Items)
    BY DEF Mapped, EnginesOK, EngineType
  <2>2. OneOpen(p, pub)
    BY <2>1, OneOpenGrows DEF Atomic
  <2>3. ASSUME NEW f \in Offsets(r.original, pub, proc), NEW l \in Offsets(r.original, pub, proc)
        PROVE  none \o Rest(r.original, p, pub, f, l) \in o
    <3>1. Output(e, p, pub, f, l) \in o
      <4> DEFINE open == Offsets(r.original, pub, proc)
      <4>1. Outputs(e) = {Output(e, p, pub, first, last) : first, last \in open}
        BY DEF Outputs, Offsets
      <4> HIDE DEF open, p, pub
      <4>2. QED
        BY <2>3, <4>1 DEF open
    <3>2. Output(e, p, pub, f, l) = Rest(r.original, p, pub, f, l)
      BY Zenon DEF Output, Rest, ItemLists, PieceItems, AtLine
    <3>3. Rest(r.original, p, pub, f, l) \in Seq(Items)
      <4>1. pub <= engine[e].published
        BY <2>1
      <4>2. pub \in 0 .. Len(r.original) /\ f \in 0 .. Len(r.original) /\ l \in 0 .. Len(r.original)
        BY <2>1, <4>1, OffsetsInFile
      <4>3. QED
        BY <2>1, <4>2, RestStep
    <3>4. none \o Rest(r.original, p, pub, f, l) = Rest(r.original, p, pub, f, l)
      BY <3>3, SMT
    <3>5. QED
      BY <3>1, <3>2, <3>4
  <2>4. new(e) = w
    BY DEF SavingThread
  <2> HIDE DEF p, o, d, new, none
  <2>5. w.pc = "open" /\ w.todo = << >> /\ w.pieces = p /\ w.outputs = o
    BY <2>1, NewThreadTyped DEF p
  <2> HIDE DEF w
  <2>6. Ahead(w, r.original, pub, proc, none)
    BY <2>3, <2>5 DEF Ahead
  <2>7. Promised(w, r, << >>)
    <3>1. pub <= r.published /\ proc <= r.processed
      BY <2>1
    <3>2. QED
      BY <2>1, <2>2, <2>5, <2>6, <3>1 DEF Promised, none
  <2>8. thread'[e] = w /\ engine'[e] = r
    BY <1>1, <1>2, <2>4
  <2>9. QED
    BY <2>5, <2>7, <2>8 DEF Keeps
<1> HIDE DEF saved, new
<1>3. ASSUME NEW e \in Engines PROVE OneOpen(engine'[e].pieces, engine'[e].synced)
  BY <1>1 DEF Atomic
<1>4. ASSUME Unblamed', NEW e \in Engines PROVE Keeps(e)'
  <2>1. CASE e \in saved
    BY <1>1, <1>2, <2>1
  <2>2. CASE e \notin saved
    <3>1. thread'[e] = thread[e] /\ UNCHANGED disk /\ engine'[e] = engine[e]
      BY <1>1, <2>2 DEF disk
    <3>2. /\ engine[e] \in EngineType /\ engine[e].published <= engine[e].published
          /\ engine[e].processed <= engine[e].processed
      BY DEF Mapped, EnginesOK, EngineType
    <3>3. Keeps(e)
      BY <1>1, <1>4 DEF Atomic
    <3>4. QED
      BY <3>1, <3>2, <3>3, KeepsStays
  <2>3. QED
    BY <2>1, <2>2
<1>5. QED
  BY <1>3, <1>4 DEF Atomic

(* The answer of a save changes nothing but the editor; a wiped buffer     *)
(* frees the engine of no save; the end of the editor ends every save.     *)
LEMMA EndsKeepAtomic ==
  ASSUME Mapped, Shielded, Atomic, Wipeout \/ Exit \/ \E e \in Engines : PollSave(e)
  PROVE  Atomic'
<1>1. Mapped' /\ (Unblamed' => Unblamed)
  <2>1. Mapped'
    BY WipeoutKeepsMapped, ExitKeepsMapped, PollSaveKeepsMapped
  <2>2. Unblamed' => Unblamed
    BY DEF Wipeout, Exit, PollSave, history, Unblamed
  <2>3. QED
    BY <2>1, <2>2
<1>2. OneOpen(NoEngine.pieces, NoEngine.synced)
  BY DEF OneOpen, NoEngine
<1>3. CASE Exit
  <2>1. \A e \in Engines : thread'[e].pc = "none" /\ engine'[e] = NoEngine
    BY <1>3 DEF Exit, NoThread
  <2>2. QED
    BY <1>2, <2>1, NothingKept DEF Atomic
<1>4. CASE Wipeout \/ \E e \in Engines : PollSave(e)
  <2>1. UNCHANGED <<thread, disk>>
    BY <1>4 DEF Wipeout, PollSave
  <2>2. ASSUME NEW f \in Engines
        PROVE  \/ engine'[f] = engine[f]
               \/ engine'[f] = NoEngine /\ thread[f].pc = "none"
    <3>1. CASE Wipeout
      BY <3>1, IdleIsNone DEF Wipeout
    <3>2. CASE ~Wipeout
      BY <1>4, <3>2 DEF PollSave
    <3>3. QED
      BY <3>1, <3>2
  <2>3. ASSUME NEW f \in Engines
        PROVE  /\ OneOpen(engine'[f].pieces, engine'[f].synced)
               /\ thread[f].pc # "none" =>
                    /\ engine'[f].original = engine[f].original
                    /\ engine[f].published <= engine'[f].published
                    /\ engine[f].processed <= engine'[f].processed
    <3>1. /\ engine[f] \in EngineType /\ engine[f].published <= engine[f].published
          /\ engine[f].processed <= engine[f].processed
      BY DEF Mapped, EnginesOK, EngineType
    <3>2. QED
      BY <1>2, <2>2, <3>1 DEF Atomic
  <2>4. QED
    BY <1>1, <2>1, <2>3, OthersMove
<1>5. QED
  BY <1>3, <1>4

(* A new engine has one piece, all that was published. Opening the file    *)
(* again leaves a save its promise, or takes the blame.                    *)
LEMMA AttachKeepsAtomic ==
  ASSUME Mapped, Shielded, Atomic, NEW e \in Engines, NEW lazy \in BOOLEAN, Attach(e, lazy)
  PROVE  Atomic'
<1> DEFINE all == IF lazy THEN 0 ELSE Len(content[target])
           new == NewEngine(lazy)
<1>1. engine' = [engine EXCEPT ![e] = new] /\ thread' = thread
      /\ mishaps' = IF OthersAbout THEN mishaps \cup {"reopened"} ELSE {}
  BY DEF Attach
<1>2. OneOpen(new.pieces, new.synced)
  <2>1. new.pieces = <<Original(0, all)>> /\ new.synced = all
    BY DEF NewEngine
  <2>2. all \in Nat
    <3>1. content[target] \in Seq(Items)
      BY DEF Mapped, Disk
    <3>2. QED
      BY <3>1, LenInNat
  <2> HIDE DEF all, new
  <2>3. Within(Original(0, all), all)
    BY <2>2, SMT DEF Within, Original
  <2>4. \A i \in 1 .. Len(<<Original(0, all)>>) : i = 1 /\ <<Original(0, all)>>[i] = Original(0, all)
    OBVIOUS
  <2>5. OneOpen(<<Original(0, all)>>, all)
    BY <2>3, <2>4 DEF OneOpen
  <2>6. QED
    BY <2>1, <2>5
<1> HIDE DEF new
<1>3. \A f \in Engines : OneOpen(engine'[f].pieces, engine'[f].synced)
  BY <1>1, <1>2 DEF Atomic, Mapped, EnginesOK
<1>4. ASSUME Unblamed', NEW f \in Engines PROVE Keeps(f)'
  <2>1. ~OthersAbout
    BY <1>1, <1>4 DEF Unblamed
  <2>2. thread'[f].pc = "none"
    BY <1>1, <2>1, IdleIsNone DEF OthersAbout
  <2>3. QED
    BY <2>2, NothingKept
<1>5. QED
  BY <1>3, <1>4 DEF Atomic

(* A promise is about the pieces that are left and what may be written.    *)
LEMMA PromiseSame ==
  ASSUME NEW t, NEW s, NEW r, NEW done, Promised(t, r, done), t.pc # "end", s.pc # "end",
         s.pieces = t.pieces, s.outputs = t.outputs
  PROVE  Promised(s, r, done)
BY DEF Promised, Ahead

(* The lines of an edit are taken from what is left to what is done.       *)
LEMMA PromiseMemory ==
  ASSUME Mapped, NEW e \in Engines, NEW t, NEW s, NEW done \in Seq(Items),
         Promised(t, engine[e], done), t.pc # "end", s.pc # "end",
         t.pieces \in Seq(Pieces), t.pieces # << >>, Head(t.pieces).kind = "memory",
         s.pieces = Tail(t.pieces), s.outputs = t.outputs
  PROVE  Promised(s, engine[e], done \o MemoryItems(Head(t.pieces).lines))
<1> DEFINE r == engine[e]
           o == r.original
           ps == t.pieces
           p == Head(ps)
           q == Tail(ps)
           items == MemoryItems(p.lines)
<1>1. PICK pub \in Nat, proc \in Nat :
        /\ pub <= r.published /\ proc <= r.processed /\ OneOpen(ps, pub)
        /\ Ahead(t, o, pub, proc, done)
  BY DEF Promised
<1>2. q \in Seq(Pieces) /\ p \in Pieces /\ OneOpen(q, pub)
  BY <1>1, OneOpenTail
<1>3. items \in Seq(Items)
  <2>1. p.lines \in Seq({Text})
    BY <1>2 DEF Pieces
  <2>2. QED
    BY <2>1, MemoryItemsType
<1>4. /\ o \in Seq(Items) /\ pub \in 0 .. Len(o)
      /\ Offsets(o, pub, proc) \subseteq 0 .. Len(o)
  BY <1>1, OffsetsInFile
<1>5. ASSUME NEW f \in Offsets(o, pub, proc), NEW l \in Offsets(o, pub, proc)
      PROVE  (done \o items) \o Rest(o, q, pub, f, l) \in t.outputs
  <2>1. done \o Rest(o, ps, pub, f, l) \in t.outputs
    BY <1>1 DEF Ahead
  <2>2. f \in 0 .. Len(o) /\ l \in 0 .. Len(o)
    BY <1>4
  <2>3. PieceItems(o, p, pub, f, l) = items
    BY DEF PieceItems
  <2> HIDE DEF items, p, q, o
  <2>4. Rest(o, ps, pub, f, l) = items \o Rest(o, q, pub, f, l)
    BY <1>4, <2>2, <2>3, RestStep DEF p, q
  <2>5. Rest(o, q, pub, f, l) \in Seq(Items)
    BY <1>2, <1>4, <2>2, RestStep
  <2>6. (done \o items) \o Rest(o, q, pub, f, l) = done \o (items \o Rest(o, q, pub, f, l))
    BY <1>3, <2>5, ConcatLaws
  <2>7. QED
    BY <2>1, <2>4, <2>6
<1>6. Ahead(s, o, pub, proc, done \o items)
  BY <1>5 DEF Ahead
<1>7. QED
  BY <1>1, <1>2, <1>6 DEF Promised

(* A piece of the original begins where the index says, or where it said   *)
(* it might.                                                               *)
LEMMA PromiseStart ==
  ASSUME Mapped, NEW e \in Engines, NEW t, NEW s, NEW done \in Seq(Items),
         Promised(t, engine[e], done), t.pc # "end", s.pc = "end",
         t.pieces \in Seq(Pieces), t.pieces # << >>, Head(t.pieces).kind = "original",
         s.pieces = t.pieces, s.outputs = t.outputs,
         s.start = calc_offset(e, Head(t.pieces).from)
  PROVE  Promised(s, engine[e], done)
<1> DEFINE r == engine[e]
           o == r.original
           ps == t.pieces
           p == Head(ps)
           q == Tail(ps)
<1>1. PICK pub \in Nat, proc \in Nat :
        /\ pub <= r.published /\ proc <= r.processed /\ OneOpen(ps, pub)
        /\ Ahead(t, o, pub, proc, done)
  BY DEF Promised
<1>2. /\ q \in Seq(Pieces) /\ p \in Pieces /\ OneOpen(q, pub) /\ Within(p, pub)
      /\ Reaches(p, pub) => NoneOpen(q, pub)
  BY <1>1, OneOpenTail
<1>3. p.from \in Nat /\ p.to \in Nat /\ p.from <= p.to /\ p.to <= pub
  BY <1>2 DEF Pieces, Within
<1>4. /\ o \in Seq(Items) /\ pub \in 0 .. Len(o)
      /\ Offsets(o, pub, proc) \subseteq 0 .. Len(o)
  BY <1>1, OffsetsInFile
<1>5. ASSUME NEW f \in Offsets(o, pub, proc), NEW l \in Offsets(o, pub, proc)
      PROVE  done \o (OriginalItems(SubSeq(o, s.start + 1, AtLine(p.to, pub, l)))
                        \o Rest(o, q, pub, f, l)) \in t.outputs
  <2> DEFINE g == IF p.from < pub THEN f ELSE s.start
             items == OriginalItems(SubSeq(o, s.start + 1, AtLine(p.to, pub, l)))
  <2>1. g \in Offsets(o, pub, proc) /\ AtLine(p.from, pub, g) = s.start
    <3>1. p.from <= pub
      BY <1>1, <1>3
    <3>2. /\ p.from < pub => s.start = p.from
          /\ p.from = pub => s.start \in Offsets(o, pub, proc)
      BY <1>1, <1>3, <3>1, OffsetTaken
    <3>3. ~(p.from < pub) => p.from = pub
      BY <1>1, <1>3, <3>1
    <3>4. QED
      BY <1>5, <3>2, <3>3 DEF AtLine
  <2>2. PieceItems(o, p, pub, g, l) = items
    BY <2>1 DEF PieceItems
  <2>3. Rest(o, q, pub, g, l) = Rest(o, q, pub, f, l)
    <3>1. CASE p.from < pub
      BY <3>1
    <3>2. CASE ~(p.from < pub)
      <4>1. p.to = pub
        BY <1>1, <1>3, <3>2
      <4>2. NoneOpen(q, pub)
        BY <1>2, <4>1 DEF Reaches
      <4> HIDE DEF q, o, g
      <4>3. QED
        BY <1>1, <1>2, <4>2, RestClosed
    <3>3. QED
      BY <3>1, <3>2
  <2>4. done \o Rest(o, ps, pub, g, l) \in t.outputs
    BY <1>1, <2>1 DEF Ahead
  <2>5. Rest(o, ps, pub, g, l) = PieceItems(o, p, pub, g, l) \o Rest(o, q, pub, g, l)
    <3>1. g \in 0 .. Len(o) /\ l \in 0 .. Len(o)
      BY <1>4, <2>1
    <3> HIDE DEF g, o
    <3>2. QED
      BY <1>4, <3>1, RestStep
  <2>6. QED
    BY <2>2, <2>3, <2>4, <2>5
<1>6. Ahead(s, o, pub, proc, done)
  BY <1>5 DEF Ahead
<1>7. QED
  BY <1>1, <1>6 DEF Promised

(* It ends where the index says when it is asked again, or might have said. *)
LEMMA PromiseEnd ==
  ASSUME Mapped, NEW e \in Engines, NEW t, NEW s, NEW done \in Seq(Items), NEW items,
         Promised(t, engine[e], done), t.pc = "end", s.pc # "end", t.start \in Nat,
         t.pieces \in Seq(Pieces), t.pieces # << >>, Head(t.pieces).kind = "original",
         s.pieces = Tail(t.pieces), s.outputs = t.outputs,
         items = OriginalItems(SubSeq(engine[e].original, t.start + 1,
                                      calc_offset(e, Head(t.pieces).to)))
  PROVE  Promised(s, engine[e], done \o items)
<1> DEFINE r == engine[e]
           o == r.original
           ps == t.pieces
           p == Head(ps)
           q == Tail(ps)
           to == calc_offset(e, p.to)
<1>1. PICK pub \in Nat, proc \in Nat :
        /\ pub <= r.published /\ proc <= r.processed /\ OneOpen(ps, pub)
        /\ Ahead(t, o, pub, proc, done)
  BY DEF Promised
<1>2. /\ q \in Seq(Pieces) /\ p \in Pieces /\ OneOpen(q, pub) /\ Within(p, pub)
      /\ Reaches(p, pub) => NoneOpen(q, pub)
  BY <1>1, OneOpenTail
<1>3. p.from \in Nat /\ p.to \in Nat /\ p.from <= p.to /\ p.to <= pub
  BY <1>2 DEF Pieces, Within
<1>4. /\ o \in Seq(Items) /\ pub \in 0 .. Len(o)
      /\ Offsets(o, pub, proc) \subseteq 0 .. Len(o)
  BY <1>1, OffsetsInFile
<1>5. items \in Seq(Items)
  <2>1. to \in Nat /\ to <= Len(o)
    BY <1>3, OffsetInFile
  <2> DEFINE blocks == SubSeq(o, t.start + 1, to)
  <2> HIDE DEF to, o
  <2>2. blocks \in Seq(Items)
    BY <1>4, <2>1, SMT
  <2> HIDE DEF blocks
  <2>3. OriginalItems(blocks) \in Seq(Items)
    BY <2>2, OriginalItemsType
  <2>4. QED
    BY <2>3 DEF blocks, to, o
<1>6. ASSUME NEW f \in Offsets(o, pub, proc), NEW l \in Offsets(o, pub, proc)
      PROVE  (done \o items) \o Rest(o, q, pub, f, l) \in t.outputs
  <2> DEFINE m == IF p.to < pub THEN l ELSE to
  <2>1. m \in Offsets(o, pub, proc) /\ AtLine(p.to, pub, m) = to
    <3>1. /\ p.to < pub => to = p.to
          /\ p.to = pub => to \in Offsets(o, pub, proc)
      BY <1>1, <1>3, OffsetTaken
    <3>2. ~(p.to < pub) => p.to = pub
      BY <1>1, <1>3
    <3>3. QED
      BY <1>6, <3>1, <3>2 DEF AtLine
  <2>2. Rest(o, q, pub, f, m) = Rest(o, q, pub, f, l)
    <3>1. CASE p.to < pub
      BY <3>1
    <3>2. CASE ~(p.to < pub)
      <4>1. p.to = pub
        BY <1>1, <1>3, <3>2
      <4>2. NoneOpen(q, pub)
        BY <1>2, <4>1 DEF Reaches
      <4> HIDE DEF q, o, m
      <4>3. QED
        BY <1>1, <1>2, <4>2, RestClosed
    <3>3. QED
      BY <3>1, <3>2
  <2>3. done \o (items \o Rest(o, q, pub, f, m)) \in t.outputs
    <3> HIDE DEF m
    <3>1. done \o (OriginalItems(SubSeq(o, t.start + 1, AtLine(p.to, pub, m)))
                     \o Rest(o, q, pub, f, m)) \in t.outputs
      BY <1>1, <1>6, <2>1 DEF Ahead
    <3>2. QED
      BY <2>1, <3>1
  <2>4. Rest(o, q, pub, f, l) \in Seq(Items)
    <3>1. f \in 0 .. Len(o) /\ l \in 0 .. Len(o)
      BY <1>4
    <3> HIDE DEF o, q
    <3>2. QED
      BY <1>2, <1>4, <3>1, RestStep
  <2> HIDE DEF o, q, m
  <2>5. (done \o items) \o Rest(o, q, pub, f, l) = done \o (items \o Rest(o, q, pub, f, l))
    BY <1>5, <2>4, ConcatLaws
  <2>6. QED
    BY <2>2, <2>3, <2>5
<1>7. Ahead(s, o, pub, proc, done \o items)
  BY <1>6 DEF Ahead
<1>8. QED
  BY <1>1, <1>2, <1>7 DEF Promised

(* The new file is empty, and all is still to be written.                  *)
LEMMA OpenKeepsAtomic == ASSUME Mapped, Atomic, NEW e \in Engines, Open(e) PROVE Atomic'
<1> DEFINE inode == IF tmp # NoFile THEN tmp ELSE FreshInode
           o == thread[e].outputs
           d == thread[e].document
           r == thread[e]
           mid == [r EXCEPT !.pc = "write"]
           new == [mid EXCEPT !.fd = inode]
           none == << >>
<1>1. /\ r.pc = "open" /\ tmp' = inode /\ content' = [content EXCEPT ![inode] = none]
      /\ thread' = [thread EXCEPT ![e].pc = "write", ![e].fd = inode]
      /\ UNCHANGED <<engine, target>> /\ (Unblamed' => Unblamed)
  BY DEF Open, OpensTarget, history, Unblamed
<1>2. inode \in Inodes /\ inode # target
  <2>1. CASE tmp = NoFile
    BY <2>1, FreshExists DEF Mapped
  <2>2. CASE tmp # NoFile
    BY <2>2 DEF Mapped, Disk
  <2>3. QED
    BY <2>1, <2>2
<1> HIDE DEF inode
<1>3. DOMAIN thread = Engines /\ content \in [Inodes -> Seq(Items)]
  BY DEF Mapped, ThreadsOK, Disk
<1>4. thread' = [thread EXCEPT ![e] = new] /\ thread'[e] = new
  BY <1>1, <1>3
<1>5. /\ r \in ThreadType(o, d) /\ r.pos = 0 /\ r.unwritten = none /\ r.pieces \in Seq(Pieces)
  BY <1>1, ThreadHas
<1>6. /\ mid \in ThreadType(o, d) /\ mid.pc = "write" /\ mid.pos = 0 /\ mid.unwritten = none
      /\ mid.pieces = r.pieces /\ mid.todo = r.todo /\ mid.outputs = o
  <2>1. "write" \in Steps
    BY DEF Steps
  <2>2. QED
    BY <1>5, <2>1, SetPc
<1> HIDE DEF mid
<1>7. /\ new.pc = "write" /\ new.pos = 0 /\ new.unwritten = none /\ new.fd = inode
      /\ new.pieces = r.pieces /\ new.todo = r.todo /\ new.outputs = o
  <2>1. inode \in Inodes \cup {NoFile}
    BY <1>2
  <2>2. QED
    BY <1>6, <2>1, SetFd
<1> HIDE DEF new
<1>8. ASSUME Unblamed', Alone, Keeps(e) PROVE Keeps(e)'
  <2>1. r.todo = none /\ Promised(r, engine[e], none)
    BY <1>1, <1>8 DEF Keeps
  <2>2. content'[inode] = none /\ Len(none) = 0 /\ (none \o none) \o none = none
    <3>1. Len(none) = 0 /\ none \o none = none
      BY SMT
    <3>2. QED
      BY <1>1, <1>2, <1>3, <3>1
  <2>3. Promised(new, engine[e], none)
    <3>1. r.pc # "end" /\ new.pc # "end" /\ new.pieces = r.pieces /\ new.outputs = r.outputs
      BY <1>1, <1>7
    <3> HIDE DEF r, o, none
    <3>2. QED
      BY <2>1, <3>1, PromiseSame
  <2> HIDE DEF r, o, none
  <2>4. Promised(new, engine[e], (content'[inode] \o new.unwritten) \o new.todo)
    BY <1>7, <2>1, <2>2, <2>3
  <2>5. QED
    BY <1>1, <1>2, <1>4, <1>7, <2>2, <2>4 DEF Keeps
<1>9. \A f \in Engines : OneOpen(engine'[f].pieces, engine'[f].synced)
  BY <1>1 DEF Atomic
<1>10. QED
  BY <1>1, <1>4, <1>8, <1>9, ThreadMoves

(* A save that cannot begin promises nothing, nor one that has ended.      *)
LEMMA EndKeepsAtomic ==
  ASSUME Mapped, Atomic, NEW e \in Engines, OpenFails(e) \/ Reset(e)
  PROVE  Atomic'
<1>1. /\ thread[e].pc # "none" /\ thread' = [thread EXCEPT ![e] = NoThread]
      /\ engine' = [engine EXCEPT ![e] = Released(e)] /\ (Unblamed' => Unblamed)
  BY DEF OpenFails, Reset, history, Unblamed
<1>2. \A f \in Engines : OneOpen(engine'[f].pieces, engine'[f].synced)
  <2>1. OneOpen(NoEngine.pieces, NoEngine.synced)
    BY DEF OneOpen, NoEngine
  <2>2. DOMAIN engine = Engines
    BY DEF Mapped, EnginesOK
  <2>3. QED
    BY <1>1, <2>1, <2>2 DEF Atomic, Released
<1>3. Keeps(e)'
  <2>1. DOMAIN thread = Engines
    BY DEF Mapped, ThreadsOK
  <2>2. thread'[e].pc = "none"
    BY <1>1, <2>1 DEF NoThread
  <2>3. QED
    BY <2>2, NothingKept
<1>4. QED
  BY <1>1, <1>2, <1>3, ThreadMoves

(* The next piece: its lines, or its beginning and then its end.           *)
LEMMA PieceKeepsAtomic ==
  ASSUME Mapped, Atomic, NEW e \in Engines, NextPiece(e) \/ PieceEnd(e)
  PROVE  Atomic'
<1> DEFINE o == thread[e].outputs
           d == thread[e].document
           r == thread[e]
           piece == Head(r.pieces)
           none == << >>
<1>1. /\ r \in ThreadType(o, d) /\ r.pieces # << >> /\ r.pc \in {"write", "end"}
      /\ r.pieces \in Seq(Pieces) /\ r.unwritten \in Seq(Items) /\ r.start \in Nat
      /\ r.fd \in Inodes /\ r.fd # NoFile
  <2>1. r.pc \in {"write", "end"}
    BY DEF NextPiece, PieceEnd
  <2>2. r.pieces # << >>
    BY DEF NextPiece, PieceEnd, Mapped, ThreadsOK, ThreadOK
  <2>3. QED
    BY <2>1, <2>2, ThreadHas
<1>2. UNCHANGED <<engine, disk>> /\ (Unblamed' => Unblamed)
  BY DEF NextPiece, PieceEnd, history, Unblamed
<1>3. piece \in Pieces /\ Tail(r.pieces) \in Seq(Pieces)
  BY <1>1, SMT
<1>4. content[r.fd] \in Seq(Items) /\ DOMAIN thread = Engines
  BY <1>1 DEF Mapped, Disk, ThreadsOK
<1>a. \A f \in Engines : OneOpen(engine'[f].pieces, engine'[f].synced)
  BY <1>2 DEF Atomic
<1> DEFINE done == content[r.fd] \o r.unwritten
<1>5. done \in Seq(Items) /\ done \o none = done
  <2> DEFINE a == content[r.fd]
             b == r.unwritten
  <2>1. a \in Seq(Items) /\ b \in Seq(Items)
    BY <1>1, <1>4
  <2> HIDE DEF a, b
  <2>2. a \o b \in Seq(Items) /\ (a \o b) \o << >> = a \o b
    BY <2>1, SMT
  <2>3. QED
    BY <2>2 DEF a, b
<1>6. ASSUME Unblamed', Keeps(e)
      PROVE  /\ r.todo = none /\ r.fd # target /\ tmp \in {r.fd, NoFile}
             /\ tmp = r.fd => r.pos = Len(content[r.fd]) /\ Promised(r, engine[e], done)
  <2>1. r.todo = none
    BY <1>6 DEF Keeps, NextPiece, PieceEnd
  <2>2. QED
    BY <1>1, <1>5, <1>6, <2>1 DEF Keeps
<1>7. CASE NextPiece(e) /\ piece.kind = "memory"
  <2> DEFINE p == Tail(r.pieces)
             items == MemoryItems(piece.lines)
             r1 == [r EXCEPT !.pieces = p]
             r2 == [r1 EXCEPT !.todo = items]
             new == [r2 EXCEPT !.closing = FALSE]
  <2>1. thread' = [thread EXCEPT ![e] = new] /\ r.pc = "write"
    BY <1>7 DEF NextPiece
  <2>2. items \in Seq(Items) /\ p \in Seq(Pieces)
    <3>1. piece.lines \in Seq({Text})
      BY <1>3, <1>7 DEF Pieces
    <3>2. QED
      BY <1>3, <3>1, MemoryItemsType
  <2> HIDE DEF p, items
  <2>3. /\ r1 \in ThreadType(o, d) /\ r1.pc = "write" /\ r1.pieces = p /\ r1.fd = r.fd
        /\ r1.pos = r.pos /\ r1.unwritten = r.unwritten /\ r1.outputs = o
    BY <1>1, <2>1, <2>2, SetPieces
  <2> HIDE DEF r1
  <2>4. /\ r2 \in ThreadType(o, d) /\ r2.pc = "write" /\ r2.pieces = p /\ r2.fd = r.fd
        /\ r2.pos = r.pos /\ r2.unwritten = r.unwritten /\ r2.outputs = o /\ r2.todo = items
    BY <2>2, <2>3, SetTodo
  <2> HIDE DEF r2
  <2>5. /\ new.pc = "write" /\ new.pieces = p /\ new.fd = r.fd
        /\ new.pos = r.pos /\ new.unwritten = r.unwritten /\ new.outputs = o /\ new.todo = items
    <3>1. FALSE \in BOOLEAN
      OBVIOUS
    <3>2. QED
      BY <2>4, <3>1, SetClosing
  <2> HIDE DEF new
  <2>6. thread'[e] = new
    BY <1>4, <2>1
  <2>7. ASSUME Unblamed', Alone, Keeps(e) PROVE Keeps(e)'
    <3>1. ASSUME tmp = r.fd
          PROVE  Promised(new, engine[e], done \o items)
      <4>1. Promised(r, engine[e], done) /\ r.pc # "end" /\ new.pc # "end"
        BY <1>6, <2>1, <2>5, <2>7, <3>1
      <4>2. new.pieces = Tail(r.pieces) /\ new.outputs = r.outputs
        BY <2>5 DEF p
      <4> HIDE DEF r, done
      <4>3. QED
        BY <1>1, <1>5, <1>7, <4>1, <4>2, PromiseMemory DEF items
    <3>2. QED
      BY <1>2, <1>6, <2>5, <2>6, <2>7, <3>1 DEF Keeps, disk
  <2>8. QED
    BY <1>1, <1>2, <1>a, <2>1, <2>7, ThreadMoves
<1>8. CASE NextPiece(e) /\ piece.kind # "memory"
  <2> DEFINE n == calc_offset(e, piece.from)
             r1 == [r EXCEPT !.pc = "end"]
             new == [r1 EXCEPT !.start = n]
  <2>1. thread' = [thread EXCEPT ![e] = new] /\ r.pc = "write" /\ r.todo = none
    BY <1>8 DEF NextPiece
  <2>2. n \in Nat /\ "end" \in Steps /\ piece.kind = "original"
    BY <1>3, <1>8, OffsetInFile DEF Pieces, Steps
  <2> HIDE DEF n
  <2>3. /\ r1 \in ThreadType(o, d) /\ r1.pc = "end" /\ r1.pieces = r.pieces /\ r1.fd = r.fd
        /\ r1.pos = r.pos /\ r1.unwritten = r.unwritten /\ r1.outputs = o /\ r1.todo = none
    BY <1>1, <2>1, <2>2, SetPc
  <2> HIDE DEF r1
  <2>4. /\ new.pc = "end" /\ new.pieces = r.pieces /\ new.fd = r.fd /\ new.start = n
        /\ new.pos = r.pos /\ new.unwritten = r.unwritten /\ new.outputs = o /\ new.todo = none
    BY <2>2, <2>3, SetStart
  <2> HIDE DEF new
  <2>5. thread'[e] = new
    BY <1>4, <2>1
  <2>6. ASSUME Unblamed', Alone, Keeps(e) PROVE Keeps(e)'
    <3>1. ASSUME tmp = r.fd PROVE Promised(new, engine[e], done)
      <4>1. Promised(r, engine[e], done) /\ r.pc # "end" /\ new.pc = "end"
        BY <1>6, <2>1, <2>4, <2>6, <3>1
      <4>2. /\ new.pieces = r.pieces /\ new.outputs = r.outputs
            /\ new.start = calc_offset(e, Head(r.pieces).from)
        BY <2>4 DEF n
      <4> HIDE DEF r, done
      <4>3. QED
        BY <1>1, <1>5, <2>2, <4>1, <4>2, PromiseStart
    <3>2. QED
      BY <1>2, <1>5, <1>6, <2>4, <2>5, <2>6, <3>1 DEF Keeps, disk
  <2>7. QED
    BY <1>1, <1>2, <1>a, <2>1, <2>6, ThreadMoves
<1>9. CASE PieceEnd(e)
  <2> DEFINE p == Tail(r.pieces)
             to == calc_offset(e, piece.to)
             blocks == SubSeq(engine[e].original, r.start + 1, to)
             items == OriginalItems(blocks)
             open == Unterminated(blocks)
             r1 == [r EXCEPT !.pc = "write"]
             r2 == [r1 EXCEPT !.pieces = p]
             r3 == [r2 EXCEPT !.start = 0]
             r4 == [r3 EXCEPT !.todo = items]
             new == [r4 EXCEPT !.closing = open]
  <2>1. thread' = [thread EXCEPT ![e] = new]
    <3>1. r1.pieces = r.pieces
      BY <1>1 DEF ThreadType
    <3>2. thread' = [thread EXCEPT ![e] =
            [[[[r1 EXCEPT !.pieces = Tail(r.pieces)] EXCEPT !.start = 0]
               EXCEPT !.todo = items] EXCEPT !.closing = open]]
      BY <1>9 DEF PieceEnd
    <3> HIDE DEF r1
    <3>3. QED
      BY <3>1, <3>2
  <2>2. r.pc = "end" /\ piece.kind = "original"
    BY <1>9 DEF PieceEnd, Mapped, ThreadsOK, ThreadOK
  <2>3. items \in Seq(Items) /\ open \in BOOLEAN /\ "write" \in Steps /\ p \in Seq(Pieces)
    <3>1. engine[e].original \in Seq(Items)
      BY DEF Mapped, EnginesOK, EngineType
    <3>2. to \in Nat /\ to <= Len(engine[e].original)
      <4>1. piece.to \in Nat
        BY <1>3, <2>2 DEF Pieces
      <4>2. QED
        BY <4>1, OffsetInFile
    <3> HIDE DEF to
    <3>3. blocks \in Seq(Items)
      BY <1>1, <3>1, <3>2, SMT
    <3>4. QED
      BY <1>3, <3>3, OriginalItemsType DEF Unterminated, Steps
  <2>4. items = OriginalItems(SubSeq(engine[e].original, r.start + 1,
                                     calc_offset(e, Head(r.pieces).to)))
    OBVIOUS
  <2> HIDE DEF blocks, items, open, p, to
  <2>5. /\ r1 \in ThreadType(o, d) /\ r1.pc = "write" /\ r1.fd = r.fd
        /\ r1.pos = r.pos /\ r1.unwritten = r.unwritten /\ r1.outputs = o
    BY <1>1, <2>3, SetPc
  <2> HIDE DEF r1
  <2>6. /\ r2 \in ThreadType(o, d) /\ r2.pc = "write" /\ r2.pieces = p /\ r2.fd = r.fd
        /\ r2.pos = r.pos /\ r2.unwritten = r.unwritten /\ r2.outputs = o
    BY <2>3, <2>5, SetPieces
  <2> HIDE DEF r2
  <2>7. /\ r3 \in ThreadType(o, d) /\ r3.pc = "write" /\ r3.pieces = p /\ r3.fd = r.fd
        /\ r3.pos = r.pos /\ r3.unwritten = r.unwritten /\ r3.outputs = o
    BY <2>6, SetStart
  <2> HIDE DEF r3
  <2>8. /\ r4 \in ThreadType(o, d) /\ r4.pc = "write" /\ r4.pieces = p /\ r4.fd = r.fd
        /\ r4.pos = r.pos /\ r4.unwritten = r.unwritten /\ r4.outputs = o /\ r4.todo = items
    BY <2>3, <2>7, SetTodo
  <2> HIDE DEF r4
  <2>9. /\ new.pc = "write" /\ new.pieces = p /\ new.fd = r.fd /\ new.pos = r.pos
        /\ new.unwritten = r.unwritten /\ new.outputs = o /\ new.todo = items
    BY <2>3, <2>8, SetClosing
  <2> HIDE DEF new
  <2>a. thread'[e] = new
    BY <1>4, <2>1
  <2>b. ASSUME Unblamed', Alone, Keeps(e) PROVE Keeps(e)'
    <3>1. ASSUME tmp = r.fd PROVE Promised(new, engine[e], done \o items)
      <4>1. Promised(r, engine[e], done) /\ r.pc = "end" /\ new.pc # "end"
        BY <1>6, <2>2, <2>9, <2>b, <3>1
      <4>2. new.pieces = Tail(r.pieces) /\ new.outputs = r.outputs
        BY <2>9 DEF p
      <4> HIDE DEF r, done
      <4>3. QED
        BY <1>1, <1>5, <2>2, <2>4, <4>1, <4>2, PromiseEnd
    <3>2. QED
      BY <1>2, <1>6, <2>9, <2>a, <2>b, <3>1 DEF Keeps, disk
  <2>c. QED
    BY <1>1, <1>2, <1>a, <2>1, <2>b, ThreadMoves
<1>10. QED
  BY <1>7, <1>8, <1>9

(* An item goes from what is left to the BufWriter, or with all that the   *)
(* BufWriter holds to the end of the file, or what the BufWriter holds     *)
(* makes room for it.                                                      *)
LEMMA ItemMoves ==
  ASSUME NEW a \in Seq(Items), NEW b \in Seq(Items), NEW todo \in Seq(Items), todo # << >>
  PROVE  /\ (a \o (b \o <<Head(todo)>>)) \o Tail(todo) = (a \o b) \o todo
         /\ ((a \o (b \o <<Head(todo)>>)) \o << >>) \o Tail(todo) = (a \o b) \o todo
         /\ ((a \o (b \o << >>)) \o <<Head(todo)>>) \o Tail(todo) = (a \o b) \o todo
<1> DEFINE h == Head(todo)
           t == Tail(todo)
           x == <<h>>
<1>1. /\ h \in Items /\ t \in Seq(Items) /\ x \in Seq(Items) /\ todo = x \o t
      /\ b \o << >> = b
  BY SMT
<1> HIDE DEF t, x, h
<1>2. b \o x \in Seq(Items) /\ a \o b \in Seq(Items) /\ a \o (b \o x) \in Seq(Items)
  BY <1>1, SMT
<1>3. (a \o b) \o x = a \o (b \o x) /\ (a \o (b \o x)) \o << >> = a \o (b \o x)
  <2> DEFINE y == a \o (b \o x)
  <2>1. (a \o b) \o x = y
    BY <1>1, SMT
  <2>2. y \in Seq(Items)
    BY <1>2
  <2> HIDE DEF y
  <2>3. y \o << >> = y
    BY <2>2, SMT
  <2>4. QED
    BY <2>1, <2>3 DEF y
<1>4. ((a \o b) \o x) \o t = (a \o b) \o (x \o t)
  BY <1>1, <1>2, ConcatLaws
<1>5. (a \o (b \o x)) \o t = (a \o b) \o todo
  BY <1>1, <1>3, <1>4
<1>6. QED
  BY <1>1, <1>3, <1>5 DEF h, t, x

(* What the BufWriter holds goes to the end of the file, with some more.   *)
LEMMA WritesAtEnd ==
  ASSUME Mapped, NEW e \in Engines, thread[e].fd # NoFile, NEW more \in Seq(Items),
         WriteOut(thread[e], more), thread[e].pos = Len(content[thread[e].fd])
  PROVE  /\ content'[thread[e].fd] = content[thread[e].fd] \o (thread[e].unwritten \o more)
         /\ Len(content'[thread[e].fd])
              = thread[e].pos + Len(thread[e].unwritten) + Len(more)
<1> DEFINE i == thread[e].fd
           old == content[i]
           u == thread[e].unwritten
           items == u \o more
<1>1. i \in Inodes /\ content \in [Inodes -> Seq(Items)] /\ u \in Seq(Items)
  <2>1. i \in Inodes \cup {NoFile}
    BY DEF Mapped, ThreadsOK, ThreadOK, ThreadType
  <2>2. QED
    BY <2>1, ThreadHas DEF Mapped, Disk
<1>2. old \in Seq(Items)
  BY <1>1
<1>3. content'[i] = Put(old, Len(old), items)
  BY <1>1 DEF WriteOut
<1> HIDE DEF old, u
<1>4. items \in Seq(Items) /\ Len(items) = Len(u) + Len(more)
  BY <1>1, SMT
<1> HIDE DEF items
<1>5. content'[i] = old \o items
  BY <1>2, <1>3, <1>4, PutAtEnd
<1>6. Len(old \o items) = Len(old) + Len(items)
  BY <1>2, <1>4, SMT
<1>7. Len(old) \in Nat /\ Len(u) \in Nat /\ Len(more) \in Nat
  BY <1>1, <1>2, LenInNat
<1>8. Len(content'[i]) = Len(old) + Len(u) + Len(more)
  BY <1>4, <1>5, <1>6, <1>7
<1>9. QED
  BY <1>5, <1>8 DEF old, u, items

(* An item moves on its way to the file.                                   *)
LEMMA ItemKeepsAtomic == ASSUME Mapped, Atomic, NEW e \in Engines, WriteItem(e) PROVE Atomic'
<1> DEFINE o == thread[e].outputs
           d == thread[e].document
           r == thread[e]
           item == Head(r.todo)
           s == Tail(r.todo)
           rest == [r EXCEPT !.todo = s]
           through == IF item \in Large THEN <<item>> ELSE << >>
           kept == IF item \in Large THEN << >> ELSE <<item>>
<1>1. /\ r \in ThreadType(o, d) /\ r.pc = "write" /\ r.todo # << >> /\ r.fd # NoFile
      /\ r.fd \in Inodes /\ r.todo \in Seq(Items) /\ r.unwritten \in Seq(Items) /\ r.pos \in Nat
  <2>1. r.pc = "write" /\ r.todo # << >>
    BY DEF WriteItem
  <2>2. QED
    BY <2>1, ThreadHas
<1>2. /\ UNCHANGED <<engine, target, tmp>> /\ (Unblamed' => Unblamed)
      /\ IF Spills(e)
         THEN /\ thread' = [thread EXCEPT ![e] = [Written(rest, through) EXCEPT !.unwritten = kept]]
              /\ WriteOut(r, through)
         ELSE /\ thread' = [thread EXCEPT ![e] = [rest EXCEPT !.unwritten = @ \o <<item>>]]
              /\ UNCHANGED content
  BY Zenon DEF WriteItem, history, Unblamed
<1>3. item \in Items /\ s \in Seq(Items) /\ <<item>> \in Seq(Items) /\ Len(<<item>>) = 1
  BY <1>1, SMT
<1>4. content[r.fd] \in Seq(Items) /\ DOMAIN thread = Engines
  BY <1>1 DEF Mapped, Disk, ThreadsOK
<1>5. \A f \in Engines : OneOpen(engine'[f].pieces, engine'[f].synced)
  BY <1>2 DEF Atomic
<1> DEFINE c == content[r.fd]
           u == r.unwritten
<1>6. /\ (c \o (u \o <<item>>)) \o s = (c \o u) \o r.todo
      /\ ((c \o (u \o through)) \o kept) \o s = (c \o u) \o r.todo
  BY <1>1, <1>4, ItemMoves
<1>a. through \in Seq(Items) /\ kept \in Seq(Items)
  <2>1. << >> \in Seq(Items)
    BY SMT
  <2>2. QED
    BY <1>3, <2>1
<1> HIDE DEF through, kept
<1> HIDE DEF s
<1>7. /\ rest \in ThreadType(o, d) /\ rest.pc = "write" /\ rest.fd = r.fd /\ rest.pos = r.pos
      /\ rest.unwritten = r.unwritten /\ rest.pieces = r.pieces /\ rest.todo = s
      /\ rest.outputs = o
  BY <1>1, <1>3, SetTodo
<1> HIDE DEF item, rest
<1>8. ASSUME Unblamed', Keeps(e)
      PROVE  /\ r.fd # target /\ tmp \in {r.fd, NoFile}
             /\ tmp = r.fd => r.pos = Len(c) /\ Promised(r, engine[e], (c \o u) \o r.todo)
  BY <1>1, <1>8 DEF Keeps
<1>9. CASE Spills(e)
  <2> DEFINE n == rest.pos + Len(rest.unwritten) + Len(through)
             none == << >>
             r1 == [rest EXCEPT !.pos = n]
             r2 == [r1 EXCEPT !.unwritten = none]
             new == [r2 EXCEPT !.unwritten = kept]
  <2>1. thread' = [thread EXCEPT ![e] = new] /\ WriteOut(r, through)
    BY <1>2, <1>9 DEF Written
  <2>2. n \in Nat /\ n = r.pos + Len(u) + Len(through)
    <3>1. r.pos \in Nat /\ Len(u) \in Nat /\ Len(through) \in Nat
      BY <1>1, <1>a, LenInNat
    <3>2. n = r.pos + Len(u) + Len(through)
      BY <1>7
    <3>3. QED
      BY <3>1, <3>2, SMT
  <2>3. none \in Seq(Items)
    BY SMT
  <2> HIDE DEF n
  <2>4. /\ r1 \in ThreadType(o, d) /\ r1.pc = "write" /\ r1.fd = r.fd /\ r1.pos = n
        /\ r1.pieces = r.pieces /\ r1.todo = s /\ r1.outputs = o
    BY <1>7, <2>2, SetPos
  <2> HIDE DEF r1, none
  <2>b. /\ r2 \in ThreadType(o, d) /\ r2.pc = "write" /\ r2.fd = r.fd /\ r2.pos = n
        /\ r2.pieces = r.pieces /\ r2.todo = s /\ r2.outputs = o
    BY <2>3, <2>4, SetUnwritten
  <2> HIDE DEF r2
  <2>5. /\ new.pc = "write" /\ new.fd = r.fd /\ new.pos = n /\ new.unwritten = kept
        /\ new.pieces = r.pieces /\ new.todo = s /\ new.outputs = o
    BY <1>a, <2>b, SetUnwritten
  <2> HIDE DEF new
  <2>6. thread'[e] = new
    BY <1>4, <2>1
  <2>7. ASSUME Unblamed', Alone, Keeps(e) PROVE Keeps(e)'
    <3>1. ASSUME tmp = r.fd
          PROVE  /\ n = Len(content'[r.fd])
                 /\ Promised(new, engine[e], (content'[r.fd] \o kept) \o s)
      <4>1. /\ content'[r.fd] = c \o (u \o through)
            /\ Len(content'[r.fd]) = r.pos + Len(u) + Len(through)
        BY <1>1, <1>a, <1>8, <2>1, <2>7, <3>1, WritesAtEnd
      <4>2. /\ Promised(r, engine[e], (c \o u) \o r.todo) /\ r.pc # "end" /\ new.pc # "end"
            /\ new.pieces = r.pieces /\ new.outputs = r.outputs
        BY <1>1, <1>8, <2>5, <2>7, <3>1
      <4>3. Promised(new, engine[e], (c \o u) \o r.todo)
        <5> DEFINE done == (c \o u) \o r.todo
        <5> HIDE DEF done, r
        <5>1. QED
          BY <4>2, PromiseSame DEF done
      <4>4. QED
        BY <1>6, <2>2, <4>1, <4>3
    <3>2. QED
      BY <1>2, <1>8, <2>5, <2>6, <2>7, <3>1 DEF Keeps
  <2>8. QED
    BY <1>1, <1>2, <1>5, <2>1, <2>7, ThreadMoves
<1>10. CASE ~Spills(e)
  <2> DEFINE held == rest.unwritten \o <<item>>
             new == [rest EXCEPT !.unwritten = held]
  <2>1. thread' = [thread EXCEPT ![e] = new] /\ UNCHANGED content
    BY <1>2, <1>10
  <2>2. held \in Seq(Items) /\ held = u \o <<item>>
    BY <1>1, <1>3, <1>7, SMT
  <2> HIDE DEF held
  <2>3. /\ new.pc = "write" /\ new.fd = r.fd /\ new.pos = r.pos /\ new.unwritten = held
        /\ new.pieces = r.pieces /\ new.todo = s /\ new.outputs = o
    BY <1>7, <2>2, SetUnwritten
  <2> HIDE DEF new
  <2>4. thread'[e] = new
    BY <1>4, <2>1
  <2>5. ASSUME Unblamed', Alone, Keeps(e) PROVE Keeps(e)'
    <3>1. ASSUME tmp = r.fd
          PROVE  Promised(new, engine[e], (c \o held) \o s)
      <4>2. /\ Promised(r, engine[e], (c \o u) \o r.todo) /\ r.pc # "end" /\ new.pc # "end"
            /\ new.pieces = r.pieces /\ new.outputs = r.outputs
        BY <1>1, <1>8, <2>3, <2>5, <3>1
      <4>3. Promised(new, engine[e], (c \o u) \o r.todo)
        <5> DEFINE done == (c \o u) \o r.todo
        <5> HIDE DEF done, r
        <5>1. QED
          BY <4>2, PromiseSame DEF done
      <4>4. QED
        BY <1>6, <2>2, <4>3
    <3>2. QED
      BY <1>2, <1>8, <2>1, <2>3, <2>4, <2>5, <3>1 DEF Keeps
  <2>6. QED
    BY <1>1, <1>2, <1>5, <2>1, <2>5, ThreadMoves
<1>11. QED
  BY <1>9, <1>10

(* A write that fails takes the name away, and with it the promise; a line *)
(* feed that fails is to blame.                                            *)
LEMMA FailureKeepsAtomic ==
  ASSUME Mapped, Atomic, NEW e \in Engines, WriteFails(e) \/ NewlineFails(e)
  PROVE  Atomic'
<1> DEFINE o == thread[e].outputs
           d == thread[e].document
           r == thread[e]
           s == IF WriteFails(e) /\ r.closing THEN <<LineEnd>> ELSE << >>
           new == [r EXCEPT !.todo = s]
<1>1. r \in ThreadType(o, d) /\ r.pc = "write" /\ r.fd # NoFile
  <2>1. r.pc = "write"
    BY DEF WriteFails, NewlineFails
  <2>2. QED
    BY <2>1, ThreadHas
<1>2. s \in Seq(Items)
  <2>1. LineEnd \in Items
    BY DEF Items
  <2>2. <<LineEnd>> \in Seq(Items) /\ << >> \in Seq(Items)
    BY <2>1, SMT
  <2>3. QED
    BY <2>2
<1>3. thread' = [thread EXCEPT ![e] = new]
  <2>1. WriteFails(e) => thread' = [thread EXCEPT ![e] = new]
    BY DEF WriteFails
  <2>2. NewlineFails(e) /\ ~WriteFails(e) => thread' = [thread EXCEPT ![e] = new]
    BY DEF NewlineFails
  <2>3. QED
    BY <2>1, <2>2
<1> HIDE DEF s
<1>4. new.pc = "write" /\ new.fd = r.fd
  BY <1>1, <1>2, SetTodo
<1> HIDE DEF new
<1>5. UNCHANGED engine /\ (Unblamed' => Unblamed)
  BY DEF WriteFails, NewlineFails, Unblamed
<1>6. ASSUME Unblamed', Keeps(e) PROVE Keeps(e)'
  <2>1. tmp' = NoFile /\ UNCHANGED target
    <3>1. ~NewlineFails(e)
      BY <1>6 DEF Unblamed, NewlineFails
    <3>2. QED
      BY <3>1 DEF WriteFails, TmpAfterWriteError
  <2>2. thread'[e] = new
    BY <1>3 DEF Mapped, ThreadsOK
  <2>3. r.fd # target
    BY <1>1, <1>6 DEF Keeps
  <2>4. QED
    BY <1>1, <1>4, <2>1, <2>2, <2>3 DEF Keeps
<1>7. \A f \in Engines : OneOpen(engine'[f].pieces, engine'[f].synced)
  BY <1>5 DEF Atomic
<1>8. QED
  BY <1>1, <1>3, <1>5, <1>6, <1>7, ThreadMoves

(* All is written and then flushed; then the file holds what was promised. *)
LEMMA FlushKeepsAtomic ==
  ASSUME Mapped, Atomic, NEW e \in Engines, AllWritten(e) \/ Flush(e) \/ FlushFails(e)
  PROVE  Atomic'
<1> DEFINE o == thread[e].outputs
           d == thread[e].document
           r == thread[e]
           c == content[r.fd]
           u == r.unwritten
<1>1. /\ r \in ThreadType(o, d) /\ r.fd # NoFile /\ r.fd \in Inodes
      /\ r.unwritten \in Seq(Items) /\ r.pos \in Nat
      /\ r.pc \in {"write", "flush"}
  <2>1. r.pc \in {"write", "flush"}
    BY DEF AllWritten, Flush, FlushFails
  <2>2. QED
    BY <2>1, ThreadHas
<1>2. UNCHANGED <<engine, target, tmp>> /\ (Unblamed' => Unblamed)
  BY DEF AllWritten, Flush, FlushFails, history, Unblamed, disk
<1>3. c \in Seq(Items) /\ DOMAIN thread = Engines
  BY <1>1 DEF Mapped, Disk, ThreadsOK
<1>4. \A f \in Engines : OneOpen(engine'[f].pieces, engine'[f].synced)
  BY <1>2 DEF Atomic
<1>5. ASSUME Unblamed', Keeps(e)
      PROVE  /\ r.fd # target /\ tmp \in {r.fd, NoFile}
             /\ tmp = r.fd => r.pos = Len(c) /\ Promised(r, engine[e], (c \o u) \o r.todo)
             /\ r.pc = "flush" => r.todo = << >> /\ r.pieces = << >>
  BY <1>1, <1>5 DEF Keeps
<1>6. CASE AllWritten(e) \/ FlushFails(e)
  <2> DEFINE x == IF AllWritten(e) THEN "flush" ELSE "reset"
             new == [r EXCEPT !.pc = x]
  <2>1. /\ thread' = [thread EXCEPT ![e].pc = x] /\ UNCHANGED content
        /\ x \in Steps /\ x \in {"flush", "reset"}
        /\ x = "flush" => AllWritten(e)
    BY <1>6 DEF AllWritten, FlushFails, Steps, disk
  <2> HIDE DEF x
  <2>2. thread' = [thread EXCEPT ![e] = new] /\ thread'[e] = new
    BY <1>3, <2>1
  <2>3. /\ new.pc = x /\ new.fd = r.fd /\ new.pos = r.pos /\ new.unwritten = u
        /\ new.pieces = r.pieces /\ new.todo = r.todo /\ new.outputs = o
    BY <1>1, <2>1, SetPc
  <2> HIDE DEF new
  <2>4. ASSUME Unblamed', Alone, Keeps(e) PROVE Keeps(e)'
    <3>1. x = "flush" => r.todo = << >> /\ r.pieces = << >>
      BY <2>1 DEF AllWritten
    <3>2. ASSUME tmp = r.fd PROVE Promised(new, engine[e], (c \o u) \o r.todo)
      <4> DEFINE done == (c \o u) \o r.todo
      <4>1. /\ Promised(r, engine[e], done) /\ r.pc # "end" /\ new.pc # "end"
            /\ new.pieces = r.pieces /\ new.outputs = r.outputs
        BY <1>1, <1>5, <2>1, <2>3, <2>4, <3>2
      <4> HIDE DEF done, r
      <4>2. QED
        BY <4>1, PromiseSame DEF done
    <3>3. QED
      BY <1>2, <1>5, <2>1, <2>2, <2>3, <2>4, <3>1, <3>2 DEF Keeps
  <2>5. QED
    BY <1>1, <1>2, <1>4, <2>2, <2>4, ThreadMoves
<1>7. CASE Flush(e)
  <2> DEFINE none == << >>
             n == r.pos + Len(r.unwritten) + Len(none)
             r1 == [r EXCEPT !.pos = n]
             r2 == [r1 EXCEPT !.unwritten = none]
             new == [r2 EXCEPT !.pc = "rename"]
  <2>1. thread' = [thread EXCEPT ![e] = new] /\ WriteOut(r, none) /\ r.pc = "flush"
    BY <1>7 DEF Flush, Written
  <2>2. none \in Seq(Items)
    BY SMT
  <2> HIDE DEF none
  <2>3. n \in Nat
    <3>1. Len(u) \in Nat /\ Len(none) \in Nat
      BY <1>1, <2>2, LenInNat
    <3>2. QED
      BY <1>1, <3>1, SMT
  <2>4. n = r.pos + Len(u) + Len(none)
    OBVIOUS
  <2> HIDE DEF n
  <2>5. /\ r1 \in ThreadType(o, d) /\ r1.fd = r.fd /\ r1.pos = n
        /\ r1.pieces = r.pieces /\ r1.todo = r.todo /\ r1.outputs = o
    BY <1>1, <2>3, SetPos
  <2> HIDE DEF r1
  <2>6. /\ r2 \in ThreadType(o, d) /\ r2.fd = r.fd /\ r2.pos = n /\ r2.unwritten = none
        /\ r2.pieces = r.pieces /\ r2.todo = r.todo /\ r2.outputs = o
    BY <2>2, <2>5, SetUnwritten
  <2> HIDE DEF r2
  <2>7. /\ new.pc = "rename" /\ new.fd = r.fd /\ new.pos = n /\ new.unwritten = none
        /\ new.pieces = r.pieces /\ new.todo = r.todo /\ new.outputs = o
    <3>1. "rename" \in Steps
      BY DEF Steps
    <3>2. QED
      BY <2>6, <3>1, SetPc
  <2> HIDE DEF new
  <2>8. thread'[e] = new
    BY <1>3, <2>1
  <2>9. ASSUME Unblamed', Alone, Keeps(e) PROVE Keeps(e)'
    <3>1. ASSUME tmp = r.fd
          PROVE  /\ n = Len(content'[r.fd])
                 /\ Promised(new, engine[e], (content'[r.fd] \o none) \o r.todo)
      <4>1. /\ content'[r.fd] = c \o (u \o none)
            /\ Len(content'[r.fd]) = r.pos + Len(u) + Len(none)
        BY <1>1, <1>5, <2>1, <2>2, <2>9, <3>1, WritesAtEnd
      <4>2. (c \o (u \o none)) \o none = c \o u
        <5> HIDE DEF c, u
        <5>1. u \in Seq(Items)
          BY <1>1 DEF u
        <5>2. u \o none = u /\ c \o u \in Seq(Items)
          BY <1>3, <5>1, SMT DEF none
        <5>3. (c \o u) \o none = c \o u
          BY <2>2, <5>2, SMT DEF none
        <5>4. QED
          BY <5>2, <5>3
      <4>3. Promised(new, engine[e], (c \o u) \o r.todo)
        <5> DEFINE done == (c \o u) \o r.todo
        <5>1. /\ Promised(r, engine[e], done) /\ r.pc # "end" /\ new.pc # "end"
              /\ new.pieces = r.pieces /\ new.outputs = r.outputs
          BY <1>5, <2>1, <2>7, <2>9, <3>1
        <5> HIDE DEF done, r
        <5>2. QED
          BY <5>1, PromiseSame DEF done
      <4>4. QED
        BY <2>4, <4>1, <4>2, <4>3
    <3>2. QED
      BY <1>2, <1>5, <2>1, <2>7, <2>8, <2>9, <3>1 DEF Keeps, none
  <2>10. QED
    BY <1>1, <1>2, <1>4, <2>1, <2>9, ThreadMoves
<1>8. QED
  BY <1>6, <1>7

(* A file that has its name is not written any more.                       *)
LEMMA RenameKeepsAtomic == ASSUME Mapped, Atomic, NEW e \in Engines, Rename(e) PROVE Atomic'
<1> DEFINE o == thread[e].outputs
           d == thread[e].document
           r == thread[e]
           new == [r EXCEPT !.pc = "reset"]
<1>1. r \in ThreadType(o, d) /\ r.pc = "rename"
  BY ThreadHas DEF Rename
<1>2. thread' = [thread EXCEPT ![e] = new] /\ UNCHANGED engine /\ (Unblamed' => Unblamed)
  BY DEF Rename, Unblamed
<1>3. new.pc = "reset" /\ new.unwritten = r.unwritten
  <2>1. "reset" \in Steps
    BY DEF Steps
  <2>2. QED
    BY <1>1, <2>1, SetPc
<1> HIDE DEF new
<1>4. thread'[e] = new
  BY <1>2 DEF Mapped, ThreadsOK
<1>5. Keeps(e) => Keeps(e)'
  BY <1>1, <1>3, <1>4 DEF Keeps
<1>6. \A f \in Engines : OneOpen(engine'[f].pieces, engine'[f].synced)
  BY <1>2 DEF Atomic
<1>7. QED
  BY <1>1, <1>2, <1>5, <1>6, ThreadMoves

(* What the writer of a failed save has left goes to no file that somebody *)
(* else writes, and not to the target.                                     *)
LEMMA DropWritesElsewhere ==
  ASSUME Mapped, Apart, Unblamed, NEW e \in Engines, Drop(e)
  PROVE  /\ content'[target] = content[target]
         /\ \A f \in Engines : thread[f].fd # NoFile =>
              content'[thread[f].fd] = content[thread[f].fd]
<1>1. late[e].fd \in Inodes /\ content \in [Inodes -> Seq(Items)] /\ target \in Inodes
  BY DEF Drop, Mapped, Disk, WriterType
<1>2. late[e].fd # target /\ \A f \in Engines : thread[f].fd # late[e].fd
  BY <1>1, InodesAreNumbers DEF Apart
<1>3. content' = content \/ \E s : content' = [content EXCEPT ![late[e].fd] = s]
  BY DEF Drop, WriteOut
<1>4. \A f \in Engines : thread[f].fd # NoFile => thread[f].fd \in Inodes
  BY DEF Mapped, ThreadsOK, ThreadOK, ThreadType
<1>5. QED
  BY <1>1, <1>2, <1>3, <1>4

(* So it breaks no promise.                                                *)
LEMMA DropKeepsAtomic == ASSUME Mapped, Atomic, Apart, NEW e \in Engines, Drop(e) PROVE Atomic'
<1>1. UNCHANGED <<engine, thread, target, tmp>> /\ (Unblamed' => Unblamed)
  BY DEF Drop, history, Unblamed
<1>2. ASSUME Unblamed', NEW f \in Engines PROVE Keeps(f)'
  <2>1. Keeps(f) /\ thread'[f] = thread[f] /\ engine'[f] = engine[f]
    BY <1>1, <1>2 DEF Atomic
  <2>2. thread[f].fd # NoFile => content'[thread[f].fd] = content[thread[f].fd]
    BY <1>1, <1>2, DropWritesElsewhere
  <2>3. thread[f].pc \in {"write", "end", "flush", "rename"} => thread[f].fd # NoFile
    BY DEF Mapped, ThreadsOK, ThreadOK
  <2>4. QED
    BY <1>1, <2>1, <2>2, <2>3 DEF Keeps
<1>3. \A f \in Engines : OneOpen(engine'[f].pieces, engine'[f].synced)
  BY <1>1 DEF Atomic
<1>4. QED
  BY <1>2, <1>3 DEF Atomic

(* Every step keeps every promise. *)
LEMMA NextKeepsAtomic == Mapped /\ Shielded /\ Atomic /\ Apart /\ [Next]_vars => Atomic'
<1> SUFFICES ASSUME Mapped, Shielded, Atomic, Apart, [Next]_vars PROVE Atomic'
  OBVIOUS
<1>1. ASSUME NEW e \in Engines, SaveThread(e) PROVE Atomic'
  BY <1>1, OpenKeepsAtomic, EndKeepsAtomic, PieceKeepsAtomic, ItemKeepsAtomic,
     FailureKeepsAtomic, FlushKeepsAtomic, RenameKeepsAtomic DEF SaveThread
<1>2. CASE Next
  BY <1>1, <1>2, WriteKeepsAtomic, EndsKeepAtomic, AttachKeepsAtomic, UserKeepsAtomic,
     IndexKeepsAtomic, DropKeepsAtomic DEF Next
<1>3. CASE UNCHANGED vars
  <2>1. Mapped' /\ UNCHANGED <<thread, disk>> /\ (Unblamed' => Unblamed)
    BY <1>3, NextKeepsMapped DEF vars, history, Unblamed
  <2>2. \A f \in Engines : /\ OneOpen(engine'[f].pieces, engine'[f].synced)
                           /\ engine'[f].original = engine[f].original
                           /\ engine[f].published <= engine'[f].published
                           /\ engine[f].processed <= engine'[f].processed
    BY <1>3 DEF vars, Atomic, Mapped, EnginesOK, EngineType
  <2>3. QED
    BY <2>1, <2>2, OthersMove
<1>4. QED
  BY <1>2, <1>3

(* What the steps that write leave alone.                                  *)
LEMMA FieldsKept ==
  ASSUME NEW o, NEW d, NEW r \in ThreadType(o, d), NEW a, NEW b, NEW c, NEW x, NEW y
  PROVE  /\ LET new == [r EXCEPT !.pieces = a, !.todo = b, !.closing = c]
            IN  new.pc = r.pc /\ new.fd = r.fd /\ new.outputs = r.outputs
         /\ LET new == [r EXCEPT !.pc = a, !.start = b]
            IN  new.pc = a /\ new.fd = r.fd /\ new.outputs = r.outputs
         /\ LET new == [r EXCEPT !.pc = a, !.pieces = b, !.start = c, !.todo = x, !.closing = y]
            IN  new.pc = a /\ new.fd = r.fd /\ new.outputs = r.outputs
         /\ LET new == [[r EXCEPT !.todo = a] EXCEPT !.unwritten = b]
            IN  new.pc = r.pc /\ new.fd = r.fd /\ new.outputs = r.outputs
         /\ LET new == [[[r EXCEPT !.todo = a] EXCEPT !.pos = b, !.unwritten = c]
                                                EXCEPT !.unwritten = x]
            IN  new.pc = r.pc /\ new.fd = r.fd /\ new.outputs = r.outputs
BY Zenon DEF ThreadType

(* A thread that has a file keeps it to its end.                           *)
LEMMA FileKept ==
  ASSUME Mapped, NEW e \in Engines, SaveThread(e), ~Open(e)
  PROVE  \A f \in Engines : thread'[f].fd \in {thread[f].fd, NoFile}
<1> DEFINE r == thread[e]
<1>1. DOMAIN thread = Engines /\ r \in ThreadType(r.outputs, r.document)
  BY DEF Mapped, ThreadsOK, ThreadOK
<1>2. CASE NextPiece(e)
  <2> DEFINE piece == Head(r.pieces)
             rest == Tail(r.pieces)
             lines == MemoryItems(piece.lines)
             from == calc_offset(e, piece.from)
             a == [r EXCEPT !.pieces = rest, !.todo = lines, !.closing = FALSE]
             b == [r EXCEPT !.pc = "end", !.start = from]
  <2>1. thread' = [thread EXCEPT ![e] = IF piece.kind = "memory" THEN a ELSE b]
    BY <1>2, Zenon DEF NextPiece
  <2> HIDE DEF rest, lines, from
  <2>2. a.fd = r.fd /\ b.fd = r.fd
    BY <1>1, FieldsKept
  <2> HIDE DEF a, b
  <2>3. QED
    BY <1>1, <2>1, <2>2
<1>3. CASE PieceEnd(e)
  <2> DEFINE piece == Head(r.pieces)
             rest == Tail(r.pieces)
             blocks == SubSeq(engine[e].original, r.start + 1, calc_offset(e, piece.to))
             items == OriginalItems(blocks)
             ends == Unterminated(blocks)
             c == [r EXCEPT !.pc = "write", !.pieces = rest, !.start = 0, !.todo = items, !.closing = ends]
  <2>1. thread' = [thread EXCEPT ![e] = c]
    BY <1>3, Zenon DEF PieceEnd
  <2> HIDE DEF rest, blocks, items, ends
  <2>2. c.fd = r.fd
    BY <1>1, FieldsKept
  <2> HIDE DEF c
  <2>3. QED
    BY <1>1, <2>1, <2>2
<1>4. CASE WriteItem(e)
  <2> DEFINE rest == Tail(r.todo)
             item == <<Head(r.todo)>>
             through == IF Head(r.todo) \in Large THEN item ELSE << >>
             kept == IF Head(r.todo) \in Large THEN << >> ELSE item
             mid == [r EXCEPT !.todo = rest]
             to == mid.pos + Len(mid.unwritten) + Len(through)
             none == << >>
             more == mid.unwritten \o item
             a == [[mid EXCEPT !.pos = to, !.unwritten = none] EXCEPT !.unwritten = kept]
             b == [mid EXCEPT !.unwritten = more]
  <2>1. thread' = [thread EXCEPT ![e] = a] \/ thread' = [thread EXCEPT ![e] = b]
    BY <1>4, Zenon DEF WriteItem, Written
  <2> HIDE DEF rest, to, none, more, kept
  <2>2. a.fd = r.fd /\ b.fd = r.fd
    BY <1>1, FieldsKept
  <2> HIDE DEF a, b
  <2>3. QED
    BY <1>1, <2>1, <2>2
<1>5. CASE Flush(e)
  BY <1>1, <1>5 DEF Flush, ThreadType, Written
<1>6. CASE WriteFails(e) \/ NewlineFails(e)
  <2> DEFINE x == IF r.closing THEN <<LineEnd>> ELSE << >>
             none == << >>
  <2>1. thread' = [thread EXCEPT ![e].todo = x] \/ thread' = [thread EXCEPT ![e].todo = none]
    BY <1>6 DEF WriteFails, NewlineFails
  <2> HIDE DEF x, none
  <2>2. QED
    BY <1>1, <2>1 DEF ThreadType
<1>7. CASE AllWritten(e) \/ FlushFails(e) \/ Rename(e)
  BY <1>1, <1>7 DEF AllWritten, FlushFails, Rename, ThreadType
<1>8. CASE OpenFails(e) \/ Reset(e)
  BY <1>1, <1>8 DEF OpenFails, Reset, NoThread
<1>9. QED
  BY <1>2, <1>3, <1>4, <1>5, <1>6, <1>7, <1>8 DEF SaveThread

(* Nobody writes or renames the file of a writer that lingers: opening it  *)
(* again takes the blame, and who keeps a promise has another.             *)
LEMMA NextKeepsApart == Mapped /\ Atomic /\ Apart /\ [Next]_vars => Apart'
<1> SUFFICES ASSUME Mapped, Atomic, Apart, [Next]_vars, Unblamed', NEW s \in Engines,
                    late'[s].fd # NoFile
             PROVE  late'[s].fd # target' /\ \A e \in Engines : thread'[e].fd # late'[s].fd
  BY DEF Apart
<1> DEFINE Same == late' = late /\ target' = target /\ Unblamed
           Held == \A e \in Engines : thread'[e].fd \in {thread[e].fd, NoFile}
<1>1. DOMAIN thread = Engines /\ DOMAIN late = Engines
  BY DEF Mapped, ThreadsOK, Disk
<1>2. CASE Same /\ Held
  BY <1>2 DEF Apart
<1>3. CASE UNCHANGED vars
  BY <1>2, <1>3 DEF vars, disk, history, Unblamed
<1>4. CASE Write
  <2> DEFINE saved == {e \in {f \in Range(attached) : ~editor[f].saving} : ~is_saving[e]}
             new(e) == [NoThread EXCEPT !.pc = "open", !.pieces = engine[e].pieces,
                                        !.outputs = Outputs(e), !.document = Document(e)]
  <2>1. thread' = [e \in Engines |-> IF e \in saved THEN new(e) ELSE thread[e]] /\ Same
    BY <1>4, Zenon DEF Write, disk, Unblamed
  <2>2. \A e \in Engines : new(e).fd = NoFile
    BY DEF NoThread
  <2> HIDE DEF saved, new
  <2>3. QED
    BY <1>2, <2>1, <2>2
<1>5. CASE Exit
  BY <1>5 DEF Exit, NoWriter
<1>6. ASSUME NEW e \in Engines, NEW lazy \in BOOLEAN, Attach(e, lazy) PROVE late[s].fd = NoFile
  BY <1>6 DEF Attach, OthersAbout, Unblamed, NoWriter
<1>7. CASE Wipeout \/ \E e \in Engines : \/ Edit(e) \/ ShiftWindow(e) \/ PollSave(e)
                                         \/ IndexCount(e) \/ IndexPublish(e) \/ IndexFinish(e)
                                         \/ PollIndex(e)
  BY <1>2, <1>7 DEF Wipeout, Edit, ShiftWindow, PollSave, IndexCount, IndexPublish, IndexFinish,
                    PollIndex, disk, history, Unblamed
<1>8. ASSUME NEW e \in Engines, Drop(e) PROVE late[s].fd # NoFile /\ late'[s] = late[s] /\ target' = target
                                              /\ thread' = thread /\ Unblamed
  BY <1>1, <1>8 DEF Drop, NoWriter, history, Unblamed
<1>9. ASSUME NEW e \in Engines, SaveThread(e) PROVE late'[s].fd # target' /\ \A f \in Engines : thread'[f].fd # late'[s].fd
  <2>1. CASE Open(e)
    <3> DEFINE inode == IF tmp # NoFile THEN tmp ELSE FreshInode
    <3>1. /\ Same /\ thread' = [thread EXCEPT ![e].pc = "write", ![e].fd = inode]
          /\ \A f \in Engines : late[f].fd # inode
      BY <2>1 DEF Open, OpensTarget, history, Unblamed
    <3> HIDE DEF inode
    <3>2. \A f \in Engines : thread'[f].fd \in {thread[f].fd, inode}
      BY <1>1, <3>1
    <3>3. QED
      BY <3>1, <3>2 DEF Apart
  <2>2. CASE Rename(e)
    <3>1. /\ late' = late /\ Unblamed /\ thread[e].pc = "rename"
          /\ target' # target => target' = tmp /\ tmp # NoFile
      BY <2>2 DEF Rename, Unblamed
    <3>2. tmp \in {thread[e].fd, NoFile}
      BY <3>1 DEF Atomic, Keeps
    <3>3. \A f \in Engines : thread'[f].fd = thread[f].fd
      BY <1>1, <2>2 DEF Rename
    <3>4. QED
      BY <3>1, <3>2, <3>3 DEF Apart
  <2>3. CASE Reset(e)
    <3>1. /\ target' = target /\ Unblamed /\ thread' = [thread EXCEPT ![e] = NoThread]
          /\ thread[e].pc = "reset"
          /\ late'[s].fd # late[s].fd => s = e /\ late'[s].fd = thread[e].fd
                                        /\ thread[e].unwritten # << >>
      BY <1>1, <2>3 DEF Reset, history, Unblamed
    <3>2. Held
      BY <1>1, <3>1 DEF NoThread
    <3>3. CASE late'[s].fd = late[s].fd
      BY <3>1, <3>2, <3>3 DEF Apart
    <3>4. CASE late'[s].fd # late[s].fd
      <4>1. thread[e].fd # target
        BY <3>1, <3>4 DEF Atomic, Keeps
      <4>2. ASSUME NEW f \in Engines PROVE thread'[f].fd = NoFile
        <5>1. f # e => thread[f].pc = "none"
          BY <3>1 DEF Unblamed, Mapped, Alone, Active
        <5>2. f # e => thread[f].fd = NoFile
          BY <5>1 DEF Mapped, ThreadsOK, ThreadOK
        <5>3. QED
          BY <1>1, <3>1, <5>2 DEF NoThread
      <4>3. QED
        BY <3>1, <3>4, <4>1, <4>2
    <3>5. QED
      BY <3>3, <3>4
  <2>4. CASE ~Open(e) /\ ~Rename(e) /\ ~Reset(e)
    <3>1. Same
      BY <1>9, <2>4 DEF SaveThread, OpenFails, NextPiece, PieceEnd, WriteItem, WriteFails,
                        NewlineFails, AllWritten, Flush, FlushFails, disk, history, Unblamed
    <3>2. Held
      BY <1>9, <2>4, FileKept
    <3>3. QED
      BY <1>2, <3>1, <3>2
  <2>5. QED
    BY <2>1, <2>2, <2>3, <2>4
<1>a. ASSUME NEW e \in Engines, NEW lazy \in BOOLEAN, Attach(e, lazy) PROVE FALSE
  BY <1>6, <1>a DEF Attach, disk
<1>b. ASSUME NEW e \in Engines, Drop(e)
      PROVE  late'[s].fd # target' /\ \A f \in Engines : thread'[f].fd # late'[s].fd
  BY <1>8, <1>b DEF Apart
<1>10. CASE Next
  BY <1>4, <1>5, <1>7, <1>9, <1>10, <1>a, <1>b DEF Next
<1>11. QED
  BY <1>3, <1>10

(* What changes under the name of the target: nothing but by a rename, and *)
(* then to what was promised.                                              *)
Swapped(e) == content'[target'] # content[target] => content'[target'] \in thread[e].outputs

(* The rename is such a change, and it gives the target the finished file. *)
LEMMA RenameSwaps ==
  ASSUME Mapped, Atomic, Unblamed, NEW e \in Engines, Rename(e)
  PROVE  /\ Swapped(e)
         /\ target' = tmp /\ tmp # NoFile => content'[target'] \in thread[e].outputs
<1> DEFINE r == thread[e]
           c == content[r.fd]
<1>1. /\ r.pc = "rename" /\ content' = content
      /\ target' = target \/ (target' = tmp /\ tmp # NoFile)
  BY DEF Rename
<1>2. /\ r.unwritten = << >> /\ r.todo = << >> /\ r.pieces = << >> /\ tmp \in {r.fd, NoFile}
      /\ tmp = r.fd => Promised(r, engine[e], (c \o r.unwritten) \o r.todo)
  BY <1>1 DEF Atomic, Keeps
<1>3. ASSUME target' = tmp, tmp # NoFile PROVE c \in r.outputs
  <2>1. tmp = r.fd
    BY <1>2, <1>3
  <2>2. c \in Seq(Items)
    <3>1. r.fd \in Inodes
      BY <1>1, ThreadHas
    <3>2. QED
      BY <3>1 DEF Mapped, Disk
  <2>3. (c \o << >>) \o << >> = c
    <3> HIDE DEF c
    <3>1. c \o << >> = c
      BY <2>2, SMT
    <3>2. QED
      BY <3>1
  <2>4. Promised(r, engine[e], c)
    BY <1>2, <2>1, <2>3
  <2>5. PICK pub \in Nat, proc \in Nat :
          pub <= engine[e].published /\ Ahead(r, engine[e].original, pub, proc, c)
    BY <2>4 DEF Promised
  <2> DEFINE o == engine[e].original
  <2>6. /\ o \in Seq(Items) /\ pub \in 0 .. Len(o) /\ pub \in Offsets(o, pub, proc)
    BY <2>5, OffsetsInFile
  <2>7. c \o Rest(o, r.pieces, pub, pub, pub) \in r.outputs
    BY <1>1, <2>5, <2>6 DEF Ahead
  <2>8. << >> \in Seq(Pieces)
    BY SMT
  <2> HIDE DEF o
  <2>9. Rest(o, << >>, pub, pub, pub) = << >>
    BY <2>6, <2>8, RestStep
  <2>10. c \o << >> = c
    <3> HIDE DEF c
    <3>1. QED
      BY <2>2, SMT
  <2>11. QED
    BY <1>2, <2>7, <2>9, <2>10
<1>4. target' = tmp /\ tmp # NoFile => target' = r.fd
  BY <1>2
<1>5. QED
  BY <1>1, <1>3, <1>4 DEF Swapped

(* Other steps of a save write to a file that is not the target, or write  *)
(* nothing.                                                                *)
LEMMA ThreadSwaps ==
  ASSUME Mapped, Atomic, Unblamed, NEW e \in Engines, SaveThread(e)
  PROVE  Swapped(e)
<1>1. CASE Rename(e)
  BY <1>1, RenameSwaps
<1> SUFFICES ASSUME ~Rename(e) PROVE content'[target'] = content[target]
  BY <1>1 DEF Swapped
<1> DEFINE r == thread[e]
<1>2. target' = target /\ target \in Inodes /\ content \in [Inodes -> Seq(Items)]
  BY DEF SaveThread, Open, OpenFails, NextPiece, PieceEnd, WriteItem, WriteFails, NewlineFails,
         AllWritten, Flush, FlushFails, Reset, disk, Mapped, Disk
<1>3. CASE Open(e)
  <2> DEFINE inode == IF tmp # NoFile THEN tmp ELSE FreshInode
  <2>1. content' = [content EXCEPT ![inode] = << >>]
    BY <1>3 DEF Open, OpensTarget
  <2>2. inode # target
    <3>1. CASE tmp = NoFile
      BY <3>1, FreshExists DEF Mapped
    <3>2. CASE tmp # NoFile
      BY <3>2 DEF Mapped, Disk
    <3>3. QED
      BY <3>1, <3>2
  <2> HIDE DEF inode
  <2>3. QED
    BY <1>2, <2>1, <2>2
<1>4. CASE WriteItem(e) \/ Flush(e)
  <2>1. r.fd # target
    BY <1>4 DEF Atomic, Keeps, WriteItem, Flush
  <2>2. content' = content \/ \E s : content' = [content EXCEPT ![r.fd] = s]
    BY <1>4, Zenon DEF WriteItem, Flush, WriteOut
  <2>3. QED
    BY <1>2, <2>1, <2>2
<1>6. CASE ~Open(e) /\ ~WriteItem(e) /\ ~Flush(e)
  <2>1. content' = content
    BY <1>6 DEF SaveThread, OpenFails, NextPiece, PieceEnd, WriteFails, NewlineFails,
                AllWritten, FlushFails, Reset, disk
  <2>2. QED
    BY <1>2, <2>1
<1>7. QED
  BY <1>3, <1>4, <1>6

(* For any number of engines, any file, any failure and any death of the   *)
(* editor: while the file is open once, no line feed was lost and no save  *)
(* overtakes what a failed one has left, the file only changes at once, to *)
(* all that one save had to write.                                         *)
THEOREM SwapsAtomic == Spec => TargetAtomic
<1> DEFINE Inv == Mapped /\ Shielded /\ Atomic /\ Apart
           Swaps == content'[target'] # content[target] =>
                      \E e \in Engines : content'[target'] \in thread[e].outputs
           Step == mishaps \cap {"reopened", "newline", "leftover"} = {} => Swaps
<1>1. Init => Inv
  BY InitMapped, InitShielded, InitAtomic, InitApart
<1>2. Inv /\ [Next]_vars => Inv'
  BY NextKeepsMapped, NextKeepsShield, NextKeepsAtomic, NextKeepsApart
<1>3. Inv /\ [Next]_vars => [Step]_vars
  <2> SUFFICES ASSUME Inv, Next, mishaps \cap {"reopened", "newline", "leftover"} = {} PROVE Swaps
    OBVIOUS
  <2>1. Unblamed
    BY DEF Unblamed
  <2>2. CASE \E e \in Engines : SaveThread(e)
    BY <2>1, <2>2, ThreadSwaps DEF Swapped
  <2>3. CASE Exit
    BY <2>3 DEF Exit, Mapped, Disk
  <2>6. CASE \E e \in Engines : Drop(e)
    <3>1. PICK e \in Engines : Drop(e)
      BY <2>6
    <3>2. content'[target] = content[target] /\ target' = target
      BY <2>1, <3>1, DropWritesElsewhere DEF Drop
    <3>3. QED
      BY <3>2
  <2>4. CASE ~Exit /\ ~\E e \in Engines : SaveThread(e) \/ Drop(e)
    BY <2>4 DEF Next, Write, Wipeout, Attach, Edit, ShiftWindow, IndexCount, IndexPublish,
                IndexFinish, PollIndex, PollSave, disk
  <2>5. QED
    BY <2>2, <2>3, <2>4, <2>6
<1>4. [Step]_vars <=> [mishaps \cap {"reopened", "newline", "leftover"} = {}
                         /\ content'[target'] # content[target] =>
                       \E e \in Engines : content'[target'] \in thread[e].outputs]_vars
  OBVIOUS
<1> HIDE DEF Inv, Step
<1>5. QED
  BY <1>1, <1>2, <1>3, <1>4, PTL DEF Spec, TargetAtomic

-----------------------------------------------------------------------------
(* 'modified'. The buffer without it shows what the file has.              *)

(* Pieces that are extended up to a line, and the file with all of them.   *)
ExtendedTo(ps, synced, upto) ==
  IF upto <= synced THEN ps
  ELSE IF ps # << >> /\ Last(ps).kind = "original" /\ Last(ps).to = synced
  THEN [ps EXCEPT ![Len(ps)].to = upto]
  ELSE Append(ps, Original(synced, upto))

Whole(r) ==
  Rest(r.original, ExtendedTo(r.pieces, r.synced, Len(r.original)),
       Len(r.original), Len(r.original), Len(r.original))

(* What the user takes for the file depends on what the engine maps, on    *)
(* the pieces and on how much they cover, not on how far the index is.     *)
LEMMA DocumentIs ==
  ASSUME NEW e
  PROVE  /\ Document(e) = Whole(engine[e])
         /\ Document(e)' = Whole(engine'[e])
<1>1. Document(e) = Whole(engine[e])
  BY Zenon DEF Document, Whole, Output, Extended, ExtendedTo, Rest, ItemLists, PieceItems, AtLine
<1>2. Document(e)' = Whole(engine'[e])
  BY Zenon DEF Document, Whole, Output, Extended, ExtendedTo, Rest, ItemLists, PieceItems, AtLine
<1>3. QED
  BY <1>1, <1>2

(* What an engine stands for depends on its mapping, its pieces and what was synchronised of the file. *)
LEMMA SameWhole ==
  ASSUME NEW r, NEW s, s.original = r.original, s.pieces = r.pieces, s.synced = r.synced
  PROVE  Whole(s) = Whole(r)
BY DEF Whole

(* Of two changes of one entry the later one counts. *)
LEMMA ChangedTwice ==
  ASSUME NEW f, NEW k, NEW y, NEW z
  PROVE  [[f EXCEPT ![k] = y] EXCEPT ![k] = z] = [f EXCEPT ![k] = z]
OBVIOUS

(* Arriving in two parts is like arriving at once.                         *)
LEMMA ExtendedTwice ==
  ASSUME NEW ps \in Seq(Pieces), NEW a \in Nat, NEW b \in Nat, NEW c \in Nat, a <= b, b <= c
  PROVE  ExtendedTo(ExtendedTo(ps, a, b), b, c) = ExtendedTo(ps, a, c)
<1> DEFINE k == Len(ps)
           open == ps # << >> /\ Last(ps).kind = "original" /\ Last(ps).to = a
<1>1. CASE b <= a
  <2>1. a = b
    BY <1>1
  <2>2. QED
    BY <1>1, <2>1 DEF ExtendedTo
<1>2. CASE ~(b <= a) /\ open
  <2> DEFINE x == ps[k]
             y == [x EXCEPT !.to = b]
             z == [x EXCEPT !.to = c]
             q == [ps EXCEPT ![k] = y]
  <2>1. x \in Pieces /\ x = Last(ps) /\ k \in 1 .. k /\ k \in Nat
    BY <1>2, SMT DEF Last
  <2>2. x.kind = "original" /\ x.to = a
    BY <1>2, <2>1
  <2> HIDE DEF x
  <2>3. x \in [kind : {"original"}, from : Nat, to : Nat]
    BY <2>1, <2>2 DEF Pieces
  <2>4. /\ y \in [kind : {"original"}, from : Nat, to : Nat] /\ y.to = b
        /\ [y EXCEPT !.to = c] = z /\ y.kind = "original"
    BY <2>3
  <2>5. y \in Pieces /\ z \in Pieces
    BY <2>3, <2>4 DEF Pieces
  <2>6. ExtendedTo(ps, a, b) = q /\ ExtendedTo(ps, a, c) = [ps EXCEPT ![k] = z]
    <3>1. ~(c <= a)
      BY <1>2
    <3>2. QED
      BY <1>2, <3>1 DEF ExtendedTo, x
  <2> HIDE DEF y, z
  <2>7. /\ q \in Seq(Pieces) /\ Len(q) = k /\ q[k] = y /\ q # << >> /\ Last(q) = y
        /\ [q EXCEPT ![k] = z] = [ps EXCEPT ![k] = z]
    <3>1. [q EXCEPT ![k] = z] = [ps EXCEPT ![k] = z]
      BY ChangedTwice
    <3>2. q \in Seq(Pieces) /\ Len(q) = k /\ q[k] = y /\ q # << >>
      BY <2>1, <2>5, SMT
    <3> HIDE DEF q
    <3>3. QED
      BY <3>1, <3>2 DEF Last
  <2> HIDE DEF q
  <2>8. CASE c <= b
    <3>1. c = b /\ z = y
      BY <2>8 DEF y, z
    <3>2. [ps EXCEPT ![k] = z] = q
      BY <3>1 DEF q
    <3>3. QED
      BY <2>6, <2>8, <3>2 DEF ExtendedTo
  <2>9. CASE ~(c <= b)
    <3>1. ExtendedTo(q, b, c) = [q EXCEPT ![k].to = c]
      BY <2>4, <2>7, <2>9, Zenon DEF ExtendedTo
    <3>2. [q EXCEPT ![k].to = c] = [q EXCEPT ![k] = z]
      BY <2>4, <2>7
    <3>3. QED
      BY <2>6, <2>7, <3>1, <3>2
  <2>10. QED
    BY <2>8, <2>9
<1>3. CASE ~(b <= a) /\ ~open
  <2> DEFINE y == Original(a, b)
             z == Original(a, c)
             q == Append(ps, y)
  <2>1. y \in Pieces /\ z \in Pieces /\ y.kind = "original" /\ y.to = b /\ [y EXCEPT !.to = c] = z
    BY PiecesMade DEF Original
  <2>2. ExtendedTo(ps, a, b) = q /\ ExtendedTo(ps, a, c) = Append(ps, z)
    <3>1. ~(c <= a)
      BY <1>3
    <3>2. QED
      BY <1>3, <3>1 DEF ExtendedTo
  <2>a. c = b => z = y
    OBVIOUS
  <2> HIDE DEF y, z
  <2>3. /\ q \in Seq(Pieces) /\ Len(q) = k + 1 /\ q[k + 1] = y /\ q # << >> /\ Last(q) = y
        /\ [q EXCEPT ![k + 1] = z] = Append(ps, z)
    <3>1. k \in Nat /\ q \in Seq(Pieces) /\ Len(q) = k + 1 /\ q[k + 1] = y /\ q # << >> /\ Last(q) = y
      BY <2>1, SMT DEF Last
    <3>2. [q EXCEPT ![k + 1] = z] \in Seq(Pieces) /\ Append(ps, z) \in Seq(Pieces)
      BY <2>1, <3>1, SMT
    <3>3. Len([q EXCEPT ![k + 1] = z]) = k + 1 /\ Len(Append(ps, z)) = k + 1
      BY <2>1, <3>1, SMT
    <3>4. ASSUME NEW i \in 1 .. k + 1 PROVE [q EXCEPT ![k + 1] = z][i] = Append(ps, z)[i]
      <4>1. CASE i = k + 1
        BY <2>1, <3>1, <4>1, SMT
      <4>2. CASE i # k + 1
        <5>1. i \in 1 .. k
          BY <3>1, <4>2
        <5>2. q[i] = ps[i] /\ Append(ps, z)[i] = ps[i]
          BY <2>1, <3>1, <5>1, SMT
        <5>3. i \in DOMAIN q
          BY <3>1, SMT
        <5> HIDE DEF q
        <5>4. QED
          BY <4>2, <5>2, <5>3
      <4>3. QED
        BY <4>1, <4>2
    <3>5. QED
      BY <3>1, <3>2, <3>3, <3>4, SameList
  <2> HIDE DEF q
  <2>4. CASE c <= b
    <3>1. c = b
      BY <2>4
    <3>2. QED
      BY <2>2, <2>4, <2>a, <3>1 DEF ExtendedTo, q
  <2>5. CASE ~(c <= b)
    <3>1. ExtendedTo(q, b, c) = [q EXCEPT ![k + 1].to = c]
      BY <2>1, <2>3, <2>5, Zenon DEF ExtendedTo
    <3>2. [q EXCEPT ![k + 1].to = c] = [q EXCEPT ![k + 1] = z]
      BY <2>1, <2>3
    <3>3. QED
      BY <2>2, <2>3, <3>1, <3>2
  <2>6. QED
    BY <2>4, <2>5
<1>4. QED
  BY <1>1, <1>2, <1>3

(* A synchronisation changes nothing that the user sees.                   *)
LEMMA SyncedWhole ==
  ASSUME NEW r \in EngineType, NEW n \in Nat, r.synced <= n, n <= Len(r.original),
         NEW s, s.original = r.original, s.synced = n,
         s.pieces = ExtendedTo(r.pieces, r.synced, n)
  PROVE  Whole(s) = Whole(r)
<1> DEFINE all == Len(r.original)
<1>1. r.pieces \in Seq(Pieces) /\ r.synced \in Nat /\ r.original \in Seq(Items)
  BY DEF EngineType
<1>2. all \in Nat
  BY <1>1, LenInNat
<1> HIDE DEF all
<1>3. n <= all /\ Len(s.original) = all /\ Len(r.original) = all
  BY DEF all
<1>4. ExtendedTo(s.pieces, s.synced, all) = ExtendedTo(r.pieces, r.synced, all)
  BY <1>1, <1>2, <1>3, ExtendedTwice
<1>5. QED
  BY <1>3, <1>4 DEF Whole

(* A file that was just opened is shown as it is, with a line end at its   *)
(* end, whatever the index has of it.                                      *)
LEMMA NewWhole ==
  ASSUME content[target] \in Seq(Items), NEW lazy \in BOOLEAN
  PROVE  /\ Whole(NewEngine(lazy)) = OriginalItems(content[target])
         /\ SameText(content[target], OriginalItems(content[target]))
<1> DEFINE o == content[target]
           n == Len(o)
           p == Original(0, n)
           ps == <<p>>
           all == IF lazy THEN 0 ELSE n
           r == NewEngine(lazy)
<1>1. r.original = o /\ r.synced = all /\ r.pieces = <<Original(0, all)>>
  BY DEF NewEngine
<1>2. n \in Nat /\ o \in Seq(Items)
  BY LenInNat
<1> HIDE DEF o, r
<1>a. n \in 0 .. Len(o)
  BY <1>2
<1>3. ExtendedTo(r.pieces, r.synced, n) = ps
  <2>1. CASE all = n
    BY <1>1, <1>2, <2>1 DEF ExtendedTo
  <2>2. CASE all # n
    <3> DEFINE x == Original(0, 0)
    <3>1. all = 0 /\ ~(n <= 0) /\ n # 0
      BY <1>2, <2>2
    <3> HIDE DEF n
    <3>2. x.kind = "original" /\ x.to = 0 /\ [x EXCEPT !.to = n] = p
      BY DEF Original
    <3>a. r.pieces = <<x>> /\ r.synced = 0
      BY <1>1, <3>1
    <3> HIDE DEF x, p, all
    <3>3. <<x>> # << >> /\ Last(<<x>>) = x /\ Len(<<x>>) = 1 /\ [<<x>> EXCEPT ![1] = p] = <<p>>
          /\ <<x>>[1] = x
      BY SMT DEF Last
    <3>4. ExtendedTo(<<x>>, 0, n) = [<<x>> EXCEPT ![1].to = n]
      BY <3>1, <3>2, <3>3, Zenon DEF ExtendedTo
    <3>5. [<<x>> EXCEPT ![1].to = n] = [<<x>> EXCEPT ![1] = p]
      BY <3>2, <3>3
    <3>6. QED
      BY <3>a, <3>3, <3>4, <3>5
  <2>3. QED
    BY <2>1, <2>2
<1>4. /\ p \in Pieces /\ p.kind # "memory" /\ p.from = 0 /\ p.to = n
  BY <1>2, PiecesMade DEF Original
<1> HIDE DEF p
<1>5. PieceItems(o, p, n, n, n) = OriginalItems(o)
  <2>1. AtLine(0, n, n) = 0 /\ AtLine(n, n, n) = n
    BY <1>2 DEF AtLine
  <2>2. SubSeq(o, 0 + 1, n) = o
    BY <1>2, SMT
  <2>3. QED
    BY <1>4, <2>1, <2>2 DEF PieceItems
<1>6. /\ ps \in Seq(Pieces) /\ ps # << >> /\ Head(ps) = p /\ Tail(ps) = << >> /\ << >> \in Seq(Pieces)
  BY <1>4, SMT
<1> HIDE DEF ps
<1>7. Rest(o, << >>, n, n, n) = << >>
  <2> HIDE DEF n
  <2>1. QED
    BY <1>2, <1>a, <1>6, RestStep
<1>8. Rest(o, ps, n, n, n) = OriginalItems(o) \o << >>
  <2> HIDE DEF n
  <2>1. Rest(o, ps, n, n, n) = PieceItems(o, Head(ps), n, n, n) \o Rest(o, Tail(ps), n, n, n)
    BY <1>2, <1>a, <1>6, RestStep
  <2>2. QED
    BY <1>5, <1>6, <1>7, <2>1
<1>9. OriginalItems(o) \o << >> = OriginalItems(o)
  <2>1. OriginalItems(o) \in Seq(Items)
    BY <1>2, OriginalItemsType
  <2>2. QED
    BY <2>1, SMT
<1>10. Whole(r) = OriginalItems(o)
  BY <1>1, <1>3, <1>8, <1>9 DEF Whole
<1>11. SameText(o, OriginalItems(o))
  BY DEF SameText, OriginalItems
<1>12. QED
  BY <1>10, <1>11 DEF o, r

(* A save of what is indexed as a whole can only write the whole.          *)
LEMMA OutputsAreWhole ==
  ASSUME Mapped, NEW e \in Engines, ~(engine[e].synced < Len(engine[e].original))
  PROVE  Outputs(e) \subseteq {Document(e)}
<1> DEFINE r == engine[e]
           o == r.original
           n == Len(o)
           ps == r.pieces
           pub == r.published
           open == {pub} \cup r.processed .. n
<1>1. /\ r \in EngineType /\ r.synced <= pub /\ pub <= r.processed /\ r.processed <= n
  BY DEF Mapped, EnginesOK
<1>2. /\ r.synced \in Nat /\ pub \in Nat /\ r.processed \in Nat /\ n \in Nat
  BY <1>1, LenInNat DEF EngineType
<1>3. ~(r.synced < n)
  OBVIOUS
<1> HIDE DEF n
<1>4. pub = n /\ r.processed = n /\ n <= r.synced
  BY <1>1, <1>2, <1>3, SMT
<1>5. open = {n}
  BY <1>2, <1>4, SMT
<1>6. Outputs(e) = {Output(e, ps, pub, first, last) : first, last \in open}
  BY DEF Outputs, n
<1> HIDE DEF open, pub, ps
<1>7. Outputs(e) \subseteq {Output(e, ps, n, n, n)}
  <2>1. ASSUME NEW x \in Outputs(e) PROVE x = Output(e, ps, n, n, n)
    <3>1. PICK first \in open, last \in open : x = Output(e, ps, pub, first, last)
      BY <1>6, <2>1
    <3>2. QED
      BY <1>4, <1>5, <3>1
  <2>2. QED
    BY <2>1
<1>8. Output(e, ps, n, n, n) = Rest(o, ps, n, n, n)
  BY Zenon DEF Output, Rest, ItemLists, PieceItems, AtLine
<1>9. ExtendedTo(ps, r.synced, n) = ps
  BY <1>4 DEF ExtendedTo
<1>10. Whole(r) = Rest(o, ps, n, n, n)
  BY <1>9 DEF Whole, n, ps
<1>11. QED
  BY <1>7, <1>8, <1>10, DocumentIs

(* What the user sees is what the file has, or what the save that goes on  *)
(* was asked to write.                                                     *)
Current(e) ==
  ~buffer.modified \/ (editor[e].saving /\ editor[e].save_tick = buffer.changedtick)

HonestOf(e) ==
  /\ editor[e].saving => editor[e].save_tick <= buffer.changedtick
  /\ ~buffer.modified => SameText(content[target], Document(e))
  /\ thread[e].pc # "none" /\ Current(e) => thread[e].outputs \subseteq {Document(e)}
  /\ thread[e].pc \in {"none", "reset"} /\ editor[e].saving /\ Current(e) =>
       SameText(content[target], Document(e))
  /\ thread[e].pc \in {"write", "end", "flush", "rename"} => tmp = thread[e].fd

Honest ==
  /\ \A e \in Engines : editor[e].saving => e \in Range(attached)
  /\ mishaps = {} => \A e \in Range(attached) : HonestOf(e)

(* HonestOf, after a step. *)
LEMMA HonestNext ==
  ASSUME NEW e
  PROVE  HonestOf(e)' <=>
           /\ editor'[e].saving => editor'[e].save_tick <= buffer'.changedtick
           /\ ~buffer'.modified => SameText(content'[target'], Whole(engine'[e]))
           /\ thread'[e].pc # "none" /\ Current(e)' => thread'[e].outputs \subseteq {Whole(engine'[e])}
           /\ thread'[e].pc \in {"none", "reset"} /\ editor'[e].saving /\ Current(e)' =>
                SameText(content'[target'], Whole(engine'[e]))
           /\ thread'[e].pc \in {"write", "end", "flush", "rename"} => tmp' = thread'[e].fd
<1>1. Document(e)' = Whole(engine'[e])
  BY DocumentIs
<1>2. \A a, b : SameText(a, b) <=> (a = b \/ Append(a, LineEnd) = b)
  BY DEF SameText
<1>3. SameText(content[target], Document(e))' <=> SameText(content'[target'], Whole(engine'[e]))
  BY <1>1 DEF SameText
<1>4. QED
  BY <1>1, <1>3, Zenon DEF HonestOf

(* Where neither the file nor the text that the user sees changes.         *)
LEMMA HonestStays ==
  ASSUME NEW e, HonestOf(e), UNCHANGED <<thread, disk>>, Whole(engine'[e]) = Whole(engine[e]),
         editor'[e].saving = editor[e].saving, editor'[e].save_tick = editor[e].save_tick,
         editor[e].saving => editor[e].save_tick <= buffer'.changedtick,
         ~buffer'.modified => ~buffer.modified, Current(e)' => Current(e)
  PROVE  HonestOf(e)'
<1>1. Document(e) = Whole(engine[e])
  BY DocumentIs
<1>2. QED
  BY <1>1, HonestNext, Zenon DEF HonestOf, disk

(* Only the engine that is attached is at work.                            *)
LEMMA HonestOne ==
  ASSUME Mapped, mishaps = {}, NEW e \in Engines, NEW f \in Engines, Active(e), Active(f)
  PROVE  e = f
BY DEF Mapped, Alone

(* At first nothing is open. *)
LEMMA InitHonest == Init => Honest
<1> SUFFICES ASSUME Init PROVE Honest
  OBVIOUS
<1>1. attached = << >> /\ \A e \in Engines : ~editor[e].saving
  BY DEF Init, NoEditor
<1>2. Range(attached) = {}
  BY <1>1, SMT DEF Range
<1>3. QED
  BY <1>1, <1>2 DEF Honest

(* Engines are attached, and attached engines are in use.                  *)
LEMMA AttachedAre ==
  ASSUME Shielded
  PROVE  /\ Range(attached) \subseteq Engines
         /\ attached # << >> => Last(attached) \in Range(attached)
BY SMT DEF Shielded, Attachments, Range, Last

(* The index grows, and nobody sees it.                                    *)
LEMMA IndexKeepsHonest ==
  ASSUME Mapped, Shielded, Honest, NEW e \in Engines, IndexCount(e) \/ IndexPublish(e) \/ IndexFinish(e)
  PROVE  Honest'
<1> DEFINE r == engine[e]
<1>1. /\ engine \in [Engines -> EngineType] /\ r \in EngineType
      /\ r.processed \in Nat /\ r.published \in Nat
  BY DEF Mapped, EnginesOK, EngineType
<1>2. UNCHANGED <<thread, disk, attached, editor, buffer, mishaps>>
  BY DEF IndexCount, IndexPublish, IndexFinish, ui, history
<1>3. Whole(engine'[e]) = Whole(r)
  <2>1. CASE IndexCount(e)
    <3> DEFINE n == r.processed + 1
               new == [r EXCEPT !.processed = n]
    <3>1. engine'[e] = new
      BY <1>1, <2>1 DEF IndexCount
    <3>2. n \in Nat
      BY <1>1
    <3> HIDE DEF n
    <3>3. new.original = r.original /\ new.pieces = r.pieces /\ new.synced = r.synced
      BY <1>1, <3>2, EngineFields
    <3>4. QED
      BY <3>1, <3>3, SameWhole
  <2>2. CASE IndexPublish(e)
    <3> DEFINE n == LineEnds(e, r.processed)
               new == [r EXCEPT !.published = n]
    <3>1. engine'[e] = new
      BY <1>1, <2>2 DEF IndexPublish
    <3>2. n \in Nat
      <4>1. n \in 0 .. r.processed
        BY <1>1, LineEndsBehind
      <4>2. QED
        BY <1>1, <4>1
    <3> HIDE DEF n
    <3>3. new.original = r.original /\ new.pieces = r.pieces /\ new.synced = r.synced
      BY <1>1, <3>2, EngineFields
    <3>4. QED
      BY <3>1, <3>3, SameWhole
  <2>3. CASE IndexFinish(e)
    <3> DEFINE n == r.processed
               mid == [r EXCEPT !.published = n]
               new == [mid EXCEPT !.finished = TRUE]
    <3>1. engine' = [engine EXCEPT ![e] = new]
      BY <1>1, <2>3, FieldsInTurn DEF IndexFinish
    <3>2. engine'[e] = new
      BY <1>1, <3>1
    <3>3. mid \in EngineType /\ mid.original = r.original /\ mid.pieces = r.pieces /\ mid.synced = r.synced
      BY <1>1, EngineFields
    <3> HIDE DEF mid
    <3>4. new.original = r.original /\ new.pieces = r.pieces /\ new.synced = r.synced
      BY <1>1, <3>3, EngineFields
    <3>5. QED
      BY <3>2, <3>4, SameWhole
  <2>4. QED
    BY <2>1, <2>2, <2>3
<1>4. \A f \in Engines : f # e => engine'[f] = engine[f]
  BY <1>1 DEF IndexCount, IndexPublish, IndexFinish
<1>5. \A f : Current(f)' <=> Current(f)
  BY <1>2 DEF Current
<1>6. ASSUME mishaps = {}, NEW f \in Range(attached), f \in Engines PROVE HonestOf(f)'
  <2>1. HonestOf(f) /\ (editor[f].saving => editor[f].save_tick <= buffer.changedtick)
    BY <1>6 DEF Honest, HonestOf
  <2>2. Whole(engine'[f]) = Whole(engine[f])
    BY <1>3, <1>4, <1>6
  <2>3. QED
    BY <1>2, <1>5, <2>1, <2>2, HonestStays
<1>7. Range(attached) \subseteq Engines
  BY AttachedAre
<1>8. QED
  BY <1>2, <1>6, <1>7 DEF Honest

(* Polls, moves of the window and edits.                                   *)
LEMMA UserKeepsHonest ==
  ASSUME Mapped, Shielded, Honest, NEW e \in Engines, PollIndex(e) \/ Edit(e) \/ ShiftWindow(e)
  PROVE  Honest'
<1> DEFINE r == engine[e]
           n == r.published
           p == SyncedPieces(e)
<1>1. /\ engine \in [Engines -> EngineType] /\ r \in EngineType /\ n \in Nat
      /\ r.synced <= n /\ n <= Len(r.original)
  <2>1. /\ engine \in [Engines -> EngineType] /\ r \in EngineType
        /\ r.synced <= n /\ n <= r.processed /\ r.processed <= Len(r.original)
    BY DEF Mapped, EnginesOK
  <2>2. n \in Nat /\ r.processed \in Nat /\ Len(r.original) \in Nat
    BY <2>1, LenInNat DEF EngineType
  <2>3. QED
    BY <2>1, <2>2
<1>2. /\ UNCHANGED <<thread, disk, attached>> /\ (mishaps' = {} => mishaps = {})
      /\ \A f \in Engines : editor'[f].saving = editor[f].saving /\ editor'[f].save_tick = editor[f].save_tick
  <2>1. editor \in [Engines -> Editors]
    BY DEF Shielded, Attachments
  <2>2. CASE PollIndex(e)
    <3>1. \E b \in BOOLEAN : editor' = [editor EXCEPT ![e].complete = b]
      BY <2>2 DEF PollIndex
    <3>2. QED
      BY <2>1, <2>2, <3>1 DEF PollIndex, history, Editors
  <2>3. CASE Edit(e) \/ ShiftWindow(e)
    BY <2>3 DEF Edit, ShiftWindow, history
  <2>4. QED
    BY <2>2, <2>3
<1>3. buffer \in Buffers /\ Range(attached) \subseteq Engines
  BY AttachedAre DEF Shielded, Attachments
<1>4. CASE PollIndex(e) \/ ShiftWindow(e)
  <2>1. engine' = Synced(e, p) /\ buffer'.changedtick \in {buffer.changedtick, buffer.changedtick + 1}
        /\ (buffer' = buffer \/ buffer'.changedtick = buffer.changedtick + 1)
        /\ buffer'.modified = buffer.modified
    BY <1>3, <1>4 DEF PollIndex, ShiftWindow, Buffers
  <2>2. Whole(engine'[e]) = Whole(r)
    <3> DEFINE mid == [r EXCEPT !.pieces = p]
               new == [mid EXCEPT !.synced = n]
    <3>1. engine' = [engine EXCEPT ![e] = new]
      BY <1>1, <2>1, FieldsInTurn DEF Synced, Arrived
    <3>2. engine'[e] = new
      BY <1>1, <3>1
    <3>3. p = ExtendedTo(r.pieces, r.synced, n) /\ p \in Seq(Pieces)
      BY <1>1, ExtendedType, Zenon DEF SyncedPieces, Arrived, Extended, ExtendedTo
    <3> HIDE DEF p
    <3>4. mid \in EngineType /\ mid.original = r.original /\ mid.pieces = p
      BY <1>1, <3>3, PiecesField
    <3> HIDE DEF mid
    <3>5. new.original = r.original /\ new.pieces = p /\ new.synced = n
      BY <1>1, <3>4, EngineFields
    <3> HIDE DEF new, n
    <3>6. QED
      BY <1>1, <3>2, <3>3, <3>5, SyncedWhole
  <2>3. \A f \in Engines : f # e => engine'[f] = engine[f]
    <3>1. engine' = [engine EXCEPT ![e] = [[r EXCEPT !.pieces = p] EXCEPT !.synced = n]]
      BY <1>1, <2>1, FieldsInTurn DEF Synced, Arrived
    <3>2. QED
      BY <1>1, <3>1
  <2>4. ASSUME mishaps = {}, NEW f \in Range(attached), f \in Engines PROVE HonestOf(f)'
    <3>1. HonestOf(f) /\ (editor[f].saving => editor[f].save_tick <= buffer.changedtick)
      BY <2>4 DEF Honest, HonestOf
    <3>2. editor[f].save_tick \in Nat /\ buffer.changedtick \in Nat
      BY <2>4 DEF Shielded, Attachments, Editors, Buffers
    <3>3. editor[f].saving => editor[f].save_tick <= buffer'.changedtick
      BY <2>1, <3>1, <3>2
    <3>4. Current(f)' => Current(f)
      BY <1>2, <2>1, <2>4, <3>1, <3>2 DEF Current
    <3>5. Whole(engine'[f]) = Whole(engine[f])
      BY <2>2, <2>3, <2>4
    <3>6. QED
      BY <1>2, <2>1, <2>4, <3>1, <3>3, <3>4, <3>5, HonestStays
  <2>5. QED
    BY <1>2, <1>3, <2>4 DEF Honest
<1>5. CASE Edit(e)
  <2>1. buffer' = [changedtick |-> buffer.changedtick + 1, modified |-> TRUE]
    BY <1>5 DEF Edit
  <2>2. ASSUME mishaps = {}, NEW f \in Range(attached), f \in Engines PROVE HonestOf(f)'
    <3>1. HonestOf(f)
      BY <2>2 DEF Honest
    <3>2. editor[f].save_tick \in Nat /\ buffer.changedtick \in Nat
      BY <2>2 DEF Shielded, Attachments, Editors, Buffers
    <3>3. /\ buffer'.modified /\ ~Current(f)'
          /\ editor'[f].saving => editor'[f].save_tick <= buffer'.changedtick
      BY <1>2, <2>1, <2>2, <3>1, <3>2 DEF Current, HonestOf
    <3>4. thread'[f].pc \in {"write", "end", "flush", "rename"} => tmp' = thread'[f].fd
      BY <1>2, <3>1 DEF HonestOf, disk
    <3>5. QED
      BY <3>3, <3>4, HonestNext
  <2>3. QED
    BY <1>2, <1>3, <2>2 DEF Honest
<1>6. QED
  BY <1>4, <1>5

(* A save that begins will write what the user sees, if all is indexed.    *)
LEMMA WriteKeepsHonest == Mapped /\ Shielded /\ Honest /\ Write => Honest'
<1> SUFFICES ASSUME Mapped, Shielded, Honest, Write PROVE Honest'
  OBVIOUS
<1> DEFINE asked == {e \in Range(attached) : ~editor[e].saving}
           saved == {e \in asked : ~is_saving[e]}
           new(e) == [NoThread EXCEPT !.pc = "open", !.pieces = engine[e].pieces,
                                      !.outputs = Outputs(e), !.document = Document(e)]
           tick == buffer.changedtick
<1>1. /\ UNCHANGED <<engine, target, tmp, content, attached, buffer>>
      /\ thread' = [e \in Engines |-> IF e \in saved THEN new(e) ELSE thread[e]]
      /\ editor' = [e \in Engines |->
           IF e \in asked
           THEN [editor[e] EXCEPT !.save_tick = tick, !.saving = e \in saved] ELSE editor[e]]
      /\ mishaps' = {} => mishaps = {} /\ \A e \in saved : ~(engine[e].synced < Len(engine[e].original))
  <2>1. /\ UNCHANGED <<engine, attached, buffer, disk>>
        /\ thread' = [e \in Engines |-> IF e \in saved THEN new(e) ELSE thread[e]]
        /\ editor' = [e \in Engines |->
             IF e \in asked
             THEN [editor[e] EXCEPT !.save_tick = tick, !.saving = e \in saved] ELSE editor[e]]
        /\ mishaps' = mishaps \cup
             (IF \E e \in saved : engine[e].synced < Len(engine[e].original)
              THEN {"unindexed"} ELSE {})
    BY Zenon DEF Write
  <2> HIDE DEF saved, new, asked
  <2>2. QED
    BY <2>1 DEF disk
<1>2. Range(attached) \subseteq Engines
  BY AttachedAre
<1>3. ASSUME NEW e \in Engines
      PROVE  IF e \in asked
             THEN e \in saved /\ editor'[e].saving /\ editor'[e].save_tick = tick
             ELSE e \notin saved /\ editor'[e] = editor[e]
  <2>1. editor[e] \in Editors
    BY DEF Shielded, Attachments
  <2>2. CASE e \in asked
    <3>1. e \in saved
      <4>1. e \in Range(attached) /\ ~editor[e].saving
        BY <2>2
      <4>2. is_saving[e] => editor[e].saving
        BY <4>1 DEF Shielded, ShieldUp
      <4>3. QED
        BY <2>2, <4>1, <4>2
    <3> HIDE DEF saved, asked
    <3>2. editor'[e] = [editor[e] EXCEPT !.save_tick = tick, !.saving = TRUE]
      BY <1>1, <2>2, <3>1
    <3>3. QED
      BY <2>1, <2>2, <3>1, <3>2 DEF Editors
  <2>3. CASE e \notin asked
    <3>1. e \notin saved
      BY <2>3
    <3> HIDE DEF saved, asked
    <3>2. QED
      BY <1>1, <2>3, <3>1
  <2>4. QED
    BY <2>2, <2>3
<1>4. ASSUME mishaps' = {}, NEW e \in Range(attached), e \in Engines PROVE HonestOf(e)'
  <2>1. HonestOf(e) /\ mishaps = {}
    BY <1>1, <1>4 DEF Honest
  <2>2. CASE e \notin asked
    <3>1. editor'[e] = editor[e] /\ thread'[e] = thread[e]
      <4> HIDE DEF saved, asked, new
      <4>1. QED
        BY <1>1, <1>3, <1>4, <2>2
    <3>2. Document(e) = Whole(engine[e])
      BY DocumentIs
    <3>3. Current(e)' <=> Current(e)
      BY <1>1, <3>1 DEF Current
    <3> HIDE DEF saved, asked, new
    <3>4. QED
      BY <1>1, <2>1, <3>1, <3>2, <3>3, HonestNext, Zenon DEF HonestOf
  <2>3. CASE e \in asked
    <3>1. e \in saved /\ editor'[e].save_tick = tick
      <4> HIDE DEF saved, asked, new
      <4>1. QED
        BY <1>3, <1>4, <2>3
    <3>2. thread'[e].pc = "open" /\ thread'[e].outputs = Outputs(e)
      <4> DEFINE w == new(e)
                 o == Outputs(e)
                 d == Document(e)
                 ps == engine[e].pieces
      <4>1. thread'[e] = w
        <5> HIDE DEF saved, asked, new
        <5>1. QED
          BY <1>1, <1>4, <3>1
      <4>2. w = SavingThread(ps, o, d)
        BY DEF SavingThread
      <4> HIDE DEF o, d, ps, w
      <4>3. SavingThread(ps, o, d).pc = "open" /\ SavingThread(ps, o, d).outputs = o
        <5>1. ps \in Seq(Pieces)
          BY <1>4 DEF Mapped, EnginesOK, EngineType, ps
        <5>2. QED
          BY <5>1, NewThreadTyped
      <4>4. QED
        BY <4>1, <4>2, <4>3 DEF o
    <3>3. Outputs(e) \subseteq {Document(e)}
      <4>1. ~(engine[e].synced < Len(engine[e].original))
        BY <1>1, <1>4, <3>1
      <4>2. QED
        BY <1>4, <4>1, OutputsAreWhole
    <3>4. Document(e) = Whole(engine'[e]) /\ buffer.changedtick \in Nat
      BY <1>1, DocumentIs DEF Shielded, Attachments, Buffers
    <3>5. ~buffer'.modified => SameText(content'[target'], Whole(engine'[e]))
      BY <1>1, <2>1, <3>4 DEF HonestOf
    <3>6. editor'[e].save_tick <= buffer'.changedtick
      <4>1. buffer' = buffer
        BY <1>1
      <4>2. QED
        BY <3>1, <3>4, <4>1
    <3> HIDE DEF saved, asked, new
    <3>7. QED
      BY <3>2, <3>3, <3>4, <3>5, <3>6, HonestNext, Zenon
  <2>4. QED
    BY <2>2, <2>3
<1>5. \A e \in Engines : editor'[e].saving => e \in Range(attached)
  BY <1>3 DEF Honest
<1> HIDE DEF saved, asked, new
<1>6. QED
  BY <1>1, <1>2, <1>4, <1>5 DEF Honest

(* A save that has ended is looked at: the file is what the buffer was     *)
(* when it began, and the buffer is still that if the tick is.             *)
LEMMA PollSaveKeepsHonest ==
  ASSUME Mapped, Shielded, Honest, NEW e \in Engines, PollSave(e)
  PROVE  Honest'
<1>1. /\ editor[e].saving /\ ~is_saving[e]
      /\ editor' = [editor EXCEPT ![e].saving = FALSE]
      /\ buffer' = [buffer EXCEPT !.modified = buffer.modified /\ buffer.changedtick # editor[e].save_tick]
      /\ UNCHANGED <<engine, thread, attached, target, tmp, content, mishaps>>
  BY DEF PollSave, SaveEnded, Unchanged, disk, history
<1>2. editor \in [Engines -> Editors] /\ buffer \in Buffers
  BY DEF Shielded, Attachments
<1>3. editor'[e].saving = FALSE /\ \A f \in Engines : f # e => editor'[f] = editor[f]
  BY <1>1, <1>2 DEF Editors
<1>4. Range(attached) \subseteq Engines /\ e \in Range(attached)
  BY <1>1, AttachedAre DEF Honest
<1>5. ASSUME mishaps = {} PROVE HonestOf(e)'
  <2>1. HonestOf(e)
    BY <1>4, <1>5 DEF Honest
  <2>2. thread[e].pc = "none"
    BY <1>1 DEF Mapped, ThreadsOK, ThreadOK
  <2>3. ~buffer'.modified => Current(e)
    BY <1>1, <1>2 DEF Buffers, Current
  <2>4. Document(e) = Whole(engine[e])
    BY DocumentIs
  <2>5. thread'[e].pc = "none" /\ ~buffer'.modified => SameText(content'[target'], Whole(engine'[e]))
    BY <1>1, <2>1, <2>2, <2>3, <2>4 DEF HonestOf
  <2>6. QED
    BY <1>1, <1>3, <2>2, <2>5, HonestNext
<1>6. ASSUME mishaps = {}, NEW f \in Range(attached) PROVE f = e
  BY <1>4, <1>6, HonestOne DEF Active
<1>7. QED
  BY <1>1, <1>3, <1>4, <1>5, <1>6 DEF Honest

(* A buffer that is gone shows nothing. *)
LEMMA EndsKeepHonest == Honest /\ (Wipeout \/ Exit) => Honest'
<1> SUFFICES ASSUME Wipeout \/ Exit PROVE Honest'
  OBVIOUS
<1>1. attached' = << >> /\ \A e \in Engines : ~editor'[e].saving
  BY DEF Wipeout, Exit, NoEditor
<1>2. Range(attached)' = {}
  BY <1>1, SMT DEF Range
<1>3. QED
  BY <1>1, <1>2 DEF Honest

(* A buffer that was just opened shows the file; without a mishap, nobody  *)
(* else is about.                                                          *)
LEMMA AttachKeepsHonest ==
  ASSUME Mapped, Shielded, Honest, NEW e \in Engines, NEW lazy \in BOOLEAN, Attach(e, lazy)
  PROVE  Honest'
<1> DEFINE new == NewEngine(lazy)
<1>1. /\ attached' = Append(attached, e) /\ engine' = [engine EXCEPT ![e] = new]
      /\ editor' = [editor EXCEPT ![e] = [NoEditor EXCEPT !.complete = ~lazy]]
      /\ mishaps' = {} => ~OthersAbout
      /\ UNCHANGED <<thread, target, tmp, content>>
  <2>1. mishaps' = {} => ~OthersAbout
    BY DEF Attach
  <2>2. QED
    BY <2>1 DEF Attach, disk
<1>2. editor \in [Engines -> Editors] /\ attached \in Seq(Engines) /\ engine \in [Engines -> EngineType]
  BY DEF Shielded, Attachments, Mapped, EnginesOK
<1>3. editor'[e].saving = FALSE /\ \A f \in Engines : f # e => editor'[f] = editor[f]
  BY <1>1, <1>2 DEF NoEditor
<1>4. Range(attached)' = Range(attached) \cup {e}
  BY <1>1, <1>2, RangeOfAppend
<1>5. ASSUME mishaps' = {} PROVE HonestOf(e)' /\ Range(attached) = {}
  <2>1. attached = << >> /\ Idle(e)
    BY <1>1, <1>5 DEF OthersAbout
  <2>2. thread'[e].pc = "none"
    BY <1>1, <2>1 DEF Idle
  <2>3. content[target] \in Seq(Items)
    BY DEF Mapped, Disk
  <2>4. engine'[e] = new
    BY <1>1, <1>2
  <2>5. SameText(content[target], Whole(new))
    BY <2>3, NewWhole
  <2> HIDE DEF new
  <2>6. SameText(content'[target'], Whole(engine'[e]))
    BY <1>1, <2>4, <2>5
  <2>7. HonestOf(e)'
    BY <1>3, <2>2, <2>6, HonestNext
  <2>8. Range(attached) = {}
    BY <2>1, SMT DEF Range
  <2>9. QED
    BY <2>7, <2>8
<1> HIDE DEF new
<1>6. \A f \in Engines : editor'[f].saving => f \in Range(attached)'
  BY <1>3, <1>4 DEF Honest
<1>7. QED
  BY <1>4, <1>5, <1>6 DEF Honest

(* What a step of a save can do without a mishap: it goes on, with its     *)
(* file under the name <path>.tmp, or it has renamed it, or it ends.       *)
LEMMA SaveGoesOn ==
  ASSUME Mapped, NEW e \in Engines, SaveThread(e), mishaps' = {}
  PROVE  /\ thread[e].pc # "none"
         /\ thread'[e].pc # "none" => thread'[e].outputs = thread[e].outputs
         /\ thread'[e].pc \in {"none", "reset"} =>
              (Rename(e) /\ thread[e].pc = "rename" /\ ~(tmp # NoFile /\ target' # tmp))
                \/ thread[e].pc = "reset"
         /\ thread'[e].pc \in {"write", "end", "flush", "rename"} =>
              \/ tmp' = thread'[e].fd
              \/ /\ thread[e].pc \in {"write", "end", "flush", "rename"}
                 /\ tmp' = tmp /\ thread'[e].fd = thread[e].fd
<1> DEFINE r == thread[e]
<1>1. DOMAIN thread = Engines /\ r \in ThreadType(r.outputs, r.document)
  BY DEF Mapped, ThreadsOK, ThreadOK
<1>2. CASE Open(e)
  BY <1>1, <1>2 DEF Open, ThreadType
<1>3. CASE OpenFails(e) \/ WriteFails(e) \/ NewlineFails(e) \/ FlushFails(e)
  BY <1>3 DEF OpenFails, WriteFails, NewlineFails, FlushFails
<1>4. CASE NextPiece(e) \/ PieceEnd(e)
  <2> DEFINE piece == Head(r.pieces)
             rest == Tail(r.pieces)
             lines == MemoryItems(piece.lines)
             from == calc_offset(e, piece.from)
             blocks == SubSeq(engine[e].original, r.start + 1, calc_offset(e, piece.to))
             items == OriginalItems(blocks)
             ends == Unterminated(blocks)
             a == [r EXCEPT !.pieces = rest, !.todo = lines, !.closing = FALSE]
             b == [r EXCEPT !.pc = "end", !.start = from]
             c == [r EXCEPT !.pc = "write", !.pieces = rest, !.start = 0, !.todo = items, !.closing = ends]
  <2>1. /\ tmp' = tmp /\ r.pc \in {"write", "end"}
        /\ r.pc = "write" => thread' = [thread EXCEPT ![e] = IF piece.kind = "memory" THEN a ELSE b]
        /\ r.pc = "end" => thread' = [thread EXCEPT ![e] = c]
    BY <1>4, Zenon DEF NextPiece, PieceEnd, disk
  <2> HIDE DEF rest, lines, from, blocks, items, ends
  <2>2. /\ a.pc = r.pc /\ a.fd = r.fd /\ a.outputs = r.outputs
        /\ b.pc = "end" /\ b.fd = r.fd /\ b.outputs = r.outputs
        /\ c.pc = "write" /\ c.fd = r.fd /\ c.outputs = r.outputs
    BY <1>1, FieldsKept
  <2> HIDE DEF a, b, c
  <2>3. thread'[e] \in {a, b, c} /\ (thread'[e] = a => r.pc = "write")
    BY <1>1, <2>1, <2>2
  <2>4. QED
    BY <2>1, <2>2, <2>3
<1>5. CASE WriteItem(e)
  <2> DEFINE rest == Tail(r.todo)
             item == <<Head(r.todo)>>
             through == IF Head(r.todo) \in Large THEN item ELSE << >>
             kept == IF Head(r.todo) \in Large THEN << >> ELSE item
             mid == [r EXCEPT !.todo = rest]
             to == mid.pos + Len(mid.unwritten) + Len(through)
             none == << >>
             more == mid.unwritten \o item
             a == [[mid EXCEPT !.pos = to, !.unwritten = none] EXCEPT !.unwritten = kept]
             b == [mid EXCEPT !.unwritten = more]
  <2>1. /\ tmp' = tmp /\ r.pc = "write"
        /\ thread' = [thread EXCEPT ![e] = a] \/ thread' = [thread EXCEPT ![e] = b]
    BY <1>5, Zenon DEF WriteItem, Written
  <2> HIDE DEF rest, to, none, more, kept
  <2>2. /\ a.pc = r.pc /\ a.fd = r.fd /\ a.outputs = r.outputs
        /\ b.pc = r.pc /\ b.fd = r.fd /\ b.outputs = r.outputs
    BY <1>1, FieldsKept
  <2> HIDE DEF a, b
  <2>3. thread'[e] \in {a, b}
    BY <1>1, <2>1
  <2>4. QED
    BY <2>1, <2>2, <2>3
<1>6. CASE AllWritten(e)
  BY <1>1, <1>6 DEF AllWritten, ThreadType, disk
<1>7. CASE Flush(e)
  BY <1>1, <1>7 DEF Flush, ThreadType, Written
<1>8. CASE Rename(e)
  BY <1>1, <1>8 DEF Rename, ThreadType
<1>9. CASE Reset(e)
  BY <1>1, <1>9 DEF Reset, NoThread
<1>10. QED
  BY <1>2, <1>3, <1>4, <1>5, <1>6, <1>7, <1>8, <1>9 DEF SaveThread

(* A save that goes on, or ends, or has replaced the file by what the user *)
(* saw when it began.                                                      *)
LEMMA SaveKeepsHonest ==
  ASSUME Mapped, Shielded, Atomic, Honest, NEW e \in Engines, SaveThread(e)
  PROVE  Honest'
<1> DEFINE r == thread[e]
<1>1. UNCHANGED <<attached, editor, buffer>> /\ (mishaps' = {} => mishaps = {})
  BY DEF SaveThread, Open, OpenFails, NextPiece, PieceEnd, WriteItem, WriteFails, NewlineFails,
         AllWritten, Flush, FlushFails, Rename, Reset, ui, history
<1>2. Range(attached) \subseteq Engines
  BY AttachedAre
<1>3. ASSUME mishaps' = {}, e \in Range(attached) PROVE HonestOf(e)'
  <2>1. HonestOf(e) /\ Unblamed /\ Document(e) = Whole(engine[e])
    BY <1>1, <1>3, DocumentIs DEF Honest, Unblamed
  <2>2. engine'[e] = engine[e]
    BY <1>3 DEF SaveThread, Open, OpenFails, NextPiece, PieceEnd, WriteItem, WriteFails, NewlineFails,
           AllWritten, Flush, FlushFails, Rename, Reset, Released, Mapped, EnginesOK
  <2>3. /\ r.pc # "none"
        /\ thread'[e].pc # "none" => thread'[e].outputs = r.outputs
        /\ thread'[e].pc \in {"none", "reset"} =>
             (Rename(e) /\ r.pc = "rename" /\ ~(tmp # NoFile /\ target' # tmp)) \/ r.pc = "reset"
        /\ thread'[e].pc \in {"write", "end", "flush", "rename"} =>
             \/ tmp' = thread'[e].fd
             \/ /\ r.pc \in {"write", "end", "flush", "rename"}
                /\ tmp' = tmp /\ thread'[e].fd = r.fd
    BY <1>3, SaveGoesOn
  <2>4. content'[target'] # content[target] => content'[target'] \in r.outputs
    BY <2>1, ThreadSwaps DEF Swapped
  <2>5. Current(e)' <=> Current(e)
    BY <1>1 DEF Current
  <2>6. Current(e) => r.outputs \subseteq {Whole(engine[e])}
    BY <2>1, <2>3 DEF HonestOf
  <2>7. \A a, b : a = b => SameText(a, b)
    BY DEF SameText
  <2>8. Current(e) /\ SameText(content[target], Whole(engine[e])) =>
          SameText(content'[target'], Whole(engine[e]))
    BY <2>4, <2>6, <2>7
  <2>9. ASSUME thread'[e].pc \in {"none", "reset"}, editor[e].saving, Current(e)
        PROVE  SameText(content'[target'], Whole(engine[e]))
    <3>1. CASE r.pc = "reset"
      BY <2>1, <2>8, <2>9, <3>1 DEF HonestOf
    <3>2. CASE r.pc # "reset"
      <4>1. Rename(e) /\ tmp = r.fd /\ ~(tmp # NoFile /\ target' # tmp)
        BY <2>1, <2>3, <2>9, <3>2 DEF HonestOf
      <4>2. r.fd # NoFile
        BY <2>3, <2>9, <3>2, ThreadHas
      <4>3. content'[target'] \in r.outputs
        BY <2>1, <4>1, <4>2, RenameSwaps
      <4>4. QED
        BY <2>6, <2>7, <2>9, <4>3
    <3>3. QED
      BY <3>1, <3>2
  <2>10. ~buffer'.modified => Current(e) /\ SameText(content[target], Whole(engine[e]))
    BY <1>1, <2>1 DEF HonestOf, Current
  <2>11. thread'[e].pc \in {"write", "end", "flush", "rename"} => tmp' = thread'[e].fd
    BY <2>1, <2>3 DEF HonestOf
  <2>12. editor'[e].saving => editor'[e].save_tick <= buffer'.changedtick
    BY <1>1, <2>1 DEF HonestOf
  <2>a. thread'[e].pc # "none" /\ Current(e)' => thread'[e].outputs \subseteq {Whole(engine'[e])}
    BY <2>2, <2>3, <2>5, <2>6
  <2>b. ~buffer'.modified => SameText(content'[target'], Whole(engine'[e]))
    BY <2>2, <2>8, <2>10
  <2>c. thread'[e].pc \in {"none", "reset"} /\ editor'[e].saving /\ Current(e)' =>
          SameText(content'[target'], Whole(engine'[e]))
    BY <1>1, <2>2, <2>5, <2>9
  <2>d. QED
    BY <2>11, <2>12, <2>a, <2>b, <2>c, HonestNext
<1>4. ASSUME mishaps' = {}, NEW f \in Range(attached) PROVE f = e
  <2>1. thread[e].pc # "none"
    BY <1>4, SaveGoesOn
  <2>2. QED
    BY <1>1, <1>2, <1>4, <2>1, HonestOne DEF Active
<1>5. QED
  BY <1>1, <1>3, <1>4 DEF Honest

(* What a failed save has left does not get into the file.                 *)
LEMMA DropKeepsHonest ==
  ASSUME Mapped, Apart, Honest, NEW e \in Engines, Drop(e)
  PROVE  Honest'
<1>1. UNCHANGED <<engine, thread, attached, editor, buffer, target, tmp, mishaps>>
  BY DEF Drop, ui, history
<1>2. ASSUME mishaps = {}, NEW f \in Range(attached) PROVE HonestOf(f)'
  <2>1. HonestOf(f) /\ Document(f) = Whole(engine[f])
    BY <1>2, DocumentIs DEF Honest
  <2>2. content'[target] = content[target]
    BY <1>2, DropWritesElsewhere DEF Unblamed
  <2>3. Current(f)' <=> Current(f)
    BY <1>1 DEF Current
  <2>4. QED
    BY <1>1, <2>1, <2>2, <2>3, HonestNext, Zenon DEF HonestOf
<1>3. QED
  BY <1>1, <1>2 DEF Honest

(* Every step leaves what the user sees honest.                            *)
LEMMA NextKeepsHonest == Mapped /\ Shielded /\ Atomic /\ Apart /\ Honest /\ [Next]_vars => Honest'
<1> SUFFICES ASSUME Mapped, Shielded, Atomic, Apart, Honest, [Next]_vars PROVE Honest'
  OBVIOUS
<1>1. CASE Next
  BY <1>1, WriteKeepsHonest, EndsKeepHonest, AttachKeepsHonest, UserKeepsHonest, IndexKeepsHonest,
     PollSaveKeepsHonest, SaveKeepsHonest, DropKeepsHonest DEF Next
<1>2. CASE UNCHANGED vars
  <2>1. UNCHANGED <<engine, thread, disk, attached, editor, buffer, mishaps>>
    BY <1>2 DEF vars, ui, history
  <2>2. \A f : Current(f)' <=> Current(f)
    BY <2>1 DEF Current
  <2>3. ASSUME mishaps = {}, NEW f \in Range(attached) PROVE HonestOf(f)'
    <3>1. HonestOf(f) /\ (editor[f].saving => editor[f].save_tick <= buffer.changedtick)
      BY <2>3 DEF Honest, HonestOf
    <3>2. QED
      BY <2>1, <2>2, <3>1, HonestStays
  <2>4. QED
    BY <2>1, <2>3 DEF Honest
<1>3. QED
  BY <1>1, <1>2

(* For any number of engines, any file and any bounds: while nothing went  *)
(* wrong and no save was asked for of what is not indexed, a buffer        *)
(* without 'modified' shows what the file has, whatever the user typed     *)
(* during a save, and wherever the window was.                             *)
THEOREM ModifiedIsHonest == Spec => []ModifiedHonest
<1> DEFINE Inv == Mapped /\ Shielded /\ Atomic /\ Apart /\ Honest
<1>1. Init => Inv
  BY InitMapped, InitShielded, InitAtomic, InitApart, InitHonest
<1>2. Inv /\ [Next]_vars => Inv'
  BY NextKeepsMapped, NextKeepsShield, NextKeepsAtomic, NextKeepsApart, NextKeepsHonest
<1>3. Inv => ModifiedHonest
  <2> SUFFICES ASSUME Shielded, Honest, mishaps = {}, attached # << >>, ~buffer.modified
               PROVE  SameText(content[target], Document(Last(attached)))
    BY DEF ModifiedHonest, UnmodifiedMeansSaved
  <2>1. Last(attached) \in Range(attached)
    BY AttachedAre
  <2>2. QED
    BY <2>1 DEF Honest, HonestOf
<1> HIDE DEF Inv
<1>4. QED
  BY <1>1, <1>2, <1>3, PTL DEF Spec
=============================================================================
