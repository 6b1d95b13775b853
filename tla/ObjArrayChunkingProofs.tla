----------------------- MODULE ObjArrayChunkingProofs -----------------------
(***************************************************************************)
(* Proofs that the chunked traversal of ObjArrayChunking is type correct   *)
(* and, for every threshold that covers the cache-line gap, examines each  *)
(* slot of the array at most once, none outside it, and at the end every   *)
(* slot exactly once.                                                      *)
(***************************************************************************)
EXTENDS ObjArrayChunking, TLAPS

(***************************************************************************)
(* Slots the marking thread itself has examined so far: the prefix loop    *)
(* covers [obj0, base), and once it is over the tail loop covers           *)
(* [chunk_start, base) next to the finished prefix [obj0, chunk_base).     *)
(***************************************************************************)
MarkerScanned(a) ==
  \/ pc = "MarkPrefix" /\ obj0 <= a /\ a < base
  \/ /\ pc \in {"MarkTail", "Done"}
     /\ \/ obj0 <= a /\ a < chunk_base
        \/ chunk_start <= a /\ a < base

\* a lies in a chunk still on the marking stack.
InPending(a) == \E c \in pending : c <= a /\ a < c + ChunkSize

(***************************************************************************)
(* Slots examined so far: the marker's own, and the slots of the chunked   *)
(* region [chunk_base, chunk_start) whose chunk has been drained.          *)
(***************************************************************************)
Covered(a) ==
  \/ MarkerScanned(a)
  \/ chunk_base <= a /\ a < chunk_start /\ ~InPending(a)

(***************************************************************************)
(* The inductive invariant: the cursors are ordered inside the array, the  *)
(* pending chunks are disjoint and lie in the chunked region, and every    *)
(* slot has been examined once if it is covered and never otherwise.       *)
(***************************************************************************)
IInv ==
  /\ TypeOK
  /\ obj0 <= chunk_base /\ chunk_base <= chunk_start /\ chunk_start <= end
  /\ pc = "Entry" => /\ chunk_base = obj0 /\ chunk_start = obj0
                     /\ base = obj0 /\ pending = {}
  /\ pc = "PushChunks" => chunk_end = chunk_start + ChunkSize /\ base = obj0
  /\ pc = "MarkPrefix" => obj0 <= base /\ base <= chunk_base
  /\ pc \in {"MarkTail", "Done"} => chunk_start <= base /\ base <= end
  /\ pc = "Done" => base = end
  /\ \A c \in pending : chunk_base <= c /\ c + ChunkSize <= chunk_start
  /\ \A c1, c2 \in pending :
       c1 # c2 => c1 + ChunkSize <= c2 \/ c2 + ChunkSize <= c1
  /\ \A a \in Addr : scanned[a] = IF Covered(a) THEN 1 ELSE 0

-----------------------------------------------------------------------------
USE ConstantsAssumption

\* round_down(x + n - 1, n) lies in [x, x + n - 1].
LEMMA RoundUpBounds ==
  ASSUME NEW x \in Nat, NEW n \in Nat \ {0}
  PROVE  /\ RoundUp(x, n) \in Nat
         /\ x <= RoundUp(x, n)
         /\ RoundUp(x, n) <= x + n - 1
BY DEF RoundUp

\* ScanAll keeps scanned a counter per address.
LEMMA ScanAllType ==
  ASSUME scanned \in [Addr -> Nat], NEW S
  PROVE  ScanAll(S) \in [Addr -> Nat]
BY DEF ScanAll

\* Every step keeps the variables in their types.
LEMMA TypeStep == TypeOK /\ [Next]_vars => TypeOK'
<1> SUFFICES ASSUME TypeOK, [Next]_vars PROVE TypeOK'
  OBVIOUS
<1>1. CASE EnterChunked
  <2>1. RoundUp(obj0, LineWords) \in Nat
    BY RoundUpBounds DEF TypeOK
  <2> QED
    BY <1>1, <2>1 DEF EnterChunked, TypeOK, PCs
<1>2. CASE EnterPlain
  BY <1>2 DEF EnterPlain, TypeOK, PCs
<1>3. CASE PushChunk
  BY <1>3 DEF PushChunk, TypeOK, PCs
<1>4. CASE EndPush
  BY <1>4 DEF EndPush, TypeOK, PCs
<1>5. CASE MarkPrefix
  BY <1>5, ScanAllType DEF MarkPrefix, TypeOK, PCs
<1>6. CASE EndPrefix
  BY <1>6 DEF EndPrefix, TypeOK, PCs
<1>7. CASE MarkTail
  BY <1>7, ScanAllType DEF MarkTail, TypeOK, PCs
<1>8. CASE EndTail
  BY <1>8 DEF EndTail, TypeOK, PCs
<1>9. CASE DrainChunk
  BY <1>9, ScanAllType DEF DrainChunk, TypeOK
<1>10. CASE Terminated \/ UNCHANGED vars
  BY <1>10 DEF Terminated, vars, TypeOK
<1> QED
  BY <1>1, <1>2, <1>3, <1>4, <1>5, <1>6, <1>7, <1>8, <1>9, <1>10
     DEF Next, Marker

(***************************************************************************)
(* Type correctness: every variable of the traversal keeps its type.       *)
(***************************************************************************)
THEOREM TypeCorrect == Spec => []TypeOK
<1>1. Init => TypeOK
  BY DEF Init, TypeOK, PCs
<1>2. TypeOK /\ [Next]_vars => TypeOK'
  BY TypeStep
<1>3. QED
  BY <1>1, <1>2, PTL DEF Spec

-----------------------------------------------------------------------------
(***************************************************************************)
(* The initial state satisfies the inductive invariant.                    *)
(***************************************************************************)
LEMMA IInvInit == Init => IInv
<1> SUFFICES ASSUME Init PROVE IInv
  OBVIOUS
<1>1. TypeOK
  BY DEF Init, TypeOK, PCs
<1>2. \A a \in Addr : ~Covered(a)
  <2> SUFFICES ASSUME NEW a \in Addr PROVE ~Covered(a)
    OBVIOUS
  <2>1. ~MarkerScanned(a)
    BY DEF Init, MarkerScanned
  <2>2. ~(chunk_base <= a /\ a < chunk_start)
    BY DEF Init, Addr
  <2> QED
    BY <2>1, <2>2 DEF Covered
<1> QED
  BY <1>1, <1>2 DEF Init, IInv, TypeOK

(***************************************************************************)
(* Every step of the traversal preserves the inductive invariant, when the *)
(* threshold covers the cache-line gap.                                    *)
(***************************************************************************)
LEMMA IInvStep == LayoutOK /\ IInv /\ [Next]_vars => IInv'
<1> SUFFICES ASSUME LayoutOK, IInv, [Next]_vars PROVE IInv'
  OBVIOUS
<1>0. TypeOK'
  BY TypeStep DEF IInv
<1>1. CASE EnterChunked
  <2>1. /\ RoundUp(obj0, LineWords) \in Nat
        /\ obj0 <= RoundUp(obj0, LineWords)
        /\ RoundUp(obj0, LineWords) <= obj0 + LineWords - 1
    BY RoundUpBounds DEF IInv, TypeOK
  <2>2. /\ obj0' <= chunk_base' /\ chunk_base' <= chunk_start'
        /\ chunk_start' <= end'
    <3>1. end - obj0 > Threshold /\ chunk_base' = RoundUp(obj0, LineWords)
      BY <1>1 DEF EnterChunked
    <3>2. obj0 \in Nat /\ end \in Nat /\ UNCHANGED <<obj0, end>>
      BY <1>1 DEF EnterChunked, IInv, TypeOK
    <3> QED
      BY <2>1, <3>1, <3>2, <1>1 DEF EnterChunked, LayoutOK
  <2>3. \A a \in Addr : ~Covered(a) /\ ~Covered(a)'
    <3> SUFFICES ASSUME NEW a \in Addr PROVE ~Covered(a) /\ ~Covered(a)'
      OBVIOUS
    <3>1. ~MarkerScanned(a) /\ ~MarkerScanned(a)'
      BY <1>1 DEF EnterChunked, MarkerScanned
    <3>2. chunk_base = chunk_start /\ chunk_base' = chunk_start'
      BY <1>1 DEF EnterChunked, IInv
    <3> QED
      BY <1>0, <3>1, <3>2 DEF Covered, Addr, IInv, TypeOK
  <2>4. \A a \in Addr : scanned'[a] = IF Covered(a)' THEN 1 ELSE 0
    <3> SUFFICES ASSUME NEW a \in Addr
                 PROVE  scanned'[a] = IF Covered(a)' THEN 1 ELSE 0
      OBVIOUS
    <3>1. scanned[a] = 0
      BY <2>3 DEF IInv
    <3> QED
      BY <1>1, <2>3, <3>1 DEF EnterChunked
  <2> QED
    BY <1>0, <1>1, <2>2, <2>4 DEF EnterChunked, IInv
<1>2. CASE EnterPlain
  <2>1. \A a \in Addr : ~Covered(a) /\ ~Covered(a)'
    <3> SUFFICES ASSUME NEW a \in Addr PROVE ~Covered(a) /\ ~Covered(a)'
      OBVIOUS
    <3>1. ~MarkerScanned(a)
      BY <1>2 DEF EnterPlain, MarkerScanned
    <3>2. base' = obj0' /\ chunk_base' = obj0' /\ chunk_start' = obj0'
      BY <1>2 DEF EnterPlain, IInv
    <3>3. ~MarkerScanned(a)'
      BY <1>0, <3>2 DEF MarkerScanned, Addr, TypeOK
    <3>4. chunk_base = chunk_start
      BY <1>2 DEF EnterPlain, IInv
    <3> QED
      BY <1>0, <3>1, <3>2, <3>3, <3>4 DEF Covered, Addr, IInv, TypeOK
  <2>2. \A a \in Addr : scanned'[a] = IF Covered(a)' THEN 1 ELSE 0
    BY <1>2, <2>1 DEF EnterPlain, IInv
  <2>3. pc' = "MarkTail" /\ base' = obj0' /\ chunk_start' = obj0' /\ obj0' <= end'
    BY <1>2 DEF EnterPlain, IInv
  <2> QED
    BY <1>0, <1>2, <2>2, <2>3 DEF EnterPlain, IInv
<1>3. CASE PushChunk
  <2> USE <1>3 DEF PushChunk
  <2>1. \A a \in Addr : Covered(a)' <=> Covered(a)
    <3> SUFFICES ASSUME NEW a \in Addr PROVE Covered(a)' <=> Covered(a)
      OBVIOUS
    <3>1. ~MarkerScanned(a) /\ ~MarkerScanned(a)'
      BY DEF MarkerScanned
    <3>2. InPending(a)' <=> InPending(a) \/ (chunk_start <= a /\ a < chunk_end)
      BY DEF InPending, IInv
    <3> QED
      BY <3>1, <3>2 DEF Covered, IInv, TypeOK, Addr
  <2>2. \A c \in pending' : chunk_base' <= c /\ c + ChunkSize <= chunk_start'
    BY DEF IInv, TypeOK
  <2>3. \A c1, c2 \in pending' :
          c1 # c2 => c1 + ChunkSize <= c2 \/ c2 + ChunkSize <= c1
    BY DEF IInv, TypeOK
  <2> QED
    BY <1>0, <2>1, <2>2, <2>3 DEF IInv, TypeOK
<1>4. CASE EndPush
  <2> USE <1>4 DEF EndPush
  <2>1. \A a \in Addr : Covered(a)' <=> Covered(a)
    BY DEF Covered, MarkerScanned, InPending, IInv, TypeOK, Addr
  <2> QED
    BY <1>0, <2>1 DEF IInv, TypeOK
<1>5. CASE MarkPrefix
  <2> USE <1>5 DEF MarkPrefix
  <2>1. base \in Addr /\ ~Covered(base)
    BY DEF Covered, MarkerScanned, IInv, TypeOK, Addr
  <2>2. \A a \in Addr : Covered(a)' <=> Covered(a) \/ a = base
    BY DEF Covered, MarkerScanned, InPending, IInv, TypeOK, Addr
  <2>3. \A a \in Addr : scanned'[a] = IF Covered(a)' THEN 1 ELSE 0
    BY <2>1, <2>2 DEF ScanAll, IInv
  <2> QED
    BY <1>0, <2>3 DEF IInv, TypeOK
<1>6. CASE EndPrefix
  <2> USE <1>6 DEF EndPrefix
  <2>1. base = chunk_base
    BY DEF IInv, TypeOK
  <2>2. \A a \in Addr : Covered(a)' <=> Covered(a)
    BY <2>1 DEF Covered, MarkerScanned, InPending, IInv, TypeOK, Addr
  <2> QED
    BY <1>0, <2>1, <2>2 DEF IInv, TypeOK
<1>7. CASE MarkTail
  <2> USE <1>7 DEF MarkTail
  <2>1. base \in Addr /\ ~Covered(base)
    BY DEF Covered, MarkerScanned, IInv, TypeOK, Addr
  <2>2. \A a \in Addr : Covered(a)' <=> Covered(a) \/ a = base
    BY DEF Covered, MarkerScanned, InPending, IInv, TypeOK, Addr
  <2>3. \A a \in Addr : scanned'[a] = IF Covered(a)' THEN 1 ELSE 0
    BY <2>1, <2>2 DEF ScanAll, IInv
  <2> QED
    BY <1>0, <2>3 DEF IInv, TypeOK
<1>8. CASE EndTail
  <2> USE <1>8 DEF EndTail
  <2>1. \A a \in Addr : Covered(a)' <=> Covered(a)
    BY DEF Covered, MarkerScanned, InPending, IInv, TypeOK, Addr
  <2> QED
    BY <1>0, <2>1 DEF IInv, TypeOK
<1>9. CASE DrainChunk
  <2>1. PICK c \in pending : /\ pending' = pending \ {c}
                             /\ scanned' = ScanAll(Chunk(c))
                             /\ UNCHANGED <<obj0, end, base, chunk_base,
                                           chunk_start, chunk_end, pc>>
    BY <1>9 DEF DrainChunk
  <2>2. ASSUME NEW a \in Addr, c <= a, a < c + ChunkSize
        PROVE  ~Covered(a) /\ Covered(a)'
    <3>1. chunk_base <= a /\ a < chunk_start
      BY <2>1, <2>2 DEF IInv, TypeOK, Addr
    <3>2. ~MarkerScanned(a) /\ ~MarkerScanned(a)'
      BY <2>1, <3>1 DEF MarkerScanned, IInv, TypeOK, Addr
    <3>3. InPending(a) /\ ~InPending(a)'
      BY <2>1, <2>2 DEF InPending, IInv, TypeOK, Addr
    <3> QED
      BY <2>1, <3>1, <3>2, <3>3 DEF Covered
  <2>3. ASSUME NEW a \in Addr, ~(c <= a /\ a < c + ChunkSize)
        PROVE  Covered(a)' <=> Covered(a)
    BY <2>1, <2>3 DEF Covered, MarkerScanned, InPending, IInv, TypeOK, Addr
  <2>4. \A a \in Addr : scanned'[a] = IF Covered(a)' THEN 1 ELSE 0
    BY <2>1, <2>2, <2>3 DEF ScanAll, Chunk, IInv, TypeOK, Addr
  <2> QED
    BY <1>0, <2>1, <2>4 DEF IInv, TypeOK
<1>10. CASE Terminated \/ UNCHANGED vars
  <2>1. UNCHANGED vars
    BY <1>10 DEF Terminated
  <2> QED
    BY <2>1 DEF vars, IInv, TypeOK, Covered, MarkerScanned, InPending
<1> QED
  BY <1>1, <1>2, <1>3, <1>4, <1>5, <1>6, <1>7, <1>8, <1>9, <1>10 DEF Next, Marker

\* The inductive invariant bounds every examination count by the array.
LEMMA IInvScanSafe == IInv => ScanSafe
<1> SUFFICES ASSUME IInv, NEW a \in Addr
             PROVE  scanned[a] <= 1 /\ (scanned[a] = 1 => a \in Slots)
  BY DEF ScanSafe
<1>1. Covered(a) => obj0 <= a /\ a < end
  BY DEF Covered, MarkerScanned, IInv, TypeOK, Addr
<1> QED
  BY <1>1 DEF IInv, TypeOK, Slots, Addr

\* At the end of the traversal the covered slots are exactly the array.
LEMMA IInvPartition == IInv => Partition
<1> SUFFICES ASSUME IInv, Finished, NEW a \in Addr
             PROVE  scanned[a] = IF a \in Slots THEN 1 ELSE 0
  BY DEF Partition
<1>1. Covered(a) <=> obj0 <= a /\ a < end
  BY DEF Finished, Covered, MarkerScanned, InPending, IInv, TypeOK, Addr
<1> QED
  BY <1>1 DEF IInv, TypeOK, Slots, Addr

(***************************************************************************)
(* For every threshold that covers the cache-line gap, every behaviour of  *)
(* the chunked traversal keeps the inductive invariant.                    *)
(***************************************************************************)
THEOREM InductiveInvariant == LayoutOK => (Spec => []IInv)
<1> SUFFICES ASSUME LayoutOK PROVE Spec => []IInv
  OBVIOUS
<1>1. Init => IInv
  BY IInvInit
<1>2. IInv /\ [Next]_vars => IInv'
  BY IInvStep
<1> QED
  BY <1>1, <1>2, PTL DEF Spec

(***************************************************************************)
(* ScanSafe for every value of the constants with LayoutOK: however the    *)
(* marking thread of objArrayKlass_chunking and the threads draining its   *)
(* chunks interleave, no slot is examined twice and none outside the array.*)
(***************************************************************************)
THEOREM ScanSafety == LayoutOK => (Spec => []ScanSafe)
BY InductiveInvariant, IInvScanSafe, PTL

(***************************************************************************)
(* The chunk partition law for every value of the constants with LayoutOK: *)
(* once the body has returned and its chunks are drained, the prefix, the  *)
(* chunks and the tail have examined each slot of the array exactly once.  *)
(***************************************************************************)
THEOREM PartitionLaw == LayoutOK => (Spec => []Partition)
BY InductiveInvariant, IInvPartition, PTL
-----------------------------------------------------------------------------
(***************************************************************************)
(* The refinement.  A slot the marker's cursor stands on, or one of a      *)
(* pending chunk, is a slot of the array not examined yet, so the step     *)
(* that examines it is an Examine step of ArrayScan.                       *)
(***************************************************************************)

\* The slot under the cursor of the prefix or the tail loop.
LEMMA CursorStep ==
  ASSUME IInv, MarkPrefix \/ MarkTail
  PROVE  Scan!Examine(base, base)
<1>1. obj0 <= base /\ base < end /\ base \in Addr
  BY DEF MarkPrefix, MarkTail, IInv, TypeOK, Addr
<1>2. ~Covered(base)
  BY <1>1 DEF MarkPrefix, MarkTail, Covered, MarkerScanned, IInv, TypeOK
<1>3. scanned[base] = 0
  BY <1>1, <1>2 DEF IInv
<1>4. scanned' = [a \in Addr |-> IF a \in base .. base THEN 1 ELSE scanned[a]]
  BY <1>3 DEF MarkPrefix, MarkTail, ScanAll, IInv, TypeOK
<1> QED
  BY <1>1, <1>3, <1>4 DEF MarkPrefix, MarkTail, Scan!Examine, IInv, TypeOK

\* A chunk taken off the marking stack.
LEMMA ChunkStep ==
  ASSUME IInv, NEW c \in pending, pending' = pending \ {c},
         scanned' = ScanAll(Chunk(c)),
         UNCHANGED <<obj0, end, base, chunk_base, chunk_start, chunk_end, pc>>
  PROVE  Scan!Examine(c, c + ChunkSize - 1)
<1>1. obj0 <= c /\ c + ChunkSize <= end /\ c \in Nat
  BY DEF IInv, TypeOK
<1>2. ASSUME NEW a \in Addr, c <= a, a < c + ChunkSize PROVE scanned[a] = 0
  <2>1. ~MarkerScanned(a)
    BY <1>1, <1>2 DEF MarkerScanned, IInv, TypeOK, Addr
  <2>2. InPending(a)
    BY <1>2 DEF InPending
  <2> QED
    BY <2>1, <2>2 DEF Covered, IInv
<1>3. c .. c + ChunkSize - 1 \subseteq Addr
  BY <1>1 DEF IInv, TypeOK, Addr
<1> QED
  BY <1>1, <1>2, <1>3 DEF Scan!Examine, ScanAll, Chunk, IInv, TypeOK

(***************************************************************************)
(* objArrayKlass_chunking implements ArrayScan for every value of the      *)
(* constants with LayoutOK: every step of the marking thread or of a       *)
(* thread draining a chunk examines a run of slots of the array that were  *)
(* not examined yet, or examines nothing.                                  *)
(***************************************************************************)
THEOREM Refinement == LayoutOK => (Spec => Scan!SafeSpec)
<1> SUFFICES ASSUME LayoutOK PROVE Spec => Scan!SafeSpec
  OBVIOUS
<1>1. Init => Scan!Init
  BY DEF Init, Scan!Init, Addr
<1>2. IInv /\ [Next]_vars => [Scan!Next]_Scan!avars
  <2> SUFFICES ASSUME IInv, [Next]_vars PROVE [Scan!Next]_Scan!avars
    OBVIOUS
  <2>0. ASSUME NEW i, NEW j, Scan!Examine(i, j),
               i \in Scan!ArraySlots, j \in Scan!ArraySlots
        PROVE  Scan!Next
    BY <2>0 DEF Scan!Next
  <2>1. CASE MarkPrefix \/ MarkTail
    <3>1. Scan!Examine(base, base)
      BY <2>1, CursorStep
    <3>2. base \in Scan!ArraySlots
      BY <2>1 DEF MarkPrefix, MarkTail, Scan!ArraySlots, IInv, TypeOK
    <3> QED
      BY <2>0, <3>1, <3>2
  <2>2. CASE DrainChunk
    <3>1. PICK c \in pending : /\ pending' = pending \ {c}
                               /\ scanned' = ScanAll(Chunk(c))
                               /\ UNCHANGED <<obj0, end, base, chunk_base,
                                             chunk_start, chunk_end, pc>>
      BY <2>2 DEF DrainChunk
    <3>2. Scan!Examine(c, c + ChunkSize - 1)
      BY <3>1, ChunkStep
    <3>3. c \in Scan!ArraySlots /\ c + ChunkSize - 1 \in Scan!ArraySlots
      BY <3>1 DEF Scan!ArraySlots, IInv, TypeOK
    <3> QED
      BY <2>0, <3>2, <3>3
  <2>3. CASE ~(MarkPrefix \/ MarkTail \/ DrainChunk)
    <3>1. UNCHANGED <<obj0, end, scanned>>
      BY <2>3 DEF Next, Marker, EnterChunked, EnterPlain, PushChunk, EndPush,
                  EndPrefix, EndTail, Terminated, vars
    <3> QED
      BY <3>1 DEF Scan!avars
  <2> QED
    BY <2>1, <2>2, <2>3
<1> QED
  BY <1>1, <1>2, InductiveInvariant, PTL DEF Spec, Scan!SafeSpec
-----------------------------------------------------------------------------
(***************************************************************************)
(* Short arrays.  When no array the body is run on is longer than          *)
(* GPGCArrayChunkThreshold, the test a->length() > GPGCArrayChunkThreshold *)
(* always fails: the body never reaches the chunk loops, pushes nothing    *)
(* and scans with its tail loop alone.                                     *)
(***************************************************************************)
ShortInv ==
  /\ TypeOK
  /\ pc \in {"Entry", "MarkTail", "Done"}
  /\ pending = {}

\* The short-array invariant holds initially and is kept by every step.
LEMMA ShortInvInductive ==
  ASSUME MaxLen <= Threshold
  PROVE  /\ Init => ShortInv
         /\ ShortInv /\ [Next]_vars => ShortInv'
<1>1. Init => ShortInv
  BY DEF Init, ShortInv, TypeOK, PCs
<1>2. ShortInv /\ [Next]_vars => ShortInv'
  <2> SUFFICES ASSUME ShortInv, [Next]_vars PROVE ShortInv'
    OBVIOUS
  <2>1. TypeOK'
    BY TypeStep DEF ShortInv
  <2>2. ~EnterChunked
    BY DEF EnterChunked, ShortInv, TypeOK
  <2>3. ~(PushChunk \/ EndPush \/ MarkPrefix \/ EndPrefix \/ DrainChunk)
    BY DEF ShortInv, PushChunk, EndPush, MarkPrefix, EndPrefix, DrainChunk
  <2>4. CASE EnterPlain \/ MarkTail \/ EndTail \/ Terminated \/ UNCHANGED vars
    BY <2>1, <2>4 DEF ShortInv, EnterPlain, MarkTail, EndTail, Terminated, vars
  <2> QED
    BY <2>1, <2>2, <2>3, <2>4 DEF Next, Marker, ShortInv
<1> QED
  BY <1>1, <1>2

\* The slot under the tail loop's cursor has an address.
LEMMA ShortCursorInAddr ==
  ASSUME TypeOK, base < end
  PROVE  base \in Addr
BY DEF TypeOK, Addr

\* One tail-loop iteration is one iteration of the plain body's loop.
LEMMA ShortMarkStep ==
  ASSUME ShortInv, MarkTail
  PROVE  Plain!Mark
<1>1. TypeOK /\ base \in Addr
  BY ShortCursorInAddr DEF ShortInv, MarkTail
<1>2. scanned' = [scanned EXCEPT ![base] = @ + 1]
  BY <1>1 DEF MarkTail, ScanAll, TypeOK
<1>3. PlainPC = "Loop" /\ PlainPC' = "Loop"
  BY DEF MarkTail, PlainPC
<1> QED
  BY <1>2, <1>3 DEF MarkTail, Plain!Mark

(***************************************************************************)
(* For every value of the constants under which no array is longer than    *)
(* GPGCArrayChunkThreshold, objArrayKlass_chunking takes the steps of the  *)
(* plain objArrayKlass body of a card-mark row, one for one: its entry is  *)
(* the plain entry without a header, its tail loop the plain loop, and     *)
(* every other step changes nothing the plain body has.  This is the       *)
(* safety part of ShortArraysArePlain.                                     *)
(***************************************************************************)
THEOREM ShortRefinement ==
  MaxLen <= Threshold => (Spec => Plain!Init /\ [][Plain!Next]_Plain!vars)
<1> SUFFICES ASSUME MaxLen <= Threshold
             PROVE  Spec => Plain!Init /\ [][Plain!Next]_Plain!vars
  OBVIOUS
<1>1. Init => Plain!Init
  BY DEF Init, Plain!Init, Plain!PlainVariants, PlainPC
<1>2. ShortInv /\ [Next]_vars => [Plain!Next]_Plain!vars
  <2> SUFFICES ASSUME ShortInv, [Next]_vars PROVE [Plain!Next]_Plain!vars
    OBVIOUS
  <2>1. CASE EnterPlain
    <3>1. ~Plain!FollowsHeader["NewGCCard"]
      BY DEF Plain!FollowsHeader, Plain!PlainVariants
    <3>2. Plain!Enter
      BY <2>1, <3>1 DEF EnterPlain, Plain!Enter, PlainPC
    <3> QED
      BY <3>2 DEF Plain!Next
  <2>2. CASE MarkTail
    BY <2>2, ShortMarkStep DEF Plain!Next
  <2>3. CASE EndTail
    <3>1. Plain!EndLoop
      BY <2>3 DEF EndTail, Plain!EndLoop, PlainPC
    <3> QED
      BY <3>1 DEF Plain!Next
  <2>4. CASE ~(EnterPlain \/ MarkTail \/ EndTail)
    <3>1. ~EnterChunked
      BY DEF EnterChunked, ShortInv, TypeOK
    <3>2. ~(PushChunk \/ EndPush \/ MarkPrefix \/ EndPrefix \/ DrainChunk)
      BY DEF ShortInv, PushChunk, EndPush, MarkPrefix, EndPrefix, DrainChunk
    <3>3. UNCHANGED vars
      BY <2>4, <3>1, <3>2 DEF Next, Marker, Terminated
    <3> QED
      BY <3>3 DEF vars, Plain!vars, PlainPC
  <2> QED
    BY <2>1, <2>2, <2>3, <2>4
<1> QED
  BY <1>1, <1>2, ShortInvInductive, PTL DEF Spec
=============================================================================
