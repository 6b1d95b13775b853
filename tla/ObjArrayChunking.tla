-------------------------- MODULE ObjArrayChunking --------------------------
(***************************************************************************)
(* The body that oopClosures.py emits for                                  *)
(* objArrayKlass::GPGC_oop_follow_contents (template objArrayKlass_chunking)*)
(* run as a program: one marking thread walks an object array of length    *)
(* len starting at word address obj0.  Above GPGCArrayChunkThreshold it    *)
(* first pushes every whole GPGCArrayChunkSize chunk that starts at or     *)
(* after the first cache-line boundary onto the marking stack, then scans  *)
(* the prefix before that boundary, then scans the tail after the last     *)
(* chunk.  Other GC threads take the pushed chunks off the stack and scan  *)
(* them concurrently with the marking thread (the collector side of        *)
(* push_array_chunk_to_stack, described in spec section 5).                *)
(*                                                                         *)
(* Addresses are in words (one heapRef per word).  The code rounds the     *)
(* byte address base+BytesPerCacheLine-1 down to BytesPerCacheLine; since  *)
(* base is word aligned and a line is a whole number of words, that is the *)
(* word address rounded up to a multiple of LineWords.                     *)
(*                                                                         *)
(* scanned[a] counts the loop iterations, by any thread, that examined     *)
(* slot a (the null test and the call of mark_and_follow on a non-null     *)
(* entry); which entries are null does not change the loops' control.      *)
(***************************************************************************)
EXTENDS Integers, FiniteSets

CONSTANTS
  Threshold,   \* GPGCArrayChunkThreshold, in elements
  ChunkSize,   \* GPGCArrayChunkSize, in elements
  LineWords,   \* BytesPerCacheLine / BytesPerHeapRef
  MaxBase,     \* largest start address of the array the model tries
  MaxLen       \* largest array length the model tries

ASSUME ConstantsAssumption ==
  /\ Threshold \in Nat
  /\ ChunkSize \in Nat \ {0}
  /\ LineWords \in Nat \ {0}
  /\ MaxBase \in Nat
  /\ MaxLen \in Nat

(***************************************************************************)
(* The chunk loops stay inside the array only when an array long enough to *)
(* be chunked also reaches the first cache-line boundary: the prefix loop  *)
(* runs up to that boundary, which lies up to LineWords - 1 slots after    *)
(* the array start, without comparing against the array end.               *)
(***************************************************************************)
LayoutOK == Threshold >= LineWords - 1

VARIABLES
  obj0,         \* a->base(T_OBJECT): first slot of the array
  end,          \* base + a->length(): one past the last slot
  base,         \* the scanning cursor `base' of the emitted code
  chunk_base,   \* first cache-line boundary at or after the array start
  chunk_start,  \* next chunk to push
  chunk_end,    \* chunk_start + GPGCArrayChunkSize
  pc,           \* where the marking thread is in the emitted body
  pending,      \* start addresses of chunks on the marking stack
  scanned       \* scanned[a]: how often slot a has been examined

vars == <<obj0, end, base, chunk_base, chunk_start, chunk_end, pc, pending, scanned>>

\* Every address a slot examined by any loop can have.
Addr == 0 .. (MaxBase + MaxLen + LineWords)

\* The slots of the array, [obj0, end).
Slots == obj0 .. (end - 1)

\* round_down(x + n - 1, n): x rounded up to the next multiple of n.
RoundUp(x, n) == ((x + n - 1) \div n) * n

\* The slots of the chunk that starts at c.
Chunk(c) == c .. (c + ChunkSize - 1)

\* One more examination of every slot in S.
ScanAll(S) == [a \in Addr |-> IF a \in S THEN scanned[a] + 1 ELSE scanned[a]]

PCs == {"Entry", "PushChunks", "MarkPrefix", "MarkTail", "Done"}

Init ==
  /\ obj0 \in 0 .. MaxBase
  /\ end \in obj0 .. (obj0 + MaxLen)
  /\ base = obj0
  /\ chunk_base = obj0
  /\ chunk_start = obj0
  /\ chunk_end = obj0
  /\ pc = "Entry"
  /\ pending = {}
  /\ scanned = [a \in Addr |-> 0]

\* Mutant: round_down(base - 1, line) in place of round_down(base + line - 1, line).
EnterChunkedRoundsDown ==
  /\ pc = "Entry"
  /\ end - obj0 > Threshold
  /\ chunk_base' = ((obj0 - 1) \div LineWords) * LineWords
  /\ chunk_start' = chunk_base'
  /\ chunk_end' = chunk_start' + ChunkSize
  /\ pc' = "PushChunks"
  /\ UNCHANGED <<obj0, end, base, pending, scanned>>

\* Mutant: an array of exactly GPGCArrayChunkThreshold elements is chunked.
EnterChunkedAtThreshold ==
  /\ pc = "Entry"
  /\ end - obj0 >= Threshold
  /\ chunk_base' = RoundUp(obj0, LineWords)
  /\ chunk_start' = chunk_base'
  /\ chunk_end' = chunk_start' + ChunkSize
  /\ pc' = "PushChunks"
  /\ UNCHANGED <<obj0, end, base, pending, scanned>>

(***************************************************************************)
(* if ( a->length() > GPGCArrayChunkThreshold ): set up the chunk cursors. *)
(***************************************************************************)
EnterChunked ==
  /\ pc = "Entry"
  /\ end - obj0 > Threshold
  /\ chunk_base' = RoundUp(obj0, LineWords)
  /\ chunk_start' = chunk_base'
  /\ chunk_end' = chunk_start' + ChunkSize
  /\ pc' = "PushChunks"
  /\ UNCHANGED <<obj0, end, base, pending, scanned>>

\* A short array goes straight to the plain scanning loop.
EnterPlain ==
  /\ pc = "Entry"
  /\ end - obj0 <= Threshold
  /\ pc' = "MarkTail"
  /\ UNCHANGED <<obj0, end, base, chunk_base, chunk_start, chunk_end, pending, scanned>>

\* Mutant: pushes a chunk as long as it starts before the end of the array.
PushChunkWhileStartInside ==
  /\ pc = "PushChunks"
  /\ chunk_start < end
  /\ pending' = pending \cup {chunk_start}
  /\ chunk_start' = chunk_end
  /\ chunk_end' = chunk_end + ChunkSize
  /\ UNCHANGED <<obj0, end, base, chunk_base, pc, scanned>>

(***************************************************************************)
(* Mutant: GPGCArrayChunkSize of 0; each round pushes an empty chunk and   *)
(* chunk_start = chunk_end; chunk_end += 0 leaves the cursors where they   *)
(* are.                                                                    *)
(***************************************************************************)
PushChunkStuck ==
  /\ pc = "PushChunks"
  /\ chunk_end <= end
  /\ UNCHANGED vars

(***************************************************************************)
(* while ( chunk_end <= end ) { push_array_chunk_to_stack(chunk_start,     *)
(* GPGCArrayChunkSize); chunk_start = chunk_end; chunk_end += size; }      *)
(***************************************************************************)
PushChunk ==
  /\ pc = "PushChunks"
  /\ chunk_end <= end
  /\ pending' = pending \cup {chunk_start}
  /\ chunk_start' = chunk_end
  /\ chunk_end' = chunk_end + ChunkSize
  /\ UNCHANGED <<obj0, end, base, chunk_base, pc, scanned>>

EndPush ==
  /\ pc = "PushChunks"
  /\ chunk_end > end
  /\ pc' = "MarkPrefix"
  /\ UNCHANGED <<obj0, end, base, chunk_base, chunk_start, chunk_end, pending, scanned>>

\* while (base < chunk_base) { examine *base; base++; }
MarkPrefix ==
  /\ pc = "MarkPrefix"
  /\ base < chunk_base
  /\ scanned' = ScanAll({base})
  /\ base' = base + 1
  /\ UNCHANGED <<obj0, end, chunk_base, chunk_start, chunk_end, pc, pending>>

\* Mutant: the tail loop starts at chunk_end instead of chunk_start.
EndPrefixFromChunkEnd ==
  /\ pc = "MarkPrefix"
  /\ base >= chunk_base
  /\ base' = chunk_end
  /\ pc' = "MarkTail"
  /\ UNCHANGED <<obj0, end, chunk_base, chunk_start, chunk_end, pending, scanned>>

\* base = chunk_start: the tail loop starts after the last chunk pushed.
EndPrefix ==
  /\ pc = "MarkPrefix"
  /\ base >= chunk_base
  /\ base' = chunk_start
  /\ pc' = "MarkTail"
  /\ UNCHANGED <<obj0, end, chunk_base, chunk_start, chunk_end, pending, scanned>>

\* while (base < end) { examine *base; base++; }
MarkTail ==
  /\ pc = "MarkTail"
  /\ base < end
  /\ scanned' = ScanAll({base})
  /\ base' = base + 1
  /\ UNCHANGED <<obj0, end, chunk_base, chunk_start, chunk_end, pc, pending>>

EndTail ==
  /\ pc = "MarkTail"
  /\ base >= end
  /\ pc' = "Done"
  /\ UNCHANGED <<obj0, end, base, chunk_base, chunk_start, chunk_end, pending, scanned>>

(***************************************************************************)
(* A GC thread takes any chunk off the marking stack and scans its         *)
(* GPGCArrayChunkSize slots; chunks are taken in any order, also while     *)
(* the marking thread is still in the body.                                *)
(***************************************************************************)
DrainChunk ==
  \E c \in pending :
    /\ pending' = pending \ {c}
    /\ scanned' = ScanAll(Chunk(c))
    /\ UNCHANGED <<obj0, end, base, chunk_base, chunk_start, chunk_end, pc>>

\* The traversal of the array is over: the body returned, the stack drained.
Finished == pc = "Done" /\ pending = {}

Terminated == Finished /\ UNCHANGED vars

Marker ==
  \/ EnterChunked \/ EnterPlain \/ PushChunk \/ EndPush
  \/ MarkPrefix \/ EndPrefix \/ MarkTail \/ EndTail

Next == Marker \/ DrainChunk \/ Terminated

Spec == Init /\ [][Next]_vars /\ WF_vars(Marker) /\ WF_vars(DrainChunk)

-----------------------------------------------------------------------------
(* Properties *)

TypeOK ==
  /\ obj0 \in 0 .. MaxBase
  /\ end \in obj0 .. (obj0 + MaxLen)
  /\ base \in Nat
  /\ chunk_base \in Nat
  /\ chunk_start \in Nat
  /\ chunk_end \in Nat
  /\ pc \in PCs
  /\ pending \subseteq Nat
  /\ scanned \in [Addr -> Nat]

(***************************************************************************)
(* Whatever the interleaving of the marking thread with the threads that   *)
(* drain chunks, no slot is examined twice and no slot outside the array   *)
(* is examined: the prefix loop, the pushed chunks and the tail loop of    *)
(* objArrayKlass_chunking never overlap and stay inside [base, end).       *)
(***************************************************************************)
ScanSafe ==
  \A a \in Addr :
    /\ scanned[a] <= 1
    /\ scanned[a] = 1 => a \in Slots

(***************************************************************************)
(* The chunk partition law: once the body has returned and every chunk it  *)
(* pushed has been drained, each slot of the array was examined exactly    *)
(* once and nothing else was.                                              *)
(***************************************************************************)
Partition ==
  Finished => \A a \in Addr : scanned[a] = IF a \in Slots THEN 1 ELSE 0


(***************************************************************************)
(* The marking thread returns from the body and the GC threads drain every *)
(* chunk it pushed: the push loop of objArrayKlass_chunking advances by    *)
(* GPGCArrayChunkSize each round and every loop reaches its bound.         *)
(***************************************************************************)
Termination == <>Finished

\* The array as ArrayScan sees it: the chunked scan refines its SafeSpec.
Scan == INSTANCE ArrayScan WITH lo <- obj0, hi <- end, examined <- scanned


\* Where the plain body would be: the chunked body's scanning loops are its loop.
PlainPC == CASE pc = "Entry" -> "Entry"
             [] pc = "Done"  -> "Done"
             [] OTHER        -> "Loop"

(***************************************************************************)
(* Spec section 4.4: an array no longer than GPGCArrayChunkThreshold is    *)
(* scanned by the chunked body exactly as the non-chunked objArrayKlass    *)
(* body scans it, step for step.  The chunked body follows no header, like *)
(* the card-mark rows of the plain template.  The run that checks this     *)
(* gives MaxLen the value of Threshold, so that every array is short.      *)
(***************************************************************************)
Plain == INSTANCE ObjArrayPlain
           WITH variant <- "NewGCCard", pc <- PlainPC, headerFollows <- 0

ShortArraysArePlain == Plain!Spec

=============================================================================
