------------------------------ MODULE ArrayScan ------------------------------
(***************************************************************************)
(* What a GC traversal of an object array promises, whatever the template  *)
(* oopClosures.py emits for it: every slot of the array [lo, hi) is        *)
(* examined exactly once, in runs of adjacent slots taken in any order and *)
(* by any thread, no slot outside the array is examined, and in the end    *)
(* every slot has been.                                                    *)
(***************************************************************************)
EXTENDS Integers, TLAPS

CONSTANT Addr   \* the addresses a slot can have

VARIABLES
  lo,         \* the first slot of the array
  hi,         \* one past its last slot
  examined    \* examined[a]: how often slot a has been examined

avars == <<lo, hi, examined>>

ArraySlots == lo .. (hi - 1)

Init ==
  /\ lo \in Addr
  /\ hi \in Addr
  /\ lo <= hi
  /\ examined = [a \in Addr |-> 0]

\* One step examines the run i..j of slots none of which was examined yet.
Examine(i, j) ==
  /\ i <= j
  /\ \A a \in i .. j : examined[a] = 0
  /\ examined' = [a \in Addr |-> IF a \in i .. j THEN 1 ELSE examined[a]]
  /\ UNCHANGED <<lo, hi>>

Next == \E i, j \in ArraySlots : Examine(i, j)

Spec == Init /\ [][Next]_avars /\ WF_avars(Next)

\* The safety part alone: what a run of the traversal may do.
SafeSpec == Init /\ [][Next]_avars

(***************************************************************************)
(* Every slot of the array is eventually examined (and, by the steps,      *)
(* exactly once).                                                          *)
(***************************************************************************)
AllExamined == <>(\A a \in ArraySlots : examined[a] = 1)

(***************************************************************************)
(* What every traversal may do: no slot is examined twice, and none        *)
(* outside the array.                                                      *)
(***************************************************************************)
ExaminedOnce ==
  /\ examined \in [Addr -> {0, 1}]
  /\ \A a \in Addr : examined[a] = 1 => a \in ArraySlots

-----------------------------------------------------------------------------
(* Proofs *)

\* The bounds of the array are integers, and no slot is examined twice.
AInv ==
  /\ lo \in Int
  /\ hi \in Int
  /\ ExaminedOnce

\* One step examines only slots of the array not examined before.
LEMMA ExamineStep ==
  ASSUME AInv, NEW i \in ArraySlots, NEW j \in ArraySlots, Examine(i, j)
  PROVE  AInv'
<1>1. \A a \in Addr : a \in i .. j => a \in ArraySlots
  BY DEF AInv, ArraySlots
<1>2. examined' \in [Addr -> {0, 1}]
  BY DEF Examine, AInv, ExaminedOnce
<1>3. ArraySlots' = ArraySlots /\ lo' = lo /\ hi' = hi
  BY DEF Examine, ArraySlots
<1> QED
  BY <1>1, <1>2, <1>3 DEF Examine, AInv, ExaminedOnce

(***************************************************************************)
(* For every set of integer addresses and every array, the abstract        *)
(* traversal examines each slot at most once and no slot outside the       *)
(* array.                                                                  *)
(***************************************************************************)
LEMMA ExaminedOnceHolds == Addr \subseteq Int => (SafeSpec => []ExaminedOnce)
<1> SUFFICES ASSUME Addr \subseteq Int PROVE SafeSpec => []ExaminedOnce
  OBVIOUS
<1>1. Init => AInv
  BY DEF Init, AInv, ExaminedOnce
<1>2. AInv /\ [Next]_avars => AInv'
  <2> SUFFICES ASSUME AInv, [Next]_avars PROVE AInv'
    OBVIOUS
  <2>1. CASE Next
    BY <2>1, ExamineStep DEF Next
  <2>2. CASE UNCHANGED avars
    BY <2>2 DEF avars, AInv, ExaminedOnce, ArraySlots
  <2> QED
    BY <2>1, <2>2
<1>3. AInv => ExaminedOnce
  BY DEF AInv
<1> QED
  BY <1>1, <1>2, <1>3, PTL DEF SafeSpec

=============================================================================
