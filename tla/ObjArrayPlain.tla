---------------------------- MODULE ObjArrayPlain ----------------------------
(***************************************************************************)
(* The body that oopClosures.py emits for the objArrayKlass template (the  *)
(* card-mark bodies and the MarkSweep / PSParallelCompact follow-contents  *)
(* bodies), run as a program on one object array of length len starting   *)
(* at word address obj0: follow the header where the row says so, then    *)
(* one loop examines every slot of [base, end).  As in ObjArrayChunking,   *)
(* scanned[a] counts the iterations that examined slot a (the null test    *)
(* and the call of the operator on a non-null entry).                      *)
(***************************************************************************)
EXTENDS Integers, TLAPS

CONSTANTS
  Addr,     \* every address a slot can have
  MaxBase,  \* largest start address of the array the model tries
  MaxLen    \* largest array length the model tries

\* Every slot of every array the model tries has an address in Addr.
ASSUME AddrAssumption ==
  /\ Addr \subseteq Int
  /\ MaxBase \in Nat
  /\ MaxLen \in Nat
  /\ 0 .. (MaxBase + MaxLen) \subseteq Addr

\* The rows of objArrayKlass_generate that use the objArrayKlass template.
PlainVariants == {"NewGCCard", "OldGCCard", "MutatorCard", "MarkSweep", "ParCompact"}

\* The rows passed DoFollowHeader.
FollowsHeader == [v \in PlainVariants |-> v \in {"MarkSweep", "ParCompact"}]

VARIABLES
  variant,        \* the emitted function being run
  obj0,           \* a->base(T_OBJECT)
  end,            \* base + a->length()
  base,           \* the scanning cursor
  pc,             \* where the body is
  headerFollows,  \* calls of a->follow_header
  scanned         \* scanned[a]: how often slot a has been examined

vars == <<variant, obj0, end, base, pc, headerFollows, scanned>>

Init ==
  /\ variant \in PlainVariants
  /\ obj0 \in 0 .. MaxBase
  /\ end \in obj0 .. (obj0 + MaxLen)
  /\ base = obj0
  /\ pc = "Entry"
  /\ headerFollows = 0
  /\ scanned = [a \in Addr |-> 0]

\* if (follow_header) a->follow_header(variable); then the cursors are set.
Enter ==
  /\ pc = "Entry"
  /\ headerFollows' = IF FollowsHeader[variant] THEN headerFollows + 1 ELSE headerFollows
  /\ pc' = "Loop"
  /\ UNCHANGED <<variant, obj0, end, base, scanned>>

\* Mutant: the loop runs while base <= end, one slot past the array.
MarkPastEnd ==
  /\ pc = "Loop"
  /\ base <= end
  /\ scanned' = [scanned EXCEPT ![base] = @ + 1]
  /\ base' = base + 1
  /\ UNCHANGED <<variant, obj0, end, pc, headerFollows>>

\* Mutant: the loop body drops base++ and examines the same slot again.
MarkNoAdvance ==
  /\ pc = "Loop"
  /\ base < end
  /\ scanned' = [scanned EXCEPT ![base] = @ + 1]
  /\ UNCHANGED <<variant, obj0, end, base, pc, headerFollows>>

\* while (base < end) { examine *base; base++; }
Mark ==
  /\ pc = "Loop"
  /\ base < end
  /\ scanned' = [scanned EXCEPT ![base] = @ + 1]
  /\ base' = base + 1
  /\ UNCHANGED <<variant, obj0, end, pc, headerFollows>>

\* Mutant: the loop is left one slot early, as while (base < end - 1) would.
EndLoopBeforeLast ==
  /\ pc = "Loop"
  /\ base >= end - 1
  /\ pc' = "Done"
  /\ UNCHANGED <<variant, obj0, end, base, headerFollows, scanned>>

EndLoop ==
  /\ pc = "Loop"
  /\ base >= end
  /\ pc' = "Done"
  /\ UNCHANGED <<variant, obj0, end, base, headerFollows, scanned>>

Terminated == pc = "Done" /\ UNCHANGED vars

Next == Enter \/ Mark \/ EndLoop \/ Terminated

Spec == Init /\ [][Next]_vars /\ WF_vars(Next)

-----------------------------------------------------------------------------
(* Properties *)

TypeOK ==
  /\ variant \in PlainVariants
  /\ obj0 \in 0 .. MaxBase
  /\ end \in obj0 .. (obj0 + MaxLen)
  /\ base \in obj0 .. end
  /\ pc \in {"Entry", "Loop", "Done"}
  /\ headerFollows \in Nat
  /\ scanned \in [Addr -> Nat]

(***************************************************************************)
(* No slot of the array is examined twice by the element loop, and no slot *)
(* outside [obj0, end) is examined at all.                                 *)
(***************************************************************************)
PlainScanSafe ==
  \A a \in Addr :
    /\ scanned[a] <= 1
    /\ scanned[a] = 1 => a \in obj0 .. (end - 1)

(***************************************************************************)
(* The plain body implements ArrayScan: it examines each slot of the array *)
(* once, none outside it, and in the end all of them.                      *)
(***************************************************************************)
Scan == INSTANCE ArrayScan WITH lo <- obj0, hi <- end, examined <- scanned

ImplementsArrayScan == Scan!Spec

-----------------------------------------------------------------------------
(* Proofs *)

(***************************************************************************)
(* Before the entry step nothing has been examined and the header not     *)
(* followed; from it on, the header count is the one the row asks for.     *)
(***************************************************************************)
HeaderInv ==
  /\ TypeOK
  /\ pc = "Entry" => headerFollows = 0 /\ \A a \in Addr : scanned[a] = 0
  /\ pc # "Entry" => headerFollows = IF FollowsHeader[variant] THEN 1 ELSE 0

\* The header invariant holds initially and is kept by every step.
LEMMA HeaderInvInductive == /\ Init => HeaderInv
                            /\ HeaderInv /\ [Next]_vars => HeaderInv'
<1>1. Init => HeaderInv
  BY DEF Init, HeaderInv, TypeOK
<1>2. HeaderInv /\ [Next]_vars => HeaderInv'
  <2> SUFFICES ASSUME HeaderInv, [Next]_vars PROVE HeaderInv'
    OBVIOUS
  <2>1. CASE Enter
    BY <2>1 DEF HeaderInv, TypeOK, Enter, FollowsHeader
  <2>2. CASE Mark
    <3>1. scanned' \in [Addr -> Nat]
      <4>1. scanned \in [Addr -> Nat] /\ scanned' = [scanned EXCEPT ![base] = @ + 1]
        BY <2>2 DEF HeaderInv, TypeOK, Mark
      <4>2. CASE base \in Addr
        BY <4>1, <4>2
      <4>3. CASE base \notin Addr
        <5>1. [scanned EXCEPT ![base] = @ + 1] = scanned
          BY <4>1, <4>3, Zenon
        <5>2. QED
          BY <4>1, <5>1
      <4>4. QED
        BY <4>2, <4>3
    <3>2. base' \in obj0' .. end'
      BY <2>2 DEF HeaderInv, TypeOK, Mark
    <3>3. pc' # "Entry" /\ pc' = pc /\ UNCHANGED <<variant, obj0, end, headerFollows>>
      BY <2>2 DEF Mark
    <3>4. QED
      BY <3>1, <3>2, <3>3 DEF HeaderInv, TypeOK
  <2>3. CASE EndLoop
    BY <2>3 DEF HeaderInv, TypeOK, EndLoop
  <2>4. CASE Terminated \/ UNCHANGED vars
    BY <2>4 DEF HeaderInv, TypeOK, Terminated, vars
  <2>5. QED
    BY <2>1, <2>2, <2>3, <2>4 DEF Next
<1>3. QED
  BY <1>1, <1>2

(***************************************************************************)
(* For every array and every row, the plain body keeps its variables in   *)
(* their types.                                                            *)
(***************************************************************************)
THEOREM PlainTypeCorrect == Spec => []TypeOK
<1>1. HeaderInv => TypeOK
  BY DEF HeaderInv
<1>2. QED
  BY <1>1, HeaderInvInductive, PTL DEF Spec

(***************************************************************************)
(* The loop invariant of while (base < end): exactly the slots obj0 ..    *)
(* base-1 have been examined, once each.                                   *)
(***************************************************************************)
ScanInv ==
  /\ HeaderInv
  /\ \A a \in Addr : scanned[a] = IF a \in obj0 .. (base - 1) THEN 1 ELSE 0

\* The cursor of a loop iteration is a slot of the array, with an address.
LEMMA CursorInArray ==
  ASSUME TypeOK, base < end
  PROVE  base \in obj0 .. (end - 1) /\ base \in Addr
BY AddrAssumption DEF TypeOK

\* The scan invariant holds initially and is kept by every step.
LEMMA ScanInvInductive == /\ Init => ScanInv
                          /\ ScanInv /\ [Next]_vars => ScanInv'
<1>1. Init => ScanInv
  BY HeaderInvInductive DEF Init, ScanInv
<1>2. ScanInv /\ [Next]_vars => ScanInv'
  <2> SUFFICES ASSUME ScanInv, [Next]_vars PROVE ScanInv'
    OBVIOUS
  <2>1. HeaderInv'
    BY HeaderInvInductive DEF ScanInv
  <2>2. CASE Mark
    <3>1. TypeOK /\ base \in Addr /\ base \in obj0 .. (end - 1)
      BY <2>2, CursorInArray DEF ScanInv, HeaderInv, Mark
    <3>2. QED
      BY <2>1, <2>2, <3>1 DEF ScanInv, TypeOK, Mark
  <2>3. CASE ~Mark
    <3>1. TypeOK
      BY DEF ScanInv, HeaderInv
    <3>2. QED
      BY <2>1, <2>3, <3>1 DEF ScanInv, TypeOK, Next, Enter, EndLoop, Terminated, vars
  <2>4. QED
    BY <2>2, <2>3
<1>3. QED
  BY <1>1, <1>2

\* One iteration of the loop is ArrayScan's step on the single slot base.
LEMMA MarkStep ==
  ASSUME ScanInv, Mark
  PROVE  Scan!Examine(base, base) /\ base \in Scan!ArraySlots
<1>1. TypeOK /\ base \in Addr /\ base \in obj0 .. (end - 1)
  BY CursorInArray DEF ScanInv, HeaderInv, Mark
<1>2. scanned[base] = 0
  BY <1>1 DEF ScanInv
<1>3. scanned' = [a \in Addr |-> IF a \in base .. base THEN 1 ELSE scanned[a]]
  <2>1. scanned' = [scanned EXCEPT ![base] = 1]
    BY <1>2 DEF Mark
  <2>2. \A a \in Addr : (a \in base .. base) <=> (a = base)
    BY <1>1
  <2> QED
    BY <1>1, <2>1, <2>2 DEF TypeOK
<1>4. UNCHANGED <<obj0, end>>
  BY DEF Mark
<1> QED
  BY <1>1, <1>2, <1>3, <1>4 DEF Scan!Examine, Scan!ArraySlots

(***************************************************************************)
(* For every array the model may take (any start, any length, any row),    *)
(* the plain objArrayKlass body implements ArrayScan's safety part: each   *)
(* iteration of while (base < end) examines one slot of the array not     *)
(* examined before, and every other step examines nothing.                 *)
(***************************************************************************)
THEOREM PlainRefinement == Spec => Scan!SafeSpec
<1>1. Init => Scan!Init
  BY AddrAssumption DEF Init, Scan!Init
<1>2. ScanInv /\ [Next]_vars => [Scan!Next]_Scan!avars
  <2> SUFFICES ASSUME ScanInv, [Next]_vars PROVE [Scan!Next]_Scan!avars
    OBVIOUS
  <2>1. CASE Mark
    BY <2>1, MarkStep DEF Scan!Next
  <2>2. CASE ~Mark
    <3>1. UNCHANGED <<obj0, end, scanned>>
      BY <2>2 DEF Next, Enter, EndLoop, Terminated, vars
    <3> QED
      BY <3>1 DEF Scan!avars
  <2> QED
    BY <2>1, <2>2
<1> QED
  BY <1>1, <1>2, ScanInvInductive, PTL DEF Spec, Scan!SafeSpec


(***************************************************************************)
(* For every array and row, the plain objArrayKlass body examines no slot  *)
(* twice and none outside the array: the body refines ArrayScan, whose     *)
(* every behaviour keeps ExaminedOnce.                                     *)
(***************************************************************************)
THEOREM PlainScanSafety == Spec => []PlainScanSafe
<1>1. Scan!SafeSpec => []Scan!ExaminedOnce
  BY AddrAssumption, Scan!ExaminedOnceHolds
<1>2. Scan!ExaminedOnce => PlainScanSafe
  BY DEF Scan!ExaminedOnce, Scan!ArraySlots, PlainScanSafe
<1> QED
  BY <1>1, <1>2, PlainRefinement, PTL

=============================================================================
