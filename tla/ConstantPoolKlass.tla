--------------------------- MODULE ConstantPoolKlass ---------------------------
(***************************************************************************)
(* The body that oopClosures.py emits for the constantPoolKlass template   *)
(* (lines 190-221), run on one constant pool of length len: the pointer    *)
(* entries of the pool are visited when the tags array exists, then the    *)
(* three instance fields tags, cache and pool_holder are visited whatever  *)
(* the tags.  The five full-body rows of constantPoolKlass_generate differ *)
(* only in the operator, the verifier call, remap_only and the klassId     *)
(* argument, none of which changes which slots are visited; the model is   *)
(* one body for all of them (the rows themselves are in Generator).        *)
(*                                                                         *)
(* An entry is "NonPtr" when its tag is not a pointer tag, "Null" when it  *)
(* is a pointer entry holding null and "Ref" when it holds a reference.    *)
(* visits[k] and fieldVisits[f] count the operator calls on pool slot k   *)
(* and on instance variable f.  The                                        *)
(* verifier call and remap_only change none of these and are part of the  *)
(* entry step.                                                             *)
(***************************************************************************)
EXTENDS Integers, TLAPS

CONSTANT MaxPoolLen   \* largest pool length the model tries

ASSUME PoolLenAssumption == MaxPoolLen \in Nat

EntryKinds == {"NonPtr", "Null", "Ref"}

PoolIdx == 0 .. (MaxPoolLen - 1)

\* The instance variables visited after the entries.
CPFields == {"tags", "cache", "pool_holder"}

VARIABLES
  len,       \* cp->length()
  tagsNull,  \* cp->tags() == NULL: the pool is still being allocated
  entry,     \* entry[k]: the tag and content of pool entry k
  i,         \* the loop index
  base,      \* the slot pointer, as an offset from cp->base()
  pc,        \* where the body is
  visits,      \* visits[k]: operator calls on pool slot k
  fieldVisits  \* fieldVisits[f]: operator calls on instance variable f

vars == <<len, tagsNull, entry, i, base, pc, visits, fieldVisits>>

IsPointerEntry(k) == entry[k] \in {"Null", "Ref"}

Init ==
  /\ len \in 0 .. MaxPoolLen
  /\ tagsNull \in BOOLEAN
  /\ entry \in {e \in [PoolIdx -> EntryKinds] : \A k \in PoolIdx : k >= len => e[k] = "NonPtr"}
  /\ i = 0
  /\ base = 0
  /\ pc = "Entry"
  /\ visits = [k \in PoolIdx |-> 0]
  /\ fieldVisits = [f \in CPFields |-> 0]

(***************************************************************************)
(* The optional verifier, the test cp->tags() != NULL, the optional        *)
(* remap_only of the tags and the setting of base: the loop is skipped     *)
(* while the tags array is missing.                                        *)
(***************************************************************************)
Enter ==
  /\ pc = "Entry"
  /\ pc' = IF tagsNull THEN "Fields" ELSE "Loop"
  /\ UNCHANGED <<len, tagsNull, entry, i, base, visits, fieldVisits>>

\* Mutant: the loop runs while i <= cp->length().
VisitEntryInclusive ==
  /\ pc = "Loop"
  /\ i <= len
  /\ visits' = IF IsPointerEntry(i) /\ entry[base] = "Ref"
                 THEN [visits EXCEPT ![base] = @ + 1] ELSE visits
  /\ i' = i + 1
  /\ base' = base + 1
  /\ UNCHANGED <<len, tagsNull, entry, pc, fieldVisits>>

\* Mutant: base++ only for pointer entries.
VisitEntryAdvanceOnPointer ==
  /\ pc = "Loop"
  /\ i < len
  /\ visits' = IF IsPointerEntry(i) /\ entry[base] = "Ref"
                 THEN [visits EXCEPT ![base] = @ + 1] ELSE visits
  /\ i' = i + 1
  /\ base' = IF IsPointerEntry(i) THEN base + 1 ELSE base
  /\ UNCHANGED <<len, tagsNull, entry, pc, fieldVisits>>

(***************************************************************************)
(* for (i = 0; i < cp->length(); i++) { if (is_pointer_entry(i)) {        *)
(*   if (base->not_null()) operator(base); } base++; }                     *)
(***************************************************************************)
VisitEntry ==
  /\ pc = "Loop"
  /\ i < len
  /\ visits' = IF IsPointerEntry(i) /\ entry[base] = "Ref"
                 THEN [visits EXCEPT ![base] = @ + 1] ELSE visits
  /\ i' = i + 1
  /\ base' = base + 1
  /\ UNCHANGED <<len, tagsNull, entry, pc, fieldVisits>>

EndLoop ==
  /\ pc = "Loop"
  /\ i >= len
  /\ pc' = "Fields"
  /\ UNCHANGED <<len, tagsNull, entry, i, base, visits, fieldVisits>>

\* Mutant: the instance variables are visited only when the tags exist.
VisitFieldsIfTags ==
  /\ pc = "Fields"
  /\ fieldVisits' = IF tagsNull THEN fieldVisits ELSE [f \in CPFields |-> fieldVisits[f] + 1]
  /\ pc' = "Done"
  /\ UNCHANGED <<len, tagsNull, entry, i, base, visits>>

\* operator(tags_addr); operator(cache_addr); operator(pool_holder_addr).
VisitFields ==
  /\ pc = "Fields"
  /\ fieldVisits' = [f \in CPFields |-> fieldVisits[f] + 1]
  /\ pc' = "Done"
  /\ UNCHANGED <<len, tagsNull, entry, i, base, visits>>

Terminated == pc = "Done" /\ UNCHANGED vars

Next == Enter \/ VisitEntry \/ EndLoop \/ VisitFields \/ Terminated

Spec == Init /\ [][Next]_vars

-----------------------------------------------------------------------------
(* Properties *)

TypeOK ==
  /\ len \in 0 .. MaxPoolLen
  /\ tagsNull \in BOOLEAN
  /\ entry \in [PoolIdx -> EntryKinds]
  /\ i \in 0 .. len
  /\ base \in 0 .. len
  /\ pc \in {"Entry", "Loop", "Fields", "Done"}
  /\ visits \in [PoolIdx -> Nat]
  /\ fieldVisits \in [CPFields -> Nat]

(***************************************************************************)
(* When the constant-pool body returns, every pointer entry holding a      *)
(* reference was visited once and no other slot was, unless the tags array *)
(* was missing, in which case no slot was; and the instance variables      *)
(* tags, cache and pool_holder were visited once each in every case (the   *)
(* generator's departure, noted at line 230, from the original body that   *)
(* visited them only when the tags existed).                               *)
(***************************************************************************)
PoolVisitsExact ==
  pc = "Done" =>
    /\ \A k \in PoolIdx :
         visits[k] = IF ~tagsNull /\ entry[k] = "Ref" THEN 1 ELSE 0
    /\ \A f \in CPFields : fieldVisits[f] = 1

-----------------------------------------------------------------------------
(* Proofs *)

\* The slots before n that hold a reference have been visited once, no other.
Counted(n) ==
  \A k \in PoolIdx : visits[k] = IF k < n /\ entry[k] = "Ref" THEN 1 ELSE 0

\* Every instance variable has been visited n times.
FieldsAt(n) == \A f \in CPFields : fieldVisits[f] = n

\* The entries past the pool's length carry no pointer tag.
NoTail == \A k \in PoolIdx : k >= len => entry[k] = "NonPtr"

(***************************************************************************)
(* The loop invariant: i and base move together, and the slots before them *)
(* are exactly those visited; the loop is entered only with the tags.      *)
(***************************************************************************)
IInv ==
  /\ TypeOK
  /\ NoTail
  /\ pc = "Entry" => i = 0 /\ base = 0 /\ Counted(0) /\ FieldsAt(0)
  /\ pc = "Loop" => ~tagsNull /\ base = i /\ Counted(i) /\ FieldsAt(0)
  /\ pc = "Fields" => Counted(IF tagsNull THEN 0 ELSE len) /\ FieldsAt(0)
  /\ pc = "Done" => Counted(IF tagsNull THEN 0 ELSE len) /\ FieldsAt(1)

\* The loop invariant holds initially.
LEMMA PoolInitInv == Init => IInv
BY PoolLenAssumption DEF Init, IInv, TypeOK, NoTail, Counted, FieldsAt, PoolIdx

\* Every step of the constant-pool body preserves the loop invariant.
LEMMA PoolStepInv == IInv /\ [Next]_vars => IInv'
<1> SUFFICES ASSUME IInv, [Next]_vars PROVE IInv'
  OBVIOUS
<1>1. CASE Enter
  BY <1>1 DEF IInv, TypeOK, NoTail, Counted, FieldsAt, Enter
<1>2. CASE VisitEntry
  <2>1. i \in PoolIdx /\ base = i /\ ~tagsNull
    BY <1>2, PoolLenAssumption DEF IInv, TypeOK, VisitEntry, PoolIdx
  <2>2. TypeOK' /\ NoTail'
    BY <1>2, <2>1 DEF IInv, TypeOK, NoTail, VisitEntry, IsPointerEntry
  <2>3. Counted(i)'
    BY <1>2, <2>1, PoolLenAssumption DEF IInv, TypeOK, Counted, VisitEntry, IsPointerEntry, PoolIdx
  <2>4. pc' = "Loop" /\ base' = i' /\ ~tagsNull' /\ FieldsAt(0)'
    BY <1>2, <2>1 DEF IInv, VisitEntry, FieldsAt
  <2>5. QED
    BY <2>2, <2>3, <2>4 DEF IInv
<1>3. CASE EndLoop
  BY <1>3 DEF IInv, TypeOK, NoTail, Counted, FieldsAt, EndLoop
<1>4. CASE VisitFields
  BY <1>4 DEF IInv, TypeOK, NoTail, Counted, FieldsAt, VisitFields
<1>5. CASE Terminated \/ UNCHANGED vars
  BY <1>5 DEF IInv, TypeOK, NoTail, Counted, FieldsAt, Terminated, vars
<1>6. QED
  BY <1>1, <1>2, <1>3, <1>4, <1>5 DEF Next

(***************************************************************************)
(* For every pool length, every mix of entries and tags present or not,    *)
(* the constant-pool body visits exactly the pointer entries that hold a   *)
(* reference, none when the tags are missing, and each of tags, cache and  *)
(* pool_holder once.                                                       *)
(***************************************************************************)
THEOREM PoolVisitsExactHolds == Spec => []PoolVisitsExact
<1>1. IInv => PoolVisitsExact
  BY DEF IInv, PoolVisitsExact, Counted, FieldsAt, NoTail, TypeOK, PoolIdx
<1>2. QED
  BY <1>1, PoolInitInv, PoolStepInv, PTL DEF Spec

(***************************************************************************)
(* For every bound on the length, the constant-pool body keeps its loop    *)
(* index and its slot pointer within 0 .. len, and every visit count a     *)
(* natural number over the pool slots and the three instance variables.    *)
(***************************************************************************)
THEOREM PoolTypeCorrect == Spec => []TypeOK
<1>1. IInv => TypeOK
  BY DEF IInv
<1>2. QED
  BY <1>1, PoolInitInv, PoolStepInv, PTL DEF Spec

=============================================================================
