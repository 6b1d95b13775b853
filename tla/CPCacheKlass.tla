----------------------------- MODULE CPCacheKlass -----------------------------
(***************************************************************************)
(* The body that oopClosures.py emits for the constantPoolCacheKlass       *)
(* template (lines 273-285), run on one constant-pool cache of len         *)
(* entries, together with the ConstantPoolCacheEntry body (lines 328-343)  *)
(* it calls on every entry: the back pointer constant_pool is visited,     *)
(* then the entries from the last down to the first, each visiting its     *)
(* _f1 always and its _f2 when the entry is_vfinal().  The five full-body  *)
(* rows of constantPoolCacheKlass_generate and the five rows of            *)
(* constantPoolCacheEntry_generate differ only in the operator and in the  *)
(* klassId argument, which Generator checks; they visit the same slots.    *)
(***************************************************************************)
EXTENDS Integers, TLAPS

CONSTANT MaxEntries   \* largest cache length the model tries

ASSUME EntriesAssumption == MaxEntries \in Nat

EntryIdx == 0 .. (MaxEntries - 1)

VARIABLES
  len,         \* cache->length()
  vfinal,      \* vfinal[e]: entry e is_vfinal()
  i,           \* the loop counter of while (i-- > 0)
  pc,          \* where the body is
  poolVisits,  \* operator calls on cache->constant_pool_addr()
  f1Visits,    \* f1Visits[e]: operator calls on _f1 of entry e
  f2Visits     \* f2Visits[e]: operator calls on _f2 of entry e

vars == <<len, vfinal, i, pc, poolVisits, f1Visits, f2Visits>>

Init ==
  /\ len \in 0 .. MaxEntries
  /\ vfinal \in [EntryIdx -> BOOLEAN]
  /\ i = 0
  /\ pc = "Entry"
  /\ poolVisits = 0
  /\ f1Visits = [e \in EntryIdx |-> 0]
  /\ f2Visits = [e \in EntryIdx |-> 0]

\* operator(cache->constant_pool_addr()); int i = cache->length();
Enter ==
  /\ pc = "Entry"
  /\ poolVisits' = poolVisits + 1
  /\ i' = len
  /\ pc' = "Loop"
  /\ UNCHANGED <<len, vfinal, f1Visits, f2Visits>>

\* ConstantPoolCacheEntry body: operator(&_f1); if (is_vfinal()) operator(&_f2);
EntryOperator(e) ==
  /\ f1Visits' = [f1Visits EXCEPT ![e] = @ + 1]
  /\ f2Visits' = IF vfinal[e] THEN [f2Visits EXCEPT ![e] = @ + 1] ELSE f2Visits

\* Mutant: the entry is taken at the counter's value before the decrement.
VisitEntryOldIndex ==
  /\ pc = "Loop"
  /\ i > 0
  /\ i' = i - 1
  /\ f1Visits' = [f1Visits EXCEPT ![i] = @ + 1]
  /\ f2Visits' = IF i \in EntryIdx /\ vfinal[i] THEN [f2Visits EXCEPT ![i] = @ + 1] ELSE f2Visits
  /\ UNCHANGED <<len, vfinal, pc, poolVisits>>

\* Mutant: while (i-- >= 0).
VisitEntryInclusive ==
  /\ pc = "Loop"
  /\ i >= 0
  /\ i' = i - 1
  /\ f1Visits' = [f1Visits EXCEPT ![i - 1] = @ + 1]
  /\ f2Visits' = IF i - 1 \in EntryIdx /\ vfinal[i - 1] THEN [f2Visits EXCEPT ![i - 1] = @ + 1] ELSE f2Visits
  /\ UNCHANGED <<len, vfinal, pc, poolVisits>>

\* while (i-- > 0) cache->entry_at(i)->entry_operator(...);
VisitEntry ==
  /\ pc = "Loop"
  /\ i > 0
  /\ i' = i - 1
  /\ EntryOperator(i - 1)
  /\ UNCHANGED <<len, vfinal, pc, poolVisits>>

\* The test i-- > 0 fails, and still decrements the counter.
EndLoop ==
  /\ pc = "Loop"
  /\ i <= 0
  /\ i' = i - 1
  /\ pc' = "Done"
  /\ UNCHANGED <<len, vfinal, poolVisits, f1Visits, f2Visits>>

Terminated == pc = "Done" /\ UNCHANGED vars

Next == Enter \/ VisitEntry \/ EndLoop \/ Terminated

Spec == Init /\ [][Next]_vars

-----------------------------------------------------------------------------
(* Properties *)

TypeOK ==
  /\ len \in 0 .. MaxEntries
  /\ vfinal \in [EntryIdx -> BOOLEAN]
  /\ i \in -1 .. len
  /\ pc \in {"Entry", "Loop", "Done"}
  /\ poolVisits \in Nat
  /\ f1Visits \in [EntryIdx -> Nat]
  /\ f2Visits \in [EntryIdx -> Nat]

(***************************************************************************)
(* When the cache body returns, the constant_pool back pointer was visited *)
(* once, and each entry of the cache, the first included, had its _f1      *)
(* visited once and its _f2 visited once exactly when it is vfinal; no     *)
(* entry past the end was touched.  This is what the post-decrement of     *)
(* while (i-- > 0) must get right at both ends.                            *)
(***************************************************************************)
CacheVisitsExact ==
  pc = "Done" =>
    /\ poolVisits = 1
    /\ \A e \in EntryIdx :
         /\ f1Visits[e] = IF e < len THEN 1 ELSE 0
         /\ f2Visits[e] = IF e < len /\ vfinal[e] THEN 1 ELSE 0

-----------------------------------------------------------------------------
(* Proofs *)

(***************************************************************************)
(* The loop invariant of while (i-- > 0): while the loop runs, exactly the *)
(* entries i .. len-1 have been visited; after it, all of 0 .. len-1.      *)
(***************************************************************************)
Visited(from) ==
  \A e \in EntryIdx :
    /\ f1Visits[e] = IF from <= e /\ e < len THEN 1 ELSE 0
    /\ f2Visits[e] = IF from <= e /\ e < len /\ vfinal[e] THEN 1 ELSE 0

IInv ==
  /\ TypeOK
  /\ pc = "Entry" => poolVisits = 0 /\ Visited(len)
  /\ pc = "Loop" => poolVisits = 1 /\ i \in 0 .. len /\ Visited(i)
  /\ pc = "Done" => poolVisits = 1 /\ Visited(0)

\* The loop invariant holds initially.
LEMMA CacheInitInv == Init => IInv
BY EntriesAssumption DEF Init, IInv, TypeOK, Visited, EntryIdx

\* Every step of the cache body preserves the loop invariant.
LEMMA CacheStepInv == IInv /\ [Next]_vars => IInv'
<1> SUFFICES ASSUME IInv, [Next]_vars PROVE IInv'
  OBVIOUS
<1>1. CASE Enter
  BY <1>1, EntriesAssumption DEF IInv, TypeOK, Visited, Enter
<1>2. CASE VisitEntry
  <2>1. i - 1 \in EntryIdx /\ len <= MaxEntries
    BY <1>2, EntriesAssumption DEF IInv, TypeOK, VisitEntry, EntryIdx
  <2>2. TypeOK'
    BY <1>2, <2>1 DEF IInv, TypeOK, VisitEntry, EntryOperator
  <2>3. Visited(i)'
    BY <1>2, <2>1, EntriesAssumption DEF IInv, TypeOK, Visited, VisitEntry, EntryOperator, EntryIdx
  <2>4. pc' = "Loop" /\ poolVisits' = 1 /\ i' \in 0 .. len'
    BY <1>2 DEF IInv, TypeOK, VisitEntry
  <2>5. QED
    BY <2>2, <2>3, <2>4 DEF IInv
<1>3. CASE EndLoop
  BY <1>3 DEF IInv, TypeOK, Visited, EndLoop
<1>4. CASE Terminated \/ UNCHANGED vars
  BY <1>4 DEF IInv, TypeOK, Visited, Terminated, vars
<1>5. QED
  BY <1>1, <1>2, <1>3, <1>4 DEF Next

(***************************************************************************)
(* For every cache length, every vfinal pattern and every bound on the     *)
(* length, the cache body visits the back pointer once, every entry's _f1  *)
(* once and its _f2 once exactly when it is vfinal.                        *)
(***************************************************************************)
THEOREM CacheVisitsExactHolds == Spec => []CacheVisitsExact
<1>1. IInv => CacheVisitsExact
  BY DEF IInv, CacheVisitsExact, Visited, EntryIdx
<1>2. QED
  BY <1>1, CacheInitInv, CacheStepInv, PTL DEF Spec

(***************************************************************************)
(* For every bound on the length, the cache body keeps its loop counter    *)
(* within -1 .. len (the final failing i-- leaves it at -1) and every      *)
(* visit count a natural number over the entries of the cache.             *)
(***************************************************************************)
THEOREM CacheTypeCorrect == Spec => []TypeOK
<1>1. IInv => TypeOK
  BY DEF IInv
<1>2. QED
  BY <1>1, CacheInitInv, CacheStepInv, PTL DEF Spec

=============================================================================
