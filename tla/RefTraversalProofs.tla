------------------------- MODULE RefTraversalProofs -------------------------
(***************************************************************************)
(* Proofs that every instanceRefKlass body of RefTraversal, for every      *)
(* bound on the oop maps, obeys the collector's verdict on the referent,   *)
(* and follows the instance fields exactly once, returning to its call     *)
(* site.                                                                   *)
(***************************************************************************)
EXTENDS RefTraversal, SequenceTheorems, TLAPS

\* The statements of the reference body before instanceKlass::<name>.
PreCall == {"Load", "Test", "ReturnEarly", "Referent", "Next", "Instance"}

\* The statements of the instanceKlass body after map is initialised.
InLoops == {"IMaps", "ISlots", "Returned", "Done"}

(***************************************************************************)
(* Slot s has been passed by the oop-map loops: its block is behind the    *)
(* block cursor, or it is behind the slot cursor of the current block.     *)
(***************************************************************************)
Passed(s) == s[1] < map \/ (pc = "ISlots" /\ s[1] = map /\ s[2] < start)

\* What the reference body has done with the referent so far.
RefInv ==
  /\ pc \in {"Load", "Test"} => verdict = "none" /\ visits["referent"] = 0
  /\ pc = "Referent" => visits["referent"] = 0 /\ verdict # "defer"
  /\ pc \notin {"Load", "Test", "Referent"} =>
       /\ visits["referent"] <= 1
       /\ verdict = "defer" => visits["referent"] = 0
       /\ verdict = "normal" => visits["referent"] = 1

(***************************************************************************)
(* What the instanceKlass body has done so far: nothing before the call;   *)
(* after it one call, the header followed once the loops start, the        *)
(* cursors inside the oop maps, and exactly the passed non-null slots      *)
(* visited once each.                                                      *)
(***************************************************************************)
InstInv ==
  /\ pc \in PreCall \cup {"IEntry"} =>
       /\ headerFollows = 0
       /\ slotVisits = [s \in AllSlots |-> 0]
  /\ pc \in PreCall => instanceCalls = 0
  /\ pc \notin PreCall => instanceCalls = 1
  /\ pc \in InLoops =>
       /\ headerFollows = IF FollowsHeader[variant] THEN 1 ELSE 0
       /\ map \in 1 .. Len(oopMaps) + 1
       /\ \A s \in AllSlots :
            slotVisits[s] = IF s \in InstSlots \ nullSlots /\ Passed(s) THEN 1 ELSE 0
  /\ pc = "ISlots" => map \in 1 .. Len(oopMaps) /\ start <= oopMaps[map]
  /\ pc \in {"Returned", "Done"} => map = Len(oopMaps) + 1

(***************************************************************************)
(* The inductive invariant.  InstanceFieldsOnce alone is not inductive: it *)
(* says nothing before Done, so it needs what the loops have visited at    *)
(* every cursor position; likewise for the referent before Done.          *)
(***************************************************************************)
IInv ==
  /\ TypeOK
  /\ RefInv
  /\ InstInv

-----------------------------------------------------------------------------
USE BoundsAssumption

\* A possible oop map is a sequence of block lengths, at most MaxBlocks long.
LEMMA OopMapsSeq ==
  ASSUME NEW m \in OopMaps
  PROVE  /\ m \in Seq(0 .. MaxBlockLen)
         /\ Len(m) \in 0 .. MaxBlocks
         /\ DOMAIN m = 1 .. Len(m)
<1>1. PICK n \in 0 .. MaxBlocks : m \in [1 .. n -> 0 .. MaxBlockLen]
  BY DEF OopMaps
<1>2. m \in Seq(0 .. MaxBlockLen)
  BY <1>1, SeqDef
<1>3. Len(m) = n
  BY <1>1, <1>2, LenProperties
<1> QED
  BY <1>1, <1>2, <1>3

(***************************************************************************)
(* A slot of the instance is a pair <<block, index>> inside the oop maps,  *)
(* and every such pair is one of AllSlots.                                 *)
(***************************************************************************)
LEMMA InstSlotsChar ==
  ASSUME oopMaps \in OopMaps, NEW s
  PROVE  s \in InstSlots <=>
           /\ s \in AllSlots
           /\ s[1] \in 1 .. Len(oopMaps)
           /\ s[2] \in 0 .. (oopMaps[s[1]] - 1)
<1>1. /\ oopMaps \in Seq(0 .. MaxBlockLen)
      /\ Len(oopMaps) \in 0 .. MaxBlocks
      /\ DOMAIN oopMaps = 1 .. Len(oopMaps)
  BY OopMapsSeq
<1>2. \A b \in 1 .. Len(oopMaps) : oopMaps[b] \in 0 .. MaxBlockLen
  BY <1>1, ElementOfSeq
<1> QED
  BY <1>1, <1>2 DEF InstSlots, AllSlots

\* Counting one more visit of x keeps a map of visit counters a map of counters.
LEMMA CountStep ==
  ASSUME NEW D, NEW f \in [D -> Nat], NEW x
  PROVE  [f EXCEPT ![x] = f[x] + 1] \in [D -> Nat]
<1>1. CASE x \in D
  BY <1>1
<1>2. CASE x \notin D
  <2>1. [f EXCEPT ![x] = f[x] + 1] = f
    BY <1>2, Zenon
  <2> QED
    BY <2>1
<1> QED
  BY <1>1, <1>2

\* The variables every action leaves alone, and the slots they determine.
LEMMA FrameStep ==
  ASSUME [Next]_vars
  PROVE  /\ UNCHANGED <<variant, oopMaps, nullSlots>>
         /\ InstSlots' = InstSlots
<1>1. UNCHANGED <<variant, oopMaps, nullSlots>>
  BY DEF Next, RefBody, InstanceBody, LoadAll, LoadNull, LoadNonNull,
         TestDiscover, TestMarkThrough, VisitReferent, VisitNext, CallInstance,
         Return, IEnter, IMapNext, IMapsDone, IVisitSlot, ISkipNull,
         IBlockDone, Terminated, refVars, vars
<1> QED
  BY <1>1 DEF InstSlots

\* The facts about the oop maps a typed state gives.
LEMMA TypedMaps ==
  ASSUME TypeOK
  PROVE  /\ Len(oopMaps) \in 0 .. MaxBlocks
         /\ DOMAIN oopMaps = 1 .. Len(oopMaps)
         /\ \A b \in 1 .. Len(oopMaps) : oopMaps[b] \in 0 .. MaxBlockLen
<1>1. oopMaps \in Seq(0 .. MaxBlockLen) /\ Len(oopMaps) \in 0 .. MaxBlocks
      /\ DOMAIN oopMaps = 1 .. Len(oopMaps)
  BY OopMapsSeq DEF TypeOK
<1> QED
  BY <1>1, ElementOfSeq

\* Every step keeps the variables in their types.
LEMMA TypeStep == TypeOK /\ [Next]_vars => TypeOK'
<1> SUFFICES ASSUME TypeOK, [Next]_vars PROVE TypeOK'
  OBVIOUS
<1>0. UNCHANGED <<variant, oopMaps, nullSlots>> /\ InstSlots' = InstSlots
  BY FrameStep
<1> USE <1>0 DEF TypeOK
<1>1. CASE LoadAll \/ LoadNull \/ LoadNonNull \/ CallInstance \/ Return
  BY <1>1 DEF LoadAll, LoadNull, LoadNonNull, CallInstance, Return, refVars
<1>2a. CASE TestDiscover \/ TestMarkThrough
  BY <1>2a DEF TestDiscover, TestMarkThrough
<1>2b. CASE VisitReferent
  BY <1>2b DEF VisitReferent, Fields
<1>2c. CASE VisitNext
  BY <1>2c DEF VisitNext, Fields
<1>2. CASE IEnter \/ IMapNext \/ IMapsDone \/ ISkipNull \/ IBlockDone
  BY <1>2 DEF IEnter, IMapNext, IMapsDone, ISkipNull, IBlockDone, refVars
<1>3. CASE IVisitSlot
  <2>1. slotVisits' \in [AllSlots -> Nat]
    BY <1>3, CountStep DEF IVisitSlot
  <2> QED
    BY <1>3, <2>1 DEF IVisitSlot, refVars
<1>4. CASE Terminated \/ UNCHANGED vars
  BY <1>4 DEF Terminated, vars
<1> QED
  BY <1>1, <1>2a, <1>2b, <1>2c, <1>2, <1>3, <1>4 DEF Next, RefBody, InstanceBody

(***************************************************************************)
(* Every step keeps RefInv: the referent is visited only from "Referent",  *)
(* which is reached with a verdict that is not "defer", and only once.     *)
(***************************************************************************)
LEMMA RefStep == TypeOK /\ RefInv /\ [Next]_vars => RefInv'
<1> SUFFICES ASSUME TypeOK, RefInv, [Next]_vars PROVE RefInv'
  OBVIOUS
<1> USE DEF RefInv
<1>1. CASE LoadAll \/ LoadNull \/ LoadNonNull
  BY <1>1 DEF LoadAll, LoadNull, LoadNonNull, refVars
<1>2. CASE TestDiscover \/ TestMarkThrough
  BY <1>2 DEF TestDiscover, TestMarkThrough
<1>3. CASE VisitReferent
  BY <1>3 DEF VisitReferent, TypeOK, Fields
<1>4. CASE VisitNext
  BY <1>4 DEF VisitNext, TypeOK, Fields
<1>5. CASE CallInstance \/ Return
  BY <1>5 DEF CallInstance, Return, refVars
<1>6. CASE InstanceBody
  BY <1>6 DEF InstanceBody, IEnter, IMapNext, IMapsDone, IVisitSlot,
              ISkipNull, IBlockDone, refVars
<1>7. CASE Terminated \/ UNCHANGED vars
  BY <1>7 DEF Terminated, vars
<1> QED
  BY <1>1, <1>2, <1>3, <1>4, <1>5, <1>6, <1>7 DEF Next, RefBody

\* A slot is a pair of its block and its index.
LEMMA SlotPair ==
  ASSUME NEW s \in AllSlots
  PROVE  /\ s = <<s[1], s[2]>>
         /\ s[1] \in 1 .. MaxBlocks
         /\ s[2] \in 0 .. MaxBlockLen - 1
BY DEF AllSlots

(***************************************************************************)
(* IVisitSlot counts the visit of the slot under the cursor, which was not *)
(* passed yet and is now, and of no other slot.                            *)
(***************************************************************************)
LEMMA VisitSlotStep ==
  ASSUME TypeOK, InstInv, IVisitSlot
  PROVE  InstInv'
<1>0. /\ UNCHANGED <<variant, oopMaps, nullSlots>> /\ InstSlots' = InstSlots
      /\ Len(oopMaps) \in 0 .. MaxBlocks
      /\ \A b \in 1 .. Len(oopMaps) : oopMaps[b] \in 0 .. MaxBlockLen
  BY FrameStep, TypedMaps DEF IVisitSlot, Next, InstanceBody
<1>1. /\ pc = "ISlots" /\ pc' = "ISlots"
      /\ map \in 1 .. Len(oopMaps) /\ map' = map
      /\ start \in 0 .. oopMaps[map] - 1 /\ start' = start + 1
      /\ <<map, start>> \notin nullSlots
      /\ UNCHANGED <<instanceCalls, headerFollows>>
  <2>1. pc = "ISlots" /\ start < oopMaps[map] /\ <<map, start>> \notin nullSlots
    BY DEF IVisitSlot
  <2>2. map \in 1 .. Len(oopMaps) /\ start \in Nat
    BY <2>1 DEF InstInv, TypeOK
  <2>3. UNCHANGED <<pc, map, instanceCalls, headerFollows>> /\ start' = start + 1
    BY DEF IVisitSlot, refVars
  <2> QED
    BY <1>0, <2>1, <2>2, <2>3
<1>2. <<map, start>> \in AllSlots /\ <<map, start>> \in InstSlots
  <2>1. oopMaps[map] \in 0 .. MaxBlockLen
    BY <1>0, <1>1
  <2>2. <<map, start>> \in AllSlots
    BY <1>0, <1>1, <2>1 DEF AllSlots
  <2>3. oopMaps \in OopMaps
    BY DEF TypeOK
  <2> QED
    BY <1>1, <2>2, <2>3, InstSlotsChar
<1>3. ASSUME NEW s \in AllSlots
      PROVE  slotVisits'[s] = IF s \in InstSlots' \ nullSlots' /\ Passed(s)'
                                THEN 1 ELSE 0
  <2>0. s = <<s[1], s[2]>> /\ s[1] \in Nat /\ s[2] \in Nat
    BY SlotPair
  <2>1. CASE s = <<map, start>>
    <3>1. slotVisits[s] = 0
      BY <1>1, <2>1 DEF InstInv, InLoops, Passed
    <3>2. slotVisits'[s] = slotVisits[s] + 1
      BY <1>2, <2>1 DEF IVisitSlot, TypeOK
    <3> QED
      BY <1>0, <1>1, <1>2, <2>1, <3>1, <3>2 DEF Passed
  <2>2. CASE s # <<map, start>>
    <3>1. slotVisits'[s] = slotVisits[s]
      BY <2>2 DEF IVisitSlot, TypeOK
    <3>2. Passed(s)' <=> Passed(s)
      BY <1>1, <2>0, <2>2 DEF Passed
    <3> QED
      BY <1>0, <1>1, <3>1, <3>2 DEF InstInv, InLoops
  <2> QED
    BY <2>1, <2>2
<1> QED
  BY <1>0, <1>1, <1>3 DEF InstInv, InLoops, PreCall, IVisitSlot

(***************************************************************************)
(* ISkipNull passes the null slot under the cursor without a visit; the    *)
(* slot is null, so the visited slots stay the passed non-null ones.       *)
(***************************************************************************)
LEMMA SkipNullStep ==
  ASSUME TypeOK, InstInv, ISkipNull
  PROVE  InstInv'
<1>0. /\ UNCHANGED <<variant, oopMaps, nullSlots>> /\ InstSlots' = InstSlots
      /\ \A b \in 1 .. Len(oopMaps) : oopMaps[b] \in 0 .. MaxBlockLen
  BY FrameStep, TypedMaps DEF ISkipNull, Next, InstanceBody
<1>1. /\ pc = "ISlots" /\ map \in 1 .. Len(oopMaps) /\ start \in Nat
      /\ start < oopMaps[map] /\ <<map, start>> \in nullSlots
      /\ UNCHANGED <<pc, map, instanceCalls, headerFollows, slotVisits>>
      /\ start' = start + 1
  BY DEF ISkipNull, InstInv, TypeOK, refVars
<1>2. ASSUME NEW s \in AllSlots
      PROVE  slotVisits'[s] = IF s \in InstSlots' \ nullSlots' /\ Passed(s)'
                                THEN 1 ELSE 0
  <2>0. s = <<s[1], s[2]>> /\ s[1] \in Nat /\ s[2] \in Nat
    BY SlotPair
  <2>1. CASE s = <<map, start>>
    BY <1>0, <1>1, <2>1 DEF InstInv, InLoops, Passed
  <2>2. CASE s # <<map, start>>
    <3>1. Passed(s)' <=> Passed(s)
      BY <1>1, <2>0, <2>2 DEF Passed
    <3> QED
      BY <1>0, <1>1, <3>1 DEF InstInv, InLoops
  <2> QED
    BY <2>1, <2>2
<1> QED
  BY <1>0, <1>1, <1>2 DEF InstInv, InLoops, PreCall

(***************************************************************************)
(* IBlockDone leaves a block whose every slot has been passed: the slot    *)
(* cursor stands at the block's end, so moving the block cursor passes no  *)
(* new slot.                                                               *)
(***************************************************************************)
LEMMA BlockDoneStep ==
  ASSUME TypeOK, InstInv, IBlockDone
  PROVE  InstInv'
<1>0. /\ UNCHANGED <<variant, oopMaps, nullSlots>> /\ InstSlots' = InstSlots
      /\ \A b \in 1 .. Len(oopMaps) : oopMaps[b] \in 0 .. MaxBlockLen
  BY FrameStep, TypedMaps DEF IBlockDone, Next, InstanceBody
<1>1. /\ pc = "ISlots" /\ pc' = "IMaps"
      /\ map \in 1 .. Len(oopMaps) /\ map' = map + 1
      /\ start = oopMaps[map]
      /\ UNCHANGED <<instanceCalls, headerFollows, slotVisits>>
  BY <1>0 DEF IBlockDone, InstInv, TypeOK, refVars
<1>2. ASSUME NEW s \in AllSlots
      PROVE  slotVisits'[s] = IF s \in InstSlots' \ nullSlots' /\ Passed(s)'
                                THEN 1 ELSE 0
  <2>0. s = <<s[1], s[2]>> /\ s[1] \in Nat /\ s[2] \in Nat
    BY SlotPair
  <2>1. s \in InstSlots => (Passed(s)' <=> Passed(s))
    <3> SUFFICES ASSUME s \in InstSlots PROVE Passed(s)' <=> Passed(s)
      OBVIOUS
    <3>1. oopMaps \in OopMaps
      BY DEF TypeOK
    <3>2. s[2] \in 0 .. oopMaps[s[1]] - 1
      BY <3>1, InstSlotsChar
    <3> QED
      BY <1>0, <1>1, <2>0, <3>2 DEF Passed
  <2> QED
    BY <1>0, <1>1, <2>1 DEF InstInv, InLoops
<1> QED
  BY <1>0, <1>1, <1>2 DEF InstInv, InLoops, PreCall

(***************************************************************************)
(* Every step keeps InstInv: the reference body does not touch the         *)
(* instanceKlass state, CallInstance enters it once, and the loop actions  *)
(* keep the visited slots equal to the passed non-null ones.               *)
(***************************************************************************)
LEMMA InstStep == TypeOK /\ InstInv /\ [Next]_vars => InstInv'
<1> SUFFICES ASSUME TypeOK, InstInv, [Next]_vars PROVE InstInv'
  OBVIOUS
<1>0. /\ UNCHANGED <<variant, oopMaps, nullSlots>> /\ InstSlots' = InstSlots
      /\ Len(oopMaps) \in 0 .. MaxBlocks
      /\ \A b \in 1 .. Len(oopMaps) : oopMaps[b] \in 0 .. MaxBlockLen
  BY FrameStep, TypedMaps
<1>1. CASE LoadAll \/ LoadNull \/ LoadNonNull \/ TestDiscover
           \/ TestMarkThrough \/ VisitReferent \/ VisitNext
  BY <1>1 DEF LoadAll, LoadNull, LoadNonNull, TestDiscover, TestMarkThrough,
              VisitReferent, VisitNext, refVars, InstInv, PreCall, InLoops
<1>2. CASE CallInstance
  BY <1>2 DEF CallInstance, refVars, InstInv, PreCall, InLoops
<1>2r. CASE Return
  <2>1. \A s \in AllSlots : Passed(s)' <=> Passed(s)
    BY <1>2r DEF Return, Passed
  <2> QED
    BY <1>0, <1>2r, <2>1 DEF Return, refVars, InstInv, PreCall, InLoops
<1>3. CASE IEnter
  <2>1. \A s \in AllSlots : ~(Passed(s)')
    BY <1>3, SlotPair DEF IEnter, Passed
  <2> QED
    BY <1>0, <1>3, <2>1 DEF IEnter, refVars, InstInv, PreCall, InLoops
<1>4. CASE IMapNext
  <2>1. \A s \in AllSlots : Passed(s)' <=> Passed(s)
    BY <1>4, SlotPair DEF IMapNext, refVars, Passed
  <2> QED
    BY <1>0, <1>4, <2>1 DEF IMapNext, refVars, InstInv, PreCall, InLoops, TypeOK
<1>5. CASE IMapsDone
  <2>1. \A s \in AllSlots : Passed(s)' <=> Passed(s)
    BY <1>5 DEF IMapsDone, refVars, Passed
  <2> QED
    BY <1>0, <1>5, <2>1 DEF IMapsDone, refVars, InstInv, PreCall, InLoops
<1>6. CASE IVisitSlot
  BY <1>6, VisitSlotStep
<1>7. CASE ISkipNull
  BY <1>7, SkipNullStep
<1>8. CASE IBlockDone
  BY <1>8, BlockDoneStep
<1>9. CASE Terminated \/ UNCHANGED vars
  <2>1. \A s \in AllSlots : Passed(s)' <=> Passed(s)
    BY <1>9 DEF Terminated, vars, Passed
  <2> QED
    BY <1>0, <1>9, <2>1 DEF Terminated, vars, InstInv
<1> QED
  BY <1>1, <1>2, <1>2r, <1>3, <1>4, <1>5, <1>6, <1>7, <1>8, <1>9
  DEF Next, RefBody, InstanceBody

\* The initial states satisfy the inductive invariant.
LEMMA InitInv == Init => IInv
<1> SUFFICES ASSUME Init PROVE IInv
  OBVIOUS
<1>1. TypeOK
  BY DEF Init, TypeOK, Fields
<1>2. RefInv
  BY DEF Init, RefInv, Fields
<1>3. InstInv
  BY DEF Init, InstInv, PreCall, InLoops
<1> QED
  BY <1>1, <1>2, <1>3 DEF IInv

\* IInv is an invariant of the specification.
LEMMA InvInvariant == Spec => []IInv
<1>1. IInv /\ [Next]_vars => IInv'
  BY TypeStep, RefStep, InstStep DEF IInv
<1> QED
  BY InitInv, <1>1, PTL DEF Spec

(***************************************************************************)
(* Every state of every instanceRefKlass body has its variables in their   *)
(* types, for every bound on the oop maps.                                 *)
(***************************************************************************)
THEOREM RefTypeCorrect == Spec => []TypeOK
<1>1. IInv => TypeOK
  BY DEF IInv
<1> QED
  BY InvInvariant, <1>1, PTL

(***************************************************************************)
(* The referent obeys the collector's verdict in every instanceRefKlass    *)
(* body (the weak, GPGC and all templates): a deferred referent is never   *)
(* visited inline, a normal one exactly once.                              *)
(***************************************************************************)
THEOREM ReferentPolicyHolds == Spec => []ReferentPolicy
<1>1. IInv => ReferentPolicy
  BY DEF IInv, RefInv, ReferentPolicy
<1> QED
  BY InvInvariant, <1>1, PTL

(***************************************************************************)
(* At the end of every instanceRefKlass body, the early return of the      *)
(* discovered branch included, instanceKlass::<name> has been called once, *)
(* followed the header exactly in the MarkSweep and ParCompact variants,   *)
(* and its oop-map loops visited each non-null slot once and no other.     *)
(***************************************************************************)
THEOREM InstanceFieldsOnceHolds == Spec => []InstanceFieldsOnce
<1>1. IInv => InstanceFieldsOnce
  <2> SUFFICES ASSUME IInv, pc = "Done" PROVE InstanceFieldsOnce
    BY DEF InstanceFieldsOnce
  <2>1. /\ instanceCalls = 1
        /\ headerFollows = IF FollowsHeader[variant] THEN 1 ELSE 0
        /\ map = Len(oopMaps) + 1
        /\ \A s \in AllSlots :
             slotVisits[s] = IF s \in InstSlots \ nullSlots /\ Passed(s) THEN 1 ELSE 0
    BY DEF IInv, InstInv, PreCall, InLoops
  <2>2. \A s \in InstSlots : Passed(s)
    <3> SUFFICES ASSUME NEW s \in InstSlots PROVE Passed(s)
      OBVIOUS
    <3>1. oopMaps \in OopMaps
      BY DEF IInv, TypeOK
    <3>2. s[1] \in 1 .. Len(oopMaps) /\ Len(oopMaps) \in Nat
      BY <3>1, InstSlotsChar, OopMapsSeq
    <3> QED
      BY <2>1, <3>2 DEF Passed
  <2> QED
    BY <2>1, <2>2 DEF InstanceFieldsOnce
<1> QED
  BY InvInvariant, <1>1, PTL

-----------------------------------------------------------------------------
(***************************************************************************)
(* The order of the test and the visit.  The body reaches the statement    *)
(* that visits the referent only from the test, with the answer "normal",  *)
(* or straight from the load in the all template.                          *)
(***************************************************************************)
ReferentGate == pc = "Referent" => verdict = "normal" \/ Template = "all"

\* The gate holds initially and is kept by every step.
LEMMA GateInductive == /\ Init => ReferentGate
                       /\ ReferentGate /\ [Next]_vars => ReferentGate'
<1>1. Init => ReferentGate
  BY DEF Init, ReferentGate
<1>2. ReferentGate /\ [Next]_vars => ReferentGate'
  <2> SUFFICES ASSUME ReferentGate, [Next]_vars PROVE ReferentGate'
    OBVIOUS
  <2> USE DEF ReferentGate, Template
  <2>1. CASE LoadAll \/ LoadNull \/ LoadNonNull
    BY <2>1 DEF LoadAll, LoadNull, LoadNonNull, refVars
  <2>2. CASE TestDiscover \/ TestMarkThrough
    BY <2>2 DEF TestDiscover, TestMarkThrough
  <2>3. CASE VisitReferent \/ VisitNext \/ CallInstance \/ Return
    BY <2>3 DEF VisitReferent, VisitNext, CallInstance, Return
  <2>4. CASE InstanceBody
    BY <2>4 DEF InstanceBody, IEnter, IMapNext, IMapsDone, IVisitSlot,
                ISkipNull, IBlockDone, refVars
  <2>5. CASE Terminated \/ UNCHANGED vars
    BY <2>5 DEF Terminated, vars
  <2> QED
    BY <2>1, <2>2, <2>3, <2>4, <2>5 DEF Next, RefBody
<1> QED
  BY <1>1, <1>2

\* One step of the body obeys the action of ReferentAfterVerdict.
LEMMA VerdictStep ==
  ASSUME IInv, ReferentGate, [Next]_vars
  PROVE  /\ verdict # "none" => verdict' = verdict
         /\ visits'["referent"] # visits["referent"] =>
              verdict = "normal" \/ Template = "all"
<1>1. "referent" \in DOMAIN visits /\ "referent" # "next"
  BY DEF IInv, TypeOK, Fields
<1>2. verdict # "none" => pc \notin {"Load", "Test"}
  BY DEF IInv, RefInv
<1>3. CASE VisitReferent
  BY <1>3 DEF VisitReferent, ReferentGate
<1>4. CASE VisitNext
  BY <1>1, <1>4 DEF VisitNext
<1>5. CASE TestDiscover \/ TestMarkThrough
  <2>1. verdict = "none"
    BY <1>2, <1>5 DEF TestDiscover, TestMarkThrough
  <2> QED
    BY <1>5, <2>1 DEF TestDiscover, TestMarkThrough
<1>6. CASE ~(VisitReferent \/ VisitNext \/ TestDiscover \/ TestMarkThrough)
  <2>1. UNCHANGED <<verdict, visits>>
    BY <1>6 DEF Next, RefBody, InstanceBody, LoadAll, LoadNull, LoadNonNull,
                CallInstance, Return, IEnter, IMapNext, IMapsDone, IVisitSlot,
                ISkipNull, IBlockDone, Terminated, vars, refVars
  <2> QED
    BY <2>1
<1> QED
  BY <1>3, <1>4, <1>5, <1>6

(***************************************************************************)
(* For every bound on the oop maps, every instanceRefKlass body visits the *)
(* referent only after the collector's test said "normal" (or in the all   *)
(* template, which has no test), and never revises a verdict once given.   *)
(***************************************************************************)
THEOREM ReferentAfterVerdictHolds == Spec => ReferentAfterVerdict
<1>1. IInv /\ ReferentGate /\ [Next]_vars =>
        [ /\ verdict # "none" => verdict' = verdict
          /\ visits'["referent"] # visits["referent"] =>
               verdict = "normal" \/ Template = "all" ]_vars
  BY VerdictStep
<1>2. Spec => []ReferentGate
  BY GateInductive, PTL DEF Spec
<1> QED
  BY <1>1, <1>2, InvInvariant, PTL DEF Spec, ReferentAfterVerdict
=============================================================================
