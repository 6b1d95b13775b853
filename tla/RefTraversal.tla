---------------------------- MODULE RefTraversal ----------------------------
(***************************************************************************)
(* The bodies oopClosures.py emits for instanceRefKlass, run on one        *)
(* java.lang.ref.Reference object.  instanceRefKlass_generate picks one of *)
(* three templates per collector variant:                                  *)
(*   weak : MarkSweep and PSParallelCompact.  A non-null referent is       *)
(*          offered to is_unmarked_and_discover_reference; if the          *)
(*          reference is discovered the instance fields are followed and   *)
(*          the body returns, else the referent is visited; then next is   *)
(*          visited and the instance fields are followed.                  *)
(*   GPGC : the GPGC strong variants.  A non-null referent is visited only *)
(*          if mark_through_non_strong_ref says so; then the instance      *)
(*          fields are followed.                                           *)
(*   all  : the GPGC final and card-mark variants.  Referent, next and the *)
(*          instance fields, unconditionally.                              *)
(* The instance fields are followed by calling instanceKlass::<name>, the  *)
(* instanceKlass_non_static body, which is part of the model: it follows   *)
(* the header in the MarkSweep and ParCompact variants and walks the       *)
(* nonstatic oop-map blocks, visiting each non-null slot.  The oop maps of *)
(* a Reference class do not contain referent and next.                     *)
(* The collector's predicate is a nondeterministic answer; its meaning     *)
(* (true = discovered for the weak template, true = mark through for the   *)
(* GPGC one) is recorded in verdict.                                       *)
(***************************************************************************)
EXTENDS Naturals, Sequences

CONSTANTS
  MaxBlocks,    \* most nonstatic oop-map blocks of the class
  MaxBlockLen   \* most reference slots in one block

ASSUME BoundsAssumption == MaxBlocks \in Nat /\ MaxBlockLen \in Nat

\* The variants instanceRefKlass_generate emits a body for.
Variants == {"NewStrong", "OldStrong", "NewFinal", "OldFinal",
             "NewGCCard", "OldGCCard", "MutatorCard",
             "MarkSweep", "ParCompact"}

\* The template instanceRefKlass_generate uses for each variant.
RefTemplate ==
  [v \in Variants |->
     IF v \in {"NewStrong", "OldStrong"} THEN "GPGC"
     ELSE IF v \in {"MarkSweep", "ParCompact"} THEN "weak"
     ELSE "all"]

\* The variants instanceKlass_generate emits with DoFollowHeader.
FollowsHeader == [v \in Variants |-> v \in {"MarkSweep", "ParCompact"}]

Fields == {"referent", "next"}

\* The possible nonstatic oop maps: a sequence of block lengths.
OopMaps == UNION {[1 .. n -> 0 .. MaxBlockLen] : n \in 0 .. MaxBlocks}

VARIABLES
  variant,        \* the emitted function being run
  referentNull,   \* the referent loaded from referent_addr is null
  oopMaps,        \* the class's nonstatic oop-map block lengths
  nullSlots,      \* the instance slots that hold null
  pc,             \* the statement the body is at
  verdict,        \* the collector's answer about the referent
  visits,         \* visits[f]: calls of the visit operator on field f
  instanceCalls,  \* calls of instanceKlass::<name>(obj)
  headerFollows,  \* calls of obj->follow_header
  map,            \* instanceKlass body: the current oop-map block
  start,          \* instanceKlass body: the slot cursor in that block
  slotVisits,     \* slotVisits[s]: visits of instance slot s
  site            \* the call site of instanceKlass::<name>, its return point

vars == <<variant, referentNull, oopMaps, nullSlots, pc, verdict, visits,
          instanceCalls, headerFollows, map, start, slotVisits, site>>

\* The instance's reference slots: <<block, index in the block>>.
InstSlots == UNION {{<<b, i>> : i \in 0 .. (oopMaps[b] - 1)} : b \in DOMAIN oopMaps}

AllSlots == {<<b, i>> : b \in 1 .. MaxBlocks, i \in 0 .. (MaxBlockLen - 1)}

Template == RefTemplate[variant]

\* The part of the state the instanceKlass body does not touch.
refVars == <<variant, referentNull, oopMaps, nullSlots, verdict, visits>>

Init ==
  /\ variant \in Variants
  /\ referentNull \in BOOLEAN
  /\ oopMaps \in OopMaps
  /\ nullSlots \in SUBSET InstSlots
  /\ pc = "Load"
  /\ verdict = "none"
  /\ visits = [f \in Fields |-> 0]
  /\ instanceCalls = 0
  /\ headerFollows = 0
  /\ map = 1
  /\ start = 0
  /\ slotVisits = [s \in AllSlots |-> 0]
  /\ site = "none"

\* The all template visits referent_addr whatever it holds.
LoadAll ==
  /\ pc = "Load"
  /\ Template = "all"
  /\ pc' = "Referent"
  /\ UNCHANGED <<refVars, instanceCalls, headerFollows, map, start, slotVisits, site>>

\* if (referent.not_null()) fails: weak goes on to next, GPGC to the fields.
LoadNull ==
  /\ pc = "Load"
  /\ Template \in {"weak", "GPGC"}
  /\ referentNull
  /\ pc' = IF Template = "weak" THEN "Next" ELSE "Instance"
  /\ UNCHANGED <<refVars, instanceCalls, headerFollows, map, start, slotVisits, site>>

\* Mutant: the weak template visits a non-null referent before the discovery test.
LoadNonNullUntested ==
  /\ pc = "Load"
  /\ Template \in {"weak", "GPGC"}
  /\ ~referentNull
  /\ pc' = IF Template = "weak" THEN "Referent" ELSE "Test"
  /\ UNCHANGED <<refVars, instanceCalls, headerFollows, map, start, slotVisits, site>>

LoadNonNull ==
  /\ pc = "Load"
  /\ Template \in {"weak", "GPGC"}
  /\ ~referentNull
  /\ pc' = "Test"
  /\ UNCHANGED <<refVars, instanceCalls, headerFollows, map, start, slotVisits, site>>

\* Mutant: the two branches of the discovery test swapped.
TestDiscoverSwapped ==
  /\ pc = "Test"
  /\ Template = "weak"
  /\ \E discovered \in BOOLEAN :
       /\ verdict' = IF discovered THEN "defer" ELSE "normal"
       /\ pc' = IF discovered THEN "Referent" ELSE "ReturnEarly"
  /\ UNCHANGED <<variant, referentNull, oopMaps, nullSlots, visits, instanceCalls,
                 headerFollows, map, start, slotVisits, site>>

(***************************************************************************)
(* if (is_unmarked_and_discover_reference(referent, obj, reference_type()))*)
(* : a discovered reference returns early, its referent traversed later.   *)
(***************************************************************************)
TestDiscover ==
  /\ pc = "Test"
  /\ Template = "weak"
  /\ \E discovered \in BOOLEAN :
       /\ verdict' = IF discovered THEN "defer" ELSE "normal"
       /\ pc' = IF discovered THEN "ReturnEarly" ELSE "Referent"
  /\ UNCHANGED <<variant, referentNull, oopMaps, nullSlots, visits, instanceCalls,
                 headerFollows, map, start, slotVisits, site>>

\* if (mark_through_non_strong_ref(referent, obj, reference_type())) visit.
TestMarkThrough ==
  /\ pc = "Test"
  /\ Template = "GPGC"
  /\ \E markThrough \in BOOLEAN :
       /\ verdict' = IF markThrough THEN "normal" ELSE "defer"
       /\ pc' = IF markThrough THEN "Referent" ELSE "Instance"
  /\ UNCHANGED <<variant, referentNull, oopMaps, nullSlots, visits, instanceCalls,
                 headerFollows, map, start, slotVisits, site>>

\* operator(referent_addr [, klassId()]): GPGC goes on to the fields.
VisitReferent ==
  /\ pc = "Referent"
  /\ visits' = [visits EXCEPT !["referent"] = @ + 1]
  /\ pc' = IF Template = "GPGC" THEN "Instance" ELSE "Next"
  /\ UNCHANGED <<variant, referentNull, oopMaps, nullSlots, verdict, instanceCalls,
                 headerFollows, map, start, slotVisits, site>>

\* operator(next_addr [, klassId()]): next is a link in the pending list.
VisitNext ==
  /\ pc = "Next"
  /\ visits' = [visits EXCEPT !["next"] = @ + 1]
  /\ pc' = "Instance"
  /\ UNCHANGED <<variant, referentNull, oopMaps, nullSlots, verdict, instanceCalls,
                 headerFollows, map, start, slotVisits, site>>

(***************************************************************************)
(* instanceKlass::name(obj), at the end of the body or before the early    *)
(* return of the discovered branch: the callee starts at its entry, and    *)
(* site records where it will return to.                                   *)
(***************************************************************************)
CallInstance ==
  /\ pc \in {"Instance", "ReturnEarly"}
  /\ instanceCalls' = instanceCalls + 1
  /\ site' = IF pc = "ReturnEarly" THEN "early" ELSE "end"
  /\ pc' = "IEntry"
  /\ UNCHANGED <<refVars, headerFollows, map, start, slotVisits>>

\* Mutant: the block cursor starts at index 0 of the 1-based map sequence.
IEnterAtZero ==
  /\ pc = "IEntry"
  /\ headerFollows' = IF FollowsHeader[variant] THEN headerFollows + 1
                                                ELSE headerFollows
  /\ map' = 0
  /\ pc' = "IMaps"
  /\ UNCHANGED <<refVars, instanceCalls, start, slotVisits, site>>

(***************************************************************************)
(* instanceKlass_non_static: follow the header if the variant does, then   *)
(* map = start_of_nonstatic_oop_maps().                                    *)
(***************************************************************************)
IEnter ==
  /\ pc = "IEntry"
  /\ headerFollows' = IF FollowsHeader[variant] THEN headerFollows + 1
                                                ELSE headerFollows
  /\ map' = 1
  /\ pc' = "IMaps"
  /\ UNCHANGED <<refVars, instanceCalls, start, slotVisits, site>>

\* while (map < end_map): start at the block's first slot.
IMapNext ==
  /\ pc = "IMaps"
  /\ map <= Len(oopMaps)
  /\ start' = 0
  /\ pc' = "ISlots"
  /\ UNCHANGED <<refVars, instanceCalls, headerFollows, map, slotVisits, site>>

\* The last block is done: the callee returns to its call site.
IMapsDone ==
  /\ pc = "IMaps"
  /\ map > Len(oopMaps)
  /\ pc' = "Returned"
  /\ UNCHANGED <<refVars, instanceCalls, headerFollows, map, start, slotVisits, site>>

\* Mutant: the return; after the discovered branch's call is left out.
ReturnDropped ==
  /\ pc = "Returned"
  /\ pc' = IF site = "early" THEN "Next" ELSE "Done"
  /\ UNCHANGED <<refVars, instanceCalls, headerFollows, map, start, slotVisits, site>>

(***************************************************************************)
(* Back in the reference body: the discovered branch's call is followed by *)
(* return; the call at the end of the body is followed by the body's end.  *)
(***************************************************************************)
Return ==
  /\ pc = "Returned"
  /\ pc' = "Done"
  /\ UNCHANGED <<refVars, instanceCalls, headerFollows, map, start, slotVisits, site>>

\* Mutant: the slot is visited without the not_null() test.
IVisitSlotUnchecked ==
  /\ pc = "ISlots"
  /\ start < oopMaps[map]
  /\ slotVisits' = [slotVisits EXCEPT ![<<map, start>>] = @ + 1]
  /\ start' = start + 1
  /\ UNCHANGED <<refVars, pc, instanceCalls, headerFollows, map, site>>

\* while (start < end): a non-null slot is visited, start++.
IVisitSlot ==
  /\ pc = "ISlots"
  /\ start < oopMaps[map]
  /\ <<map, start>> \notin nullSlots
  /\ slotVisits' = [slotVisits EXCEPT ![<<map, start>>] = @ + 1]
  /\ start' = start + 1
  /\ UNCHANGED <<refVars, pc, instanceCalls, headerFollows, map, site>>

ISkipNull ==
  /\ pc = "ISlots"
  /\ start < oopMaps[map]
  /\ <<map, start>> \in nullSlots
  /\ start' = start + 1
  /\ UNCHANGED <<refVars, pc, instanceCalls, headerFollows, map, slotVisits, site>>

\* The block is done: map++.
IBlockDone ==
  /\ pc = "ISlots"
  /\ start >= oopMaps[map]
  /\ map' = map + 1
  /\ pc' = "IMaps"
  /\ UNCHANGED <<refVars, instanceCalls, headerFollows, start, slotVisits, site>>

Terminated == pc = "Done" /\ UNCHANGED vars

RefBody ==
  \/ LoadAll \/ LoadNull \/ LoadNonNull
  \/ TestDiscover \/ TestMarkThrough
  \/ VisitReferent \/ VisitNext \/ CallInstance \/ Return

InstanceBody ==
  \/ IEnter \/ IMapNext \/ IMapsDone \/ IVisitSlot \/ ISkipNull \/ IBlockDone

Next == RefBody \/ InstanceBody \/ Terminated

Spec == Init /\ [][Next]_vars /\ WF_vars(Next)

-----------------------------------------------------------------------------
(* Properties *)

TypeOK ==
  /\ variant \in Variants
  /\ referentNull \in BOOLEAN
  /\ oopMaps \in OopMaps
  /\ nullSlots \subseteq InstSlots
  /\ pc \in {"Load", "Test", "ReturnEarly", "Referent", "Next", "Instance",
             "IEntry", "IMaps", "ISlots", "Returned", "Done"}
  /\ verdict \in {"none", "defer", "normal"}
  /\ visits \in [Fields -> Nat]
  /\ instanceCalls \in Nat
  /\ headerFollows \in Nat
  /\ map \in Nat \ {0}
  /\ start \in Nat
  /\ slotVisits \in [AllSlots -> Nat]
  /\ site \in {"none", "early", "end"}

(***************************************************************************)
(* Every path through an instanceRefKlass body, the early return of the    *)
(* discovered branch included, follows the ordinary instance fields once:  *)
(* instanceKlass::<name> is called once, it follows the header exactly     *)
(* when its variant does, and its oop-map loops visit every non-null slot  *)
(* of the instance exactly once and no null one.                           *)
(***************************************************************************)
InstanceFieldsOnce ==
  pc = "Done" =>
    /\ instanceCalls = 1
    /\ headerFollows = IF FollowsHeader[variant] THEN 1 ELSE 0
    /\ \A s \in AllSlots :
         slotVisits[s] = IF s \in InstSlots \ nullSlots THEN 1 ELSE 0

(***************************************************************************)
(* The referent obeys the collector's verdict: a referent the collector    *)
(* defers (discovered, or not to be marked through) is never visited       *)
(* inline, one it asks to treat as normal is visited exactly once.         *)
(***************************************************************************)
ReferentPolicy ==
  pc = "Done" =>
    /\ visits["referent"] <= 1
    /\ verdict = "defer" => visits["referent"] = 0
    /\ verdict = "normal" => visits["referent"] = 1

(***************************************************************************)
(* The referent is visited only after the collector has been asked about   *)
(* it and has answered "treat it as normal" (is_unmarked_and_discover_     *)
(* reference false, or mark_through_non_strong_ref true), except in the    *)
(* all template, which asks nobody; and an answer, once given, is never    *)
(* asked again or changed.  Unlike ReferentPolicy, which looks only at the *)
(* end, this speaks of the step that visits: a visit before the test is a  *)
(* violation even when the count at the end looks right.                   *)
(***************************************************************************)
ReferentAfterVerdict ==
  [][ /\ verdict # "none" => verdict' = verdict
      /\ visits'["referent"] # visits["referent"] =>
           verdict = "normal" \/ Template = "all" ]_vars

(***************************************************************************)
(* Spec 4.5: both policies always visit the pending-list link `next'       *)
(* unconditionally, whatever becomes of the referent.                      *)
(***************************************************************************)
NextAlwaysVisited == pc = "Done" => visits["next"] = 1

=============================================================================
