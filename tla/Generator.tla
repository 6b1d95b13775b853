----------------------------- MODULE Generator -----------------------------
(***************************************************************************)
(* The driver of oopClosures.py as a program: main calls every *_generate  *)
(* function in turn, each of which calls a template function once per      *)
(* (method, collector variant) row, and every template call prints one C++ *)
(* member function definition.  The state is the sequence of definitions   *)
(* printed so far.  Of a definition the model keeps what the C++ compiler  *)
(* and the collector care about: its class, name and parameter list (the   *)
(* GC-manager type, whether it takes obj, whether it takes an int klassId) *)
(* and the calls it makes to other generated functions with the argument   *)
(* list it passes; whether it is a ShouldNotReachHere trap; whether its    *)
(* visit calls pass klassId().  Field lists, assertions and the collector  *)
(* primitives called (mark_and_push, update_card_mark, ...) are left out:  *)
(* the other modules model the bodies that matter.                         *)
(***************************************************************************)
EXTENDS Naturals, Sequences, SequencesExt

\* The method names the tables use.
FC    == "GPGC_oop_follow_contents"
VNC   == "GPGC_verify_no_cardmark"
NewCM == "GPGC_newgc_oop_update_cardmark"
OldCM == "GPGC_oldgc_oop_update_cardmark"
MutCM == "GPGC_mutator_oop_update_cardmark"
OFC   == "oop_follow_contents"

\* The GC-manager parameter types ("none": no gcm parameter).
Managers == {"NewStrong", "OldStrong", "NewFinal", "OldFinal", "ParCompact", "none"}
StrongManagers == {"NewStrong", "OldStrong"}

(***************************************************************************)
(* One template call of a *_generate function.  tmpl names the template,   *)
(* kid is its pass_klassId argument, op the operator of a one-liner        *)
(* ("trap": ShouldNotReachHere(), "verify": GPGC_verify_no_cardmark(obj),  *)
(* "assert": an assertion or comment) and arg the template's extra         *)
(* argument that names a generated function (the static-fields follower,   *)
(* the cache-entry operator, the constant-pool verifier).                  *)
(***************************************************************************)
Row(t, n, g, k) == [cls |-> "", tmpl |-> t, name |-> n, gcm |-> g, kid |-> k,
                    op |-> "none", arg |-> "none"]
OneLiner(n, g, o) == [Row("one_liner", n, g, FALSE) EXCEPT !.op = o]
TableOneLiner(n, g, o) == [OneLiner(n, g, o) EXCEPT !.tmpl = "table_one_liner"]
WithArg(r, a) == [r EXCEPT !.arg = a]

\* Mutant: the GPGC_verify_no_cardmark row left out of the table.
arrayKlassKlass_generateNoVerify ==
  << OneLiner(FC, "NewStrong", "trap"),
     Row("arrayKlassKlass", FC, "OldStrong", TRUE),
     OneLiner(FC, "NewFinal", "trap"),
     Row("arrayKlassKlass", FC, "OldFinal", FALSE),
     OneLiner(NewCM, "none", "verify"),
     OneLiner(OldCM, "none", "verify"),
     OneLiner(MutCM, "none", "assert"),
     Row("arrayKlassKlass", OFC, "none", FALSE),
     Row("arrayKlassKlass", OFC, "ParCompact", FALSE) >>

arrayKlassKlass_generate ==
  << OneLiner(FC, "NewStrong", "trap"),
     Row("arrayKlassKlass", FC, "OldStrong", TRUE),
     OneLiner(FC, "NewFinal", "trap"),
     Row("arrayKlassKlass", FC, "OldFinal", FALSE),
     Row("arrayKlassKlass", VNC, "none", FALSE),
     OneLiner(NewCM, "none", "verify"),
     OneLiner(OldCM, "none", "verify"),
     OneLiner(MutCM, "none", "assert"),
     Row("arrayKlassKlass", OFC, "none", FALSE),
     Row("arrayKlassKlass", OFC, "ParCompact", FALSE) >>

constMethodKlass_generate ==
  << OneLiner(FC, "NewStrong", "trap"),
     Row("constMethodKlass", FC, "OldStrong", TRUE),
     OneLiner(FC, "NewFinal", "trap"),
     Row("constMethodKlass", FC, "OldFinal", FALSE),
     Row("constMethodKlass", VNC, "none", FALSE),
     OneLiner(NewCM, "none", "verify"),
     OneLiner(OldCM, "none", "verify"),
     OneLiner(MutCM, "none", "assert"),
     Row("constMethodKlass", OFC, "none", FALSE),
     Row("constMethodKlass", OFC, "ParCompact", FALSE) >>

\* arg "verify": the DEBUG_ONLY( GPGC_verify_no_cardmark(obj) ) verifier.
constantPoolKlass_generate ==
  << Row("constantPoolKlass", VNC, "none", FALSE),
     OneLiner(FC, "NewStrong", "trap"),
     WithArg(Row("constantPoolKlass", FC, "OldStrong", TRUE), "verify"),
     OneLiner(FC, "NewFinal", "trap"),
     Row("constantPoolKlass", FC, "OldFinal", FALSE),
     OneLiner(NewCM, "none", "trap"),
     OneLiner(OldCM, "none", "assert"),
     OneLiner(MutCM, "none", "assert"),
     Row("constantPoolKlass", OFC, "none", FALSE),
     Row("constantPoolKlass", OFC, "ParCompact", FALSE) >>

\* arg: the entry_operator each cache entry is sent.
constantPoolCacheKlass_generate ==
  << OneLiner(FC, "NewStrong", "trap"),
     WithArg(Row("constantPoolCacheKlass", FC, "OldStrong", TRUE), "GPGC_follow_contents"),
     OneLiner(FC, "NewFinal", "trap"),
     WithArg(Row("constantPoolCacheKlass", FC, "OldFinal", FALSE), "GPGC_follow_contents"),
     WithArg(Row("constantPoolCacheKlass", VNC, "none", FALSE), VNC),
     OneLiner(NewCM, "none", "verify"),
     OneLiner(OldCM, "none", "verify"),
     OneLiner(MutCM, "none", "assert"),
     WithArg(Row("constantPoolCacheKlass", OFC, "none", FALSE), "follow_contents"),
     WithArg(Row("constantPoolCacheKlass", OFC, "ParCompact", FALSE), "follow_contents") >>

constantPoolCacheEntry_generate ==
  << Row("constantPoolCacheEntry", "GPGC_follow_contents", "OldStrong", TRUE),
     Row("constantPoolCacheEntry", "GPGC_follow_contents", "OldFinal", FALSE),
     Row("constantPoolCacheEntry", VNC, "none", FALSE),
     Row("constantPoolCacheEntry", "follow_contents", "none", FALSE),
     Row("constantPoolCacheEntry", "follow_contents", "ParCompact", FALSE) >>

instanceKlass_generate ==
  << Row("instanceKlass_static", "follow_static_fields", "none", FALSE),
     Row("instanceKlass_static", "follow_static_fields", "ParCompact", FALSE),
     Row("instanceKlass_static", "GPGC_follow_static_fields", "OldStrong", TRUE),
     Row("instanceKlass_static", "GPGC_follow_static_fields", "OldFinal", FALSE),
     Row("instanceKlass_static", "GPGC_static_fields_update_cardmark", "none", FALSE),
     Row("instanceKlass_non_static", FC, "NewStrong", TRUE),
     Row("instanceKlass_non_static", FC, "OldStrong", TRUE),
     Row("instanceKlass_non_static", FC, "NewFinal", FALSE),
     Row("instanceKlass_non_static", FC, "OldFinal", FALSE),
     Row("instanceKlass_non_static", NewCM, "none", FALSE),
     Row("instanceKlass_non_static", OldCM, "none", FALSE),
     Row("instanceKlass_non_static", MutCM, "none", FALSE),
     Row("instanceKlass_non_static", OFC, "none", FALSE),
     Row("instanceKlass_non_static", OFC, "ParCompact", FALSE) >>

\* arg: the follow_static argument; the "comment" row prints a comment only.
instanceKlassKlass_generate ==
  << OneLiner(FC, "NewStrong", "trap"),
     WithArg(Row("instanceKlassKlass", FC, "OldStrong", TRUE), "GPGC_follow_static_fields"),
     OneLiner(FC, "NewFinal", "trap"),
     WithArg(Row("instanceKlassKlass", FC, "OldFinal", FALSE), "GPGC_follow_static_fields"),
     OneLiner(NewCM, "none", "trap"),
     Row("comment", OldCM, "none", FALSE),
     OneLiner(MutCM, "none", "assert"),
     WithArg(Row("instanceKlassKlass", OFC, "none", FALSE), "follow_static_fields"),
     WithArg(Row("instanceKlassKlass", OFC, "ParCompact", FALSE), "follow_static_fields") >>

instanceRefKlass_generate ==
  << Row("instanceRefKlass_GPGC", FC, "NewStrong", TRUE),
     Row("instanceRefKlass_GPGC", FC, "OldStrong", TRUE),
     Row("instanceRefKlass_all", FC, "NewFinal", FALSE),
     Row("instanceRefKlass_all", FC, "OldFinal", FALSE),
     Row("instanceRefKlass_all", NewCM, "none", FALSE),
     Row("instanceRefKlass_all", OldCM, "none", FALSE),
     Row("instanceRefKlass_all", MutCM, "none", FALSE),
     Row("instanceRefKlass_weak", OFC, "none", FALSE),
     Row("instanceRefKlass_weak", OFC, "ParCompact", FALSE) >>

\* arg "revisit": a revisit_later collector; op "tree": DoFollowKlassTree.
klassKlass_generate ==
  << OneLiner(FC, "NewStrong", "trap"),
     WithArg(Row("klassKlass", FC, "OldStrong", TRUE), "revisit"),
     OneLiner(FC, "NewFinal", "trap"),
     Row("klassKlass", FC, "OldFinal", FALSE),
     [Row("klassKlass", VNC, "none", FALSE) EXCEPT !.op = "tree"],
     OneLiner(NewCM, "none", "verify"),
     OneLiner(OldCM, "none", "verify"),
     OneLiner(MutCM, "none", "assert"),
     WithArg(Row("klassKlass", OFC, "none", FALSE), "revisit"),
     WithArg(Row("klassKlass", OFC, "ParCompact", FALSE), "revisit") >>

\* klassItable and klassVtable bodies take the gcm only, not obj.
klassItable_generate ==
  << TableOneLiner(FC, "NewStrong", "trap"),
     Row("klassItable", FC, "OldStrong", TRUE),
     TableOneLiner(FC, "NewFinal", "trap"),
     Row("klassItable", FC, "OldFinal", FALSE),
     Row("klassItable", VNC, "none", FALSE),
     Row("klassItable", OFC, "none", FALSE),
     Row("klassItable", OFC, "ParCompact", FALSE) >>

\* Mutant: the OldStrong vtable walk emitted with DontPassKids.
klassVtable_generateNoKid ==
  << TableOneLiner(FC, "NewStrong", "trap"),
     Row("klassVtable", FC, "OldStrong", FALSE),
     TableOneLiner(FC, "NewFinal", "trap"),
     Row("klassVtable", FC, "OldFinal", FALSE),
     Row("klassVtable", VNC, "none", FALSE),
     Row("klassVtable", OFC, "none", FALSE),
     Row("klassVtable", OFC, "ParCompact", FALSE) >>

klassVtable_generate ==
  << TableOneLiner(FC, "NewStrong", "trap"),
     Row("klassVtable", FC, "OldStrong", TRUE),
     TableOneLiner(FC, "NewFinal", "trap"),
     Row("klassVtable", FC, "OldFinal", FALSE),
     Row("klassVtable", VNC, "none", FALSE),
     Row("klassVtable", OFC, "none", FALSE),
     Row("klassVtable", OFC, "ParCompact", FALSE) >>

\* Mutant: the variable name passed where the gcm type belongs.
methodKlass_generateSwappedGcm ==
  << OneLiner(FC, "NewStrong", "trap"),
     Row("methodKlass", FC, "OldStrong", TRUE),
     OneLiner(FC, "NewFinal", "trap"),
     Row("methodKlass", FC, "OldFinal", FALSE),
     OneLiner(NewCM, "none", "trap"),
     Row("methodKlass", OldCM, "none", FALSE),
     OneLiner(MutCM, "none", "assert"),
     Row("methodKlass", OFC, "none", FALSE),
     Row("methodKlass", OFC, "cm", FALSE) >>

methodKlass_generate ==
  << OneLiner(FC, "NewStrong", "trap"),
     Row("methodKlass", FC, "OldStrong", TRUE),
     OneLiner(FC, "NewFinal", "trap"),
     Row("methodKlass", FC, "OldFinal", FALSE),
     OneLiner(NewCM, "none", "trap"),
     Row("methodKlass", OldCM, "none", FALSE),
     OneLiner(MutCM, "none", "assert"),
     Row("methodKlass", OFC, "none", FALSE),
     Row("methodKlass", OFC, "ParCompact", FALSE) >>

methodCodeKlass_generate ==
  << Row("methodCodeKlass", OFC, "none", FALSE),
     Row("methodCodeKlass", OFC, "ParCompact", FALSE),
     OneLiner(FC, "NewStrong", "trap"),
     Row("methodCodeKlass", FC, "OldStrong", TRUE),
     OneLiner(FC, "NewFinal", "trap"),
     Row("methodCodeKlass", FC, "OldFinal", FALSE),
     OneLiner(NewCM, "none", "trap"),
     Row("methodCodeKlass", OldCM, "none", FALSE),
     Row("methodCodeKlass", MutCM, "none", FALSE) >>

objArrayKlass_generate ==
  << Row("objArrayKlass_chunking", FC, "NewStrong", TRUE),
     Row("objArrayKlass_chunking", FC, "OldStrong", TRUE),
     Row("objArrayKlass_chunking", FC, "NewFinal", FALSE),
     Row("objArrayKlass_chunking", FC, "OldFinal", FALSE),
     Row("objArrayKlass", NewCM, "none", FALSE),
     Row("objArrayKlass", OldCM, "none", FALSE),
     Row("objArrayKlass", MutCM, "none", FALSE),
     Row("objArrayKlass", OFC, "none", FALSE),
     Row("objArrayKlass", OFC, "ParCompact", FALSE) >>

objArrayKlassKlass_generate ==
  << Row("objArrayKlassKlass", OFC, "none", FALSE),
     Row("objArrayKlassKlass", OFC, "ParCompact", FALSE),
     OneLiner(FC, "NewStrong", "trap"),
     Row("objArrayKlassKlass", FC, "OldStrong", TRUE),
     OneLiner(FC, "NewFinal", "trap"),
     Row("objArrayKlassKlass", FC, "OldFinal", FALSE),
     Row("objArrayKlassKlass", VNC, "none", FALSE),
     OneLiner(NewCM, "none", "verify"),
     OneLiner(OldCM, "none", "verify"),
     OneLiner(MutCM, "none", "assert") >>

\* symbolKlass_weak: a body with no visit at all (symbols are weak roots).
symbolKlass_generate ==
  << OneLiner(FC, "NewStrong", "trap"),
     Row("symbolKlass_weak", FC, "OldStrong", FALSE),
     OneLiner(FC, "NewFinal", "trap"),
     Row("symbolKlass_weak", FC, "OldFinal", FALSE),
     OneLiner(NewCM, "none", "trap"),
     OneLiner(OldCM, "none", "assert"),
     OneLiner(MutCM, "none", "assert"),
     OneLiner(OFC, "none", "assert"),
     OneLiner(OFC, "ParCompact", "assert") >>

\* Mutant: the last row copied from the one above without its gcm.
typeArrayKlass_generateCopied ==
  << OneLiner(FC, "NewStrong", "assert"),
     OneLiner(FC, "OldStrong", "assert"),
     OneLiner(FC, "NewFinal", "assert"),
     OneLiner(FC, "OldFinal", "assert"),
     OneLiner(NewCM, "none", "assert"),
     OneLiner(OldCM, "none", "assert"),
     OneLiner(MutCM, "none", "assert"),
     OneLiner(OFC, "none", "assert"),
     OneLiner(OFC, "none", "assert") >>

typeArrayKlass_generate ==
  << OneLiner(FC, "NewStrong", "assert"),
     OneLiner(FC, "OldStrong", "assert"),
     OneLiner(FC, "NewFinal", "assert"),
     OneLiner(FC, "OldFinal", "assert"),
     OneLiner(NewCM, "none", "assert"),
     OneLiner(OldCM, "none", "assert"),
     OneLiner(MutCM, "none", "assert"),
     OneLiner(OFC, "none", "assert"),
     OneLiner(OFC, "ParCompact", "assert") >>

\* main: the *_generate calls in order, each row tagged with its class.
Tagged(c, rows) == [i \in DOMAIN rows |-> [rows[i] EXCEPT !.cls = c]]

Program ==
  FlattenSeq(<< Tagged("arrayKlassKlass", arrayKlassKlass_generate),
                Tagged("constMethodKlass", constMethodKlass_generate),
                Tagged("constantPoolKlass", constantPoolKlass_generate),
                Tagged("constantPoolCacheKlass", constantPoolCacheKlass_generate),
                Tagged("ConstantPoolCacheEntry", constantPoolCacheEntry_generate),
                Tagged("instanceKlass", instanceKlass_generate),
                Tagged("instanceKlassKlass", instanceKlassKlass_generate),
                Tagged("instanceRefKlass", instanceRefKlass_generate),
                Tagged("klassKlass", klassKlass_generate),
                Tagged("klassItable", klassItable_generate),
                Tagged("klassVtable", klassVtable_generate),
                Tagged("methodKlass", methodKlass_generate),
                Tagged("methodCodeKlass", methodCodeKlass_generate),
                Tagged("objArrayKlass", objArrayKlass_generate),
                Tagged("objArrayKlassKlass", objArrayKlassKlass_generate),
                Tagged("symbolKlass", symbolKlass_generate),
                Tagged("typeArrayKlass", typeArrayKlass_generate) >>)

VARIABLES
  pc,   \* the next template call of Program
  out   \* the definitions printed so far, in order

vars == <<pc, out>>

\* A parameter list, or the argument list of a call, of a generated function.
Sig(c, n, g, hasObj, hasKid) ==
  [cls |-> c, name |-> n, gcm |-> g, obj |-> hasObj, kidp |-> hasKid]

(***************************************************************************)
(* The definition a template prints for row r: its signature, the calls it *)
(* makes to generated functions, whether it is a trap and whether its      *)
(* visit calls pass klassId().                                             *)
(***************************************************************************)
Def(r, hasObj, hasKid, callees, isTrap, hasVisits) ==
  [sig |-> Sig(r.cls, r.name, r.gcm, hasObj, hasKid), calls |-> callees,
   trap |-> isTrap, visits |-> hasVisits, kid |-> r.kid, links |-> "none"]

\* A call that passes the caller's gcm variable and obj.
CallObj(r, c, n) == Sig(c, n, r.gcm, TRUE, FALSE)

\* A call that passes the caller's gcm variable only.
CallGcm(r, c, n) == Sig(c, n, r.gcm, FALSE, FALSE)

\* The template of the current row prints definition d.
Emit(d) ==
  /\ out' = Append(out, d)
  /\ pc' = pc + 1

Cur == Program[pc]

Init ==
  /\ pc = 1
  /\ out = << >>


\* A body of visit calls only: gcm and obj parameters, no generated callee.
PrintVisits(t) ==
  /\ Cur.tmpl = t
  /\ Emit(Def(Cur, TRUE, FALSE, {}, FALSE, TRUE))

\* generic_one_liner: a trap, a call of GPGC_verify_no_cardmark(obj), or an assert.
PrintOneLiner ==
  /\ Cur.tmpl = "one_liner"
  /\ Emit(Def(Cur, TRUE, FALSE,
               IF Cur.op = "verify" THEN {Sig(Cur.cls, VNC, "none", TRUE, FALSE)} ELSE {},
               Cur.op = "trap", FALSE))

\* klassItable_one_liner, klassVtable_one_liner: the gcm parameter only.
PrintTableOneLiner ==
  /\ Cur.tmpl = "table_one_liner"
  /\ Emit(Def(Cur, FALSE, FALSE, {}, Cur.op = "trap", FALSE))

\* arrayKlassKlass: three fields, ak->vtable()->name(gcm), klassKlass::name(gcm, obj).
PrintArrayKlassKlass ==
  /\ Cur.tmpl = "arrayKlassKlass"
  /\ Emit(Def(Cur, TRUE, FALSE,
               {CallGcm(Cur, "klassVtable", Cur.name), CallObj(Cur, "klassKlass", Cur.name)},
               FALSE, TRUE))

PrintConstMethodKlass == PrintVisits("constMethodKlass")

\* constantPoolKlass: the optional verifier calls GPGC_verify_no_cardmark(obj).
PrintConstantPoolKlass ==
  /\ Cur.tmpl = "constantPoolKlass"
  /\ Emit(Def(Cur, TRUE, FALSE,
               IF Cur.arg = "verify" THEN {Sig(Cur.cls, VNC, "none", TRUE, FALSE)} ELSE {},
               FALSE, TRUE))

\* constantPoolCacheKlass: cache->entry_at(i)->entry_operator(gcm [, klassId()]).
PrintConstantPoolCacheKlass ==
  /\ Cur.tmpl = "constantPoolCacheKlass"
  /\ Emit(Def(Cur, TRUE, FALSE,
               {Sig("ConstantPoolCacheEntry", Cur.arg, Cur.gcm, FALSE, Cur.kid)},
               FALSE, TRUE))

\* ConstantPoolCacheEntry: (gcm [, int klassId]), no obj.
PrintConstantPoolCacheEntry ==
  /\ Cur.tmpl = "constantPoolCacheEntry"
  /\ Emit(Def(Cur, FALSE, Cur.kid, {}, FALSE, TRUE))

PrintInstanceKlassNonStatic == PrintVisits("instanceKlass_non_static")

\* instanceKlass_static: the gcm parameter only.
PrintInstanceKlassStatic ==
  /\ Cur.tmpl = "instanceKlass_static"
  /\ Emit(Def(Cur, FALSE, FALSE, {}, FALSE, TRUE))

\* instanceKlassKlass: static fields, vtable, itable, fields, klassKlass::name.
PrintInstanceKlassKlass ==
  /\ Cur.tmpl = "instanceKlassKlass"
  /\ Emit(Def(Cur, TRUE, FALSE,
               {CallGcm(Cur, "instanceKlass", Cur.arg),
                CallGcm(Cur, "klassVtable", Cur.name),
                CallGcm(Cur, "klassItable", Cur.name),
                CallObj(Cur, "klassKlass", Cur.name)},
               FALSE, TRUE))

\* The oldgc cardmark update of instanceKlassKlass is only a comment.
PrintComment ==
  /\ Cur.tmpl = "comment"
  /\ pc' = pc + 1
  /\ UNCHANGED out

\* The three instanceRefKlass templates all end in instanceKlass::name(gcm, obj).
PrintInstanceRefKlass(t) ==
  /\ Cur.tmpl = t
  /\ Emit(Def(Cur, TRUE, FALSE, {CallObj(Cur, "instanceKlass", Cur.name)}, FALSE, TRUE))

PrintInstanceRefKlassWeak == PrintInstanceRefKlass("instanceRefKlass_weak")
PrintInstanceRefKlassGPGC == PrintInstanceRefKlass("instanceRefKlass_GPGC")
PrintInstanceRefKlassAll == PrintInstanceRefKlass("instanceRefKlass_all")

(***************************************************************************)
(* klassKlass: super, secondary supers, mirror and name, then the subklass *)
(* and next_sibling links either handed to revisit_weak_klass_link of the  *)
(* collector (revisit_later) or visited inline (do_klass_tree).            *)
(***************************************************************************)
PrintKlassKlass ==
  /\ Cur.tmpl = "klassKlass"
  /\ Emit([Def(Cur, TRUE, FALSE, {}, FALSE, TRUE) EXCEPT
            !.links = IF Cur.op = "tree" THEN "inline"
                      ELSE IF Cur.arg = "revisit" THEN "revisit" ELSE "none"])

\* klassItable, klassVtable: (gcm) only; klassId is computed in the body.
PrintTable(t) ==
  /\ Cur.tmpl = t
  /\ Emit(Def(Cur, FALSE, FALSE, {}, FALSE, TRUE))

PrintKlassItable == PrintTable("klassItable")
PrintKlassVtable == PrintTable("klassVtable")
PrintMethodKlass == PrintVisits("methodKlass")
PrintMethodCodeKlass == PrintVisits("methodCodeKlass")
PrintObjArrayKlass == PrintVisits("objArrayKlass")
PrintObjArrayKlassChunking == PrintVisits("objArrayKlass_chunking")

\* objArrayKlassKlass: two fields, then arrayKlassKlass::name(gcm, obj).
PrintObjArrayKlassKlass ==
  /\ Cur.tmpl = "objArrayKlassKlass"
  /\ Emit(Def(Cur, TRUE, FALSE, {CallObj(Cur, "arrayKlassKlass", Cur.name)}, FALSE, TRUE))

\* symbolKlass_weak: an assertion and no visit at all.
PrintSymbolKlassWeak ==
  /\ Cur.tmpl = "symbolKlass_weak"
  /\ Emit(Def(Cur, TRUE, FALSE, {}, FALSE, FALSE))

\* main returns after the last *_generate call (sys.exit(0)).
Done == pc > Len(Program)

Next ==
  /\ ~Done
  /\ \/ PrintOneLiner \/ PrintTableOneLiner \/ PrintArrayKlassKlass
     \/ PrintConstMethodKlass \/ PrintConstantPoolKlass
     \/ PrintConstantPoolCacheKlass \/ PrintConstantPoolCacheEntry
     \/ PrintInstanceKlassNonStatic \/ PrintInstanceKlassStatic
     \/ PrintInstanceKlassKlass \/ PrintComment
     \/ PrintInstanceRefKlassWeak \/ PrintInstanceRefKlassGPGC \/ PrintInstanceRefKlassAll
     \/ PrintKlassKlass \/ PrintKlassItable \/ PrintKlassVtable
     \/ PrintMethodKlass \/ PrintMethodCodeKlass
     \/ PrintObjArrayKlass \/ PrintObjArrayKlassChunking
     \/ PrintObjArrayKlassKlass \/ PrintSymbolKlassWeak

Spec == Init /\ [][Next]_vars /\ WF_vars(Next)

-----------------------------------------------------------------------------
(* Properties *)

Sigs == [cls : STRING, name : STRING, gcm : Managers, obj : BOOLEAN, kidp : BOOLEAN]

TypeOK ==
  /\ pc \in 1 .. (Len(Program) + 1)
  /\ \A i \in DOMAIN out :
       /\ out[i].sig \in Sigs
       /\ out[i].calls \subseteq Sigs
       /\ out[i].trap \in BOOLEAN
       /\ out[i].visits \in BOOLEAN
       /\ out[i].kid \in BOOLEAN
       /\ out[i].links \in {"none", "revisit", "inline"}

(***************************************************************************)
(* Once main has run every table, each call a generated body makes to      *)
(* another generated function (a base-kind delegation, a vtable, itable,   *)
(* static-field or cache-entry walk, a GPGC_verify_no_cardmark forward)    *)
(* finds a definition with exactly that parameter list, and that           *)
(* definition is not a ShouldNotReachHere trap.                            *)
(***************************************************************************)
CallsResolve ==
  Done =>
    \A i \in DOMAIN out : \A c \in out[i].calls :
      \E j \in DOMAIN out : out[j].sig = c /\ ~out[j].trap

(***************************************************************************)
(* No two template calls print a definition of the same member function   *)
(* with the same parameter list (a C++ redefinition).                      *)
(***************************************************************************)
UniqueDefinitions ==
  \A i, j \in DOMAIN out : i # j => out[i].sig # out[j].sig

(***************************************************************************)
(* The klassId convention across all tables: a body's visit calls pass     *)
(* klassId() exactly when its GC manager is a GPGC Strong one.             *)
(***************************************************************************)
KlassIdConvention ==
  \A i \in DOMAIN out :
    out[i].visits => (out[i].kid <=> out[i].sig.gcm \in StrongManagers)

(***************************************************************************)
(* Spec 3 (DeferredHierarchyLink): the subklass and next_sibling links of  *)
(* a klass are visited only by the late revisit pass, never inline, in     *)
(* every generated body.                                                   *)
(***************************************************************************)
HierarchyLinksNeverInline ==
  \A i \in DOMAIN out : out[i].links # "inline"

=============================================================================
