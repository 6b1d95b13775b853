# Verification of the oopClosures generator

`src/MRI-J/hotspot/src/share/vm/oops/oopClosures.py` is a Python 2 script. It
prints the C++ bodies of the heap-traversal functions a HotSpot-derived VM
needs, one per (klass kind, operation, collector variant). The operations are:

- follow contents: mark and push every live reference;
- update card mark: refresh write-barrier state;
- verify no card mark: assertions only.

The collector variants are:

- MarkSweep;
- PSParallelCompact, with a `ParCompactionManager* cm` parameter;
- the GPGC (generational pauseless) new and old collectors, each in a
  Strong and a Final marking flavour;
- the GPGC new-gc, old-gc and mutator card-mark flavours.

The generated bodies are what this project models. Each module treats one
emitted function, or one template and the table that picks its arguments, as a
program. Its state is that program's cursors and the effects it has had. The
collector primitives it calls (`mark_and_push`, `push_array_chunk_to_stack`,
the discovery predicates) are collaborators: their answers are
nondeterministic, and their effects are recorded as counts of what was visited.

## Parts of the system

| Part | Source lines | What it does | Model |
|---|---|---|---|
| `format_params` | 43-63 | Renders the gcm parameter and the optional `, klassId()` argument | `Generator` (`Sig`) |
| `generic_one_liner`, `*_one_liner` | 66-72 and one per kind | Bodies that are a single trap or assertion | `Generator` |
| arrayKlassKlass, klassKlass, objArrayKlassKlass, instanceKlassKlass | 79-134, 699-766, 1091-1144, 485-578 | Klass-of-klass bodies: header, delegation to the base kind, deferred subklass/sibling links | tables and calls: `Generator` |
| constantPool, constantPoolCache(+Entry), constMethod, method, methodCode | 137-364, 883-988 | Field lists; a tag-guarded constant-pool loop; a reverse cache-entry loop | tables and calls: `Generator`; constant-pool body: `ConstantPoolKlass`; cache and entry bodies: `CPCacheKlass` |
| instanceKlass | 367-482 | `instanceKlass_non_static`: header and nonstatic oop-map blocks; `instanceKlass_static`: static fields | non-static: `RefTraversal` |
| instanceRefKlass | 581-696 | Reference objects: the referent gated by the collector's predicate, the `next` link, then the instance fields | `RefTraversal` |
| klassVtable, klassItable | 769-880 | Dispatch-table walks | tables: `Generator`; loops not yet |
| objArrayKlass | 991-1088 | Plain array walk, and the chunked walk used by the GPGC follow-contents variants | chunked walk: `ObjArrayChunking`; plain walk: `ObjArrayPlain`; what both promise: `ArrayScan` |
| symbolKlass, typeArrayKlass | 1147-1208 | No reference fields: assertions only | `Generator` |
| driver `main` | 1215-1301 | Command line, stdout redirection, calls every `*_generate` in order | call order: `Generator`; I/O not modelled |

How the parts interact:

- A generated body delegates to other generated bodies. An instanceRefKlass
  body ends by calling `instanceKlass::<same name>`. Klass-of-klass bodies call
  `klassKlass::` and `arrayKlassKlass::`.
- Argument conventions must agree along such a chain. The gcm parameter and
  the `klassId()` argument are chosen independently in each `*_generate` table.
- Chunked array traversal hands work to other GC threads through the marking
  stack. Those threads scan the chunks while the emitting thread still scans
  the rest of the array.

## What is hard, and where

The `hazards` of `PROJECT.json` list these at their lines:

- **The chunked array walk** (lines 1013-1055). Three regions (prefix, whole
  chunks, tail) must partition the array. The chunks are scanned concurrently
  by other threads, in any order. The prefix loop runs to the first cache-line
  boundary without comparing against the array end. That is correct only if
  an array long enough to be chunked always reaches that boundary.
- **Reference objects** (lines 581-667).
  - The two collector predicates have opposite senses.
  - The discovered branch returns early, and the instance fields must still be
    followed exactly once.
  - The spec's rule that `next` is always visited is not what two of the three
    templates do.
- **The plain array walk** (lines 991-1009). The header must be followed
  once, before the loop, and only by the MarkSweep and ParCompact rows. At the
  threshold boundary (line 1022), an array of exactly
  `GPGCArrayChunkThreshold` elements must take the plain path: spec 4.4 says
  short arrays are scanned exactly as the plain body scans them.
- **Constant-pool loops** (lines 201-219 and 283).
  - The pool's entry loop keeps `i` and `base` in step even for non-pointer
    entries.
  - The loop is skipped when the tags array is missing. The three instance
    variables are then still visited.
  - The cache walks its entries backwards with `while (i-- > 0)`. That loop
    must reach entry 0 and nothing past the end.
- **Oop-map loops** (lines 376-391): null slots and empty blocks.
- **Cross-table conventions**: the klassId argument.

## Modules

### `ObjArrayChunking` (objArrayKlass_chunking, lines 1013-1055)

**Constants:**

- `Threshold`: GPGCArrayChunkThreshold.
- `ChunkSize`: GPGCArrayChunkSize.
- `LineWords`: BytesPerCacheLine / BytesPerHeapRef.
- `MaxBase`, `MaxLen`: bounds on the array's start address and length.

Addresses are in words. The code's `round_down(base + BytesPerCacheLine - 1,
BytesPerCacheLine)` becomes `RoundUp(obj0, LineWords)`, because the base is
word aligned.

**Variables:**

- `obj0`, `end`: the array.
- `base`, `chunk_base`, `chunk_start`, `chunk_end`: the emitted code's locals.
- `pc`: the marking thread's position.
- `pending`: the chunks on the marking stack.
- `scanned[a]`: how often slot `a` was examined.

The null test on each slot is abstracted: it does not change the loops'
control.

**Actions:**

| Action | Code |
|---|---|
| `EnterChunked` / `EnterPlain` | the `if (a->length() > GPGCArrayChunkThreshold)` and the cursor setup |
| `PushChunk` / `EndPush` | the `while (chunk_end <= end)` push loop |
| `MarkPrefix` / `EndPrefix` | the prefix loop, and `base = chunk_start` |
| `MarkTail` / `EndTail` | the final `while (base < end)` loop |
| `DrainChunk` | another GC thread takes any pending chunk and scans it |

`DrainChunk` is the collector side of `push_array_chunk_to_stack`. It is
modelled from spec section 5, because that code is not in this repository.

**Fairness:** weak fairness of the marking thread (`Marker`) and of
draining (`DrainChunk`).

- The marking thread runs a straight-line body with no blocking call:
  `push_array_chunk_to_stack` only pushes.
- Spec section 5 requires the collector to drain every chunk unit before the
  array's traversal counts as complete. A chunk on the stack therefore cannot
  stay there forever.

No stronger fairness is assumed. Only `Termination` depends on fairness. It
is checked under the assumption that the drains happen, so it shows that the
body pushes finitely many chunks and that draining them completes the scan.
It does not show that the marking threads' work loop, which is outside the
generated code, pops every chunk.

**Refinement.**

- `Scan == INSTANCE ArrayScan WITH lo <- obj0, hi <- end, examined <- scanned`.
  The theorem `Refinement` (below) proves `Spec => Scan!SafeSpec`: each step
  of the marking thread or a drain examines a run of not yet examined slots
  of the array, or none. A drained chunk is one `Examine` of `ChunkSize`
  slots; a prefix or tail iteration is an `Examine` of one slot. The chunked
  run checks no separate refinement property: `ScanSafe`, `Partition` and
  `Termination` together already say that every slot is examined once.
- `Plain == INSTANCE ObjArrayPlain WITH variant <- "NewGCCard", pc <- PlainPC,
  headerFollows <- 0` maps the chunked body onto the plain one. `PlainPC`
  maps every scanning state to the plain loop. `ShortArraysArePlain ==
  Plain!Spec` is checked with `MaxLen = Threshold`, so every array is short.
  It is spec 4.4's "for L <= T the output is identical to the non-chunked
  single-pass traversal", step for step. A header-less row is the right
  target, because the chunked body follows no header.

### `ArrayScan` (abstract)

This is what an object-array traversal promises, whichever template emitted
it.

- **Variables:** `lo`, `hi` (the array) and `examined[a]`.
- **Step:** `Examine(i, j)` examines a run `i..j` of array slots that were not
  yet examined.
- **Fairness:** `Spec` has weak fairness. `SafeSpec` is its safety part,
  which the TLAPS refinement proof targets.
- **Invariant:** `ExaminedOnce`: every slot has been examined zero or one
  times, and a slot examined once lies in `lo..hi-1`. The lemma
  `ExaminedOnceHolds` proves it for every set of integer addresses. It is
  used in the proof of `PlainScanSafety`, which carries it over to the plain
  body through the refinement.

### `ObjArrayPlain` (objArrayKlass, lines 991-1009, and the five plain rows, lines 1071-1084)

- **Constants:** `Addr`, `MaxBase`, `MaxLen`.
- **Variables:**
  - `variant`: the row;
  - `obj0`, `end`, `base`: the array and the cursor;
  - `pc`;
  - `headerFollows`: the calls of `a->follow_header`;
  - `scanned`.
- **Actions:**
  - `Enter`: the optional `follow_header`, by `FollowsHeader[variant]` from
    the table's `DoFollowHeader`.
  - `Mark` / `EndLoop`: the `while (base < end)` loop.
- **Fairness:** weak fairness of the single thread.
- **Refinement:** the module refines `ArrayScan` the same way
  `ObjArrayChunking` does.
- **Assumption:** `AddrAssumption`: addresses are integers, and every slot of
  every array the model takes (`0..MaxBase+MaxLen`) has one.
- **Safety:** `PlainScanSafe`: no slot is examined twice, and none outside
  `[obj0, end)`. It states for the sequential loop what `ScanSafe` states for
  the chunked body, and guards the loop's bounds (line 1001) rather than any
  interleaving.

### `ConstantPoolKlass` (constantPoolKlass, lines 190-221)

- **Variables:**
  - `len`, `tagsNull`: `cp->tags() == NULL`;
  - `entry[k]`: `NonPtr`, `Null` or `Ref`;
  - `i`, `base`: the loop index and the slot pointer, kept apart as in the
    code;
  - `pc`;
  - `visits[k]` and `fieldVisits[f]`, for the instance variables tags, cache
    and pool_holder.
- **Actions:**
  - `Enter`: the verifier, the NULL test, `remap_only`, setting `base`;
  - `VisitEntry` / `EndLoop`: the `for` loop with `is_pointer_entry(i)` and
    `base->not_null()`;
  - `VisitFields`: the three unconditional visits.
- **Rows:** the five full-body rows differ only in calls that change no
  visit count. One body stands for all of them; their signatures are in
  `Generator`.

### `CPCacheKlass` (constantPoolCacheKlass, lines 273-285, and ConstantPoolCacheEntry, lines 328-343)

- **Variables:**
  - `len`, `vfinal[e]`;
  - `i`: the counter of `while (i-- > 0)`, which ends at -1;
  - `pc`;
  - `poolVisits`, `f1Visits[e]`, `f2Visits[e]`.
- **Actions:**
  - `Enter`: the `constant_pool` visit and `i = length()`;
  - `VisitEntry`: a true loop test. It decrements the counter and runs
    `EntryOperator`, the entry body;
  - `EndLoop`: a false test, which also decrements.

### `RefTraversal` (instanceRefKlass, lines 581-696, and instanceKlass_non_static, lines 367-392)

**Choices made in `Init`:**

- `variant`: one of the nine rows of `instanceRefKlass_generate`. `RefTemplate`
  gives its template: weak, GPGC or all.
- `referentNull`: whether the referent is null.
- `oopMaps`: the class's nonstatic oop-map blocks (up to `MaxBlocks` blocks of
  up to `MaxBlockLen` slots).
- `nullSlots`: which instance slots are null.

**Actions of the reference body:**

- `LoadAll`, `LoadNull`, `LoadNonNull`: the referent load and the null test.
- `TestDiscover` and `TestMarkThrough`: the two predicates. Each takes a
  nondeterministic answer. What the answer means is recorded in `verdict`
  (`defer` or `normal`).
- `VisitReferent` and `VisitNext`: the operator calls.
- `CallInstance`: the call of `instanceKlass::<name>` from either call site.
  `site` records which one: `early` for the discovered branch (line 600),
  `end` for the end of the body (lines 626, 644, 664).
- `Return`: the callee has come back (`pc = "Returned"`), and the body
  returns: the `return;` of line 606, or the closing brace after the last
  call. The mutant `ReturnDropped` leaves out the `return;` and falls through
  from the early site to `Next`. `InstanceFieldsOnce` catches it, because
  `instanceKlass::<name>` is then called a second time.

**Actions of the callee:**

- `IEnter`: the header, and `map = start_of_nonstatic_oop_maps()`.
- `IMapNext`, `IMapsDone`, `IBlockDone`: the block loop. `IMapsDone` ends the
  callee and returns to its call site (`pc = "Returned"`).
- `IVisitSlot` and `ISkipNull`: the slot loop and its null test.

**Tables:**

- `FollowsHeader`: the `DoFollowHeader` flags of instanceKlass_generate.

The klassId() argument of the visit calls is not modelled here. The
`Generator` invariant `KlassIdConvention` checks it on the tables themselves.

**Fairness:** the body is sequential, so `WF_vars(Next)`. No liveness property
is checked yet.

**Action property:** `ReferentAfterVerdict`. Every step that visits the
referent starts from a state whose verdict is `normal`, unless the template is
`all`, which has no test. A verdict, once given, is never changed. This is the
order of lines 597-614 (test, then visit in the else branch) and 641-642.
`ReferentPolicy` looks only at `Done`. It misses a weak body that visits
before testing, because there the verdict stays `none`. The mutant
`LoadNonNullUntested` is such a body, and only the action property catches it.

### `Generator` (the driver `main` and all seventeen `*_generate` tables)

`main` calls the tables in the order of lines 1283-1299. `Program` flattens
them into one sequence of template calls, one row per call. A row records:

- the class and the template function;
- the method name and the GC-manager type;
- `pass_klassId`;
- for one-liners, the operator, abstracted to three values: a trap, a forward
  to `GPGC_verify_no_cardmark(obj)`, or an assertion;
- the extra argument that names another generated function: the static-field
  follower, the cache-entry operator, the verifier or the revisit collector.

**Variables:**

- `pc`: the next template call.
- `out`: the definitions printed so far.

**Actions:** there is one per template function (`PrintArrayKlassKlass`,
`PrintConstantPoolCacheKlass`, ...). Each prints one definition:

- its signature: class, name, gcm type, whether it takes `obj`, whether it
  takes `int klassId`;
- the signatures of the generated functions its body calls;
- whether it is a trap;
- whether its visits pass `klassId()`;
- for klassKlass, what happens to the subklass and sibling links.

Field lists, assertions and collector primitives are left out. The
run is a single behaviour of 157 states, because the script is deterministic.
Deadlock is not checked: `main` ends with `sys.exit(0)`.

## Runs

| Run | Config | Checks | Shows |
|---|---|---|---|
| `chunking` (pass) | `MCObjArrayChunking.cfg`: threshold 3, chunk 2, line 4 words, start 0..3, length 0..11 | `TypeOK`, `ScanSafe`, `Partition`, `Termination` | Every slot of every such array is examined exactly once, for every interleaving of the marking thread with the drains. Under the fairness above, the body returns and the stack drains |
| `chunking_short_threshold` (violation) | same, threshold 1 | `ScanSafe` | The prefix loop reads past the end of a short unaligned array |
| `ref_traversal` (pass) | `MCRefTraversal.cfg`: up to 2 blocks of up to 2 slots | `TypeOK`, `InstanceFieldsOnce`, `ReferentPolicy`, `ReferentAfterVerdict` | Fields followed once on every path, the early return included; the referent obeys the verdict, and is visited only in a step after a `normal` answer |
| `ref_next_link` (violation) | same | `NextAlwaysVisited` | `next` is skipped, contrary to spec 4.5 |
| `generator_tables` (pass) | `MCGenerator.cfg` | `TypeOK`, `CallsResolve`, `UniqueDefinitions`, `KlassIdConvention` | Every call from a generated body to another generated function finds a non-trap definition with exactly its parameter list; no definition is printed twice; `klassId()` is passed exactly by the Strong bodies |
| `chunking_short_is_plain` (pass) | `MCObjArrayChunkingShortPlain.cfg`: threshold 3, length 0..3, start 0..7 | `ShortArraysArePlain` | Arrays up to the threshold take exactly the plain body's steps (spec 4.4) |
| `plain` (pass) | `MCObjArrayPlain.cfg`: all five rows, start 0..2, length 0..4 | `TypeOK`, `PlainScanSafe`, `ImplementsArrayScan` | No slot is examined twice or outside the array, and every slot is examined: the plain body implements `ArrayScan` |
| `constant_pool` (pass) | `MCConstantPoolKlass.cfg`: up to 4 entries | `TypeOK`, `PoolVisitsExact` | Exactly the pointer entries holding a reference are visited (none without tags); each instance variable once |
| `cp_cache` (pass) | `MCCPCacheKlass.cfg`: up to 4 entries | `TypeOK`, `CacheVisitsExact` | The reverse loop reaches entry 0 and nothing past the end; `_f2` exactly for vfinal entries |
| `generator_klass_links` (violation) | `MCGeneratorLinks.cfg` | `HierarchyLinksNeverInline` | The klassKlass verify body visits the subklass and sibling links inline |

**Why these bounds are enough.**

In `chunking`, start addresses 0..3 cover every alignment modulo a 4-word
line. Lengths up to 11 cover each of these cases:

- arrays below, at and above the threshold;
- arrays that hold zero, one and several whole chunks;
- tails of length 0 and 1;
- prefixes of length 0 to 3.

In `chunking_short_is_plain`, lengths 0..3 run up to and including the
threshold, which is the boundary the `>` of line 1022 decides. Starts 0..7
place these arrays at every offset of two lines. The pool and cache runs
take every entry pattern of up to four entries, which includes non-pointer
entries before and after pointer entries, and the empty pool and cache.

In `ref_traversal`, the oop maps include the empty map, an empty block, a null
slot next to a non-null one, and a second block.

Each property of a passing run has a mutant in `PROJECT.json`: a plausible
bug in the mapped code that TLC finds violating it.

## Findings

1. **Chunk threshold versus cache line** (line 1034). Spec 4.4 claims the
   partition holds "regardless of alignment or threshold values". The emitted
   prefix loop examines slots up to the first cache-line boundary. If
   `GPGCArrayChunkThreshold < LineWords - 1`, an array just above the
   threshold can end before that boundary, and slots past its end are read and
   marked. TLC's counterexample uses threshold 1 and a 4-word line: an array at
   word 1 with length 2 has slot 3 examined.

   The condition `LayoutOK` (`Threshold >= LineWords - 1`) is sufficient:
   with it the proofs show the partition for all constants. It is not the
   weakest such condition. A prefix has at most `LineWords - 1` slots and a
   chunked array more than `Threshold`, so `Threshold >= LineWords - 2`
   already keeps the prefix inside the array. `LayoutOK` is the form the
   proof of `EnterChunked` uses.
2. **The `next` link** (lines 606 and 631-648). Spec 4.5 says both policies
   visit `next` unconditionally. In the code:
   - the weak template returns before `next` when discovery succeeds;
   - the GPGC template has no `next` visit at all.

3. **Deferred hierarchy links** (line 745). `klassKlass_generate` emits
   `GPGC_verify_no_cardmark` with `DoFollowKlassTree`, so that body visits
   `adr_subklass()` and `adr_next_sibling()` inline (lines 715-717). The
   spec's DeferredHierarchyLink role says those links are never visited inline.
   The body only asserts that there is no card mark. It therefore keeps nothing
   alive, but the role as the spec states it does not hold.

## Proofs (`ObjArrayChunkingProofs`)

Checked by tlapm, for every value of the constants satisfying
`ConstantsAssumption`:

- `TypeCorrect`: `Spec => []TypeOK`.
- `InductiveInvariant`: `LayoutOK => (Spec => []IInv)`.
- `ScanSafety`: `LayoutOK => (Spec => []ScanSafe)`.
- `PartitionLaw`: `LayoutOK => (Spec => []Partition)`.

`ConstantsAssumption` is: naturals, and positive chunk and line sizes.

`ScanSafe` and `Partition` are not inductive by themselves. The strengthening
`IInv` (TLC-checked as an invariant first) states:

- the cursor order `obj0 <= chunk_base <= chunk_start <= end`;
- per-`pc` facts about `base` and `chunk_end`;
- pending chunks lie in `[chunk_base, chunk_start)` and are pairwise disjoint;
- the central fact: every address is examined exactly once if it is
  `Covered`, and zero times otherwise. An address is `Covered` when the
  marking thread's loops have passed it, or when it lies in a chunk that was
  pushed and is no longer pending.

Each action preserves this as follows:

- `MarkPrefix` and `MarkTail` add exactly their cursor to `Covered`.
- `PushChunk` moves `chunk_start` forward over a chunk that becomes pending.
- `DrainChunk` moves a chunk from pending to covered.
- `LayoutOK` is used once: in `EnterChunked`, to show that the rounded
  boundary lies at or before `end`.

`ScanSafe` and `Partition` follow from `IInv`. The lemma `RoundUpBounds` gives
`x <= RoundUp(x, n) <= x + n - 1`.

`Refinement`: `LayoutOK => (Spec => Scan!SafeSpec)`. The chunked body, with
its drains, implements the safety part of `ArrayScan`, for all constants. It
is proved in three parts:

- initial states map to `ArrayScan` initial states;
- under `IInv`, each `MarkPrefix` or `MarkTail` step is `Scan!Examine(base,
  base)` (lemma `CursorStep`), because the cursor's slot is in the array and
  is not `Covered`;
- each `DrainChunk` step is `Scan!Examine(c, c + ChunkSize - 1)` (lemma
  `ChunkStep`), because a pending chunk lies inside the array and none of its
  slots was examined;
- every other step leaves `obj0`, `end` and `scanned` unchanged, which is a
  stutter of `ArrayScan`.

`ShortRefinement`: `MaxLen <= Threshold => (Spec => Plain!Init /\
[][Plain!Next]_Plain!vars)`. This is the safety part of
`ShortArraysArePlain`, for every instance in which no array is longer than
`GPGCArrayChunkThreshold`. The hypothesis is what "short" means, and it is
what the `chunking_short_is_plain` run sets (`MaxLen = Threshold = 3`).

- The invariant `ShortInv` (TLC-checked first) says `pc` stays in
  `{"Entry", "MarkTail", "Done"}` and nothing is ever pushed. It is inductive
  because `EnterChunked` is disabled when `end - obj0 <= MaxLen <= Threshold`.
- Under it, `EnterPlain` is the plain `Enter` of a row that follows no header.
- `MarkTail` is the plain `Mark` (lemma `ShortMarkStep`): `ScanAll({base})`
  equals `[scanned EXCEPT ![base] = @ + 1]` because the cursor has an address.
- `EndTail` is `EndLoop`, and `Terminated` is a stutter.

## Proofs in `ConstantPoolKlass`, `CPCacheKlass` and `ObjArrayPlain`

These theorems sit in their own modules, since they are few. Each is proved
from an inductive loop invariant, which was first checked by TLC.

- `PoolVisitsExactHolds`: `Spec => []PoolVisitsExact`, for every
  `MaxPoolLen` in `Nat`. The invariant `IInv` says:
  - in the loop, `base = i`, and the slots before `i` are visited exactly when
    they hold a reference (`Counted(i)`);
  - the loop is entered only with tags;
  - the entries past `len` carry no pointer tag (`NoTail`), which is what makes
    "`k < len`" and the property's "`entry[k] = "Ref"`" agree.
- `CacheVisitsExactHolds`: `Spec => []CacheVisitsExact`, for every
  `MaxEntries` in `Nat`. The invariant is `Visited(i)` in the loop, with
  `i \in 0..len`: exactly the entries `i..len-1` have been visited. At exit it
  is `Visited(0)`.
- `PoolTypeCorrect`, `CacheTypeCorrect` and `PlainTypeCorrect`: `Spec =>
  []TypeOK` in each module. They follow from the loop invariants above, which
  contain `TypeOK`. In `ObjArrayPlain` that invariant is `HeaderInv`: nothing
  is examined and the header is not followed before `Enter`, and after `Enter`
  the header count is fixed by the row. For the cache this includes `i \in -1..len`: the last,
  failing `i-- > 0` leaves the counter at -1.
- `PlainRefinement`: `Spec => Scan!SafeSpec` in `ObjArrayPlain`, the safety
  part of its `ImplementsArrayScan`. It holds for every `Addr`, `MaxBase` and
  `MaxLen` satisfying `AddrAssumption`: every slot of every array the model
  takes has an address. This holds in both instances, `MCObjArrayPlain` and
  the one `ObjArrayChunking` makes.
  - The loop invariant `ScanInv` (TLC-checked first) adds to `HeaderInv` that
    exactly the slots `obj0..base-1` have been examined, once each.
  - Under it, a `Mark` step is `Scan!Examine(base, base)` (lemma `MarkStep`),
    and every other step leaves `obj0`, `end` and `scanned` alone.
- `PlainScanSafety`: `Spec => []PlainScanSafe`. The proof needs no invariant of
  its own. `PlainRefinement` gives `Scan!SafeSpec`, the instance of
  `ExaminedOnceHolds` gives `[]Scan!ExaminedOnce` (here `AddrAssumption`
  supplies `Addr \subseteq Int`), and `Scan!ExaminedOnce` is `PlainScanSafe`
  under the mapping.

## Lemma in `ArrayScan`

`ExaminedOnceHolds` is a lemma, used only by `PlainScanSafety`:
`Addr \subseteq Int => (SafeSpec => []ExaminedOnce)`.
The hypothesis holds in every instance; all three give `Addr` a range of
integers. The inductive invariant `AInv` adds to `ExaminedOnce` that `lo` and
`hi` are integers. Without that, `i \in lo..hi-1` says nothing about `i`. An
`Examine(i, j)` step with `i, j` in the array sets to 1 only slots of
`i..j`, which lie in the array and were 0 (lemma `ExamineStep`).

## Proofs (`RefTraversalProofs`)

Checked by tlapm, for every `MaxBlocks` and `MaxBlockLen` in `Nat`
(`BoundsAssumption`), so for every shape of oop map, every null pattern,
every variant and every answer of the collector:

- `RefTypeCorrect`: `Spec => []TypeOK`.
- `ReferentPolicyHolds`: `Spec => []ReferentPolicy`.
- `InstanceFieldsOnceHolds`: `Spec => []InstanceFieldsOnce`.

All three rest on the lemma `InvInvariant`: `Spec => []IInv`. `IInv` was
checked by TLC on the `MCRefTraversal` instance before it was proved. It
conjoins three parts:

- `TypeOK`;
- `RefInv`: what the reference body has done with the referent at each
  `pc`. At "Referent" the verdict is never "defer" and there has been no
  visit yet. Past that point there has been at most one visit, none if
  the verdict is "defer" and one if it is "normal".
- `InstInv`: the instanceKlass body's progress.
  - Before the call, nothing has happened.
  - After it, there has been exactly one call.
  - Once the loops run, the cursors lie inside the oop maps, and the header
    has been followed as the variant says.
  - Each slot has been visited once if it is non-null and `Passed` (behind
    the block cursor, or behind the slot cursor in the current block), and
    zero times otherwise. This is the loop invariant of the two nested
    `while` loops of `instanceKlass_non_static`.
  - From the callee's end (`Returned`) on, the block cursor is past the last
    block.

`ReferentAfterVerdictHolds`: `Spec => ReferentAfterVerdict`, the action
property. It rests on `IInv` and on a second invariant, `ReferentGate`: at
"Referent" the verdict is `normal` or the template is `all`. `ReferentGate`
is inductive by itself (lemma `GateInductive`) and was checked by TLC as an
invariant first. Only `LoadAll`, `TestDiscover` and `TestMarkThrough` reach
"Referent"; the first does so only in the all template, and the tests only
with the answer `normal`. The step lemma `VerdictStep` argues per action.

- `VisitReferent` is the only step that changes the referent's count. It
  starts at "Referent", so the gate applies.
- The tests are the only steps that set the verdict. By `RefInv` they run
  only while it is `none`.
- `VisitNext` changes only the `next` count, and every other step changes
  neither the verdict nor the counts.

`InstanceFieldsOnce` is not inductive alone: it speaks only at `Done`. The
loop invariant is what carries it there.

Each action preserves `IInv` as follows:

- `IVisitSlot` and `ISkipNull` move the slot under the cursor into `Passed`.
  The first counts a visit of it; for the second it is null.
- `IBlockDone` moves the block cursor at the end of a block. Every slot of
  that block is already passed, because the slot cursor equals the block
  length (lemma `InstSlotsChar`, which characterises `InstSlots` through the
  oop-map lengths; it rests on `OopMapsSeq`).
- `IMapsDone` leaves `map = Len(oopMaps) + 1` and returns to the call site;
  `Return` then reaches `Done` with nothing changed, so at `Done` every
  instance slot is passed and there has been one call.

**Only model-checked:**

- everything in `Generator`;
- every property of `chunking` with `LayoutOK` violated;
- the liveness property `Termination`, and the fairness part of the plain
  `ImplementsArrayScan`;
- the fairness part of `ShortArraysArePlain` (its safety part is
  `ShortRefinement`).

The following are beyond TLAPS here:

- liveness and `ENABLED`;
- what recursive definitions compute for every input.

`Generator` builds its program with `FlattenSeq`, a fold over a fixed
table. Its properties concern that one table, so TLC's exhaustive run of the
one deterministic behaviour already covers them completely.

## Not modelled yet, and the plan

Done so far:

- the generator tables (`Generator`);
- the constant-pool and cache loops;
- the plain `objArrayKlass` template;
- the abstract `ArrayScan` and both refinements into it;
- termination of the chunked walk.

Still to model, in this order:

1. **`instanceKlass_static`** (`follow_static_fields`).
2. **The field lists of the klass-of-klass bodies** and the vtable/itable
   walks.
3. **The method, constMethod and methodCode bodies.** These are fixed lists
   of unconditional visits.

Three hazards have no property:

- the GPGC template re-reading the referent through `referent_addr` after
  `mark_through_non_strong_ref` tested the loaded value (lines 638-642). Its
  interleaving involves the mutator and the concurrent collector, which are
  outside the generated code;
- a `GPGCArrayChunkSize` of 0 (line 1028), which `ConstantsAssumption`
  excludes;
- a wrong `DoFollowHeader` flag in the objArrayKlass table (line 997). The
  header position is configuration data, and the table is its only source.

The driver's command-line and file handling are I/O and stay out of the model.
