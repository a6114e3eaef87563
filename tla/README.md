# A TLA+ model of the slot map

This directory specifies, model-checks and proves properties of
`wjh::slotmap::BasicSlotMap`, a header-only C++20 container. `emplace` stores an
element and returns a key (index, version); the key finds that element, and no
other, for as long as the map lives. Nothing in the library runs concurrently:
the hard part is that a long sequence of legal calls threads one free list
through slabs that are created, exhausted, moved and deleted, and that user code
(constructors, destructors, moves, callbacks) runs in the middle of a call, where it
may throw, stop it, or call the same map again.

Source paths below are relative to `src/src/wjh/slotmap/` unless they start with `src/`.

## The system

| Part | Source | State | Operations |
|---|---|---|---|
| `BasicSlotMap` | `SlotMap.hpp`, `SlotMap.ipp` | `free_list_head_`, `size_`, `dead_slots_`, `objects_created_`, `slots_per_slab_`, `next_slab_base_index_` | construct, `emplace`/`try_emplace`, `erase`, `pop`, `use`, `contains`, `for_each`, `clear`, `reset`, `reserve`, `statistics`, copy, move, swap |
| `Slab` | `detail/Slab.hpp` | `dead_count_`, the slots, the alive bitmap behind them | `create`, `clone`, `emplace`, `destroy`, `recycle`, `for_each_alive`, destructor |
| `Slot` | `detail/Slot.hpp` | `storage_` (a value **or** a free-list link), `version_bytes_` (version and, where it fits, an alive bit) | `emplace`, `destroy`, `next`/`set_next`, `version`/`set_version`, alive-bit tests |
| storage policies | `detail/SlotMap.hpp` | `slabs_`: one slab, or a vector of slabs with a shift and a mask | find a slab, allocate a place, recycle or delete an exhausted slab, clone, swap |
| `Key` | `Key.hpp`, `Key.ipp` | index, version and user bits packed in one integer | pack, unpack, null, compare, hash |
| statistics | `types.hpp`, `SlotMap.ipp` | none | counters derived from the map's |
| traits, types, ABI | `Traits.hpp`, `detail.hpp`, `types.hpp`, `abi.hpp` | none | compile-time choices |

How they interact. A map calls its policy to find the slab of an index; it calls
the slab to emplace or destroy; the slab writes the slot's bytes, the slot's alive
bit and its own bitmap. A removal tells the map whether the slot may be reused:
if so the map pushes it on the free list, else the map asks the policy to recycle
the slab, and the policy calls back into the map for the new place. `use` and
`for_each` call the client with `Options`, whose `erase` flag makes the map remove
the element after the callback, in `use` from a destructor.

What makes each part correct:

* **map** – a key is issued once; it finds its element until the element is
  removed and nothing afterwards; no call disturbs another key's element; the free
  list holds exactly the slots `emplace` may still use; the counters agree with
  the slots; an exception leaves all this true.
* **slab** – the bitmap says which slots hold a value; `dead_count_` counts the
  slots with no version left; a slab is recycled or deleted only when all are.
* **slot** – bytes are read as a value only when alive and as a link only when
  free; the embedded alive bit agrees with the bitmap.
* **policies** – the single-slab and the multi-slab map behave alike until slabs
  are exhausted.
* **iteration** – each element alive throughout is visited once, every key handed
  out is valid, the walk ends, and erasing through `Options` while walking never
  touches a slab that is gone.
* **copy, move, swap** – keys follow the slabs; each slab has one owner; a failed
  copy leaves source and target as they were.
* **client code inside a call** – a nested call acts as if it came before or after
  the outer one.
* **key** – fields packed in one integer come out as they went in; what compares
  equal, identifies the same object or is null does so by its fields.
* **configuration** – the integers the types choose are wide enough for every sum,
  shift and product computed in them.

`PROJECT.json` lists the hazards behind these, each at its line.

## Modules

| Module | What it is |
|---|---|
| `SlotMap` | The map with its slabs and slots; one action per call; its properties |
| `KeyedStore` | Abstract: the store a client sees, no slots, no versions, no list. `SlotMap` implements it |
| `SlotMapInv` | The inductive invariant `KeyInv` |
| `MCSlotMap` | Gives TLC the module and the symmetry of values |
| `Statistics` | Extends `SlotMap` with the record `statistics()` computes, in unsigned arithmetic |
| `ForEach` | Extends `SlotMap` with a `for_each` in progress |
| `Reentry` | Extends `SlotMap` with a stack of calls in progress, cut open where they run client code |
| `Ownership`, `MCOwnership` | Several maps and the heap of slabs they own: construct, copy, move, swap, reset, destroy |
| `MapValues` | Abstract: maps as independent values. `Ownership` implements it |
| `Slab` | One slab and its slots as bits in memory |
| `AbstractSlab` | Abstract: what a slab promises its map. `Slab` implements it |
| `SlabClone` | Extends `Slab` with a `clone()` in progress |
| `KeyBits` | A key as one integer, and a client that holds, retags and compares keys |
| `Powers` | `Pow2[n]`, that is `1 << n`, for `KeyBits` and `Configuration` |
| `Configuration` | The widths, slab sizes and index ranges of a map type |
| `SlotMapProofs` | TLAPS proofs about `SlotMap`: types, keys, free list, the refinement of `KeyedStore`, `Statistics` |
| `ForEachProofs`, `ReentryProofs` | Proofs about `ForEach` and `Reentry`, on those about `SlotMap` |
| `OwnershipProofs`, `SlabProofs` | Proofs about `Ownership` with `MapValues`, and about `Slab` with `AbstractSlab` and `SlabClone` |
| `PowersProofs`, `KeyProofs`, `ConfigurationProofs` | Powers of two, and on them the proofs about `KeyBits` and `Configuration` |

They form one picture at three scales. `SlotMap` treats a slot's version, alive bit
and bitmap bit as three fields and a key as a pair; `Slab` and `KeyBits` show, on the
integers that really hold them, that the code's masks, shifts and tests give those fields
that meaning. `SlotMap` computes in the integers without bound; `Configuration` asks
for which types that is what the code does. `SlotMap` has one map and whole calls;
`ForEach` and `Reentry` open the calls that run client code, and `Ownership` puts several maps
side by side.

### State and actions of `SlotMap`

State is kept per global slot index, the way a key names a slot; slab `s` holds the
indices `i` with `SlabOf(i) = s`. `slabs` is the set of places in the policy's vector
that hold a slab. `version`, `aliveBit`, `bitmap` and `storage` are the slot's
version, embedded alive bit, bit in the slab's bitmap, and bytes. `storage[i]` is
either a link or a value, never both, as in the code. `deadCount`, `freeHead`,
`size`, `deadSlots`, `objectsCreated` and `nextBase` are the code's counters.
`issued` (history) holds the keys returned since construction or `reset`; `status`
says how the latest call ended. Slots of absent slabs read as blank.

| Action | Code |
|---|---|
| `TryEmplace`, `EmplaceThrows`, `EmplaceAborts` | `try_emplace`/`emplace` that succeed; whose constructor throws; that trip an `assert` or follow a link out of the map |
| `Reserve(to)` | `reserve`, complete or cut short by `bad_alloc` after at least one slab |
| `Erase(k)` | `erase` and `pop` of a key that is found: the slot is reused (`Reuse`), dies (`Retire`), or dies last and its slab is deleted (`Release`) |
| `PopThrows(k)` | `pop` whose move throws |
| `Use(k)`, `UseErases(k)` | `use`, the callback assigning, throwing, asking for the erase |
| `EraseRecycles(k)`, `RecycleAborts(k)` | any removal whose slab is recycled (`Recycle`), or trips `recycle`'s assert |
| `RecycleFails(k)` | a removal whose slab should move, and the vector that holds slabs cannot grow: `bad_alloc` |
| `Clear`, `Reset` | `clear`, `reset` |

Calls that find nothing, `contains`, `size` and `statistics` are stuttering steps.
Constants choose the configuration: `SingleSlab` (policy), `HasAliveBit`
(`UseAliveBitForLookup` and room for the bit), `Asserts` (`NDEBUG` or not),
`PartialWrites` (whether constructors may write before they throw), `AllocFails` (whether
the vector's growth may throw in a removal).

When a slot that is alive, or absent, reaches the head of the list (only after a
recycling or a torn constructor), the model does what the build does: `assert`
stops the program, and without it the slot is overwritten and the next link is
whatever its bytes read as, any link.

### State and actions of the other modules

**`ForEach`.** `slabIdx` is the position in `storage_for_each_slab`, `offset` and `rest` are
`slot_base` and the copied bitmap word of `for_each_alive`, `stop` is `options.stop`. The
slab is held by pointer in the code: `at` follows it to its new range when an erase
recycles it, or is `Gone`. `NextSlab`, `LoadWord`, `CallBack`, `CallbackReturns`, `EndWord`, `EndSlab`
and `EndWalk` are the loops' steps; a callback may also throw, or erase another element itself
(`CallbackErases`, as far as `MayErase` lets it). `CallbackReturns` with `erase` set is
`SlotMap`'s own removal, recycling included. Between walks every action of `SlotMap` is taken.

**`Reentry`.** A frame holds what a call keeps in local variables while client code runs:
`StartEmplace` grows the map and reads head, version and link, `FinishEmplace`
or `FailEmplace` goes on after T's constructor; `StartErase` looks the element up and
`FinishErase` goes on after T's destructor; `StartPop` looks it up, and after T's move `PopMoves` goes on as an erase or
`FailPop` gives up; `FinishUse` and `FinishUseErasing` follow
`use`'s callback, the latter erasing by key. `Sweep` is `clear`'s loop from one destructor to the next, which
`StartClear` and `ContinueClear` take in turns. `Nested` names the calls whose client code calls
the map again. Such code may call `emplace`, `erase`, `pop`, `use`, `clear`, and `reserve` and `reset`, which take effect at once
(`CallReserve`, `CallReset`). A destructor, or `pop`'s move, does not erase, pop or use the element it runs for, nor clear or reset the map;
the destructors that `reset` runs call nothing.

**`Ownership`.** `map[m]` is the record of `m`'s data members, the slab size once in the
map (`per`) and once in the policy (`policy`); `heap` maps slab ids to slabs. A move or swap takes the
members one by one as the code does (`Taken`); copies go slab by slab (`CopySlab`, `CopyThrows`) into the new
map or into the temporary of copy assignment, which is then swapped and
destroyed. Erasing covers reuse, death and deletion of a slab. `gone` records a slab freed
while some map still points at it.

**`Slab`, `SlabClone`.** `version_bytes` holds a version and possibly an alive bit: the widths are given as
the powers of two they stand for, `MaxVersion` (the version's mask) and `AliveBit` (the integer's highest bit). `bitmap` is
bytes of `ByteBits` bits, each a function from bit positions to 0 and 1; `storage` holds a value or a link. `Emplace`, `EmplaceThrows`, `Destroy`,
`Recycle` and `Finalize` (`~Slab`) are the class's operations; `objects` counts
constructions less destructions in each slot. `SlabClone` copies header, slots and, at the very end, bitmap;
`CopyThrows` starts the catch block, `DestroyCopied` and `FinalizeCopy` are its steps. `FreshBits` is what a bit of new memory may read as.

**`KeyBits`.** `held` are the integers the client holds, `meant` what each was made to say.
`Issue` is `emplace`'s key with the default tag, `Retag` is `with_user(User(x))`, `Rebuild` is
`Key(index, version)`, `Nullify` is `null()`.

**`Configuration`.** `Init` picks a type; `DefaultConstruct` and `ExplicitConstruct(n)` are the
constructors, for every `n`, accepted or refused; `AllocateSlab` and `RecycleSlab` hand out the next
index range with the code's wrap-around.

## Runs

| Run | Instance | Shows |
|---|---|---|
| `MultiSlab` | 2 slabs × 2 slots, versions 0..2, two values, until every slot is dead; `max_objects` at the edge of its type | `StoreImplemented`: every call is one operation of `KeyedStore`. `FreeListSound`, `OnlyClearDropsSlots`: only `clear` loses usable slots, and only those at their last version; `AccountingExact`, `LiveKeysIssued`, `IssuesFreshKey`, `StaleKeysStayInvalid`, `KeyInv`; `SlotsAddUp`, `LifetimeExact` of `statistics()`: no unsigned difference wraps, and `objects_remaining` is the keys still issuable and one for each slot `clear` lost. Up to the first recycling |
| `SingleSlab` | 1 slab × 4 slots, versions 0..2, no alive bit, two bitmap words, asserts | the promises about keys and the free list for the other policy and the other lookup; `HandsOutLiveElements`, `EachElementOnce` across a word boundary, `ReadsExistingSlab` |
| `DebugFull` | 2 × 2 slots, recycling, torn constructors, asserts, `bad_alloc` of the vector | types, agreement of the two lookups and `size_` survive even a damaged list |
| `Walk` | 2 slabs × 2 slots, one bitmap word each, `NDEBUG` | `HandsOutLiveElements`, `EachElementOnce` and, under fairness, `WalkEnds`, with slabs deleted and recycled under the walk |
| `ReentrantCalls` | 2 × 2 slots, versions 0..1, client code of `use`, `erase` and `pop` calls the map, 2 deep | `CallsActAtomically`: each interleaving is a sequence of `SlotMap`'s whole calls; `SizeCountsElements` |
| `Ownership` | 2 maps and the temporary, slab sizes 1 and 2 over 2 slots, 6 addresses | `OneOwner`, `MembersFollowSlabs`, and `MapsAreValues`: the maps implement `MapValues` |
| `Slab` | 3 slots over two bitmap bytes of 2 bits, an alive bit above the version; every reachable slab cloned, T throwing at any slot, new memory reading anything | `SlabKeepsPromise` (implements `AbstractSlab`), `LookupFindsTheLife`, `ObjectsBalance`, `AssertsHold`; `CloneIsEqual`, and `CopiedDestroyedOnce`: a clone that throws has destroyed each copied value once when `~Slab` starts |
| `Keys` | two keys of 2 + 2 + 2 bits, tags one bit too wide, `NDEBUG` | `KeysSayWhatTheyMean`, `SameObjectIgnoresTags`, `OrderIsByTagVersionIndex`, `OnlyNullIsNull` |
| `Widths` | keys of 4 and 8 bits, integers of 2, 4, 8, 16 bits, index 1..7 bits | `EveryIndexHasASlot`, `RangesWithinIndexSpace`, `TotalObjectsExact` |

and three runs in which TLC finds a promise of the documentation or of a comment broken:

| Run | Property | What TLC finds |
|---|---|---|
| `RecycleReuse` | `IssuesFreshKey` | `handle_slot_removal` sets `free_list_head_` before putting it in the tuple as the last slot's link: the recycled slab's list is a cycle and the old list is lost. With `NDEBUG` an alive slot is overwritten and its key issued again |
| `ClearLeak` | `FreeSlotsAreOnFreeList` | `clear` takes a free slot at the last version for a dead one and forgets it |
| `WalkFreed` | `ReadsExistingSlab` | erasing a slab's last element through `Options` deletes the slab while its remaining bitmap words are still to be read |

### Further configurations

Kept to be run by hand with `tlc -config X.cfg <module>`. `SlabPlain` passes: it is `Slab` with a version that
fills its integer, so that no alive bit fits and lookups go to the bitmap. In each of the others
TLC finds the one property it lists violated:

| Configuration | Module | Property | What TLC finds, and what says otherwise |
|---|---|---|---|
| `RecycleAssert` | `MCSlotMap` | `NeverAborts` | the first finding with asserts: the program stops in `Slab::emplace` |
| `RecycleNoMemory` | `MCSlotMap` | `RangesGetSlabs` | the vector's `bad_alloc` in a removal (`detail/SlotMap.hpp:421`) comes after the map took the new range: the range never gets a slab and `emplace` is sent there |
| `TornConstructor` | `MCSlotMap` | `FreeListSound` | a constructor that writes, then throws, destroys the link in the same bytes; `SlotMap.ipp:253` promises "if this throws, we haven't modified state" |
| `UseThrows` | `MCSlotMap` | `ThrowingKeepsElements` | a callback that asks to erase and then throws still erases |
| `ClearKeepsExhausted` | `MCSlotMap` | `ExhaustedSlabsGo` | a slab exhausted by `clear` stays for ever; "Recycling is automatic and transparent" (`src/README.md:558`) |
| `WalkStale` | `ForEach` | `HandsOutLiveElements` | a callback erases an element ahead of it in the copied word (`detail/Slab.hpp:357`): the dead slot is handed out |
| `NestedEmplace` | `Reentry` | `IssuesFreshKey` | a constructor that emplaces is given the slot its own object is about to take |
| `NestedClear` | `Reentry` | `SizeCountsElements` | an element emplaced by a destructor that `clear` runs stays, and `size_` is set to 0 |
| `UseDangling` | `Reentry` | `ValueValidInCallback` | a `use` callback that erases its own key goes on with a destroyed value |
| `ClearRemaining` | `MCSlotMap` | `RemainingCreatable` | after `clear` has lost a slot (`ClearLeak`) `objects_remaining`, "Objects still creatable" (`types.hpp:144`), counts an object that can never be created |
| `CloneThrows` | `SlabClone` | `ThrownCloneBalances` | a clone that throws has not written its bitmap: `~Slab` (`detail/Slab.hpp:196`) destroys a second time, or leaves, what the unwritten memory names |
| `TotalsUndefined` | `Configuration` | `TotalObjectsExact` | `max_total_objects` (`detail/SlotMap.hpp:554`) shifts by the whole width when index and version fill 32 or 64 bits and user bits remain (16 + 16 + 32, say), which does not compile; `SlotMap.hpp:147`: "This is 2^IndexBits * 2^VersionBits - 1." |
| `RoomWraps` | `Configuration` | `RangesNeverWrap` | with 31 or 63 index bits and one explicit slab of everything, the sum that looks for room (`SlotMap.ipp:305`) wraps to 0 and the slab is recycled past the last index; recycling "does not extend the number of indexes that can be used" (`src/README.md:556`) |
| `WideShift` | `Configuration` | `EveryIndexHasASlot` | with 32 index bits and one explicit slab of everything, `storage_slab_index` (`detail/SlotMap.hpp:437`) shifts an index by its whole width; the constructor is documented to accept that size (`SlotMap.hpp:186`) |
| `DeclaredSize` | `Configuration` | `DeclaredSlabSizeUsed` | the default constructor (`SlotMap.ipp:22`) ignores the slab size the type names: `SlotsPerSlab(1024)` gets 4096 or all; `src/docs/API.md:154` offers "// Custom: SlotsPerSlab(1024), SlotsPerSlab(16384)" |
| `AliveBitDoc` | `Configuration` | `AliveBitNeedsPowerOfTwo` | the alive bit is embedded whenever a bit is spare (`detail/Slot.hpp:50`), 6 version bits included; `src/docs/API.md:163`: "Ignored if version_bits isn't a power of 2." |

**Why the bounds are enough.** The behaviours of interest need a slab that is not the
first, a slab other than the last to die, a slot with versions behind and ahead of
it, and a slot alive while its neighbours die. Two slabs of two slots with three
versions give all of these. The largest link arithmetic (several slabs in one
`reserve`) happens with two slabs; an instance of three slabs of two slots with two
versions (197,538 states) was also checked and shows nothing new, so it is not
kept as a run. Values are only stored and returned: one is enough
where no property reads them, two in `MultiSlab` and `Slab`. `MaxCreated` bounds the objects
created between two resets; it is not below what the versions allow where a run says "until every slot is dead".
Two nested calls are enough for one to see the other's half-done work; a third would see
the second's, a pair of the same kinds. `Ownership` is about who owns which slab: two maps of up to two
slabs and a temporary distinguish source, target and bystander slab, and six ids let every map be full.
Bytes of two bits make three slots cross a byte and leave a bit of padding; the widths of
`Configuration` are the code's divided by four, with 4-bit and 8-bit keys in the place of
16-bit and 32-bit ones, so that every choice of an integer occurs, the 7 index bits included at which
`RoomWraps` finds the sum wrapping. `MaxRanges` bounds the ranges handed out; it is above the 128 that the widest index of `Widths` allows. `ChunkSlots` stands for the 64 slots of a word (or the 8 of a byte).

**Deadlock** is checked in `MultiSlab` and `Keys`.
It is off where the program may really stop (`Abort`, a freed slab, a client that has destroyed its maps)
or where the history is finite by nature: all versions used, an exhausted heap, a finished clone, a map type with no range left.

**Fairness.** Only `ForEach` assumes any: weak fairness of `WalkStep`, that `for_each` keeps
running and that callbacks return or throw. The library is sequential and a call that has begun is
executed to its end, so nothing more is needed; the client's own calls, its throws and its
erasures are not fair. `WalkEnds` is then not trivial because an erase moves the slab being walked to a
later position in the vector, where the walk meets it again. Elsewhere no liveness is claimed: the library
does nothing unless it is called.

**Which calls.** `Next` of `SlotMap` has every action; `NextUntilRecycle` leaves out the recycling of a
slab into a new index range, because recycling damages the free list (first finding) and would hide everything else. With the single-slab policy the two are the same. `Walk`
includes recyclings; `WalkNext` leaves the map alone between walks once its free list has become a
cycle. `Reentry` and `Ownership` stop short of the first recycling.
The iteration runs let a callback erase outside the copied bitmap word only; `WalkStale` is what happens inside it.
In the run `Slab` new memory reads as anything: what is promised of a clone that throws is what its catch block does, since what `~Slab` does after it depends on memory nobody wrote (`CloneThrows`).

## Proofs

Every theorem holds for all values of the constants that the assumptions named in the modules admit:
every number and size of slabs, every last version, every set of values, both policies and both lookups.
The vector's `bad_alloc` in a removal is included in what is said of all behaviours of `SlotMap`; `ForEach` leaves it out (`WalkAssumption`). "Until a recycling" means `SpecUntilRecycle`; "no torn constructor" means `PartialWrites = FALSE`.

| Module | Theorem | Of which behaviours | Says |
|---|---|---|---|
| `SlotMapProofs` | `TypeCorrect` | all | `TypeOK` |
| | `KeyInvariant` | no torn constructor, until a recycling | `KeyInv` |
| | `OnlyIssuedKeysWork`, `KeysAreFresh`, `StaleKeysStayStale`, `CountersExact` | the same | `LiveKeysIssued`, `IssuesFreshKey`, `StaleKeysStayInvalid`, `AccountingExact` |
| | `LookupsAlwaysAgree` | until a recycling, torn constructors included | `LookupsAgree`, `SizeNeverWraps` |
| | `LookupsAgreeThroughRecycling`, `SizeNeverBelowZero` | all, if `Asserts` or no embedded alive bit | `LookupsAgree`, `SizeNeverWraps` |
| | `SingleSlabNeverRecycles` | single-slab policy | `Spec => SpecUntilRecycle` |
| | `FreeListIntact`, `OnlyClearDrops`, `EmplaceNeverAborts` | no torn constructor, until a recycling | `FreeListSound`, `OnlyClearDropsSlots`, `NeverAborts` |
| | `StoreIsImplemented` | the same | `StoreImplemented`: the map refines `KeyedStore` |
| | `StatisticsAddUp` | the same, fewer than 2^64 objects created | `SlotsAddUp` |
| | `LifetimeIsExact` | the same, the number of keys at most that of `max_objects_type` | `LifetimeExact` |
| `ForEachProofs` | `WalksAreCalls` | all of `ForEach` | `WalkSpec => Spec`: under walks, too, the map goes through `SlotMap`'s calls |
| | `WalkHandsOutTheLiving`, `WalkVisitsEachOnce` | no torn constructor, callbacks erase nothing else of the copied word; one slab, or one bitmap word to a slab; recyclings included | `HandsOutLiveElements`, `EachElementOnce` |
| | `OneSlabIsNeverGone` | single-slab policy | `ReadsExistingSlab` |
| | `OneSlabKeepsPromises` | single-slab policy, no torn constructor | `FreeListSound`, `IssuesFreshKey`, `StaleKeysStayInvalid` under walks that erase |
| `ReentryProofs` | `SizeCountsThroughReentry`, `CallsAreAtomic` | no torn constructor, client code of `use`, `erase` and `pop` makes the calls of `Reentry`, to any depth | `SizeCountsElements`; `CallsActAtomically`: the calls cut open refine `SlotMap`'s whole calls |
| `OwnershipProofs` | `EverySlabHasOneOwner`, `MembersGoWithSlabs` | all of `Ownership` | `OneOwner`, `MembersFollowSlabs` |
| | `MapsBehaveAsValues` | the same | `MapsAreValues`: the maps, a copy in progress included, refine `MapValues` |
| `SlabProofs` | `LookupsFindLives`, `ValuesBalance`, `NoAssertFires`, `BitsKeepPromise` | all of `Slab` | `LookupFindsTheLife`, `ObjectsBalance`, `AssertsHold`; the slab refines `AbstractSlab` |
| | `ClonesAreEqual`, `CloningIsConst` | all of `SlabClone` | `CloneIsEqual`; cloning leaves the original alone |
| | `ThrowingCloneDestroysOnce` | all of `SlabClone` | `CopiedDestroyedOnce` |
| `KeyProofs` | `KeysMeanWhatTheySay`, `TagsDoNotIdentify`, `KeysAreOrdered`, `OnlyNullKeysAreNull` | all of `KeyBits` | `KeysSayWhatTheyMean`, `SameObjectIgnoresTags`, `OrderIsByTagVersionIndex`, `OnlyNullIsNull` |
| `ConfigurationProofs` | `IndexesNameSlots` | every type and slab size, unless `ShiftsByWholeWidth` | `EveryIndexHasASlot` |
| | `RangesFollowEachOther` | every type and slab size | `RangesWithinIndexSpace`: unless `SumFillsInteger`, no range wraps |
| | `TotalsAreExact` | the same, unless `TotalFillsInteger` | `TotalObjectsExact` |

### Where a theorem has a hypothesis

Each is needed, and a configuration shows what happens without it, or the code grants it.

* `PartialWrites = FALSE`: `TornConstructor` breaks the free list. *Until a recycling*: so does `RecycleReuse`.
* `Asserts \/ ~HasAliveBit`: with `NDEBUG` and an embedded alive bit, `Slab::recycle` clears the bitmap
  only, so a slot that was alive when its slab was recycled (possible only after the first finding) keeps its embedded
  bit and is found by `use` and not by `erase`.
* `MaxCreated < SizeRange`: the bound on objects created, which TLC needs anyway, is what "fewer than 2^64 objects" is in the model.
* `MaxSlots * (MaxVersion + 1) <= ObjectRange`: `max_objects_type` (`types.hpp:86`) has 128 bits where the compiler has such
  integers, and 64 otherwise. Beyond it `max_objects` saturates and nothing is exact.
* `MayErase # "anything"`: `WalkStale` is a callback that erases ahead of itself in the word. `OneSlabOrOneWord`: `WalkFreed`
  is a slab of two words freed between them.
* `Nested \subseteq {"use", "erase", "pop"}`: `NestedEmplace` is a constructor, `NestedClear` a destructor run by `clear`, that calls the map again.
* `~ShiftsByWholeWidth`, `~TotalFillsInteger`, and `SumFillsInteger` in the property `RangesWithinIndexSpace`, each name one corner of the types and slab sizes, where the promise
  fails: `WideShift`, `RoomWraps` and `TotalsUndefined`. The theorems and that property say that there is no other.

The theorems of `ForEachProofs` and `ReentryProofs` inherit `RangeAssumption` of `Statistics` with `SlotMapProofs`; it constrains
`SizeRange` and `ObjectRange` only, which neither `ForEach` nor `Reentry` has.

### The inductive invariants

**Types.** `TypeOK` is not inductive alone: growing needs to know that
`nextBase` is a multiple of the slab size, so `TypeInv` adds that. The rest is one lemma per action.

**Slots and keys** (`SlotMapInv`). That a new key is fresh does not follow from the versions
alone: it needs the free list to hold only slots whose version is ahead of every
key they issued, hence that no step leaves a dangling link in the list, hence that a slab
goes only when all its slots are dead. `SlotsInv` is what holds of the slots whatever the list has
become: slabs are on the grid, the alive bits match, the versions cover the keys issued, `dead_count_` is exact. `KeyInv`
adds `FreeListLinked`: *some set* of unissued slots is closed under links,
with no two links to one slot and none to the head. This local form is what a
step disturbs in one or two places; walking the list would need an induction at each step.

* `DeadCounted` and `OthersDied` show, by cardinality, that when `dead_count_`
  reaches the slab's size no list slot is left in it, which is why `Release` may
  delete it.
* `Ready` is the state in the middle of `try_emplace`, after the list was made
  non-empty (`ReadyAfterGrowth`, `ReadyAsItStands`) and before the constructor runs;
  `ReadyConstructs` finishes the call from it, and a constructor that throws
  simply stays there (`ReadyStays`).
* `RebuiltShape` states what `clear`'s loop over the slabs leaves as links.

`KeyInvStep` has one case per action, each resting on one of these lemmas. Freshness and
stale keys follow from a `KeyInv` step and from `ReadyAddsOne`, `RemovalAddsNone`, `StepAdds`, which bound what a step
adds to `issued`. `Counts` relates `size_` and `dead_slots_` to cardinalities and is carried by a second induction.

**Damaged lists.** For the theorems that hold of torn constructors and recyclings, nothing can be said of the
list. `AliveInv` keeps to what survives: the two records of what is alive match, and `size` is no less than the number of
live slots (an overwritten element leaves it greater).

**The free list.** `FreeListLinked` admits a list in two pieces. `ListInv` says there is a numbering
(`Ranked`) of the slots of the list, from 1 at its end to their number at its head, each link leading one down,
and that every free slot below its last version is numbered. Each action renumbers in one step (`PopRanked`, `PushRanked`, `GrownRanked`, `RebuiltRanked`);
only `ChainOfRanked` walks the list: by induction on the rank, `Chain` reaches every numbered slot and ends,
so the numbered slots are `FreeList` itself (`ListIsFreeList`), and what a renumbering leaves out is what the step dropped: nothing but by `clear`.

**The store.** `StoreStepTaken` maps each action to one operation of `KeyedStore` on `Elements`,
the function from valid keys to values, or to a stutter. What an action does to `Elements` is read off `KeyInv` in both
states, since validity is a matter of versions and the bitmap.

**Statistics.** `AddsUp` is arithmetic over `Counts`: the groups are disjoint sets of slots whose cardinalities
add up, and none of the unsigned differences passes zero. `NoneSkipped` and `OneKeyEach` say that every version below a slot's
own was issued as a key, and that there is one key per object created; what is left is then a difference of cardinalities.
Of the keys never issued, those the map can still issue and those of lost slots, one each (`LostAtLast`), are the two parts (`LeftOrLost`).

**Walks.** After a recycling the free list is a circle (`FreeListCircles`) of slots that were
never issued; from then on the walk's own removals keep it one, and other calls wait (`CirclesDoNotEnd`). `MapInv` is `SlotsInv` with either list.
`WalkInv` says where the walk is: the slab held by pointer is still the one at the walk's position whenever there is a bit or a word
left to read, and every bit left in the copied word is that of a live slot. `VisitInv` divides the slots into those behind the walk and those still to visit (`ToVisit`:
bits left in the word, and everything from `Cursor` on): what was handed out lies behind and is counted once, what is due and not yet handed out
lies ahead and is alive. A recycled slab moves ahead of the walk, but with dead slots only (`EraseSparesKeys`). `WalkTypes` holds whatever has become of the slab, and
makes every step of a walk a call of the map; `PlaceInv` is the single-slab part.

**Calls cut open.** `ReentryInv` describes any stack of half-done calls. `FramesSound` says of each kind of frame what its
local variables are still good for: every erase or pop in progress has its slot to itself, still alive, under the version it read; an emplace is on top, since its constructor
does not call the map, and the head, version and link it read are still the map's. `size_` is exact except under a `clear`, whose loop has its own
clause (`Progress`). For the refinement, a call takes effect when it ends: each step is one of `SlotMap`'s calls or changes nothing `SlotMap` sees
(`AtomicStep`), which is the map itself (`Reads`), or during a `clear` the map as that found it (`Hidden`). An `emplace` that grows the map acts as a `reserve` first.

**Ownership.** `OneOwner` needs the maps in the middle of a copy: `CopyInv` says what the copy in
progress has made so far, and `Own` that two positions of any two maps, the temporary included, never name one slab. Moves, swaps and
destructions are all of one form, `Handed`: some maps take over what others held, each from one, and what nobody took is freed. For
`MembersFollowSlabs`, `Sound` sees a map through its slabs (`View`) as `SlotMap` sees its own, with the same local form of
the free list and the same count of dead slots; `EditSound` is the one lemma about a slot changing,
and that no other map is disturbed follows from `Own`. For `MapsAreValues` a map's value is read off its slabs; since no slab is in two maps,
a step on one leaves the others' values alone, and a copy in progress holds the source's slots slab by slab.

**Slab and clone.** `SlabInv` computes each slot's bytes from its `life`: the version, with the alive bit while
it lives. Everything lookups and asserts test follows from arithmetic on one byte and one bitmap bit; `NoSpare` keeps the bits beyond the last
slot clear, without which `AreAllDead` could never hold. `CloneInv` says the same of the slots copied so far, and that the others are raw.

**Keys.** Masks and shifts are powers of two, `Pow2` (`Powers`). `Says(m)` is the sum of three fields, each below the weight of the
next; the code's masks and shifts are shown to read and write these fields (`ReadBack`, `SaysOrders`), and `KeyInv` of `KeyProofs`
is that each key held is the sum of what it was made to say.

**Configuration.** `ConfigurationInv` says what the constructor chose and which ranges were handed out. That the integers are wide enough is
arithmetic on powers of two: they are ordered as their exponents are (`Pow2Orders`), the product of two is a third (`Pow2Sum`), hence a slab size divides the
index space and masks and shifts are remainders and quotients (`Remainder`, `Divided`). The invariant says `RangesNeverWrap` outside the corner from the start, because a range that wrapped once stays wrong.

### Only model-checked

* `WalkEnds`: liveness, out of the prover's reach.
* The promises about keys and the free list after a recycling, `ReadsExistingSlab` with several words to a slab, and the properties under
  "Further configurations" do not hold; the findings say so.

Everything else the passing runs check is a theorem.

## Not modelled

* Destructors that throw: the documentation excludes them.
* A `for_each` callback that calls `emplace`: the documentation declares it undefined.
* Nested calls in combination with `for_each`, and copies, moves, swaps and destruction of the map from inside client code.
* Client code that erases, pops or uses the element being destroyed or moved, that clears or resets the map from a destructor or from
  `pop`'s move, or that the destructors run by `reset` and `~Slab` contain: the call in progress goes on with a slot or a slab that is gone.
* Recycling in `Ownership` and `Reentry`: the damaged list it leaves is shown on `SlotMap`, and a
  recycled slab stays in the vector of the map that owned it.
* Capacity of the slab vector, alignment, bytes of memory and the floating-point ratios of
  `statistics()`: arithmetic on sizes no property is about.
* `Key::hash`: any function of the key's bits would do for what the map promises.
* Integers of 128 bits: the same code as for the narrower ones.
* ABI namespace, version header, benchmarks, tests, build files: no state of the library.

## Plan

1. (done) `SlotMap`, `KeyedStore` and their runs; proofs of types, the key invariant,
   the clients' properties about keys, and the counters.
2. (done) `Statistics`, `ForEach`, `Reentry`, `Ownership` over `MapValues`, `Slab` over
   `AbstractSlab`, `SlabClone`, `KeyBits`, `Configuration`.
3. (done) Proofs of everything the runs check that is not liveness: `SlotMap`, `Statistics`, `Slab`, `SlabClone`, `KeyBits`,
   `Ownership` over `MapValues`, `Reentry` over `SlotMap`'s whole calls, `ForEach`, `Configuration`.
4. Worth doing next: recycling in `Reentry`, once `handle_slot_removal` links the recycled slab's last slot to the old list's head; then
   the theorems that now say "until a recycling" can be stated of `Spec`.
