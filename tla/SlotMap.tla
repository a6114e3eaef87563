------------------------------ MODULE SlotMap ------------------------------
(***************************************************************************)
(* wjh::slotmap::BasicSlotMap: one map, its slabs and its slots.           *)
(*                                                                         *)
(* The state is kept per global slot index, the way keys name slots; slab  *)
(* s holds the indices i with SlabOf(i) = s.  A slot's storage bytes hold  *)
(* either a value or a free-list link, so one function stands for both     *)
(* (Slot::storage_).  Every action is one complete call on the map; calls  *)
(* that change nothing (a miss, a const lookup, statistics) are stuttering *)
(* steps.  Destructors do not throw, as the library requires.              *)
(*                                                                         *)
(* An operator introduced as "a slip" is no part of the model: it is the   *)
(* definition after it with a mistake, which the mutants of PROJECT.json   *)
(* put in its place to see the properties fail.                            *)
(***************************************************************************)
EXTENDS Integers, FiniteSets

CONSTANTS
    MaxSlots,       \* 2^IndexBits, also the end_of_free_list sentinel
    SlotsPerSlab,   \* slots in each slab
    MaxVersion,     \* version_type::mask, 2^VersionBits - 1
    SingleSlab,     \* TRUE: single_slab_storage_policy, FALSE: multi_slab
    HasAliveBit,    \* the version bytes embed an alive bit, used by lookups
    Asserts,        \* TRUE: assert() is compiled in, FALSE: NDEBUG
    PartialWrites,  \* T's constructor may write its storage, then throw
    AllocFails,     \* the slab vector may fail to grow while a slab moves
    Values,         \* what a client stores
    MaxCreated      \* bound on objects created, for TLC only

Index == 0 .. MaxSlots - 1
End == MaxSlots
Wild == MaxSlots + 1        \* any link read from bytes that is out of range
Link == Index \union {End, Wild}
Version == 0 .. MaxVersion
Key == [index : Index, version : Version]
SlabIndex == 0 .. (MaxSlots \div SlotsPerSlab) - 1

ASSUME SizeAssumption ==
    /\ MaxSlots \in Nat \ {0}
    /\ SlotsPerSlab \in Nat \ {0}
    /\ MaxSlots % SlotsPerSlab = 0
    /\ MaxVersion \in Nat \ {0}
    /\ MaxCreated \in Nat

ASSUME PolicyAssumption ==
    /\ SingleSlab \in BOOLEAN
    /\ SingleSlab => SlotsPerSlab = MaxSlots
    /\ HasAliveBit \in BOOLEAN
    /\ Asserts \in BOOLEAN
    /\ PartialWrites \in BOOLEAN
    /\ AllocFails \in BOOLEAN

ASSUME ValuesAssumption == Values # {} /\ Values \intersect Link = {}

VARIABLES
    slabs,          \* slab positions that hold a slab (slabs_)
    version,        \* each slot's version (Slot::version_bytes_)
    aliveBit,       \* each slot's embedded alive bit (version_bytes_ MSB)
    bitmap,         \* each slot's bit in its slab's alive bitmap
    storage,        \* each slot's bytes: a value or a link (Slot::storage_)
    deadCount,      \* each slab's dead_count_
    freeHead,       \* free_list_head_
    size,           \* size_
    deadSlots,      \* dead_slots_
    objectsCreated, \* objects_created_
    nextBase,       \* next_slab_base_index_
    issued,         \* history: keys returned since construction or reset
    status          \* how the latest call ended

vars == <<slabs, version, aliveBit, bitmap, storage, deadCount, freeHead,
          size, deadSlots, objectsCreated, nextBase, issued, status>>

SlabOf(i) == i \div SlotsPerSlab
Slots(s) == {i \in Index : SlabOf(i) = s}
Present(i) == SlabOf(i) \in slabs
KeyOf(i) == [index |-> i, version |-> version[i]]
NullKey == [index |-> 0, version |-> 0]

Running == status # "aborted"

TypeOK ==
    /\ slabs \subseteq SlabIndex
    /\ version \in [Index -> Version]
    /\ aliveBit \in [Index -> BOOLEAN]
    /\ bitmap \in [Index -> BOOLEAN]
    /\ storage \in [Index -> Link \union Values]
    /\ deadCount \in [SlabIndex -> Nat]
    /\ freeHead \in Link
    /\ size \in Int
    /\ deadSlots \in Nat
    /\ objectsCreated \in Nat
    /\ nextBase \in 0 .. MaxSlots
    /\ issued \subseteq Key
    /\ status \in {"returned", "threw", "aborted"}

(* A slot that holds no slab reads as value-initialised memory.            *)
BlankLink == 0

Init ==
    /\ slabs = {}
    /\ version = [i \in Index |-> 0]
    /\ aliveBit = [i \in Index |-> FALSE]
    /\ bitmap = [i \in Index |-> FALSE]
    /\ storage = [i \in Index |-> BlankLink]
    /\ deadCount = [s \in SlabIndex |-> 0]
    /\ freeHead = End
    /\ size = 0
    /\ deadSlots = 0
    /\ objectsCreated = 0
    /\ nextBase = 0
    /\ issued = {}
    /\ status = "returned"

-----------------------------------------------------------------------------
(* Slab allocation.  reserve() may create several slabs in one call, each  *)
(* chained in front of the previous free list: GrownLinks and GrownVersions *)
(* give the slots as they stand once slabs exist up to index `to`.         *)

CanAllocate == nextBase < MaxSlots /\ (SingleSlab => slabs = {})

Grown(to) == nextBase .. to - 1

(* A slip: the new slots end the list, and the old list is forgotten.      *)
GrownLinksDropList(to) ==
    [i \in Index |->
        IF i \notin Grown(to) THEN storage[i]
        ELSE IF (i + 1) % SlotsPerSlab # 0 THEN i + 1
        ELSE IF i < nextBase + SlotsPerSlab THEN End
        ELSE i + 1 - 2 * SlotsPerSlab]

GrownLinks(to) ==
    [i \in Index |->
        IF i \notin Grown(to) THEN storage[i]
        ELSE IF (i + 1) % SlotsPerSlab # 0 THEN i + 1
        ELSE IF i < nextBase + SlotsPerSlab THEN freeHead
        ELSE i + 1 - 2 * SlotsPerSlab]

(* A slip: the very first slot starts at version 0 like the others.        *)
GrownVersionsAllZero(to) ==
    [i \in Index |-> IF i \in Grown(to) THEN 0 ELSE version[i]]

GrownVersions(to) ==
    [i \in Index |->
        IF i \notin Grown(to) THEN version[i] ELSE IF i = 0 THEN 1 ELSE 0]

AddSlabs(to) ==
    /\ slabs' = slabs \union {SlabOf(i) : i \in Grown(to)}
    /\ nextBase' = to

SlabEnds == {n \in 1 .. MaxSlots : n % SlotsPerSlab = 0}

Reserve(to) ==
    /\ Running /\ CanAllocate
    /\ nextBase < to
    /\ AddSlabs(to)
    /\ storage' = GrownLinks(to)
    /\ version' = GrownVersions(to)
    /\ freeHead' = to - SlotsPerSlab
    /\ \/ status' = "returned"
       \/ to < MaxSlots /\ status' = "threw"     \* bad_alloc on the next slab
    /\ UNCHANGED <<aliveBit, bitmap, deadCount, size, deadSlots,
                   objectsCreated, issued>>

-----------------------------------------------------------------------------
(* try_emplace / emplace.                                                  *)

(* The free-list link a slot's bytes read as; a value's bytes may read as  *)
(* any link.                                                               *)
LinksRead(bytes) == IF bytes \in Link THEN {bytes} ELSE Link

(* Pop slot i off the free list and construct v in it, the slots' versions *)
(* and bytes being vers and links.                                         *)
Construct(i, v, vers, links) ==
    /\ storage' = [links EXCEPT ![i] = v]
    /\ version' = vers
    /\ aliveBit' = [aliveBit EXCEPT ![i] = HasAliveBit]
    /\ bitmap' = [bitmap EXCEPT ![i] = TRUE]
    /\ freeHead' \in LinksRead(links[i])
    /\ size' = size + 1
    /\ objectsCreated' = objectsCreated + 1
    /\ issued' = issued \union {[index |-> i, version |-> vers[i]]}
    /\ status' = "returned"
    /\ UNCHANGED <<deadCount, deadSlots>>

(* The head names a slot the map can construct in, or assert() lets it.    *)
HeadUsable ==
    freeHead \in Index /\ Present(freeHead) /\ (Asserts => ~bitmap[freeHead])

TryEmplace(v) ==
    /\ Running /\ objectsCreated < MaxCreated
    /\ \/ /\ freeHead = End /\ CanAllocate
          /\ AddSlabs(nextBase + SlotsPerSlab)
          /\ Construct(nextBase, v, GrownVersions(nextBase + SlotsPerSlab),
                                    GrownLinks(nextBase + SlotsPerSlab))
       \/ /\ HeadUsable
          /\ UNCHANGED <<slabs, nextBase>>
          /\ Construct(freeHead, v, version, storage)

(* T's constructor throws: a slab just allocated stays, and the slot's     *)
(* bytes keep what the constructor wrote.                                  *)
ConstructorThrows(i, links) ==
    /\ \/ storage' = links
       \/ PartialWrites /\ \E v \in Values : storage' = [links EXCEPT ![i] = v]
    /\ status' = "threw"
    /\ UNCHANGED <<aliveBit, bitmap, deadCount, size, deadSlots,
                   objectsCreated, issued>>

EmplaceThrows ==
    /\ Running
    /\ \/ /\ freeHead = End /\ CanAllocate
          /\ AddSlabs(nextBase + SlotsPerSlab)
          /\ version' = GrownVersions(nextBase + SlotsPerSlab)
          /\ freeHead' = nextBase
          /\ ConstructorThrows(nextBase, GrownLinks(nextBase + SlotsPerSlab))
       \/ /\ HeadUsable
          /\ UNCHANGED <<slabs, nextBase, version, freeHead>>
          /\ ConstructorThrows(freeHead, storage)

Abort ==
    /\ status' = "aborted"
    /\ UNCHANGED <<slabs, version, aliveBit, bitmap, storage, deadCount,
                   freeHead, size, deadSlots, objectsCreated, nextBase, issued>>

(* assert(slab), assert(not is_alive(index)), or a null or wild access.    *)
EmplaceAborts == Running /\ freeHead # End /\ ~HeadUsable /\ Abort

-----------------------------------------------------------------------------
(* Lookups and removal.                                                    *)

(* A slip: a dead slot keeps its last version, so versions alone match it. *)
EraseFindsByVersion(k) ==
    Present(k.index) /\ version[k.index] = k.version

(* The test erase() and pop() make.                                        *)
EraseFinds(k) ==
    Present(k.index) /\ version[k.index] = k.version /\ bitmap[k.index]

(* A slip: the alive bit alone decides.                                    *)
IsValidByAliveBit(k) ==
    /\ Present(k.index)
    /\ IF HasAliveBit THEN aliveBit[k.index] ELSE bitmap[k.index]

(* The test use() and contains() make: detail::is_valid.                   *)
IsValid(k) ==
    /\ Present(k.index)
    /\ version[k.index] = k.version
    /\ IF HasAliveBit THEN aliveBit[k.index] ELSE bitmap[k.index]

(* A slip: the alive bit in the version bytes is not cleared.              *)
ReuseKeepsAliveBit(i) ==
    /\ version[i] # MaxVersion
    /\ version' = [version EXCEPT ![i] = @ + 1]
    /\ bitmap' = [bitmap EXCEPT ![i] = FALSE]
    /\ storage' = [storage EXCEPT ![i] = freeHead]
    /\ freeHead' = i
    /\ UNCHANGED <<slabs, aliveBit, deadCount, deadSlots, nextBase>>

(* A slip: the slot is relinked under the version it had.                  *)
ReuseSameVersion(i) ==
    /\ version[i] # MaxVersion
    /\ aliveBit' = [aliveBit EXCEPT ![i] = FALSE]
    /\ bitmap' = [bitmap EXCEPT ![i] = FALSE]
    /\ storage' = [storage EXCEPT ![i] = freeHead]
    /\ freeHead' = i
    /\ UNCHANGED <<slabs, version, deadCount, deadSlots, nextBase>>

(* Slab::destroy then handle_slot_removal, slot i going back to the list.  *)
Reuse(i) ==
    /\ version[i] # MaxVersion
    /\ version' = [version EXCEPT ![i] = @ + 1]
    /\ aliveBit' = [aliveBit EXCEPT ![i] = FALSE]
    /\ bitmap' = [bitmap EXCEPT ![i] = FALSE]
    /\ storage' = [storage EXCEPT ![i] = freeHead]
    /\ freeHead' = i
    /\ UNCHANGED <<slabs, deadCount, deadSlots, nextBase>>

(* A slip: one slot too early.                                             *)
ExhaustedEarly(s) == ~SingleSlab /\ deadCount[s] + 2 >= SlotsPerSlab

(* A slip: a single slab goes too once all its slots are dead.             *)
ExhaustedAnyPolicy(s) == deadCount[s] + 1 = SlotsPerSlab

Exhausted(s) == ~SingleSlab /\ deadCount[s] + 1 = SlotsPerSlab

(* Slot i dies; its slab has other slots in use, or is the only one.       *)
Retire(i) ==
    /\ version[i] = MaxVersion
    /\ ~Exhausted(SlabOf(i))
    /\ aliveBit' = [aliveBit EXCEPT ![i] = FALSE]
    /\ bitmap' = [bitmap EXCEPT ![i] = FALSE]
    /\ deadCount' = [deadCount EXCEPT ![SlabOf(i)] = @ + 1]
    /\ deadSlots' = deadSlots + 1
    /\ UNCHANGED <<slabs, version, storage, freeHead, nextBase>>

Blank(f, s, blank) == [i \in Index |-> IF SlabOf(i) = s THEN blank ELSE f[i]]

(* A slip: room for the slab's first index is taken for room for them all. *)
NoRoomLate == nextBase > MaxSlots

NoRoom == nextBase + SlotsPerSlab > MaxSlots

(* The last slot of its slab dies and no index range is left: the slab is  *)
(* deleted.                                                                *)
Release(i) ==
    LET s == SlabOf(i) IN
    /\ version[i] = MaxVersion
    /\ Exhausted(s) /\ NoRoom
    /\ slabs' = slabs \ {s}
    /\ version' = Blank(version, s, 0)
    /\ aliveBit' = Blank(aliveBit, s, FALSE)
    /\ bitmap' = Blank(bitmap, s, FALSE)
    /\ storage' = Blank(storage, s, BlankLink)
    /\ deadCount' = [deadCount EXCEPT ![s] = 0]
    /\ deadSlots' = deadSlots + 1
    /\ UNCHANGED <<freeHead, nextBase>>

(* The last slot of its slab dies: the slab moves to the next index range. *)
(* free_list_head_ is already the new range's first index when it is read  *)
(* for the last slot's link.  Alive bits are not touched by recycle().     *)
Recycle(i) ==
    LET s == SlabOf(i)
        moved == Grown(nextBase + SlotsPerSlab)
        old(j) == j - nextBase + s * SlotsPerSlab
    IN
    /\ version[i] = MaxVersion
    /\ Exhausted(s) /\ ~NoRoom
    /\ Asserts => \A j \in Slots(s) \ {i} : ~bitmap[j]
    /\ slabs' = (slabs \ {s}) \union {SlabOf(nextBase)}
    /\ version' = [j \in Index |->
           IF SlabOf(j) = s \/ j \in moved THEN 0 ELSE version[j]]
    /\ aliveBit' = [j \in Index |->
           IF j \in moved THEN aliveBit[old(j)] /\ old(j) # i
           ELSE aliveBit[j] /\ SlabOf(j) # s]
    /\ bitmap' = [j \in Index |->
           bitmap[j] /\ SlabOf(j) # s /\ j \notin moved]
    /\ freeHead' = nextBase
    /\ storage' = [j \in Index |->
           IF j \in moved THEN IF j + 1 \in moved THEN j + 1 ELSE freeHead'
           ELSE IF SlabOf(j) = s THEN BlankLink ELSE storage[j]]
    /\ deadCount' = [deadCount EXCEPT ![s] = 0, ![SlabOf(nextBase)] = 0]
    /\ deadSlots' = deadSlots + 1
    /\ nextBase' = nextBase + SlotsPerSlab

(* A slip: size_ is left as it was.                                        *)
RemovedKeepsSize == UNCHANGED <<size, objectsCreated, issued>>

Removed == size' = size - 1 /\ UNCHANGED <<objectsCreated, issued>>

Erase(k) ==
    /\ Running /\ EraseFinds(k)
    /\ Reuse(k.index) \/ Retire(k.index) \/ Release(k.index)
    /\ Removed
    /\ status' = "returned"

(* pop() moves the value out first, then removes it exactly as erase();    *)
(* a throwing move may leave the stored value changed.                     *)
PopThrows(k) ==
    /\ Running /\ EraseFinds(k)
    /\ \E v \in Values : storage' = [storage EXCEPT ![k.index] = v]
    /\ status' = "threw"
    /\ UNCHANGED <<slabs, version, aliveBit, bitmap, deadCount, freeHead, size,
                   deadSlots, objectsCreated, nextBase, issued>>

(* use(): the callback may assign the value and may throw.                 *)
Use(k) ==
    /\ Running /\ IsValid(k)
    /\ \E v \in Values : storage' = [storage EXCEPT ![k.index] = v]
    /\ status' \in {"returned", "threw"}
    /\ UNCHANGED <<slabs, version, aliveBit, bitmap, deadCount, freeHead, size,
                   deadSlots, objectsCreated, nextBase, issued>>

(* use(): the callback sets Options::erase, then returns or throws; the    *)
(* destructor of UseCallback erases in both cases.                         *)
UseErases(k) ==
    /\ Running /\ IsValid(k) /\ EraseFinds(k)
    /\ Reuse(k.index) \/ Retire(k.index) \/ Release(k.index)
    /\ Removed
    /\ status' \in {"returned", "threw"}

(* erase(), pop() or use() whose removal recycles the slab.                *)
EraseRecycles(k) ==
    /\ Running /\ EraseFinds(k)
    /\ Recycle(k.index)
    /\ Removed
    /\ status' = "returned" \/ (IsValid(k) /\ status' = "threw")

(* The recycler has claimed the next index range when slabs_.resize throws: *)
(* the slab stays behind, dead, and the list starts in a range without a   *)
(* slab.  Out of ~UseCallback the exception ends the program.              *)
RecycleFails(k) ==
    LET i == k.index IN
    /\ Running /\ EraseFinds(k)
    /\ AllocFails
    /\ version[i] = MaxVersion
    /\ Exhausted(SlabOf(i)) /\ ~NoRoom
    /\ aliveBit' = [aliveBit EXCEPT ![i] = FALSE]
    /\ bitmap' = [bitmap EXCEPT ![i] = FALSE]
    /\ deadCount' = [deadCount EXCEPT ![SlabOf(i)] = @ + 1]
    /\ deadSlots' = deadSlots + 1
    /\ nextBase' = nextBase + SlotsPerSlab
    /\ freeHead' = nextBase
    /\ Removed
    /\ status' = "threw" \/ (IsValid(k) /\ status' = "aborted")
    /\ UNCHANGED <<slabs, version, storage>>

(* assert(are_all_dead()) in Slab::recycle.                                *)
RecycleAborts(k) ==
    /\ Running /\ EraseFinds(k)
    /\ version[k.index] = MaxVersion
    /\ Exhausted(SlabOf(k.index)) /\ ~NoRoom
    /\ Asserts /\ \E j \in Slots(SlabOf(k.index)) \ {k.index} : bitmap[j]
    /\ Abort

-----------------------------------------------------------------------------
(* clear and reset.                                                        *)

(* clear() relinks, in index order, the slots whose version was below the  *)
(* maximum, alive or not.                                                  *)
(* A slip: dead slots too.                                                 *)
RelinkedAll == {i \in Index : Present(i)}

(* A slip: only the slots this call destroyed, not those free before it.   *)
RelinkedAlive == {i \in Index : bitmap[i] /\ version[i] < MaxVersion}

Relinked == {i \in Index : Present(i) /\ version[i] < MaxVersion}
(* A slip: slots that died before this call are counted again.             *)
DyingRecounts(s) == {i \in Slots(s) : version[i] = MaxVersion}

Dying(s) == {i \in Slots(s) : bitmap[i] /\ version[i] = MaxVersion}
AllDying == {i \in Index : bitmap[i] /\ version[i] = MaxVersion}

LastOf(S) ==
    IF S = {} THEN End ELSE CHOOSE i \in S : \A j \in S : j <= i

Clear ==
    /\ Running
    /\ version' = [i \in Index |->
           IF bitmap[i] /\ version[i] < MaxVersion THEN version[i] + 1
           ELSE version[i]]
    /\ aliveBit' = [i \in Index |-> aliveBit[i] /\ ~bitmap[i]]
    /\ bitmap' = [i \in Index |-> FALSE]
    /\ storage' = [i \in Index |->
           IF i \in Relinked THEN LastOf({j \in Relinked : j < i})
           ELSE storage[i]]
    /\ freeHead' = LastOf(Relinked)
    /\ deadCount' = [s \in SlabIndex |->
           deadCount[s] + Cardinality(Dying(s))]
    /\ deadSlots' = deadSlots + Cardinality(AllDying)
    /\ size' = 0
    /\ status' = "returned"
    /\ UNCHANGED <<slabs, objectsCreated, nextBase, issued>>

Reset ==
    /\ Running
    /\ slabs' = {}
    /\ version' = [i \in Index |-> 0]
    /\ aliveBit' = [i \in Index |-> FALSE]
    /\ bitmap' = [i \in Index |-> FALSE]
    /\ storage' = [i \in Index |-> BlankLink]
    /\ deadCount' = [s \in SlabIndex |-> 0]
    /\ freeHead' = End
    /\ size' = 0
    /\ deadSlots' = 0
    /\ objectsCreated' = 0
    /\ nextBase' = 0
    /\ issued' = {}
    /\ status' = "returned"

-----------------------------------------------------------------------------
NextUntilRecycle ==
    \/ \E v \in Values : TryEmplace(v)
    \/ EmplaceThrows
    \/ EmplaceAborts
    \/ \E to \in SlabEnds : Reserve(to)
    \/ \E k \in Key : Erase(k)
    \/ \E k \in Key : PopThrows(k)
    \/ \E k \in Key : Use(k)
    \/ \E k \in Key : UseErases(k)
    \/ Clear
    \/ Reset

Next ==
    \/ NextUntilRecycle
    \/ \E k \in Key : EraseRecycles(k)
    \/ \E k \in Key : RecycleFails(k)
    \/ \E k \in Key : RecycleAborts(k)

Spec == Init /\ [][Next]_vars

(* The behaviours of maps that have not recycled a slab yet.  These are    *)
(* all the behaviours when one slab holds every index.                     *)
SpecUntilRecycle == Init /\ [][NextUntilRecycle]_vars

-----------------------------------------------------------------------------
(* What the operations promise.                                            *)

(* Slots(s) whose every version has been used (Slab::destroy said false).  *)
Dead(i) == ~bitmap[i] /\ [index |-> i, version |-> MaxVersion] \in issued

(* The free list as try_emplace walks it, one link per call.               *)
Chain ==
    LET follow[n \in 0 .. MaxSlots] ==
            IF n = 0 THEN freeHead
            ELSE IF follow[n - 1] \notin Index THEN follow[n - 1]
            ELSE IF storage[follow[n - 1]] \notin Link THEN Wild
            ELSE storage[follow[n - 1]]
    IN follow

FreeList == {Chain[n] : n \in 0 .. MaxSlots} \ {End}

(* A slot emplace may construct in: its next key was never issued.         *)
Unused(i) == Present(i) /\ ~bitmap[i] /\ KeyOf(i) \notin issued

(* The free list ends, holds no slot twice and only slots the next emplace *)
(* may use, and holds every slot that is free below its last version.  Of  *)
(* the slots free at their last version it may miss those that a clear()   *)
(* dropped; OnlyClearDropsSlots says that nothing else does.               *)
FreeListSound ==
    /\ Chain[MaxSlots] = End
    /\ \A i \in FreeList : Unused(i)
    /\ \A i \in Index :
           Present(i) /\ ~bitmap[i] /\ version[i] < MaxVersion => i \in FreeList

(* No unused slot is dropped: once a slot can be used it is on the free    *)
(* list until emplace takes it - through growth, failed constructors,      *)
(* removals, deleted slabs - except that clear() passes over a slot that   *)
(* is free at its last version, as if it were dead (SlotMap.ipp:707), and  *)
(* that slot never comes back.                                             *)
OnlyClearDropsSlots ==
    [][\A i \in Index : Unused(i)' =>
           \/ i \in FreeList'
           \/ Unused(i) /\ i \notin FreeList
           \/ Clear /\ Unused(i) /\ version[i] = MaxVersion]_vars

(* use() and contains(), which test the alive bit in the version bytes,    *)
(* and erase() and pop(), which test the slab's bitmap, accept the same    *)
(* keys: the two records of liveness never drift apart.                    *)
LookupsAgree == \A k \in Key : IsValid(k) <=> EraseFinds(k)

(* size() counts the alive slots, statistics() the dead ones, and each     *)
(* slab its own dead, across erase, clear, slab deletion and reset.        *)
AccountingExact ==
    /\ size = Cardinality({i \in Index : bitmap[i]})
    /\ deadSlots = Cardinality({i \in Index : Dead(i)})
    /\ \A s \in slabs : deadCount[s] = Cardinality({i \in Slots(s) : Dead(i)})

(* size_ is unsigned and is only ever decremented for an element a lookup  *)
(* found: it never wraps below zero, even on a corrupted free list.        *)
SizeNeverWraps == Cardinality({k \in Key : IsValid(k)}) <= size

(* Every key that works was issued by emplace, and the null key, which     *)
(* try_emplace returns for "full", never is.                               *)
LiveKeysIssued ==
    /\ \A k \in Key : IsValid(k) => k \in issued
    /\ NullKey \notin issued

(* Each object created gets a key no earlier object of the map had.        *)
IssuesFreshKey ==
    [][objectsCreated' = objectsCreated + 1 => issued' # issued]_vars

(* Once a key that was issued stops working it never works again, whatever *)
(* is erased, cleared, deleted or created afterwards (until reset()).      *)
StaleKeysStayInvalid ==
    [][\A k \in issued : ~IsValid(k) => ~IsValid(k)']_vars

(* statistics().free_slots: allocated - active - dead.                     *)
FreeSlots == nextBase - size - deadSlots

(* "Number of slots on the free list, available for immediate use".        *)
FreeSlotsAreOnFreeList == FreeSlots = Cardinality(FreeList)

(* emplace's preconditions hold: no assert() fires, no null slab is used.  *)
NeverAborts == status # "aborted"

(* A call that ended in an exception left the elements as they were.       *)
ThrowingKeepsElements ==
    [][status' = "threw" => \A k \in Key : IsValid(k)' <=> IsValid(k)]_vars

(* An exhausted slab does not stay in place: it is recycled, or deleted    *)
(* when the index space is used up.                                        *)
ExhaustedSlabsGo ==
    ~SingleSlab => \A s \in slabs : \E i \in Slots(s) : ~Dead(i)

(* An index range counts as allocated only once a slab serves it: whatever *)
(* fails on the way, emplace is never sent to a range that has none.       *)
RangesGetSlabs ==
    [][\A i \in nextBase .. nextBase' - 1 : Present(i)']_vars

(* The elements as a client sees them through use().                       *)
Elements ==
    [k \in {x \in Key : IsValid(x)} |-> storage[k.index]]

(* The map implements the store: every call is one store operation on the  *)
(* elements use() reaches, or leaves them all alone.  In particular no     *)
(* call but reset() changes, drops or resurrects another key's element.    *)
Store == INSTANCE KeyedStore WITH
    Keys <- Key \ {NullKey}, Capacity <- MaxSlots,
    contents <- Elements, used <- issued

StoreImplemented == Store!StoreSpec
=============================================================================
