----------------------------- MODULE Statistics -----------------------------
(***************************************************************************)
(* BasicSlotMap::statistics(): the counters a client reads at any moment,  *)
(* computed from size_, dead_slots_, objects_created_,                     *)
(* next_slab_base_index_ and the slabs.  All counters are unsigned: a      *)
(* difference below zero wraps.  Bytes of memory, vector sizes and the     *)
(* floating-point ratios are left out.                                     *)
(***************************************************************************)
EXTENDS SlotMap

CONSTANTS
    SizeRange,      \* 2^64, the values of std::size_t
    ObjectRange     \* 2^128 or 2^64, the values of max_objects_type

ASSUME RangeAssumption ==
    /\ SizeRange \in Nat /\ SizeRange > 2 * MaxSlots
    /\ ObjectRange \in Nat \ {0}

(* Unsigned subtraction.                                                   *)
Minus(a, b, range) == (a - b) % range

(* Saturates when index and version bits fill max_objects_type.            *)
MaxObjects ==
    IF MaxSlots * (MaxVersion + 1) < ObjectRange
    THEN MaxSlots * (MaxVersion + 1) - 1
    ELSE ObjectRange - 1

(* The record a client gets.                                               *)
Counters ==
    LET sizes == 0 .. SizeRange - 1
        objects == 0 .. ObjectRange - 1
    IN  [max_slots : sizes, max_objects : objects, active_slots : sizes,
         free_slots : sizes, dead_slots : sizes, allocated_slots : sizes,
         unallocated_slots : sizes, remaining_slots : sizes,
         objects_created : sizes, objects_remaining : objects,
         slab_count : sizes]

(* A slip: dead slots are taken for free ones.                             *)
FreeCountWithDead == Minus(nextBase, size, SizeRange)

FreeCount == Minus(Minus(nextBase, size, SizeRange), deadSlots, SizeRange)

statistics ==
    [max_slots |-> MaxSlots,
     max_objects |-> MaxObjects,
     active_slots |-> size,
     dead_slots |-> deadSlots,
     allocated_slots |-> nextBase,
     free_slots |-> FreeCount,
     unallocated_slots |-> Minus(MaxSlots, nextBase, SizeRange),
     remaining_slots |-> Minus(MaxSlots, deadSlots, SizeRange),
     objects_created |-> objectsCreated,
     objects_remaining |-> Minus(MaxObjects, objectsCreated, ObjectRange),
     slab_count |-> Cardinality(slabs)]

-----------------------------------------------------------------------------
(* What the counters mean.                                                 *)

Alive == {i \in Index : bitmap[i]}
DeadOnes == {i \in Index : Dead(i)}
Allocated == {i \in Index : i < nextBase}

(* Every slot is in exactly one of the groups statistics() counts, no      *)
(* difference of counters wraps, and no more elements are alive than the   *)
(* slots remaining allow.  It counts slots of deleted slabs with the dead. *)
SlotsAddUp ==
    LET s == statistics IN
    /\ s \in Counters
    /\ s.active_slots = Cardinality(Alive)
    /\ s.free_slots = Cardinality(Allocated \ (Alive \union DeadOnes))
    /\ s.unallocated_slots = Cardinality(Index \ Allocated)
    /\ s.remaining_slots = Cardinality(Index \ DeadOnes)
    /\ s.active_slots <= s.remaining_slots
    /\ s.slab_count * SlotsPerSlab + s.unallocated_slots <= s.max_slots

(* Slots that could be used but that emplace will never find again.        *)
LostSlots == {i \in Index : Unused(i) /\ i \notin FreeList}

(* Keys that can still be issued: they never were, their slot has not      *)
(* passed them, and it is alive, on the free list or not yet allocated.    *)
KeysLeft ==
    {k \in Key \ {NullKey} :
        /\ k \notin issued
        /\ \/ k.index >= nextBase
           \/ /\ Present(k.index) /\ k.version >= version[k.index]
              /\ k.index \notin LostSlots}

(* objects_remaining counts the keys that can still be issued and one more *)
(* for each slot that clear() has lost, nothing else: every object used    *)
(* one key, and no erase, clear, failed constructor or slab deletion skips *)
(* or repeats a version.                                                   *)
LifetimeExact ==
    statistics.objects_remaining = Cardinality(KeysLeft) + Cardinality(LostSlots)

(* "Objects still creatable (max - created)": the map can create as many.  *)
RemainingCreatable == statistics.objects_remaining = Cardinality(KeysLeft)
=============================================================================
