----------------------------- MODULE SlabClone -----------------------------
(***************************************************************************)
(* Slab::clone, slot by slot: the copy is raw memory that a header, then   *)
(* the slots, and only at the very end the bitmap are written into.  T's   *)
(* copy constructor may throw at each value; the catch block then destroys *)
(* what was copied.  NDEBUG: ~Slab destroys whatever its bitmap names.     *)
(***************************************************************************)
EXTENDS Slab

CONSTANT FreshBits      \* what a bit of the copy's bitmap may be at first

ASSUME FreshAssumption == FreshBits \subseteq {0, 1}

VARIABLES
    pc,         \* "idle", "copying", "unwinding", "done" or "thrown"
    next_slot,  \* slots_constructed, or the catch block's counter
    copy        \* the new slab: the same fields as the old one

cloneVars == <<vars, pc, next_slot, copy>>

(* Memory as operator new returns it, with the header written into it.     *)
Raw(bm) ==
    [version_bytes |-> [i \in SlotIdx |-> 0],
     storage |-> [i \in SlotIdx |-> 0],
     bitmap |-> bm,
     dead_count |-> dead_count,
     objects |-> [i \in SlotIdx |-> 0]]

CloneInit ==
    /\ Init
    /\ pc = "idle" /\ next_slot = 0
    /\ copy = Raw(NoBits)

Begin ==
    /\ pc = "idle" /\ ~gone
    /\ \E bm \in [ByteIdx -> [BitIdx -> FreshBits]] : copy' = Raw(bm)
    /\ pc' = "copying" /\ next_slot' = 0
    /\ UNCHANGED vars

(* A slip: the version is not taken along.                                 *)
CopiedBytesVersionless(i) ==
    IF IsAlive(bitmap, i) THEN SetAliveBit(0) ELSE 0

(* The new slot's version bytes: set_version, then emplace's alive bit.    *)
CopiedBytes(i) ==
    LET fresh == WithVersion(0, Version(version_bytes[i]))
    IN IF IsAlive(bitmap, i) THEN SetAliveBit(fresh) ELSE fresh

CopySlot ==
    /\ pc = "copying" /\ next_slot < SlotsPerSlab
    /\ copy' = [copy EXCEPT
           !.version_bytes[next_slot] = CopiedBytes(next_slot),
           !.storage[next_slot] = storage[next_slot],
           !.objects[next_slot] = IF IsAlive(bitmap, next_slot) THEN 1 ELSE 0]
    /\ next_slot' = next_slot + 1
    /\ UNCHANGED <<vars, pc>>

(* The copy constructor of the slot's value throws.                        *)
CopyThrows ==
    /\ pc = "copying" /\ next_slot < SlotsPerSlab
    /\ IsAlive(bitmap, next_slot)
    /\ pc' = "unwinding"
    /\ UNCHANGED <<vars, next_slot, copy>>

CopyBitmap ==
    /\ pc = "copying" /\ next_slot = SlotsPerSlab
    /\ copy' = [copy EXCEPT !.bitmap = bitmap]
    /\ pc' = "done"
    /\ UNCHANGED <<vars, next_slot>>

(* A slip: the slot that threw is destroyed as well.                       *)
ConstructedThrough == {i \in SlotIdx : i <= next_slot}

Constructed == {i \in SlotIdx : i < next_slot}

(* destroy() on each value copied so far.                                  *)
DestroyCopied ==
    /\ pc = "unwinding"
    /\ copy' = [copy EXCEPT
           !.objects = [i \in SlotIdx |->
               IF i \in Constructed /\ IsAlive(bitmap, i) THEN @[i] - 1 ELSE @[i]],
           !.version_bytes = [i \in SlotIdx |->
               IF i \in Constructed /\ IsAlive(bitmap, i) THEN SetFree(@[i])
               ELSE @[i]]]
    /\ pc' = "finalizing"
    /\ UNCHANGED <<vars, next_slot>>

(* std::destroy_at(new_slab): ~Slab, on a bitmap nothing was written to.   *)
FinalizeCopy ==
    /\ pc = "finalizing"
    /\ copy' = [copy EXCEPT !.objects = [i \in SlotIdx |->
           @[i] - Bit(copy.bitmap, i)]]
    /\ pc' = "thrown"
    /\ UNCHANGED <<vars, next_slot>>

CloneNext ==
    \/ pc = "idle" /\ Next /\ UNCHANGED <<pc, next_slot, copy>>
    \/ Begin
    \/ CopySlot
    \/ CopyThrows
    \/ CopyBitmap
    \/ DestroyCopied
    \/ FinalizeCopy

CloneSpec == CloneInit /\ [][CloneNext]_cloneVars

-----------------------------------------------------------------------------
Copy == INSTANCE Slab WITH
    version_bytes <- copy.version_bytes, storage <- copy.storage,
    bitmap <- copy.bitmap, dead_count <- copy.dead_count,
    objects <- copy.objects

(* A finished clone serves the same lookups with the same values, has the  *)
(* same free and spent slots, and its records of liveness agree.           *)
CloneIsEqual ==
    pc = "done" =>
        /\ \A i \in SlotIdx, v \in 0 .. MaxVersion :
               Copy!IsValid(v, i) <=> IsValid(v, i)
        /\ copy.storage = storage /\ copy.dead_count = dead_count
        /\ Copy!LookupFindsTheLife /\ Copy!ObjectsBalance /\ Copy!AssertsHold

(* When a copy constructor throws, the catch block destroys each value     *)
(* copied so far, once, and nothing else ("Clean up partially constructed  *)
(* slots"): whatever the unwritten memory reads, no value outlives the     *)
(* clone that failed.                                                      *)
CopiedDestroyedOnce ==
    pc = "finalizing" => \A i \in SlotIdx : copy.objects[i] = 0

(* After ~Slab too, every value constructed was destroyed, and no other:   *)
(* so only where new memory reads as zero (~Slab believes its bitmap).     *)
ThrownCloneBalances == pc = "thrown" => \A i \in SlotIdx : copy.objects[i] = 0
=============================================================================
