-------------------------------- MODULE Slab --------------------------------
(***************************************************************************)
(* detail::Slab and detail::Slot as they are in memory: a version and an   *)
(* alive bit in one integer per slot, a bitmap in bytes, and storage that  *)
(* is a value or a free-list link.  Module SlotMap works with what this    *)
(* module shows the bits to mean.                                          *)
(*                                                                         *)
(* The caller is the map, which emplaces only in slots it was told can be  *)
(* reused.  A bitmap byte has ByteBits bits (8 in the code), and is the    *)
(* function from their positions to 0 and 1.  The widths of the version    *)
(* and of its integer are given by their powers of two: MaxVersion is      *)
(* 2^version_bits - 1, AliveBit is 2^(digits - 1), so that the version     *)
(* leaves a bit of its integer to spare when MaxVersion < AliveBit.        *)
(***************************************************************************)
EXTENDS Integers

CONSTANTS
    SlotsPerSlab,
    MaxVersion,             \* version_type::mask
    AliveBit,               \* Slot::alive_bit, the integer's highest bit
    ByteBits,
    AllowAliveBit,          \* Traits' UseAliveBitForLookup
    DebugMode,              \* WJH_SLOTMAP_DEBUG_MODE
    Values

ASSUME SlabAssumption ==
    /\ SlotsPerSlab \in Nat \ {0} /\ ByteBits \in Nat \ {0}
    /\ AliveBit \in Nat \ {0} /\ MaxVersion \in 1 .. 2 * AliveBit - 1
    /\ AllowAliveBit \in BOOLEAN /\ DebugMode \in BOOLEAN
    /\ Values \intersect (0 .. SlotsPerSlab) = {}

SlotIdx == 0 .. SlotsPerSlab - 1
NumBytes == (SlotsPerSlab + ByteBits - 1) \div ByteBits
ByteIdx == 0 .. NumBytes - 1
BitIdx == 0 .. ByteBits - 1
Link == 0 .. SlotsPerSlab                       \* what next() may read

(* detail::has_alive_bit: debug mode embeds the bit wherever it fits, but  *)
(* whether lookups use it is the same question.                            *)
HasAliveBit == MaxVersion < AliveBit /\ (DebugMode \/ AllowAliveBit)

VARIABLES
    version_bytes,  \* each slot's version, alive bit included
    storage,        \* each slot's bytes: a value or a link
    bitmap,         \* the bytes of the alive bitmap
    dead_count,
    objects,        \* values constructed and not destroyed, per slot
    life,           \* history: number of each slot's present or next life
    told,           \* what the latest call returned
    gone            \* TRUE once ~Slab has run

vars == <<version_bytes, storage, bitmap, dead_count, objects, life, told, gone>>

-----------------------------------------------------------------------------
(* Slot: the bits of version_bytes_.                                       *)

AliveIn(bytes) == bytes >= AliveBit
Version(bytes) == IF HasAliveBit THEN bytes % AliveBit ELSE bytes
WithVersion(bytes, v) ==
    IF HasAliveBit /\ AliveIn(bytes) THEN v + AliveBit ELSE v
SetAliveBit(bytes) ==
    IF HasAliveBit THEN (bytes % AliveBit) + AliveBit ELSE bytes

(* A slip: the alive bit is left set.                                      *)
SetFreeNot(bytes) == bytes

SetFree(bytes) == IF HasAliveBit THEN bytes % AliveBit ELSE bytes

(* assert(is_free()) in next, set_next and emplace; assert(is_alive()) in  *)
(* destroy and value.  Both say nothing without an embedded bit.           *)
IsFree(bytes) == HasAliveBit => ~AliveIn(bytes)
IsAliveSlot(bytes) == HasAliveBit => AliveIn(bytes)

(* Slab: the bits of the bitmap.                                           *)

Bit(bm, i) == bm[i \div ByteBits][i % ByteBits]

IsAlive(bm, i) == Bit(bm, i) = 1

(* A slip: the byte's other slots are overwritten.                         *)
SetAliveClobbers(bm, i, alive) ==
    [bm EXCEPT ![i \div ByteBits] =
        [b \in BitIdx |-> IF alive /\ b = i % ByteBits THEN 1 ELSE 0]]

SetAlive(bm, i, alive) ==
    [bm EXCEPT ![i \div ByteBits][i % ByteBits] = IF alive THEN 1 ELSE 0]

NoBits == [b \in ByteIdx |-> [j \in BitIdx |-> 0]]
AreAllDead(bm) == \A b \in ByteIdx, j \in BitIdx : bm[b][j] = 0
CanBeRecycled == dead_count = SlotsPerSlab

-----------------------------------------------------------------------------
(* create: every byte zero.  The map has already given the first slot of   *)
(* the first slab version 1, and linked the slots.                         *)

Init ==
    /\ \E first \in {0, 1} :
           /\ version_bytes = [i \in SlotIdx |-> IF i = 0 THEN first ELSE 0]
           /\ life = version_bytes
    /\ storage = [i \in SlotIdx |-> i + 1]
    /\ bitmap = NoBits
    /\ dead_count = 0
    /\ objects = [i \in SlotIdx |-> 0]
    /\ told = <<>>
    /\ gone = FALSE

Reusable(i) == ~IsAlive(bitmap, i) /\ life[i] <= MaxVersion

Emplace(i, v) ==
    /\ ~gone /\ Reusable(i)
    /\ storage' = [storage EXCEPT ![i] = v]
    /\ version_bytes' = [version_bytes EXCEPT ![i] = SetAliveBit(@)]
    /\ bitmap' = SetAlive(bitmap, i, TRUE)
    /\ objects' = [objects EXCEPT ![i] = @ + 1]
    /\ told' = <<"version", Version(version_bytes[i])>>
    /\ UNCHANGED <<dead_count, life, gone>>

(* The constructor throws: whatever it wrote, the slot stays free.         *)
EmplaceThrows(i, v) ==
    /\ ~gone /\ Reusable(i)
    /\ storage' = [storage EXCEPT ![i] = v]
    /\ UNCHANGED <<version_bytes, bitmap, dead_count, objects, life, told, gone>>

(* A slip: the next life starts under the same version.                    *)
DestroyedSameVersion(bytes) == SetFree(bytes)

(* The version bytes after destroy(): alive bit off, version one up.       *)
Destroyed(bytes) ==
    LET ver == Version(bytes) IN
    IF ver = MaxVersion THEN SetFree(bytes)
    ELSE WithVersion(SetFree(bytes), ver + 1)

(* destroy, and the link the map writes when the slot goes on its list.    *)
Destroy(i, next) ==
    LET ver == Version(version_bytes[i]) IN
    /\ ~gone /\ IsAlive(bitmap, i)
    /\ objects' = [objects EXCEPT ![i] = @ - 1]
    /\ bitmap' = SetAlive(bitmap, i, FALSE)
    /\ version_bytes' = [version_bytes EXCEPT ![i] = Destroyed(@)]
    /\ told' = <<"reusable", ver # MaxVersion>>
    /\ life' = [life EXCEPT ![i] = @ + 1]
    /\ IF ver = MaxVersion
       THEN dead_count' = dead_count + 1 /\ UNCHANGED storage
       ELSE storage' = [storage EXCEPT ![i] = next] /\ UNCHANGED dead_count
    /\ UNCHANGED gone

Recycle(last_next) ==
    /\ ~gone /\ CanBeRecycled
    /\ dead_count' = 0
    /\ version_bytes' = [i \in SlotIdx |-> WithVersion(version_bytes[i], 0)]
    /\ storage' = [i \in SlotIdx |->
           IF i < SlotsPerSlab - 1 THEN i + 1 ELSE last_next]
    /\ bitmap' = NoBits
    /\ life' = [i \in SlotIdx |-> 0]
    /\ UNCHANGED <<objects, told, gone>>

(* ~Slab: destroys the values for_each_alive finds in the bitmap.          *)
Finalize ==
    /\ ~gone
    /\ objects' = [i \in SlotIdx |-> objects[i] - Bit(bitmap, i)]
    /\ version_bytes' = [i \in SlotIdx |->
           IF IsAlive(bitmap, i) THEN SetFree(version_bytes[i])
           ELSE version_bytes[i]]
    /\ gone' = TRUE
    /\ UNCHANGED <<storage, bitmap, dead_count, life, told>>

Next ==
    \/ \E i \in SlotIdx, v \in Values : Emplace(i, v) \/ EmplaceThrows(i, v)
    \/ \E i \in SlotIdx, next \in Link : Destroy(i, next)
    \/ \E next \in Link : Recycle(next)
    \/ Finalize

Spec == Init /\ [][Next]_vars

-----------------------------------------------------------------------------
(* detail::is_valid, as use() and contains() call it: with an embedded bit *)
(* one comparison of integers, otherwise version and bitmap.               *)
MakeAliveVersion(v) == v + AliveBit

IsValid(v, i) ==
    IF HasAliveBit THEN version_bytes[i] = MakeAliveVersion(v)
    ELSE Version(version_bytes[i]) = v /\ IsAlive(bitmap, i)

(* The single comparison finds a slot exactly when the slot lives the very *)
(* life the key names: no version of a key can pose as an alive bit, and   *)
(* no free or spent slot matches.                                          *)
LookupFindsTheLife ==
    ~gone => \A i \in SlotIdx, v \in 0 .. MaxVersion :
        IsValid(v, i) <=> objects[i] = 1 /\ life[i] = v

(* Every value constructed is destroyed once: by destroy, or by ~Slab,     *)
(* which knows of values only what the bitmap says.                        *)
ObjectsBalance ==
    \A i \in SlotIdx :
        objects[i] = IF ~gone /\ IsAlive(bitmap, i) THEN 1 ELSE 0

(* No assert() of Slot or Slab fires: the bitmap, the embedded bits and    *)
(* dead_count_ agree wherever the code relies on one for another.          *)
AssertsHold ==
    ~gone =>
        /\ \A i \in SlotIdx : IF IsAlive(bitmap, i)
               THEN IsAliveSlot(version_bytes[i]) ELSE IsFree(version_bytes[i])
        /\ CanBeRecycled => AreAllDead(bitmap)

(* The bits implement the promise (module AbstractSlab).                   *)
Abstract == INSTANCE AbstractSlab WITH
    Slot <- SlotIdx, None <- 0, LastLife <- MaxVersion,
    content <- [i \in SlotIdx |-> IF IsAlive(bitmap, i) THEN storage[i] ELSE 0]

SlabKeepsPromise == Abstract!Spec
=============================================================================
