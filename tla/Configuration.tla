--------------------------- MODULE Configuration ---------------------------
(***************************************************************************)
(* The numbers a map's type fixes and its constructor computes: widths of  *)
(* the integers that hold an index, a size and a version, the storage      *)
(* policy, the slab size, the split of an index, and the index ranges      *)
(* handed out as slabs come and are recycled - in the arithmetic of those  *)
(* integers.  Module SlotMap starts from a constructed map and computes in *)
(* Int; this module asks when that is what the code does.                  *)
(*                                                                         *)
(* Widths are scaled: integers have Unit, 2, 4 or 8 Unit bits where the    *)
(* code has 8, 16, 32 or 64, and int has 4 Unit.                           *)
(***************************************************************************)
EXTENDS Powers, FiniteSets

CONSTANTS
    Unit,               \* bits of the narrowest integer, 8 in the code
    KeyWidths,          \* total bits of a key
    IndexBitsRange,     \* the IndexBits considered
    Declared,           \* numbers given as SlotsPerSlab(n) template arguments
    SlotBytes,          \* sizeof(slot_type) and the bitmap's share of it
    Limit, DefaultSize, \* compute_default_slab_size: 2 MB and 4096
    MaxRanges           \* bound: index ranges handed out in a map's life

ASSUME ConfigurationAssumption ==
    /\ Unit \in Nat \ {0} /\ KeyWidths \subseteq {Unit * n : n \in {2, 4, 8}}
    /\ IndexBitsRange \subseteq Nat \ {0} /\ Declared \subseteq Nat \ {0}
    /\ SlotBytes \in Nat \ {0} /\ Limit \in Nat /\ MaxRanges \in Nat
    /\ DefaultSize \in {Pow2[b] : b \in 0 .. 8 * Unit}

VARIABLES
    type,   \* the map's type: key bits, SlotsPerSlab, alive bit
    how,    \* "unbuilt", "default", "explicit" or "threw"
    per,    \* slots_per_slab_
    base,   \* next_slab_base_index_
    ranges  \* history: how many index ranges were handed out

vars == <<type, how, per, base, ranges>>

(* SlotsPerSlab's two names with a meaning of their own: 0 and size_t(-1). *)
Dynamic == 0
All == Pow2[8 * Unit] - 1

Types ==
    {t \in [index : IndexBitsRange, version : 1 .. 8 * Unit,
            user : 0 .. 8 * Unit, sps : Declared \union {Dynamic, All},
            allow : BOOLEAN] : t.index + t.version + t.user \in KeyWidths}

-----------------------------------------------------------------------------
(* type_with_at_least: the narrowest unsigned integer with n bits.         *)
TypeDigits(n) ==
    IF n <= Unit THEN Unit ELSE IF n <= 2 * Unit THEN 2 * Unit
    ELSE IF n <= 4 * Unit THEN 4 * Unit ELSE 8 * Unit

IntDigits == 4 * Unit

(* Integers narrower than int are promoted before arithmetic or a shift.   *)
Promoted(digits) == IF digits < IntDigits THEN IntDigits ELSE digits

(* TypeBase::mask: a field as wide as its integer has no bit to spare.     *)
FieldMask(n) ==
    IF n >= TypeDigits(n) THEN Pow2[TypeDigits(n)] - 1 ELSE Pow2[n] - 1

MaxSlots == FieldMask(type.index) + 1
SizeDigits == TypeDigits(type.index + 1)

HasAliveBit == type.version < TypeDigits(type.version) /\ type.allow

UseSingleSlab ==
    type.sps = All \/ (type.sps # Dynamic /\ type.sps >= MaxSlots)

IsPowerOfTwo(n) == \E b \in 0 .. 8 * Unit : n = Pow2[b]
Log2(n) == CHOOSE b \in 0 .. 8 * Unit : n = Pow2[b]

(* A slip: not capped at the index space.                                  *)
DefaultSlabSizeUncapped ==
    IF MaxSlots * SlotBytes <= Limit THEN MaxSlots ELSE DefaultSize

DefaultSlabSize ==
    IF MaxSlots * SlotBytes <= Limit THEN MaxSlots
    ELSE IF DefaultSize <= MaxSlots THEN DefaultSize
    ELSE MaxSlots   \* bit_floor of a power of two

ValidSlabSize(n) == n # 0 /\ IsPowerOfTwo(n) /\ n <= MaxSlots

Undefined == -1

(* A slip: the user bits are forgotten.                                    *)
MaxTotalObjectsOfType == Pow2[TypeDigits(type.index + type.version)] - 1

(* detail::max_total_objects.  A shift by the width of the type or more is *)
(* undefined, and in a constant expression an error.                       *)
MaxTotalObjects ==
    LET n == type.index + type.version IN
    IF type.user = 0 THEN Pow2[TypeDigits(n)] - 1
    ELSE IF n >= Promoted(TypeDigits(n)) THEN Undefined
    ELSE (Pow2[n] - 1) % Pow2[TypeDigits(n)]

-----------------------------------------------------------------------------
Init ==
    /\ type \in Types
    /\ how = "unbuilt" /\ per = 0 /\ base = 0 /\ ranges = 0

DefaultConstruct ==
    /\ how = "unbuilt"
    /\ how' = "default"
    /\ per' = IF UseSingleSlab THEN MaxSlots ELSE DefaultSlabSize
    /\ UNCHANGED <<type, base, ranges>>

ExplicitConstruct(n) ==
    /\ how = "unbuilt" /\ ~UseSingleSlab
    /\ IF ValidSlabSize(n) THEN how' = "explicit" /\ per' = n
       ELSE how' = "threw" /\ UNCHANGED per
    /\ UNCHANGED <<type, base, ranges>>

Built == how \in {"default", "explicit"}

(* next_slab_base_index_ moves past the range [base, base + per).          *)
TakeRange ==
    /\ ranges < MaxRanges
    /\ base' = (base + per) % Pow2[SizeDigits]
    /\ ranges' = ranges + 1
    /\ UNCHANGED <<type, how, per>>

AllocateSlab == Built /\ base < MaxSlots /\ TakeRange

(* A slip: the range's end is not looked at.                               *)
NoRoomAtStart == base > MaxSlots

NoRoom == (base + per) % Pow2[Promoted(SizeDigits)] > MaxSlots

(* A slab's last slot dies, and the slab moves to the next range.          *)
RecycleSlab == Built /\ ~UseSingleSlab /\ base > 0 /\ ~NoRoom /\ TakeRange

Next ==
    \/ DefaultConstruct
    \/ \E n \in 0 .. MaxSlots + 1 : ExplicitConstruct(n)
    \/ AllocateSlab
    \/ RecycleSlab

Spec == Init /\ [][Next]_vars

-----------------------------------------------------------------------------
(* The split of an index into slab and slot.  idx.value >> log2 is         *)
(* undefined when log2 reaches the promoted width of the index: the        *)
(* hardware shifts by the count's low bits, a compiler may fold to 0.      *)
ShiftedRight(i, count) ==
    LET width == Promoted(TypeDigits(type.index)) IN
    IF count < width THEN {i \div Pow2[count]}
    ELSE {0, i \div Pow2[count % width]}

SlabIndexes(i) ==
    IF UseSingleSlab THEN {0} ELSE ShiftedRight(i, Log2(per))
SlotIndex(i) == IF UseSingleSlab THEN i ELSE i % per    \* i & (per - 1)
BaseIndex(s) == IF UseSingleSlab THEN 0 ELSE s * per

(* Every index a key can carry names a slot of its own, in one of the      *)
(* slabs the index space has, whatever size the constructor accepted -     *)
(* where indexes have int's width and one explicit slab holds everything,  *)
(* only if the hardware shifts right (WideShift).                          *)
EveryIndexHasASlot ==
    Built => \A i \in 0 .. MaxSlots - 1 : \A s \in SlabIndexes(i) :
        /\ s < MaxSlots \div per /\ SlotIndex(i) < per
        /\ BaseIndex(s) + SlotIndex(i) = i

(* Every range handed out lies in the index space and starts where the one *)
(* before it ended, however often slabs are recycled.                      *)
RangesNeverWrap == base = ranges * per /\ base <= MaxSlots

(* An explicit slab of everything, and sizes that fill their integer: the  *)
(* sum that looks for room after the last range is 0.                      *)
SumFillsInteger ==
    type.index + 1 = Promoted(SizeDigits) /\ per = MaxSlots /\ ~UseSingleSlab

(* With 31 or 63 index bits and one explicit slab of everything a recycled *)
(* slab gets indexes a second time (RoomWraps).  In every other map, even  *)
(* with as many index bits, no range wraps or overlaps another.            *)
RangesWithinIndexSpace == SumFillsInteger \/ RangesNeverWrap

(* "This is 2^IndexBits * 2^VersionBits - 1."  No value is right for types *)
(* where the shift it is computed by is undefined (TotalsUndefined).       *)
TotalObjectsExact ==
    MaxTotalObjects = Pow2[type.index] * Pow2[type.version] - 1

(* "Custom: SlotsPerSlab(1024)": the slab size named in the type is used.  *)
DeclaredSlabSizeUsed ==
    how = "default" /\ type.sps \in Declared /\ type.sps <= MaxSlots =>
        per = type.sps

(* "Ignored if version_bits isn't a power of 2."                           *)
AliveBitNeedsPowerOfTwo == HasAliveBit => IsPowerOfTwo(type.version)
=============================================================================
