------------------------ MODULE ConfigurationProofs ------------------------
(***************************************************************************)
(* Proofs about Configuration, for any widths: what a constructed map      *)
(* computes about slabs, ranges and totals is right, but for the corner of *)
(* each that the configurations WideShift, RoomWraps and TotalsUndefined   *)
(* show to be wrong.  Each corner has a name, here or in Configuration.    *)
(***************************************************************************)
EXTENDS Configuration, PowersProofs

-----------------------------------------------------------------------------
(* The corners.                                                            *)

(* An explicit slab of everything, and indexes as wide as int.             *)
ShiftsByWholeWidth ==
    type.index = IntDigits /\ per = MaxSlots /\ ~UseSingleSlab

(* User bits, beside index and version bits that fill an integer that is   *)
(* not promoted.                                                           *)
TotalFillsInteger == type.user # 0 /\ type.index + type.version = IntDigits

-----------------------------------------------------------------------------
(* The inductive invariant.                                                *)

TypeOK ==
    /\ type \in Types /\ how \in {"unbuilt", "default", "explicit", "threw"}
    /\ per \in Nat /\ base \in Nat /\ ranges \in Nat

(* A constructed map's slabs are a power of two of slots, all of them if   *)
(* there is one slab only.  Any other object has done nothing.             *)
SlabSizeSound ==
    IF Built
    THEN /\ \E b \in 0 .. type.index : per = Pow2[b]
         /\ UseSingleSlab => per = MaxSlots
    ELSE per = 0 /\ base = 0 /\ ranges = 0

ConfigurationInv ==
    /\ TypeOK /\ SlabSizeSound
    /\ ~SumFillsInteger => RangesNeverWrap

-----------------------------------------------------------------------------
(* Widths.                                                                 *)

(* What the fields of a map's type may be.                                 *)
LEMMA TypeIs ==
    ASSUME NEW t \in Types
    PROVE  /\ Unit \in Nat \ {0}
           /\ t.index \in Nat \ {0} /\ t.version \in Nat \ {0} /\ t.user \in Nat
           /\ t.index + t.version + t.user \in {2 * Unit, 4 * Unit, 8 * Unit}
<1>1. Unit \in Nat \ {0} /\ IndexBitsRange \subseteq Nat \ {0}
  BY ConfigurationAssumption DEF ConfigurationAssumption
<1>2. t \in [index : IndexBitsRange, version : 1 .. 8 * Unit,
             user : 0 .. 8 * Unit, sps : Declared \union {Dynamic, All},
             allow : BOOLEAN]
  BY DEF Types
<1>3. t.index \in IndexBitsRange /\ t.version \in 1 .. 8 * Unit
        /\ t.user \in 0 .. 8 * Unit
  BY <1>2
<1>4. t.index + t.version + t.user \in KeyWidths
  BY DEF Types
<1>5. KeyWidths \subseteq {Unit * n : n \in {2, 4, 8}}
  BY ConfigurationAssumption DEF ConfigurationAssumption
<1>6. t.index + t.version + t.user \in {2 * Unit, 4 * Unit, 8 * Unit}
  <2>1. PICK n \in {2, 4, 8} : t.index + t.version + t.user = Unit * n
    BY <1>4, <1>5
  <2>2. Unit * n \in {2 * Unit, 4 * Unit, 8 * Unit}
    BY <1>1
  <2> QED
    BY <2>1, <2>2
<1>7. t.index \in Nat \ {0}
  BY <1>1, <1>3
<1>8. t.version \in Nat \ {0} /\ t.user \in Nat
  <2>1. \A x \in 1 .. 8 * Unit : x \in Nat \ {0}
    BY <1>1
  <2>2. \A x \in 0 .. 8 * Unit : x \in Nat
    BY <1>1
  <2> QED
    BY <1>3, <2>1, <2>2
<1> QED
  BY <1>1, <1>6, <1>7, <1>8

(* type_with_at_least finds an integer wide enough.                        *)
LEMMA TypeDigitsIs ==
    ASSUME Unit \in Nat \ {0}, NEW n \in Nat, n <= 8 * Unit
    PROVE  /\ TypeDigits(n) \in {Unit, 2 * Unit, 4 * Unit, 8 * Unit}
           /\ TypeDigits(n) \in Nat /\ n <= TypeDigits(n)
  BY DEF TypeDigits

(* Promotion only widens.                                                  *)
LEMMA PromotedIs ==
    ASSUME Unit \in Nat \ {0}, NEW d \in Nat
    PROVE  Promoted(d) \in Nat /\ d <= Promoted(d) /\ IntDigits <= Promoted(d)
  BY DEF Promoted, IntDigits

(* Whatever the integer, a mask of n bits is one less than 2^n.            *)
LEMMA FieldMaskIs ==
    ASSUME Unit \in Nat \ {0}, NEW n \in Nat, n <= 8 * Unit
    PROVE  FieldMask(n) = Pow2[n] - 1
<1>1. TypeDigits(n) \in Nat /\ n <= TypeDigits(n)
  BY TypeDigitsIs
<1>2. CASE n >= TypeDigits(n)
  <2>1. n = TypeDigits(n)
    BY <1>1, <1>2
  <2> QED
    BY <1>2, <2>1 DEF FieldMask
<1>3. CASE ~(n >= TypeDigits(n))
  BY <1>3 DEF FieldMask
<1> QED
  BY <1>2, <1>3

(* max_slots is 2^IndexBits, and a size has a bit more than an index.      *)
LEMMA MaxSlotsIs ==
    ASSUME type \in Types
    PROVE  /\ type.index \in Nat /\ type.index + 1 <= 8 * Unit
           /\ MaxSlots = Pow2[type.index] /\ MaxSlots \in Nat \ {0}
           /\ SizeDigits \in Nat /\ type.index + 1 <= SizeDigits
<1>1. /\ Unit \in Nat \ {0} /\ type.index \in Nat \ {0}
      /\ type.index + 1 <= 8 * Unit
  <2>1. /\ Unit \in Nat \ {0} /\ type.user \in Nat
        /\ type.index \in Nat \ {0} /\ type.version \in Nat \ {0}
        /\ type.index + type.version + type.user
             \in {2 * Unit, 4 * Unit, 8 * Unit}
    BY TypeIs
  <2> QED
    BY <2>1
<1>2. FieldMask(type.index) = Pow2[type.index] - 1
  BY <1>1, FieldMaskIs
<1>3. Pow2[type.index] \in Nat \ {0}
  BY <1>1, Pow2Is
<1>4. MaxSlots = Pow2[type.index] /\ MaxSlots \in Nat \ {0}
  BY <1>2, <1>3 DEF MaxSlots
<1>5. SizeDigits \in Nat /\ type.index + 1 <= SizeDigits
  BY <1>1, TypeDigitsIs DEF SizeDigits
<1> QED
  BY <1>1, <1>4, <1>5

(* The logarithm of a power of two is its exponent.                        *)
LEMMA Log2Is ==
    ASSUME Unit \in Nat \ {0}, NEW b \in 0 .. 8 * Unit
    PROVE  Log2(Pow2[b]) = b
<1>1. PICK c : c = Log2(Pow2[b])
  OBVIOUS
<1>2. \E d \in 0 .. 8 * Unit : Pow2[b] = Pow2[d]
  OBVIOUS
<1>3. c \in 0 .. 8 * Unit /\ Pow2[b] = Pow2[c]
  BY <1>1, <1>2 DEF Log2
<1>4. b \in Nat /\ c \in Nat
  BY <1>3
<1>5. b <= c /\ c <= b
  <2>1. Pow2[b] \in Nat
    BY <1>4, Pow2Is
  <2>2. Pow2[b] <= Pow2[c] /\ Pow2[c] <= Pow2[b]
    BY <1>3, <2>1
  <2> QED
    BY <1>4, <2>2, Pow2Orders
<1> QED
  BY <1>1, <1>4, <1>5

-----------------------------------------------------------------------------
(* The invariant is inductive.                                             *)

(* It holds when a type is picked.                                         *)
LEMMA ConfigurationInit == Init => ConfigurationInv
<1> SUFFICES ASSUME Init PROVE ConfigurationInv
  OBVIOUS
<1>1. TypeOK /\ SlabSizeSound
  BY DEF Init, TypeOK, SlabSizeSound, Built
<1>2. MaxSlots \in Nat
  BY <1>1, MaxSlotsIs DEF TypeOK
<1>3. RangesNeverWrap
  BY <1>2 DEF Init, RangesNeverWrap
<1> QED
  BY <1>1, <1>3 DEF ConfigurationInv

(* Nothing about the type changes while it does not.                       *)
LEMMA SameType ==
    ASSUME type' = type
    PROVE  /\ MaxSlots' = MaxSlots /\ SizeDigits' = SizeDigits
           /\ UseSingleSlab' = UseSingleSlab
  BY DEF MaxSlots, SizeDigits, UseSingleSlab

(* A constructor that accepts its slab size leaves the invariant.          *)
LEMMA Constructs ==
    ASSUME ConfigurationInv, ~Built, Built', type' = type, base' = base,
           ranges' = ranges, how' \in {"default", "explicit"},
           NEW b \in 0 .. type.index, per' = Pow2[b],
           UseSingleSlab => per' = MaxSlots
    PROVE  ConfigurationInv'
<1>1. base = 0 /\ ranges = 0 /\ type \in Types
  BY DEF ConfigurationInv, SlabSizeSound, TypeOK
<1>2. type.index \in Nat /\ MaxSlots \in Nat \ {0}
  BY <1>1, MaxSlotsIs
<1>3. per' \in Nat
  BY <1>2, Pow2Is
<1>4. TypeOK'
  BY <1>1, <1>3 DEF TypeOK
<1>5. SlabSizeSound'
  BY SameType DEF SlabSizeSound
<1>6. RangesNeverWrap'
  <2>1. base' = 0 /\ 0 = 0 * per' /\ ranges' = 0 /\ MaxSlots' \in Nat
    BY <1>1, <1>2, <1>3, SameType
  <2> QED
    BY <2>1 DEF RangesNeverWrap
<1> QED
  BY <1>4, <1>5, <1>6 DEF ConfigurationInv

(* The default constructor's slab size is a power of two that fits.        *)
LEMMA DefaultFits ==
    ASSUME type \in Types
    PROVE  \E b \in 0 .. type.index :
               (IF UseSingleSlab THEN MaxSlots ELSE DefaultSlabSize) = Pow2[b]
<1>1. /\ type.index \in Nat /\ MaxSlots = Pow2[type.index]
      /\ MaxSlots \in Nat \ {0}
  BY MaxSlotsIs
<1>2. type.index \in 0 .. type.index
  BY <1>1
<1>3. CASE DefaultSize <= MaxSlots
  <2>1. PICK b \in 0 .. 8 * Unit : DefaultSize = Pow2[b]
    BY ConfigurationAssumption DEF ConfigurationAssumption
  <2>2. b \in Nat
    BY <2>1, ConfigurationAssumption DEF ConfigurationAssumption
  <2>3. b \in 0 .. type.index
    BY <1>1, <1>3, <2>1, <2>2, Pow2Orders
  <2> QED
    BY <1>1, <1>2, <2>1, <2>3 DEF DefaultSlabSize
<1>4. CASE ~(DefaultSize <= MaxSlots)
  BY <1>1, <1>2, <1>4 DEF DefaultSlabSize
<1> QED
  BY <1>3, <1>4

(* Taking the next range, when there is room for it.                       *)
LEMMA TakesRange ==
    ASSUME ConfigurationInv, Built, TakeRange,
           ~SumFillsInteger => base + per <= MaxSlots
    PROVE  ConfigurationInv'
<1>1. /\ type \in Types /\ per \in Nat /\ base \in Nat /\ ranges \in Nat
  BY DEF ConfigurationInv, TypeOK
<1>2. /\ type.index \in Nat /\ MaxSlots = Pow2[type.index]
      /\ MaxSlots \in Nat \ {0}
      /\ SizeDigits \in Nat /\ type.index + 1 <= SizeDigits
  BY <1>1, MaxSlotsIs
<1>3. type' = type /\ how' = how /\ per' = per /\ ranges' = ranges + 1
        /\ base' = (base + per) % Pow2[SizeDigits]
  BY DEF TakeRange
<1>4. base + per \in Nat /\ Pow2[SizeDigits] \in Nat \ {0}
  BY <1>1, <1>2, Pow2Is
<1>5. TypeOK'
  <2>1. base' \in Nat
    BY <1>3, <1>4, Remainder
  <2> QED
    BY <1>1, <1>3, <2>1 DEF ConfigurationInv, TypeOK
<1>6. SlabSizeSound'
  BY <1>3, SameType DEF ConfigurationInv, SlabSizeSound, Built
<1>7. ASSUME ~SumFillsInteger' PROVE RangesNeverWrap'
  <2>1. ~SumFillsInteger
    BY <1>3, <1>7, SameType DEF SumFillsInteger
  <2>2. base = ranges * per /\ base + per <= MaxSlots
    BY <2>1 DEF ConfigurationInv, RangesNeverWrap
  <2>3. MaxSlots < Pow2[SizeDigits]
    BY <1>2, Pow2Grows
  <2>4. base + per \in 0 .. Pow2[SizeDigits] - 1
    BY <1>2, <1>4, <2>2, <2>3
  <2>5. base' = base + per
    BY <1>3, <1>4, <2>4, Remainder
  <2>6. ranges * per + per = (ranges + 1) * per
    BY <1>1
  <2> QED
    BY <1>3, <2>2, <2>5, <2>6, SameType DEF RangesNeverWrap
<1> QED
  BY <1>5, <1>6, <1>7 DEF ConfigurationInv

(* A power of two that fits at all, fits once more while there is room.    *)
LEMMA RoomForOne ==
    ASSUME NEW i \in Nat, NEW b \in 0 .. i, NEW r \in Nat,
           r * Pow2[b] < Pow2[i]
    PROVE  r * Pow2[b] + Pow2[b] <= Pow2[i]
<1>1. b \in Nat /\ i - b \in Nat /\ b + (i - b) = i
  OBVIOUS
<1>2. Pow2[i] = Pow2[b] * Pow2[i - b]
  BY <1>1, Pow2Sum
<1>3. PICK p \in Nat \ {0}, q \in Nat : p = Pow2[b] /\ q = Pow2[i - b]
  BY <1>1, Pow2Is
<1>4. r < q
  <2>1. CASE q <= r
    <3>1. PICK d \in Nat : r = q + d
      <4>1. r - q \in Nat /\ r = q + (r - q)
        BY <1>3, <2>1
      <4> QED
        BY <4>1
    <3>2. r * p = p * q + d * p /\ d * p \in Nat /\ p * q \in Nat
      BY <1>3, <3>1
    <3> QED
      BY <1>2, <1>3, <3>2
  <2> QED
    BY <1>3, <2>1
<1>5. PICK d \in Nat : q = r + 1 + d
  <2>1. q - r - 1 \in Nat /\ q = r + 1 + (q - r - 1)
    BY <1>3, <1>4
  <2> QED
    BY <2>1
<1>6. p * q = r * p + p + d * p /\ d * p \in Nat
  BY <1>3, <1>5
<1>7. r * p \in Nat
  BY <1>3
<1> QED
  BY <1>2, <1>3, <1>6, <1>7

(* A map whose ranges do not fill the index space has room for one more.   *)
LEMMA AllocateFits ==
    ASSUME ConfigurationInv, Built, base < MaxSlots, ~SumFillsInteger
    PROVE  base + per <= MaxSlots
<1>1. type \in Types /\ ranges \in Nat
  BY DEF ConfigurationInv, TypeOK
<1>2. type.index \in Nat /\ MaxSlots = Pow2[type.index]
  BY <1>1, MaxSlotsIs
<1>3. PICK b \in 0 .. type.index : per = Pow2[b]
  BY DEF ConfigurationInv, SlabSizeSound
<1>4. base = ranges * Pow2[b]
  BY <1>3 DEF ConfigurationInv, RangesNeverWrap
<1>5. ranges * Pow2[b] + Pow2[b] <= Pow2[type.index]
  BY <1>1, <1>2, <1>4, RoomForOne
<1> QED
  BY <1>2, <1>3, <1>4, <1>5

(* recycle's question whether there is room is answered rightly.           *)
LEMMA RecycleFits ==
    ASSUME ConfigurationInv, Built, ~NoRoom, ~UseSingleSlab, ~SumFillsInteger
    PROVE  base + per <= MaxSlots
<1>1. /\ type \in Types /\ per \in Nat /\ base \in Nat
      /\ Unit \in Nat \ {0}
  BY ConfigurationAssumption DEF ConfigurationInv, TypeOK, ConfigurationAssumption
<1>2. /\ type.index \in Nat /\ MaxSlots = Pow2[type.index]
      /\ MaxSlots \in Nat \ {0}
      /\ SizeDigits \in Nat /\ type.index + 1 <= SizeDigits
  BY <1>1, MaxSlotsIs
<1>3. PICK w \in Nat : w = Promoted(SizeDigits) /\ type.index + 1 <= w
  BY <1>1, <1>2, PromotedIs
<1>4. base <= MaxSlots
  BY DEF ConfigurationInv, RangesNeverWrap
<1>5. per <= MaxSlots
  <2>1. PICK b \in 0 .. type.index : per = Pow2[b]
    BY DEF ConfigurationInv, SlabSizeSound
  <2>2. b \in Nat /\ b <= type.index
    BY <1>2, <2>1
  <2> QED
    BY <1>2, <2>1, <2>2, Pow2Orders
<1>6. Pow2[w] \in Nat \ {0} /\ Pow2[type.index + 1] = 2 * MaxSlots
  BY <1>2, <1>3, Pow2Is
<1>7. base + per < Pow2[w]
  <2>1. CASE type.index + 1 < w
    <3>1. Pow2[type.index + 1] < Pow2[w]
      BY <1>2, <1>3, <2>1, Pow2Grows
    <3> QED
      BY <1>1, <1>2, <1>4, <1>5, <1>6, <3>1
  <2>2. CASE type.index + 1 = w
    <3>1. per # MaxSlots
      BY <1>3, <2>2 DEF SumFillsInteger
    <3> QED
      BY <1>1, <1>2, <1>4, <1>5, <1>6, <2>2, <3>1
  <2> QED
    BY <1>2, <1>3, <2>1, <2>2
<1>8. (base + per) % Pow2[w] = base + per
  <2>1. base + per \in Nat /\ base + per \in 0 .. Pow2[w] - 1
    BY <1>1, <1>6, <1>7
  <2> QED
    BY <1>6, <2>1, Remainder
<1> QED
  BY <1>1, <1>2, <1>3, <1>8 DEF NoRoom

(* Every step keeps the invariant.                                         *)
LEMMA ConfigurationStep == ConfigurationInv /\ [Next]_vars => ConfigurationInv'
<1> SUFFICES ASSUME ConfigurationInv, [Next]_vars PROVE ConfigurationInv'
  OBVIOUS
<1>1. type \in Types
  BY DEF ConfigurationInv, TypeOK
<1>2. /\ type.index \in Nat /\ MaxSlots = Pow2[type.index]
      /\ MaxSlots \in Nat \ {0}
  BY <1>1, MaxSlotsIs
<1>3. CASE DefaultConstruct
  <2>1. PICK b \in 0 .. type.index :
            (IF UseSingleSlab THEN MaxSlots ELSE DefaultSlabSize) = Pow2[b]
    BY <1>1, DefaultFits
  <2> QED
    BY <1>3, <2>1, Constructs DEF DefaultConstruct, Built
<1>4. ASSUME NEW n \in 0 .. MaxSlots + 1, ExplicitConstruct(n)
      PROVE  ConfigurationInv'
  <2>1. ~Built /\ ~UseSingleSlab /\ type' = type /\ base' = base
          /\ ranges' = ranges
    BY <1>4 DEF ExplicitConstruct, Built
  <2>2. CASE ValidSlabSize(n)
    <3>1. per' = n /\ how' = "explicit"
      BY <1>4, <2>2 DEF ExplicitConstruct
    <3>2. PICK b \in 0 .. 8 * Unit : n = Pow2[b]
      BY <2>2 DEF ValidSlabSize, IsPowerOfTwo
    <3>3. b \in Nat /\ Pow2[b] <= Pow2[type.index]
      <4>1. n <= MaxSlots /\ Unit \in Nat
        BY <2>2, ConfigurationAssumption
           DEF ValidSlabSize, ConfigurationAssumption
      <4> QED
        BY <1>2, <3>2, <4>1
    <3>4. b \in 0 .. type.index
      BY <1>2, <3>3, Pow2Orders
    <3> QED
      BY <2>1, <3>1, <3>2, <3>4, Constructs DEF Built
  <2>3. CASE ~ValidSlabSize(n)
    <3>1. per' = per /\ how' = "threw"
      BY <1>4, <2>3 DEF ExplicitConstruct
    <3> QED
      BY <2>1, <3>1, SameType
         DEF ConfigurationInv, TypeOK, SlabSizeSound, Built,
             SumFillsInteger, RangesNeverWrap
  <2> QED
    BY <2>2, <2>3
<1>5. CASE AllocateSlab
  BY <1>5, AllocateFits, TakesRange DEF AllocateSlab
<1>6. CASE RecycleSlab
  BY <1>6, RecycleFits, TakesRange DEF RecycleSlab
<1>7. CASE UNCHANGED vars
  BY <1>7, SameType
     DEF vars, ConfigurationInv, TypeOK, SlabSizeSound, Built,
         SumFillsInteger, RangesNeverWrap
<1> QED
  BY <1>3, <1>4, <1>5, <1>6, <1>7 DEF Next

(* It holds in every reachable state.                                      *)
LEMMA ConfigurationSound == Spec => []ConfigurationInv
  BY ConfigurationInit, ConfigurationStep, PTL DEF Spec

-----------------------------------------------------------------------------
(* What the numbers say.                                                   *)

(* The code splits an index by a shift that is defined.                    *)
LEMMA ShiftDefined ==
    ASSUME type \in Types, NEW b \in 0 .. type.index, per = Pow2[b],
           ~UseSingleSlab, ~ShiftsByWholeWidth, NEW i \in Nat
    PROVE  SlabIndexes(i) = {i \div Pow2[b]}
<1>1. /\ Unit \in Nat \ {0} /\ type.version \in Nat \ {0}
      /\ type.user \in Nat
      /\ type.index + type.version + type.user
           \in {2 * Unit, 4 * Unit, 8 * Unit}
  BY TypeIs
<1>2. /\ type.index \in Nat /\ type.index + 1 <= 8 * Unit
      /\ MaxSlots = Pow2[type.index]
  BY MaxSlotsIs
<1>3. b \in Nat /\ b <= type.index /\ b \in 0 .. 8 * Unit
  BY <1>1, <1>2
<1>4. Log2(per) = b
  BY <1>1, <1>3, Log2Is
<1>5. PICK d \in Nat : /\ d = TypeDigits(type.index) /\ type.index <= d
                       /\ d \in {Unit, 2 * Unit, 4 * Unit, 8 * Unit}
  BY <1>1, <1>2, TypeDigitsIs
<1>6. PICK w \in Nat : w = Promoted(d) /\ d <= w /\ IntDigits <= w
  BY <1>1, <1>5, PromotedIs
<1>7. b < w
  <2>1. CASE type.index = IntDigits
    <3>1. per # MaxSlots
      BY <2>1 DEF ShiftsByWholeWidth
    <3>2. b # type.index
      BY <1>2, <3>1
    <3> QED
      BY <1>2, <1>3, <1>5, <1>6, <3>2
  <2>2. CASE type.index # IntDigits
    BY <1>1, <1>2, <1>3, <1>5, <1>6, <2>2 DEF IntDigits
  <2> QED
    BY <2>1, <2>2
<1> QED
  BY <1>4, <1>5, <1>6, <1>7 DEF SlabIndexes, ShiftedRight

(* Quotient and remainder of an index, by a slab size that divides all.    *)
LEMMA SplitIs ==
    ASSUME NEW p \in Nat \ {0}, NEW q \in Nat, NEW i \in 0 .. p * q - 1
    PROVE  /\ i \div p < q /\ (i % p) \in 0 .. p - 1
           /\ (i \div p) * p + (i % p) = i
<1>1. i \in Nat /\ i < p * q
  <2>1. p * q \in Nat
    OBVIOUS
  <2> QED
    BY <2>1
<1>2. PICK d \in Nat, m \in 0 .. p - 1 : /\ d = i \div p /\ m = i % p
                                        /\ i = d * p + m
  <2>1. /\ i \div p \in Nat /\ (i % p) \in 0 .. p - 1
        /\ i = (i \div p) * p + (i % p)
    BY <1>1
  <2> QED
    BY <2>1
<1>3. d < q
  <2>1. CASE q <= d
    <3>1. PICK k \in Nat : d = q + k
      <4>1. d - q \in Nat /\ d = q + (d - q)
        BY <1>2, <2>1
      <4> QED
        BY <4>1
    <3>2. d * p = p * q + k * p /\ k * p \in Nat /\ p * q \in Nat
      BY <1>2, <3>1
    <3> QED
      BY <1>1, <1>2, <3>2
  <2> QED
    BY <1>2, <2>1
<1> QED
  BY <1>2, <1>3

(* Every index a key can carry names a slot of its own, whatever slab size *)
(* the constructor took: storage_slab_index, index and base_index of       *)
(* detail/SlotMap.hpp fit together, but for a shift by the whole width.    *)
THEOREM IndexesNameSlots ==
    Spec => [](~ShiftsByWholeWidth => EveryIndexHasASlot)
<1>1. ConfigurationInv /\ ~ShiftsByWholeWidth => EveryIndexHasASlot
  <2> SUFFICES ASSUME ConfigurationInv, ~ShiftsByWholeWidth, Built,
                      NEW i \in 0 .. MaxSlots - 1, NEW s \in SlabIndexes(i)
               PROVE  /\ s < MaxSlots \div per /\ SlotIndex(i) < per
                      /\ BaseIndex(s) + SlotIndex(i) = i
    BY DEF EveryIndexHasASlot
  <2>1. type \in Types /\ SlabSizeSound
    BY DEF ConfigurationInv, TypeOK
  <2>2. /\ type.index \in Nat /\ MaxSlots = Pow2[type.index]
        /\ MaxSlots \in Nat \ {0}
    BY <2>1, MaxSlotsIs
  <2>3. PICK b \in 0 .. type.index : per = Pow2[b]
    BY <2>1 DEF SlabSizeSound
  <2>4. i \in Nat /\ i < MaxSlots
    BY <2>2
  <2>5. CASE UseSingleSlab
    <3>1. per = MaxSlots /\ s = 0
      BY <2>1, <2>5 DEF SlabSizeSound, SlabIndexes
    <3>2. MaxSlots \div MaxSlots = 1
      BY <2>2
    <3>3. SlotIndex(i) = i /\ BaseIndex(s) = 0
      BY <2>5 DEF SlotIndex, BaseIndex
    <3> QED
      BY <2>4, <3>1, <3>2, <3>3
  <2>6. CASE ~UseSingleSlab
    <3>1. s = i \div Pow2[b]
      BY <2>1, <2>3, <2>4, <2>6, ShiftDefined
    <3>2. /\ type.index - b \in Nat /\ b \in Nat
          /\ b + (type.index - b) = type.index
      BY <2>2
    <3>3. PICK p \in Nat \ {0}, q \in Nat :
              p = Pow2[b] /\ q = Pow2[type.index - b] /\ MaxSlots = p * q
      <4>1. Pow2[type.index] = Pow2[b] * Pow2[type.index - b]
        BY <3>2, Pow2Sum
      <4>2. Pow2[b] \in Nat \ {0} /\ Pow2[type.index - b] \in Nat
        BY <3>2, Pow2Is
      <4> QED
        BY <2>2, <4>1, <4>2
    <3>4. i \in 0 .. p * q - 1
      BY <3>3
    <3>5. /\ i \div p < q /\ (i % p) \in 0 .. p - 1
          /\ (i \div p) * p + (i % p) = i
      BY <3>4, SplitIs
    <3>6. MaxSlots \div per = q
      <4>1. 0 \in Nat /\ 0 < p /\ q * p + 0 = p * q
        BY <3>3
      <4>2. (q * p + 0) \div p = q
        BY <3>3, <4>1, Divided
      <4> QED
        BY <2>3, <3>3, <4>1, <4>2
    <3>7. SlotIndex(i) = i % p /\ BaseIndex(s) = (i \div p) * p
      BY <2>3, <2>6, <3>1, <3>3 DEF SlotIndex, BaseIndex
    <3>8. SlotIndex(i) < per
      <4>1. \A x \in 0 .. p - 1 : x < p
        BY <3>3
      <4> QED
        BY <2>3, <3>3, <3>5, <3>7, <4>1
    <3>9. BaseIndex(s) + SlotIndex(i) = i
      BY <3>5, <3>7
    <3> QED
      BY <3>1, <3>3, <3>5, <3>6, <3>8, <3>9
  <2> QED
    BY <2>5, <2>6
<1> QED
  BY <1>1, ConfigurationSound, PTL

(* The index ranges handed to slabs follow each other and end where the    *)
(* index space does, however often slabs are recycled (allocate_slab and   *)
(* recycle of detail/SlotMap.hpp): next_slab_base_index_ wraps for no      *)
(* width, but where the question for room itself does, with one explicit   *)
(* slab of everything.                                                     *)
THEOREM RangesFollowEachOther == Spec => []RangesWithinIndexSpace
<1>1. ConfigurationInv => RangesWithinIndexSpace
  BY DEF ConfigurationInv, RangesWithinIndexSpace
<1> QED
  BY <1>1, ConfigurationSound, PTL

(* max_total_objects is one less than the number of keys, for every type   *)
(* it compiles for.                                                        *)
THEOREM TotalsAreExact ==
    Spec => [](~TotalFillsInteger => TotalObjectsExact)
<1>1. ConfigurationInv /\ ~TotalFillsInteger => TotalObjectsExact
  <2> SUFFICES ASSUME ConfigurationInv, ~TotalFillsInteger
               PROVE  TotalObjectsExact
    OBVIOUS
  <2>1. type \in Types
    BY DEF ConfigurationInv, TypeOK
  <2>2. PICK n \in Nat : n = type.index + type.version
    BY <2>1, TypeIs
  <2>3. /\ Unit \in Nat \ {0} /\ type.user \in Nat
        /\ n + type.user \in {2 * Unit, 4 * Unit, 8 * Unit}
    BY <2>1, <2>2, TypeIs
  <2>4. n <= 8 * Unit
    BY <2>3
  <2>5. Pow2[n] = Pow2[type.index] * Pow2[type.version]
    BY <2>1, <2>2, TypeIs, Pow2Sum
  <2>6. Pow2[n] \in Nat \ {0}
    BY Pow2Is
  <2>7. PICK d \in Nat : /\ d = TypeDigits(n) /\ n <= d
                         /\ d \in {Unit, 2 * Unit, 4 * Unit, 8 * Unit}
    BY <2>3, <2>4, TypeDigitsIs
  <2>8. CASE type.user = 0
    <3>1. d = n
      BY <2>3, <2>7, <2>8 DEF TypeDigits
    <3>2. MaxTotalObjects = Pow2[d] - 1
      BY <2>2, <2>7, <2>8 DEF MaxTotalObjects
    <3> QED
      BY <2>5, <3>1, <3>2 DEF TotalObjectsExact
  <2>9. CASE type.user # 0
    <3>1. n # IntDigits
      BY <2>2, <2>9 DEF TotalFillsInteger
    <3>2. PICK w \in Nat : w = Promoted(d) /\ d <= w /\ IntDigits <= w
      BY <2>3, <2>7, PromotedIs
    <3>3. ~(n >= w)
      BY <2>3, <2>7, <2>9, <3>1, <3>2 DEF IntDigits
    <3>4. MaxTotalObjects = (Pow2[n] - 1) % Pow2[d]
      BY <2>2, <2>7, <2>9, <3>2, <3>3 DEF MaxTotalObjects
    <3>5. Pow2[d] \in Nat \ {0} /\ Pow2[n] <= Pow2[d]
      BY <2>7, Pow2Is, Pow2Orders
    <3>6. Pow2[n] - 1 \in Nat /\ Pow2[n] - 1 \in 0 .. Pow2[d] - 1
      BY <2>6, <3>5
    <3>7. (Pow2[n] - 1) % Pow2[d] = Pow2[n] - 1
      BY <3>5, <3>6, Remainder
    <3> QED
      BY <2>5, <3>4, <3>7 DEF TotalObjectsExact
  <2> QED
    BY <2>8, <2>9
<1> QED
  BY <1>1, ConfigurationSound, PTL
=============================================================================
