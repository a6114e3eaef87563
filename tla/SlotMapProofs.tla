--------------------------- MODULE SlotMapProofs ---------------------------
(***************************************************************************)
(* Proofs about SlotMap, for every index width, version width, slab size,  *)
(* storage policy and build mode the assumptions of SlotMap allow.         *)
(***************************************************************************)
EXTENDS SlotMapInv, Statistics, FiniteSetTheorems, FunctionTheorems,
        WellFoundedInduction, TLAPS

-----------------------------------------------------------------------------
(* Division of the index space into slabs.                                 *)

(* Quotient and remainder, for any integer.                                *)
LEMMA DivMod ==
    ASSUME NEW n \in Nat \ {0}, NEW a \in Int
    PROVE  /\ a = n * (a \div n) + (a % n)
           /\ a % n \in Int /\ 0 <= a % n /\ a % n < n
           /\ a \div n \in Int
OBVIOUS

(* The quotient of a number below n * m is below m.                        *)
LEMMA DivBounds ==
    ASSUME NEW n \in Nat \ {0}, NEW a \in Nat, NEW m \in Int, a < n * m
    PROVE  0 <= a \div n /\ a \div n < m
OBVIOUS

(* Quotient and remainder of a number given by them.                       *)
LEMMA DivUnique ==
    ASSUME NEW n \in Nat \ {0}, NEW q \in Int, NEW r \in 0 .. n - 1
    PROVE  (n * q + r) \div n = q /\ (n * q + r) % n = r
OBVIOUS

(* Two multiples of n are n apart or more.                                 *)
LEMMA MultipleGap ==
    ASSUME NEW n \in Nat \ {0}, NEW p \in Int, NEW q \in Int, n * p < n * q
    PROVE  n * p + n <= n * q
<1>1. p < q
  OBVIOUS
<1>2. p + 1 <= q
  BY <1>1
<1>3. n * (p + 1) <= n * q
  BY <1>2
<1> QED
  BY <1>3

(* Two slab boundaries are at least a slab apart.                          *)
LEMMA BoundaryGap ==
    ASSUME NEW n \in Nat \ {0}, NEW a \in Nat, NEW b \in Nat,
           a % n = 0, b % n = 0, a < b
    PROVE  a + n <= b
<1>1. a = n * (a \div n) /\ a \div n \in Int
  BY DivMod
<1>2. b = n * (b \div n) /\ b \div n \in Int
  BY DivMod
<1> QED
  BY MultipleGap, <1>1, <1>2

(* The slab boundaries next to a boundary.                                 *)
LEMMA NextBoundary ==
    ASSUME NEW n \in Nat \ {0}, NEW a \in Int, a % n = 0
    PROVE  (a + n) % n = 0 /\ (a - n) % n = 0
<1>1. a = n * (a \div n) /\ a \div n \in Int
  BY DivMod
<1> DEFINE q == a \div n
<1>2. a + n = n * (q + 1) + 0 /\ a - n = n * (q - 1) + 0
  BY <1>1
<1>3. (n * (q + 1) + 0) % n = 0
  BY <1>1, DivUnique
<1>4. (n * (q - 1) + 0) % n = 0
  BY <1>1, DivUnique
<1> QED
  BY <1>2, <1>3, <1>4

(* The indices of one slab are on the same side of every slab boundary.    *)
LEMMA SameSide ==
    ASSUME NEW n \in Nat \ {0}, NEW i \in Nat, NEW j \in Nat, NEW a \in Nat,
           i \div n = j \div n, a % n = 0, i < a
    PROVE  j < a
<1>1. a = n * (a \div n) /\ a \div n \in Int
  BY DivMod
<1>2. i = n * (i \div n) + (i % n) /\ i % n >= 0 /\ i \div n \in Int
  BY DivMod
<1>3. j = n * (i \div n) + (j % n) /\ j % n < n
  BY DivMod
<1>4. n * (i \div n) + n <= a
  BY MultipleGap, <1>1, <1>2
<1> QED
  BY <1>2, <1>3, <1>4

(* Every slot is in some slab.                                             *)
LEMMA SlabOfInRange ==
    ASSUME NEW i \in Index
    PROVE  SlabOf(i) \in SlabIndex
<1> DEFINE n == SlotsPerSlab
           m == MaxSlots \div n
<1>1. n \in Nat \ {0} /\ MaxSlots \in Nat \ {0} /\ MaxSlots % n = 0
  BY SizeAssumption
<1>2. MaxSlots = n * m /\ m \in Int
  BY DivMod, <1>1
<1>3. i \in Nat /\ i < n * m
  BY <1>1, <1>2 DEF Index
<1>4. i \div n \in Int
  BY DivMod, <1>1, <1>3
<1>5. 0 <= i \div n /\ i \div n < m
  BY DivBounds, <1>1, <1>2, <1>3
<1> QED
  BY <1>2, <1>4, <1>5 DEF SlabOf, SlabIndex

(* Slot numbers are natural numbers, and none is the end mark.             *)
LEMMA IndexIsInt ==
    \A i \in Index : i \in Int /\ i \in Nat /\ i < MaxSlots /\ i # End
BY SizeAssumption DEF Index, End

(* A nonempty set of indices has a last one.                               *)
LEMMA LastOfIsLast ==
    ASSUME NEW S \in SUBSET Index, S # {}
    PROVE  LastOf(S) \in S /\ \A j \in S : j <= LastOf(S)
<1> DEFINE T == {MaxSlots - i : i \in S}
<1>1. MaxSlots \in Nat /\ S \subseteq Nat /\ \A i \in S : MaxSlots - i \in Nat
  BY SizeAssumption DEF Index
<1>2. T \subseteq Nat /\ T # {}
  BY <1>1
<1> HIDE DEF T
<1>3. PICK x \in T : \A y \in T : ~(<<y, x>> \in OpToRel(<, Nat))
  BY <1>2, NatLessThanWellFounded, WFMin
<1>4. x \in Nat /\ \A y \in T : y \in Nat /\ ~(y < x)
  BY <1>2, <1>3 DEF OpToRel
<1>5. PICK i \in S : x = MaxSlots - i
  BY <1>3 DEF T
<1>6. ASSUME NEW j \in S PROVE j <= i
  <2>1. MaxSlots - j \in T
    BY DEF T
  <2> QED
    BY <2>1, <1>1, <1>4, <1>5
<1> QED
  BY <1>6 DEF LastOf

(* The last slot of a set is in it, or is the end mark.                    *)
LEMMA LastOfType ==
    ASSUME NEW S \in SUBSET Index
    PROVE  LastOf(S) \in S \union {End}
<1>1. CASE S = {}
  BY <1>1 DEF LastOf
<1>2. CASE S # {}
  BY <1>2, LastOfIsLast
<1> QED
  BY <1>1, <1>2

-----------------------------------------------------------------------------
(* Type correctness.                                                       *)

OnGrid(b) == b \in 0 .. MaxSlots /\ b % SlotsPerSlab = 0

TypeInv == TypeOK /\ OnGrid(nextBase)

(* Allocation stays on the grid.                                           *)
LEMMA GridStep ==
    ASSUME OnGrid(nextBase), nextBase < MaxSlots
    PROVE  OnGrid(nextBase + SlotsPerSlab)
<1>1. /\ SlotsPerSlab \in Nat \ {0} /\ MaxSlots \in Nat /\ nextBase \in Nat
      /\ nextBase \in Int
      /\ MaxSlots % SlotsPerSlab = 0 /\ nextBase % SlotsPerSlab = 0
  BY SizeAssumption DEF OnGrid
<1>2. nextBase + SlotsPerSlab <= MaxSlots
  BY ONLY <1>1, BoundaryGap, nextBase < MaxSlots
<1>3. (nextBase + SlotsPerSlab) % SlotsPerSlab = 0
  BY ONLY <1>1, NextBoundary
<1> QED
  BY <1>1, <1>2, <1>3 DEF OnGrid

(* Slabs end on slab boundaries.                                           *)
LEMMA SlabEndsOnGrid ==
    ASSUME NEW to \in SlabEnds
    PROVE  OnGrid(to)
BY SizeAssumption DEF SlabEnds, OnGrid

(* Where a newly allocated slot's link leads.                              *)
LEMMA GrownLinkCases ==
    ASSUME OnGrid(nextBase), NEW to \in Int, OnGrid(to), nextBase < to,
           NEW i \in Grown(to)
    PROVE  /\ i \in Index
           /\ \/ i + 1 \in Grown(to) /\ GrownLinks(to)[i] = i + 1
                 /\ (i + 1) % SlotsPerSlab # 0
              \/ i < nextBase + SlotsPerSlab /\ GrownLinks(to)[i] = freeHead
                 /\ (i + 1) % SlotsPerSlab = 0
              \/ i + 1 - 2 * SlotsPerSlab \in Grown(to)
                 /\ GrownLinks(to)[i] = i + 1 - 2 * SlotsPerSlab
                 /\ (i + 1) % SlotsPerSlab = 0
<1> DEFINE n == SlotsPerSlab
<1>1. n \in Nat \ {0} /\ MaxSlots \in Nat /\ nextBase \in Nat /\ to \in Nat
      /\ nextBase % n = 0 /\ to % n = 0 /\ to <= MaxSlots
  BY SizeAssumption DEF OnGrid
<1>2. i \in Index /\ nextBase <= i /\ i < to
  BY <1>1 DEF Grown, Index
<1>3. CASE (i + 1) % n # 0
  <2>1. i + 1 # to
    BY <1>1, <1>3
  <2>2. i + 1 \in Grown(to)
    BY <1>1, <1>2, <2>1 DEF Grown, Index
  <2> QED
    BY <1>2, <1>3, <2>2 DEF GrownLinks
<1>4. CASE (i + 1) % n = 0 /\ i < nextBase + n
  BY <1>2, <1>4 DEF GrownLinks
<1>5. CASE (i + 1) % n = 0 /\ ~(i < nextBase + n)
  <2>1. i + 1 \in Nat /\ (nextBase + n) % n = 0 /\ nextBase + n \in Nat
    <3>1. nextBase \in Int /\ nextBase % n = 0 /\ n \in Nat \ {0}
      BY <1>1
    <3>2. (nextBase + n) % n = 0
      BY ONLY <3>1, NextBoundary
    <3> QED
      BY <1>1, <1>2, <3>2 DEF Index
  <2>2. nextBase + n < i + 1
    BY <1>1, <1>2, <1>5 DEF Index
  <2>3. nextBase + n + n <= i + 1
    BY <1>1, <1>5, <2>1, <2>2, BoundaryGap
  <2>4. i + 1 - 2 * n \in Grown(to)
    BY <1>1, <1>2, <2>3 DEF Grown, Index
  <2>5. GrownLinks(to)[i] = i + 1 - 2 * n
    BY <1>2, <1>5 DEF GrownLinks
  <2> QED
    BY <1>2, <1>5, <2>4, <2>5
<1> QED
  BY <1>3, <1>4, <1>5

(* What add_slab writes into links and versions has their types.           *)
LEMMA GrownType ==
    ASSUME TypeInv, NEW to \in Int, OnGrid(to), nextBase < to
    PROVE  /\ GrownLinks(to) \in [Index -> Link \union Values]
           /\ GrownVersions(to) \in [Index -> Version]
           /\ slabs \union {SlabOf(i) : i \in Grown(to)} \subseteq SlabIndex
<1>1. ASSUME NEW i \in Index
      PROVE  GrownLinks(to)[i] \in Link \union Values
  <2>1. CASE i \in Grown(to)
    BY <2>1, GrownLinkCases DEF TypeInv, TypeOK, Link
  <2>2. CASE i \notin Grown(to)
    BY <2>2 DEF TypeInv, TypeOK, GrownLinks
  <2> QED
    BY <2>1, <2>2
<1>2. GrownLinks(to) \in [Index -> Link \union Values]
  BY <1>1 DEF GrownLinks
<1>3. GrownVersions(to) \in [Index -> Version]
  BY SizeAssumption DEF GrownVersions, TypeInv, TypeOK, Version
<1>4. ASSUME NEW i \in Grown(to) PROVE SlabOf(i) \in SlabIndex
  <2>1. i \in Index
    BY SizeAssumption DEF TypeInv, OnGrid, Grown, Index
  <2> QED
    BY <2>1, SlabOfInRange
<1>5. slabs \union {SlabOf(i) : i \in Grown(to)} \subseteq SlabIndex
  BY <1>4 DEF TypeInv, TypeOK
<1> QED
  BY <1>2, <1>3, <1>5

(* A new map is of the right type.                                         *)
LEMMA TypeInit == ASSUME Init PROVE TypeInv
<1>1. OnGrid(nextBase)
  BY SizeAssumption DEF Init, OnGrid
<1>2. BlankLink \in Link /\ End \in Link /\ 0 \in Version
  BY SizeAssumption DEF BlankLink, Link, Index, Version
<1> QED
  BY <1>1, <1>2, SizeAssumption DEF Init, TypeInv, TypeOK

(* Constructing an element keeps the types.                                *)
LEMMA ConstructType ==
    ASSUME TypeInv, NEW i \in Index, NEW v \in Values,
           NEW vers \in [Index -> Version],
           NEW links \in [Index -> Link \union Values],
           Construct(i, v, vers, links),
           slabs' \subseteq SlabIndex, OnGrid(nextBase)'
    PROVE  TypeInv'
<1>1. freeHead' \in Link
  BY DEF Construct, LinksRead
<1>2. issued' \subseteq Key
  BY DEF Construct, Key, TypeInv, TypeOK
<1>3. aliveBit' \in [Index -> BOOLEAN] /\ bitmap' \in [Index -> BOOLEAN]
  BY PolicyAssumption DEF Construct, TypeInv, TypeOK
<1>4. storage' \in [Index -> Link \union Values] /\ version' \in [Index -> Version]
  BY DEF Construct
<1>5. size' \in Int /\ objectsCreated' \in Nat /\ deadSlots' \in Nat
      /\ deadCount' \in [SlabIndex -> Nat]
      /\ status' \in {"returned", "threw", "aborted"}
      /\ nextBase' \in 0 .. MaxSlots
  BY DEF Construct, TypeInv, TypeOK, OnGrid
<1> QED
  BY <1>1, <1>2, <1>3, <1>4, <1>5 DEF TypeInv, TypeOK

(* What a removal does to the types, whatever becomes of the slot.         *)
LEMMA RemovalType ==
    ASSUME TypeInv, NEW i \in Index,
           Reuse(i) \/ Retire(i) \/ Release(i) \/ Recycle(i),
           Removed, status' \in {"returned", "threw"}
    PROVE  TypeInv'
<1>1. size' \in Int /\ objectsCreated' \in Nat /\ issued' \subseteq Key
      /\ status' \in {"returned", "threw", "aborted"}
  BY DEF Removed, TypeInv, TypeOK
<1>2. SlabOf(i) \in SlabIndex
  BY SlabOfInRange
<1>3. CASE Reuse(i)
  <2>1. version' \in [Index -> Version]
    <3>1. version[i] \in Version /\ version[i] # MaxVersion
      BY <1>3 DEF Reuse, TypeInv, TypeOK
    <3>2. version[i] + 1 \in Version
      BY <3>1, SizeAssumption DEF Version
    <3> QED
      BY <1>3, <3>2 DEF Reuse, TypeInv, TypeOK
  <2>2. storage' \in [Index -> Link \union Values] /\ freeHead' \in Link
    BY <1>3 DEF Reuse, TypeInv, TypeOK, Link
  <2>3. aliveBit' \in [Index -> BOOLEAN] /\ bitmap' \in [Index -> BOOLEAN]
    BY <1>3 DEF Reuse, TypeInv, TypeOK
  <2> QED
    BY <1>1, <1>3, <2>1, <2>2, <2>3 DEF Reuse, TypeInv, TypeOK, OnGrid
<1>4. CASE Retire(i)
  <2>1. deadCount' \in [SlabIndex -> Nat] /\ deadSlots' \in Nat
    BY <1>2, <1>4 DEF Retire, TypeInv, TypeOK
  <2>2. aliveBit' \in [Index -> BOOLEAN] /\ bitmap' \in [Index -> BOOLEAN]
    BY <1>4 DEF Retire, TypeInv, TypeOK
  <2> QED
    BY <1>1, <1>4, <2>1, <2>2 DEF Retire, TypeInv, TypeOK, OnGrid
<1>5. CASE Release(i)
  <2>1. deadCount' \in [SlabIndex -> Nat] /\ deadSlots' \in Nat
        /\ slabs' \subseteq SlabIndex
    BY <1>2, <1>5 DEF Release, TypeInv, TypeOK
  <2>2. version' \in [Index -> Version]
    BY <1>5, SizeAssumption DEF Release, Blank, TypeInv, TypeOK, Version
  <2>3. aliveBit' \in [Index -> BOOLEAN] /\ bitmap' \in [Index -> BOOLEAN]
    BY <1>5 DEF Release, Blank, TypeInv, TypeOK
  <2>4. storage' \in [Index -> Link \union Values]
    BY <1>5, SizeAssumption DEF Release, Blank, TypeInv, TypeOK, Link, BlankLink, Index
  <2> QED
    BY <1>1, <1>5, <2>1, <2>2, <2>3, <2>4 DEF Release, TypeInv, TypeOK, OnGrid
<1>6. CASE Recycle(i)
  <2>1. nextBase + SlotsPerSlab <= MaxSlots /\ nextBase < MaxSlots
    BY <1>6, SizeAssumption DEF Recycle, NoRoom, TypeInv, OnGrid
  <2>2. OnGrid(nextBase)'
    BY <1>6, <2>1, GridStep DEF Recycle, TypeInv, OnGrid
  <2>3. nextBase \in Index /\ SlabOf(nextBase) \in SlabIndex
    BY <2>1, SlabOfInRange, SizeAssumption DEF TypeInv, OnGrid, Index
  <2>4. deadCount' \in [SlabIndex -> Nat] /\ deadSlots' \in Nat
        /\ slabs' \subseteq SlabIndex
    BY <1>2, <1>6, <2>3 DEF Recycle, TypeInv, TypeOK
  <2>5. version' \in [Index -> Version]
    BY <1>6, SizeAssumption DEF Recycle, TypeInv, TypeOK, Version
  <2>6. aliveBit' \in [Index -> BOOLEAN] /\ bitmap' \in [Index -> BOOLEAN]
    BY <1>6 DEF Recycle
  <2>7. freeHead' \in Link
    BY <1>6, <2>3 DEF Recycle, Link
  <2>8. storage' \in [Index -> Link \union Values]
    <3>1. ASSUME NEW j \in Index, j + 1 \in Grown(nextBase + SlotsPerSlab)
          PROVE  j + 1 \in Link
      BY <2>1, <3>1, SizeAssumption DEF Grown, Link, Index, TypeInv, OnGrid
    <3>2. BlankLink \in Link
      BY SizeAssumption DEF BlankLink, Link, Index
    <3> QED
      BY <1>6, <2>7, <3>1, <3>2 DEF Recycle, TypeInv, TypeOK
  <2> QED
    BY <1>1, <2>2, <2>4, <2>5, <2>6, <2>7, <2>8 DEF TypeInv, TypeOK, OnGrid
<1> QED
  BY <1>3, <1>4, <1>5, <1>6

(* Every step keeps the types.                                             *)
LEMMA TypeStep == ASSUME TypeInv, [Next]_vars PROVE TypeInv'
<1> DEFINE to1 == nextBase + SlotsPerSlab
<1>1. ASSUME NEW v \in Values, TryEmplace(v) PROVE TypeInv'
  <2>1. CASE freeHead = End /\ CanAllocate /\ AddSlabs(to1)
             /\ Construct(nextBase, v, GrownVersions(to1), GrownLinks(to1))
    <3>1. nextBase < MaxSlots /\ nextBase \in Index
      BY <2>1, SizeAssumption DEF CanAllocate, TypeInv, OnGrid, Index
    <3>2. OnGrid(to1) /\ to1 \in Int /\ nextBase < to1
      BY <3>1, GridStep, SizeAssumption DEF TypeInv, OnGrid
    <3>3. slabs' \subseteq SlabIndex /\ OnGrid(nextBase)'
      BY <2>1, <3>2, GrownType DEF AddSlabs, OnGrid
    <3> QED
      BY <2>1, <3>1, <3>2, <3>3, GrownType, ConstructType
  <2>2. CASE HeadUsable /\ UNCHANGED <<slabs, nextBase>>
             /\ Construct(freeHead, v, version, storage)
    <3>1. freeHead \in Index /\ slabs' \subseteq SlabIndex /\ OnGrid(nextBase)'
      BY <2>2 DEF HeadUsable, TypeInv, TypeOK, OnGrid
    <3> QED
      BY <2>2, <3>1, ConstructType DEF TypeInv, TypeOK
  <2> QED
    BY <1>1, <2>1, <2>2 DEF TryEmplace
<1>2. CASE EmplaceThrows
  <2>1. ASSUME NEW i \in Index, NEW links \in [Index -> Link \union Values],
               ConstructorThrows(i, links),
               slabs' \subseteq SlabIndex, OnGrid(nextBase)',
               version' \in [Index -> Version], freeHead' \in Link
        PROVE  TypeInv'
    <3>1. storage' \in [Index -> Link \union Values]
      BY <2>1 DEF ConstructorThrows
    <3> QED
      BY <2>1, <3>1 DEF ConstructorThrows, TypeInv, TypeOK, OnGrid
  <2>2. CASE freeHead = End /\ CanAllocate /\ AddSlabs(to1)
             /\ version' = GrownVersions(to1) /\ freeHead' = nextBase
             /\ ConstructorThrows(nextBase, GrownLinks(to1))
    <3>1. nextBase < MaxSlots /\ nextBase \in Index /\ nextBase \in Link
      BY <2>2, SizeAssumption DEF CanAllocate, TypeInv, OnGrid, Index, Link
    <3>2. OnGrid(to1) /\ to1 \in Int /\ nextBase < to1
      BY <3>1, GridStep, SizeAssumption DEF TypeInv, OnGrid
    <3>3. slabs' \subseteq SlabIndex /\ OnGrid(nextBase)'
      BY <2>2, <3>2, GrownType DEF AddSlabs, OnGrid
    <3> QED
      BY <2>1, <2>2, <3>1, <3>2, <3>3, GrownType
  <2>3. CASE HeadUsable /\ UNCHANGED <<slabs, nextBase, version, freeHead>>
             /\ ConstructorThrows(freeHead, storage)
    <3>1. freeHead \in Index /\ slabs' \subseteq SlabIndex /\ OnGrid(nextBase)'
      BY <2>3 DEF HeadUsable, TypeInv, TypeOK, OnGrid
    <3> QED
      BY <2>1, <2>3, <3>1 DEF TypeInv, TypeOK
  <2> QED
    BY <1>2, <2>2, <2>3 DEF EmplaceThrows
<1>3. ASSUME Abort PROVE TypeInv'
  BY <1>3 DEF Abort, TypeInv, TypeOK, OnGrid
<1>4. ASSUME NEW to \in SlabEnds, Reserve(to) PROVE TypeInv'
  <2>1. OnGrid(to) /\ to \in Int /\ nextBase < to
    BY <1>4, SlabEndsOnGrid DEF Reserve, OnGrid
  <2>2. freeHead' \in Link
    <3>1. nextBase + SlotsPerSlab <= to
      <4>1. /\ SlotsPerSlab \in Nat \ {0} /\ nextBase \in Nat /\ to \in Nat
            /\ nextBase % SlotsPerSlab = 0 /\ to % SlotsPerSlab = 0
            /\ nextBase < to
        BY <2>1, SizeAssumption DEF TypeInv, OnGrid
      <4> QED
        BY ONLY <4>1, BoundaryGap
    <3> QED
      BY <1>4, <2>1, <3>1, SizeAssumption DEF Reserve, Link, Index, TypeInv, OnGrid
  <2>3. slabs' \subseteq SlabIndex /\ OnGrid(nextBase)'
        /\ version' \in [Index -> Version]
        /\ storage' \in [Index -> Link \union Values]
    BY <1>4, <2>1, GrownType DEF Reserve, AddSlabs, OnGrid
  <2> QED
    BY <1>4, <2>2, <2>3 DEF Reserve, TypeInv, TypeOK, OnGrid
<1>5. ASSUME NEW k \in Key, Erase(k) \/ UseErases(k) \/ EraseRecycles(k)
      PROVE  TypeInv'
  BY <1>5, RemovalType DEF Erase, UseErases, EraseRecycles, Key
<1>6. ASSUME NEW k \in Key, PopThrows(k) \/ Use(k) PROVE TypeInv'
  BY <1>6 DEF PopThrows, Use, TypeInv, TypeOK, OnGrid
<1>7. CASE Clear
  <2>1. version' \in [Index -> Version]
    BY <1>7, SizeAssumption DEF Clear, TypeInv, TypeOK, Version
  <2>2. storage' \in [Index -> Link \union Values] /\ freeHead' \in Link
    BY <1>7, LastOfType DEF Clear, Relinked, TypeInv, TypeOK, Link
  <2>3. aliveBit' \in [Index -> BOOLEAN] /\ bitmap' \in [Index -> BOOLEAN]
    BY <1>7 DEF Clear
  <2>4. deadCount' \in [SlabIndex -> Nat] /\ deadSlots' \in Nat
    <3>1. IsFiniteSet(Index)
      BY FS_Interval, SizeAssumption DEF Index
    <3>2. \A S \in SUBSET Index : Cardinality(S) \in Nat
      BY <3>1, FS_Subset, FS_CardinalityType
    <3> QED
      BY <1>7, <3>2 DEF Clear, Dying, AllDying, Slots, TypeInv, TypeOK
  <2> QED
    BY <1>7, <2>1, <2>2, <2>3, <2>4 DEF Clear, TypeInv, TypeOK, OnGrid
<1>8. CASE Reset
  BY <1>8, SizeAssumption
     DEF Reset, TypeInv, TypeOK, OnGrid, Link, Version, Index, BlankLink, End
<1>9. ASSUME NEW k \in Key, RecycleFails(k) PROVE TypeInv'
  <2>1. k.index \in Index /\ nextBase \in Int /\ ~NoRoom
    BY <1>9 DEF Key, RecycleFails, TypeInv, OnGrid
  <2>2. OnGrid(nextBase)' /\ freeHead' \in Link
    BY <1>9, <2>1, GridStep, SizeAssumption
       DEF RecycleFails, NoRoom, TypeInv, OnGrid, Link, Index
  <2>3. deadCount' \in [SlabIndex -> Nat] /\ deadSlots' \in Nat
    <3>1. SlabOf(k.index) \in SlabIndex
      BY <2>1, SlabOfInRange
    <3> QED
      BY <1>9, <3>1 DEF RecycleFails, TypeInv, TypeOK
  <2>4. aliveBit' \in [Index -> BOOLEAN] /\ bitmap' \in [Index -> BOOLEAN]
    <3>1. /\ aliveBit' = [aliveBit EXCEPT ![k.index] = FALSE]
          /\ bitmap' = [bitmap EXCEPT ![k.index] = FALSE]
      BY <1>9, Zenon DEF RecycleFails
    <3> QED
      BY <3>1 DEF TypeInv, TypeOK
  <2>5. /\ size' \in Int /\ objectsCreated' \in Nat /\ issued' \subseteq Key
        /\ status' \in {"returned", "threw", "aborted"}
    <3>1. status' = "threw" \/ status' = "aborted"
      BY <1>9, Zenon DEF RecycleFails
    <3>2. Removed
      BY <1>9, Zenon DEF RecycleFails
    <3> QED
      BY <3>1, <3>2 DEF Removed, TypeInv, TypeOK
  <2>6. UNCHANGED <<slabs, version, storage>>
    BY <1>9 DEF RecycleFails
  <2> QED
    BY <2>2, <2>3, <2>4, <2>5, <2>6 DEF TypeInv, TypeOK, OnGrid
<1>10. CASE UNCHANGED vars
  BY <1>10 DEF vars, TypeInv, TypeOK, OnGrid
<1> QED
  BY <1>1, <1>2, <1>3, <1>4, <1>5, <1>6, <1>7, <1>8, <1>9, <1>10
     DEF Next, NextUntilRecycle, EmplaceAborts, RecycleAborts

(* Every field keeps its type in every behaviour, recycling included: in   *)
(* particular links and slab positions never leave the index space.        *)
THEOREM TypeCorrect == Spec => []TypeOK
<1>1. Init => TypeInv
  BY TypeInit
<1>2. TypeInv /\ [Next]_vars => TypeInv'
  BY TypeStep
<1>3. TypeInv => TypeOK
  BY DEF TypeInv
<1> QED
  BY <1>1, <1>2, <1>3, PTL DEF Spec

-----------------------------------------------------------------------------
(* The free list as a shape: what each way of changing it preserves.       *)

(* try_emplace: pop the head and overwrite its bytes.                      *)
LEMMA PopShape ==
    ASSUME NEW L \in SUBSET Index, NEW h \in L, NEW links, NEW bytes,
           DOMAIN links = Index, ListShape(L, h, links)
    PROVE  ListShape(L \ {h}, links[h], [links EXCEPT ![h] = bytes])
<1>1. h # End
  BY SizeAssumption DEF Index, End
<1>2. links[h] \in (L \ {h}) \union {End}
  BY <1>1 DEF ListShape
<1>3. \A i \in L \ {h} : [links EXCEPT ![h] = bytes][i] = links[i]
  OBVIOUS
<1>4. \A i \in L \ {h} : links[i] \in (L \ {h}) \union {End}
  BY <1>1 DEF ListShape
<1>5. \A i \in L \ {h} : links[i] = links[h] => links[h] = End
  BY DEF ListShape
<1> QED
  BY <1>2, <1>3, <1>4, <1>5 DEF ListShape

(* erase: push slot i in front of the head.                                *)
LEMMA PushShape ==
    ASSUME NEW L \in SUBSET Index, NEW h, NEW links, NEW i \in Index \ L,
           DOMAIN links = Index, ListShape(L, h, links)
    PROVE  ListShape(L \union {i}, i, [links EXCEPT ![i] = h])
<1> DEFINE new == [links EXCEPT ![i] = h]
<1>1. i # End
  BY SizeAssumption DEF Index, End
<1>2. new[i] = h /\ \A j \in L : new[j] = links[j]
  OBVIOUS
<1>3. h # i
  BY <1>1 DEF ListShape
<1> HIDE DEF new
<1>4. \A j \in L : new[j] # i
  BY <1>1, <1>2 DEF ListShape
<1> QED
  BY <1>1, <1>2, <1>3, <1>4 DEF ListShape, new

(* clear: each relinked slot leads to the one before it.                   *)
LEMMA RebuiltShape ==
    ASSUME NEW R \in SUBSET Index, NEW links,
           \A i \in R : links[i] = LastOf({j \in R : j < i})
    PROVE  ListShape(R, LastOf(R), links)
<1> DEFINE Below(i) == {j \in R : j < i}
<1>1. ASSUME NEW i \in R
      PROVE  LastOf(Below(i)) \in Below(i) \union {End}
  BY LastOfType DEF Index
<1>2. LastOf(R) \in R \union {End}
  BY LastOfType
<1>3. ASSUME NEW i \in R, links[i] = LastOf(R) PROVE LastOf(R) = End
  <2>1. i <= LastOf(R) /\ LastOf(R) \in R
    BY <1>3, LastOfIsLast
  <2>2. LastOf(R) \in Below(i) \union {End}
    BY <1>1, <1>3
  <2>3. i \in Int /\ LastOf(R) \in Int
    <3>1. i \in Index /\ LastOf(R) \in Index
      BY <2>1
    <3> QED
      BY ONLY <3>1, IndexIsInt
  <2> QED
    BY <2>1, <2>2, <2>3
<1>4. ASSUME NEW i \in R, NEW j \in R, links[i] = links[j], links[i] # End,
             i < j
      PROVE  FALSE
  <2>1. i \in Below(j) /\ Below(j) \in SUBSET Index
    BY <1>4
  <2>2. i <= LastOf(Below(j))
    BY <2>1, LastOfIsLast
  <2>3. LastOf(Below(i)) \in Below(i) /\ links[i] = LastOf(Below(i))
    BY <1>1, <1>4
  <2>4. links[i] = LastOf(Below(j))
    BY <1>4
  <2>5. i \in Int /\ LastOf(Below(i)) \in Int /\ LastOf(Below(i)) < i
    <3>1. i \in Index /\ LastOf(Below(i)) \in Index /\ LastOf(Below(i)) < i
      BY <2>3
    <3> QED
      BY ONLY <3>1, IndexIsInt
  <2> QED
    BY <2>2, <2>3, <2>4, <2>5
<1>5. ASSUME NEW i \in R, NEW j \in R, links[i] = links[j], links[i] # End
      PROVE  i = j
  BY <1>4, <1>5 DEF Index
<1> QED
  BY <1>1, <1>2, <1>3, <1>5 DEF ListShape

(* reserve and try_emplace: chain new slabs in front of the list.          *)
LEMMA GrownShape ==
    ASSUME TypeInv, NEW to \in Int, OnGrid(to), nextBase < to,
           NEW L \in SUBSET Index, \A i \in L : i < nextBase,
           ListShape(L, freeHead, storage)
    PROVE  ListShape(L \union Grown(to), to - SlotsPerSlab, GrownLinks(to))
<1> DEFINE n == SlotsPerSlab
           G == Grown(to)
           g == GrownLinks(to)
           head == to - n
<1>1. /\ n \in Nat \ {0} /\ MaxSlots \in Nat /\ nextBase \in Nat /\ to \in Nat
      /\ nextBase % n = 0 /\ to % n = 0 /\ to <= MaxSlots
  BY SizeAssumption DEF TypeInv, OnGrid
<1>2. nextBase + n <= to
  BY ONLY <1>1, BoundaryGap, nextBase < to
<1>3. head \in G /\ head % n = 0
  <2>1. (to - n) % n = 0
    BY ONLY <1>1, NextBoundary
  <2> QED
    BY <1>1, <1>2, <2>1 DEF Grown
<1>4. \A i \in G : i \in Int /\ nextBase <= i /\ i < to /\ i < MaxSlots
  BY <1>1 DEF Grown
<1>5. \A i \in L : i \in Int /\ i < nextBase /\ i < MaxSlots
  BY <1>1 DEF Index
<1>6. \A i \in L : g[i] = storage[i] /\ storage[i] \in L \union {End}
  <2>1. \A i \in L : i \in Index /\ i \notin G
    BY <1>1, <1>4, <1>5
  <2> QED
    BY <2>1 DEF GrownLinks, ListShape
<1>7. ASSUME NEW i \in G
      PROVE  \/ i + 1 \in G /\ g[i] = i + 1 /\ (i + 1) % n # 0
             \/ i < nextBase + n /\ g[i] = freeHead /\ (i + 1) % n = 0
             \/ /\ i + 1 - 2 * n \in G /\ g[i] = i + 1 - 2 * n
                /\ (i + 1 - 2 * n) % n = 0
  <2>1. ASSUME (i + 1) % n = 0 PROVE (i + 1 - 2 * n) % n = 0
    <3>1. PICK a \in Int : a = i + 1 /\ a % n = 0
      BY <1>4, <2>1
    <3>2. PICK b \in Int : b = a - n /\ b % n = 0
      BY <1>1, <3>1, NextBoundary
    <3>3. (b - n) % n = 0
      BY <1>1, <3>2, NextBoundary
    <3>4. b - n = i + 1 - 2 * n
      BY <1>1, <1>4, <3>1, <3>2
    <3> QED
      BY <3>3, <3>4
  <2> QED
    BY <2>1, GrownLinkCases DEF TypeInv
<1>8. freeHead \in L \union {End} /\ End = MaxSlots
  BY DEF ListShape, End
<1> HIDE DEF G, g, head, n
<1>9. \A i \in L \union G : g[i] \in (L \union G) \union {End}
  BY <1>6, <1>7, <1>8
<1>10. \A i \in L \union G : g[i] # head
  <2>1. head # End /\ head \notin L
    BY <1>1, <1>3, <1>4, <1>5, <1>8
  <2>2. \A i \in L : g[i] # head
    BY <1>6, <2>1
  <2>3. ASSUME NEW i \in G, g[i] = head PROVE FALSE
    <3>1. i + 1 - 2 * n # head
      BY <1>1, <1>4 DEF head
    <3> QED
      BY <1>3, <1>7, <1>8, <2>1, <2>3, <3>1
  <2> QED
    BY <2>2, <2>3
<1>11. ASSUME NEW i \in G, NEW j \in G, i < j, i < nextBase + n,
              (i + 1) % n = 0, (j + 1) % n = 0, j < nextBase + n
       PROVE  FALSE
  <2>1. i + 1 \in Nat /\ j + 1 \in Nat /\ i + 1 < j + 1 /\ n \in Nat \ {0}
    BY <1>1, <1>4, <1>11
  <2>2. i + 1 + n <= j + 1
    BY ONLY <1>11, <2>1, BoundaryGap
  <2> QED
    BY <1>1, <1>4, <1>11, <2>2
<1>12. ASSUME NEW i \in L \union G, NEW j \in L \union G, g[i] = g[j],
              g[i] # End
       PROVE  i = j
  <2>1. CASE i \in L /\ j \in L
    BY <1>6, <1>12, <2>1 DEF ListShape
  <2>2. ASSUME NEW x \in L, NEW y \in G, g[x] = g[y], g[x] # End PROVE FALSE
    <3>1. g[x] \in L /\ g[x] \notin G /\ g[x] = storage[x]
      BY <1>1, <1>4, <1>5, <1>6, <2>2
    <3>2. g[y] = freeHead
      BY <1>7, <2>2, <3>1
    <3> QED
      BY <2>2, <3>1, <3>2 DEF ListShape
  <2>3. CASE i \in G /\ j \in G
    <3>1. g[i] = freeHead => g[i] \notin G
      BY <1>1, <1>4, <1>5, <1>8
    <3>2. CASE g[i] = freeHead
      <4>1. /\ i < nextBase + n /\ (i + 1) % n = 0
            /\ j < nextBase + n /\ (j + 1) % n = 0
        BY <1>7, <1>12, <2>3, <3>1, <3>2
      <4> QED
        BY <1>4, <1>11, <2>3, <4>1
    <3>3. CASE g[i] # freeHead
      BY <1>1, <1>4, <1>7, <1>12, <2>3, <3>3
    <3> QED
      BY <3>2, <3>3
  <2> QED
    BY <1>12, <2>1, <2>2, <2>3
<1>13. head \in (L \union G) \union {End}
  BY <1>3
<1> QED
  BY <1>9, <1>10, <1>12, <1>13 DEF ListShape, G, g, head, n

-----------------------------------------------------------------------------
(* The key invariant.  A call that emplaces or reserves first grows the    *)
(* map, or leaves it alone: Ready says what holds of the slots in between, *)
(* when the free list starts at h, and vers and links are the slots'       *)
(* versions and bytes.                                                     *)

Ready(L, h, vers, links) ==
    /\ L \subseteq Index
    /\ vers \in [Index -> Version] /\ DOMAIN links = Index
    /\ OnGrid(nextBase)'
    /\ \A j \in Index : Present(j)' => j < nextBase'
    /\ \A j \in Index : bitmap[j] =>
           Present(j)' /\ vers[j] = version[j] /\ links[j] = storage[j]
    /\ \A k \in issued :
           /\ k.index < nextBase'
           /\ Present(k.index)' => k.version <= vers[k.index]
    /\ \A j \in Index : Present(j)' /\ ~bitmap[j] /\ vers[j] < MaxVersion
           => [index |-> j, version |-> vers[j]] \notin issued
    /\ Present(0)' => vers[0] # 0
    /\ \A s \in slabs' : deadCount[s] = Cardinality(DeadOf(s))
    /\ \A s \in SlabIndex \ slabs' : deadCount[s] = 0
    /\ \A j \in L : /\ Present(j)' /\ ~bitmap[j]
                    /\ [index |-> j, version |-> vers[j]] \notin issued
    /\ ListShape(L, h, links)

(* The slots of the new slabs are exactly those of the new index range.    *)
LEMMA PresentGrown ==
    ASSUME TypeInv, NEW to \in Int, OnGrid(to), nextBase < to, AddSlabs(to),
           NEW j \in Index
    PROVE  Present(j)' <=> Present(j) \/ j \in Grown(to)
<1>1. /\ SlotsPerSlab \in Nat \ {0} /\ nextBase \in Nat /\ to \in Nat
      /\ nextBase % SlotsPerSlab = 0 /\ to % SlotsPerSlab = 0 /\ j \in Nat
  BY SizeAssumption DEF TypeInv, OnGrid, Index
<1>2. slabs' = slabs \union {SlabOf(i) : i \in Grown(to)}
  BY DEF AddSlabs
<1>3. ASSUME NEW i \in Grown(to), SlabOf(j) = SlabOf(i) PROVE j \in Grown(to)
  <2>1. /\ i \in Nat /\ i < to /\ nextBase <= i
        /\ i \div SlotsPerSlab = j \div SlotsPerSlab
        /\ j \div SlotsPerSlab = i \div SlotsPerSlab
    BY <1>1, <1>3 DEF Grown, SlabOf
  <2>2. j < to
    BY ONLY <1>1, <2>1, SameSide
  <2>3. j < nextBase => i < nextBase
    BY ONLY <1>1, <2>1, SameSide
  <2> QED
    BY <1>1, <2>1, <2>2, <2>3 DEF Grown
<1> QED
  BY <1>2, <1>3 DEF Present

(* A free slot is ready for emplace once slabs have been added.            *)
LEMMA ReadyAfterGrowth ==
    ASSUME TypeInv, KeyInv, NEW to \in Int, OnGrid(to), nextBase < to,
           AddSlabs(to), NEW L \in SUBSET Index, Linked(L)
    PROVE  Ready(L \union Grown(to), to - SlotsPerSlab,
                 GrownVersions(to), GrownLinks(to))
<1> DEFINE G == Grown(to)
           vers == GrownVersions(to)
           links == GrownLinks(to)
<1>1. MaxSlots \in Nat /\ nextBase \in Nat /\ to \in Nat /\ to <= MaxSlots
      /\ MaxVersion \in Nat \ {0} /\ nextBase' = to
  BY SizeAssumption DEF TypeInv, OnGrid, AddSlabs
<1>2. \A j \in Index : j \in Nat /\ (j \in G <=> nextBase <= j /\ j < to)
  BY <1>1 DEF Index, Grown
<1>3. G \subseteq Index
  BY <1>1 DEF Index, Grown
<1>4. \A j \in Index : Present(j)' <=> Present(j) \/ j \in G
  BY PresentGrown
<1>5. \A j \in Index : Present(j) => j < nextBase /\ j \notin G
  BY <1>1, <1>2 DEF KeyInv, SlabsOnGrid
<1>6. \A j \in Index \ G : vers[j] = version[j] /\ links[j] = storage[j]
  BY DEF GrownVersions, GrownLinks
<1>7. \A j \in G : vers[j] = IF j = 0 THEN 1 ELSE 0
  BY <1>3 DEF GrownVersions
<1>8. \A k \in issued : k \in Key /\ k.index \in Index /\ k.index < nextBase
                        /\ k.index \notin G
  BY <1>1, <1>2 DEF KeyInv, VersionsCover, TypeInv, TypeOK, Key
<1>9. vers \in [Index -> Version] /\ DOMAIN links = Index
  BY GrownType DEF GrownLinks
<1>10. ListShape(L \union G, to - SlotsPerSlab, links)
  <2>1. \A i \in L : i < nextBase
    BY <1>5 DEF Linked, Unused
  <2> QED
    BY <2>1, GrownShape DEF Linked
<1>11. 0 \in Index
  BY SizeAssumption DEF Index
<1> HIDE DEF G, vers, links
<1>12. \A x : \A j \in G : [index |-> j, version |-> x] \notin issued
  BY <1>8
<1>13. ASSUME NEW s \in slabs' PROVE deadCount[s] = Cardinality(DeadOf(s))
  <2>1. CASE s \in slabs
    BY <2>1 DEF KeyInv, DeadCounted
  <2>2. CASE s \notin slabs
    <3>1. PICK i \in G : s = SlabOf(i)
      BY <2>2 DEF AddSlabs, G
    <3>2. deadCount[s] = 0
      BY <1>3, <2>2, <3>1, SlabOfInRange DEF KeyInv, DeadCounted
    <3>3. ASSUME NEW j \in DeadOf(s) PROVE FALSE
      <4>1. j \in Index /\ SlabOf(j) = s
            /\ [index |-> j, version |-> MaxVersion] \in issued
        BY DEF DeadOf, Slots, Dead
      <4>2. Present(j)' /\ ~Present(j)
        BY <2>2, <4>1 DEF Present
      <4> QED
        BY <1>4, <1>12, <4>1, <4>2
    <3>4. DeadOf(s) = {}
      BY <3>3
    <3> QED
      BY <3>2, <3>4, FS_EmptySet
  <2> QED
    BY <2>1, <2>2
<1>14. \A s \in SlabIndex \ slabs' : deadCount[s] = 0
  BY DEF AddSlabs, KeyInv, DeadCounted
<1>15. \A j \in Index : Present(j)' => j < nextBase'
  BY <1>1, <1>2, <1>4, <1>5
<1>16. \A j \in Index : bitmap[j] =>
           Present(j)' /\ vers[j] = version[j] /\ links[j] = storage[j]
  BY <1>4, <1>5, <1>6 DEF KeyInv, AliveBitsMatch
<1>17. ASSUME NEW k \in issued
       PROVE  /\ k.index < nextBase'
              /\ Present(k.index)' => k.version <= vers[k.index]
  BY <1>1, <1>2, <1>4, <1>6, <1>8 DEF KeyInv, VersionsCover
<1>18. ASSUME NEW j \in Index, Present(j)', ~bitmap[j], vers[j] < MaxVersion
       PROVE  [index |-> j, version |-> vers[j]] \notin issued
  BY <1>4, <1>6, <1>12, <1>18 DEF KeyInv, VersionsCover, KeyOf
<1>19. Present(0)' => vers[0] # 0
  BY <1>4, <1>6, <1>7, <1>11 DEF KeyInv, VersionsCover
<1>20. ASSUME NEW j \in L \union G
       PROVE  /\ Present(j)' /\ ~bitmap[j]
              /\ [index |-> j, version |-> vers[j]] \notin issued
  <2>1. CASE j \in L
    BY <1>4, <1>5, <1>6, <2>1 DEF Linked, Unused, KeyOf
  <2>2. CASE j \in G
    BY <1>3, <1>4, <1>5, <1>12, <2>2 DEF KeyInv, AliveBitsMatch
  <2> QED
    BY <2>1, <2>2
<1>21. OnGrid(nextBase)'
  BY <1>1 DEF OnGrid
<1>22. L \union G \subseteq Index
  BY <1>3
<1> QED
  BY <1>9, <1>10, <1>13, <1>14, <1>15, <1>16, <1>17, <1>18, <1>19, <1>20,
     <1>21, <1>22 DEF Ready, G, vers, links

(* A free slot is ready for emplace where no slab had to be added.         *)
LEMMA ReadyAsItStands ==
    ASSUME TypeInv, KeyInv, UNCHANGED <<slabs, nextBase>>,
           NEW L \in SUBSET Index, Linked(L)
    PROVE  Ready(L, freeHead, version, storage)
<1>1. \A j : Present(j)' <=> Present(j)
  BY DEF Present
<1>2. version \in [Index -> Version] /\ DOMAIN storage = Index
  BY DEF TypeInv, TypeOK
<1>3. OnGrid(nextBase)'
  BY DEF TypeInv, OnGrid
<1>4. \A j \in L : Present(j)' /\ ~bitmap[j]
                   /\ [index |-> j, version |-> version[j]] \notin issued
  BY <1>1 DEF Linked, Unused, KeyOf
<1>5. ListShape(L, freeHead, storage)
  BY DEF Linked
<1>6. \A k \in issued :
          /\ k.index < nextBase'
          /\ Present(k.index)' => k.version <= version[k.index]
  BY <1>1 DEF KeyInv, VersionsCover
<1>7. \A j \in Index : Present(j)' /\ ~bitmap[j] /\ version[j] < MaxVersion
          => [index |-> j, version |-> version[j]] \notin issued
  BY <1>1 DEF KeyInv, VersionsCover, KeyOf
<1> QED
  BY <1>1, <1>2, <1>3, <1>4, <1>5, <1>6, <1>7
     DEF Ready, KeyInv, SlabsOnGrid, AliveBitsMatch, VersionsCover, DeadCounted

(* A call that only grew the map, or failed to construct.                  *)
LEMMA ReadyStays ==
    ASSUME TypeInv, KeyInv, NEW L, NEW h, NEW vers, NEW links,
           Ready(L, h, vers, links),
           version' = vers, storage' = links, freeHead' = h,
           UNCHANGED <<aliveBit, bitmap, deadCount, issued>>
    PROVE  KeyInv'
<1>1. SlabsOnGrid'
  BY DEF Ready, SlabsOnGrid, OnGrid
<1>2. AliveBitsMatch'
  BY DEF Ready, KeyInv, AliveBitsMatch
<1>3. VersionsCover'
  BY DEF Ready, KeyInv, VersionsCover, KeyOf
<1>4. DeadCounted'
  BY DEF Ready, DeadCounted, DeadOf, Dead
<1>5. Linked(L)'
  BY DEF Ready, Linked, Unused, KeyOf, ListShape
<1>6. FreeListLinked'
  BY <1>5 DEF FreeListLinked, Ready
<1> QED
  BY <1>1, <1>2, <1>3, <1>4, <1>6 DEF KeyInv

(* No slot dies, or comes back from the dead, when one is emplaced.        *)
LEMMA ConstructKeepsDead ==
    ASSUME TypeInv, NEW L, NEW i \in L, NEW v \in Values, NEW vers, NEW links,
           Ready(L, i, vers, links), Construct(i, v, vers, links)
    PROVE  \A j \in Index : Dead(j)' <=> Dead(j)
<1> DEFINE new == [index |-> i, version |-> vers[i]]
<1>1. i \in Index /\ Present(i)' /\ ~bitmap[i] /\ new \notin issued
      /\ vers[i] \in Version
  BY DEF Ready
<1>2. \A j \in Index : bitmap'[j] = IF j = i THEN TRUE ELSE bitmap[j]
  BY <1>1 DEF Construct, TypeInv, TypeOK
<1>3. issued' = issued \union {new}
  BY DEF Construct
<1>4. MaxVersion \in Nat /\ \A x \in Version : x \in Nat /\ x <= MaxVersion
  BY SizeAssumption DEF Version
<1>5. [index |-> i, version |-> MaxVersion] \notin issued
  <2>1. SUFFICES ASSUME [index |-> i, version |-> MaxVersion] \in issued
                 PROVE  FALSE
    OBVIOUS
  <2>2. MaxVersion <= vers[i]
    BY <1>1, <2>1 DEF Ready
  <2>3. vers[i] = MaxVersion
    BY <1>1, <1>4, <2>2
  <2> QED
    BY <1>1, <2>1, <2>3
<1>6. ASSUME NEW j \in Index, j = i PROVE Dead(j)' <=> Dead(j)
  BY <1>1, <1>2, <1>5, <1>6 DEF Dead
<1>7. ASSUME NEW j \in Index, j # i PROVE Dead(j)' <=> Dead(j)
  BY <1>2, <1>3, <1>7 DEF Dead
<1> QED
  BY <1>6, <1>7

(* A call that constructs an element in the slot at the head of the list.  *)
LEMMA ReadyConstructs ==
    ASSUME TypeInv, KeyInv, NEW L, NEW i \in L, NEW v \in Values,
           NEW vers, NEW links,
           Ready(L, i, vers, links), Construct(i, v, vers, links)
    PROVE  KeyInv'
<1> DEFINE new == [index |-> i, version |-> vers[i]]
<1>1. i \in Index /\ Present(i)' /\ ~bitmap[i] /\ new \notin issued
      /\ vers \in [Index -> Version] /\ DOMAIN links = Index
      /\ vers[i] \in Version
  BY DEF Ready
<1>2. \A j \in Index : /\ version'[j] = vers[j]
                       /\ bitmap'[j] = IF j = i THEN TRUE ELSE bitmap[j]
                       /\ aliveBit'[j] = IF j = i THEN HasAliveBit ELSE aliveBit[j]
                       /\ storage'[j] = IF j = i THEN v ELSE links[j]
  BY <1>1 DEF Construct, TypeInv, TypeOK
<1>3. issued' = issued \union {new} /\ UNCHANGED deadCount
  BY DEF Construct
<1>4. MaxVersion \in Nat /\ \A x \in Version : x \in Nat /\ x <= MaxVersion
  BY SizeAssumption DEF Version
<1>5. SlabsOnGrid'
  BY DEF Ready, SlabsOnGrid, OnGrid
<1>6. AliveBitsMatch'
  BY <1>1, <1>2, PolicyAssumption DEF Ready, KeyInv, AliveBitsMatch
<1>7. VersionsCover'
  <2>1. ASSUME NEW k \in issued'
        PROVE  k.index < nextBase' /\ (Present(k.index)' => k.version <= version'[k.index])
    <3>1. CASE k \in issued
      <4>1. k.index \in Index
        BY <3>1 DEF TypeInv, TypeOK, Key
      <4> QED
        BY <1>2, <3>1, <4>1 DEF Ready
    <3>2. CASE k = new
      <4>1. k.index = i /\ k.version = vers[i]
        BY <3>2
      <4>2. i < nextBase'
        BY <1>1 DEF Ready
      <4>3. vers[i] <= version'[i]
        <5>1. version'[i] = vers[i] /\ vers[i] \in Nat
          BY <1>1, <1>2, <1>4
        <5> QED
          BY <5>1
      <4> QED
        BY <4>1, <4>2, <4>3
    <3> QED
      BY <1>3, <2>1, <3>1, <3>2
  <2>2. ASSUME NEW j \in Index, bitmap'[j]
        PROVE  KeyOf(j)' \in issued' /\ storage'[j] \in Values
    <3>1. CASE j = i
      BY <1>1, <1>2, <1>3, <3>1 DEF KeyOf
    <3>2. CASE j # i
      <4>1. bitmap[j] /\ KeyOf(j) \in issued /\ storage[j] \in Values
        BY <1>2, <2>2, <3>2 DEF KeyInv, VersionsCover
      <4>2. version'[j] = version[j] /\ storage'[j] = storage[j]
        BY <1>2, <3>2, <4>1 DEF Ready
      <4>3. KeyOf(j)' = KeyOf(j)
        BY <4>2 DEF KeyOf
      <4> QED
        BY <1>3, <4>1, <4>2, <4>3
    <3> QED
      BY <3>1, <3>2
  <2>3. ASSUME NEW j \in Index, Present(j)', ~bitmap'[j], version'[j] < MaxVersion
        PROVE  KeyOf(j)' \notin issued'
    <3>1. j # i /\ ~bitmap[j] /\ vers[j] < MaxVersion
      BY <1>2, <2>3
    <3>2. [index |-> j, version |-> vers[j]] \notin issued
      BY <2>3, <3>1 DEF Ready
    <3>3. KeyOf(j)' = [index |-> j, version |-> vers[j]]
      BY <1>2 DEF KeyOf
    <3> QED
      BY <1>3, <3>1, <3>2, <3>3
  <2>4. NullKey \notin issued'
    <3>1. NullKey \notin issued
      BY DEF KeyInv, VersionsCover
    <3>2. NullKey # new
      BY <1>1 DEF NullKey, Ready
    <3> QED
      BY <1>3, <3>1, <3>2
  <2>5. Present(0)' => version'[0] # 0
    <3>1. 0 \in Index
      BY SizeAssumption DEF Index
    <3> QED
      BY <1>2, <3>1 DEF Ready
  <2> QED
    BY <2>1, <2>2, <2>3, <2>4, <2>5 DEF VersionsCover
<1>8. DeadCounted'
  <2>1. \A j \in Index : Dead(j)' <=> Dead(j)
    BY ConstructKeepsDead
  <2>2. \A s : DeadOf(s)' = DeadOf(s)
    BY <2>1 DEF DeadOf, Slots
  <2> QED
    BY <1>3, <2>2 DEF Ready, DeadCounted
<1>9. FreeListLinked'
  <2>1. links[i] \in Link
    BY SizeAssumption DEF Ready, ListShape, Link, Index, End
  <2>2. freeHead' = links[i] /\ storage' = [links EXCEPT ![i] = v]
    BY <2>1 DEF Construct, LinksRead
  <2>3. ListShape(L \ {i}, freeHead', storage')
    BY <2>2, PopShape DEF Ready
  <2>4. ASSUME NEW j \in L \ {i} PROVE Unused(j)'
    <3>1. j \in Index /\ j # i /\ Present(j)' /\ ~bitmap[j]
          /\ [index |-> j, version |-> vers[j]] \notin issued
      BY DEF Ready
    <3> QED
      BY <1>2, <1>3, <3>1 DEF Unused, KeyOf
  <2>5. L \ {i} \in SUBSET Index
    BY DEF Ready
  <2>6. Linked(L \ {i})'
    BY <2>3, <2>4 DEF Linked, ListShape
  <2> QED
    BY <2>5, <2>6 DEF FreeListLinked
<1> QED
  BY <1>5, <1>6, <1>7, <1>8, <1>9 DEF KeyInv

(* What holds of the slots, and of the list.                               *)
LEMMA KeyInvParts == KeyInv <=> SlotsInv /\ FreeListLinked
BY DEF KeyInv, SlotsInv

(* Nor when one is erased that has versions left.                          *)
LEMMA ReuseKeepsDead ==
    ASSUME TypeInv, SlotsInv, NEW i \in Index, bitmap[i], Reuse(i), Removed
    PROVE  \A j \in Index : Dead(j)' <=> Dead(j)
<1>1. MaxVersion \in Nat /\ version[i] \in 0 .. MaxVersion
      /\ version[i] # MaxVersion
  BY SizeAssumption DEF Version, TypeInv, TypeOK, Reuse
<1>2. Present(i)
  BY DEF SlotsInv, AliveBitsMatch
<1>3. [index |-> i, version |-> MaxVersion] \in issued => MaxVersion <= version[i]
  BY <1>2 DEF SlotsInv, VersionsCover
<1>4. [index |-> i, version |-> MaxVersion] \notin issued
  BY <1>1, <1>3
<1>5. \A j \in Index : bitmap'[j] = IF j = i THEN FALSE ELSE bitmap[j]
  BY DEF Reuse, TypeInv, TypeOK
<1> QED
  BY <1>4, <1>5 DEF Dead, Removed

(* An alive slot with versions left goes back to the free list.            *)
LEMMA ReuseKeepsSlots ==
    ASSUME TypeInv, SlotsInv, NEW i \in Index, bitmap[i], Reuse(i), Removed
    PROVE  SlotsInv'
<1>1. /\ MaxVersion \in Nat /\ \A x \in Version : x \in Nat /\ x <= MaxVersion
      /\ \A j \in Index : version[j] \in Version
  BY SizeAssumption DEF Version, TypeInv, TypeOK
<1>2. \A k \in issued : k.index \in Index /\ k.version \in Version
  BY DEF TypeInv, TypeOK, Key
<1>3. \A j \in Index : /\ version'[j] = IF j = i THEN version[i] + 1 ELSE version[j]
                       /\ bitmap'[j] = IF j = i THEN FALSE ELSE bitmap[j]
                       /\ aliveBit'[j] = IF j = i THEN FALSE ELSE aliveBit[j]
                       /\ storage'[j] = IF j = i THEN freeHead ELSE storage[j]
  BY DEF Reuse, TypeInv, TypeOK
<1>4. version[i] # MaxVersion /\ freeHead' = i
      /\ UNCHANGED <<slabs, deadCount, nextBase, issued>>
  BY DEF Reuse, Removed
<1>5. \A j : Present(j)' <=> Present(j)
  BY <1>4 DEF Present
<1>6. Present(i) /\ KeyOf(i) \in issued
  BY DEF SlotsInv, AliveBitsMatch, VersionsCover
<1>7. \A x \in Version : [index |-> i, version |-> x] \in issued => x <= version[i]
  BY <1>6 DEF SlotsInv, VersionsCover
<1>8. [index |-> i, version |-> version[i] + 1] \notin issued
      /\ [index |-> i, version |-> MaxVersion] \notin issued
  <2>1. version[i] < MaxVersion /\ version[i] \in Nat
    BY <1>1, <1>4
  <2>2. version[i] + 1 \in Version /\ MaxVersion \in Version
    BY <1>1, <2>1 DEF Version
  <2> QED
    BY <1>1, <1>7, <2>1, <2>2
<1>9. SlabsOnGrid'
  BY <1>4, <1>5 DEF SlotsInv, SlabsOnGrid
<1>10. AliveBitsMatch'
  BY <1>3, <1>5 DEF SlotsInv, AliveBitsMatch
<1>11. VersionsCover'
  <2>1. ASSUME NEW k \in issued'
        PROVE  k.index < nextBase' /\ (Present(k.index)' => k.version <= version'[k.index])
    <3>1. k \in issued /\ k.index \in Index /\ k.version \in Version
      BY <1>2, <1>4
    <3>2. k.index < nextBase /\ (Present(k.index) => k.version <= version[k.index])
      BY <3>1 DEF SlotsInv, VersionsCover
    <3>3. version[k.index] <= version'[k.index] /\ version[k.index] \in Nat
          /\ version'[k.index] \in Nat /\ k.version \in Nat
      <4>1. \A j \in Index : version[j] \in Nat
        BY <1>1
      <4>2. ASSUME NEW j \in Index
            PROVE  version[j] <= version'[j] /\ version'[j] \in Nat
        <5>1. version'[j] = version[j] + 1 \/ version'[j] = version[j]
          BY <1>3
        <5>2. version[j] \in Nat
          BY <4>1
        <5> QED
          BY <5>1, <5>2
      <4> QED
        BY <1>1, <3>1, <4>1, <4>2
    <3> QED
      BY <1>4, <1>5, <3>2, <3>3
  <2>2. ASSUME NEW j \in Index, j # i PROVE KeyOf(j)' = KeyOf(j)
    BY <1>3, <2>2 DEF KeyOf
  <2>3. KeyOf(i)' = [index |-> i, version |-> version[i] + 1]
    BY <1>3 DEF KeyOf
  <2>4. ASSUME NEW j \in Index, bitmap'[j]
        PROVE  KeyOf(j)' \in issued' /\ storage'[j] \in Values
    BY <1>3, <1>4, <2>2, <2>4 DEF SlotsInv, VersionsCover
  <2>5. ASSUME NEW j \in Index, Present(j)', ~bitmap'[j], version'[j] < MaxVersion
        PROVE  KeyOf(j)' \notin issued'
    BY <1>3, <1>4, <1>5, <1>8, <2>2, <2>3, <2>5 DEF SlotsInv, VersionsCover
  <2>6. Present(0)' => version'[0] # 0
    <3>1. 0 \in Index
      BY SizeAssumption DEF Index
    <3>2. version[i] + 1 # 0
      BY <1>1
    <3> QED
      BY <1>3, <1>5, <3>1, <3>2 DEF SlotsInv, VersionsCover
  <2>7. NullKey \notin issued'
    BY <1>4 DEF SlotsInv, VersionsCover
  <2> QED
    BY <2>1, <2>4, <2>5, <2>6, <2>7 DEF VersionsCover
<1>12. DeadCounted'
  <2>1. \A j \in Index : Dead(j)' <=> Dead(j)
    BY ReuseKeepsDead
  <2>2. \A s : DeadOf(s)' = DeadOf(s)
    BY <2>1 DEF DeadOf, Slots
  <2> QED
    BY <1>4, <2>2 DEF SlotsInv, DeadCounted
<1> QED
  BY <1>9, <1>10, <1>11, <1>12 DEF SlotsInv

(* The slot can be constructed in again, and so can those before it.       *)
LEMMA ReuseFrees ==
    ASSUME TypeInv, SlotsInv, NEW i \in Index, bitmap[i], Reuse(i), Removed
    PROVE  \A j \in Index : Unused(j) \/ j = i => Unused(j)'
<1>1. /\ MaxVersion \in Nat /\ \A x \in Version : x \in Nat /\ x <= MaxVersion
      /\ version[i] \in Version
  BY SizeAssumption DEF Version, TypeInv, TypeOK
<1>2. \A j \in Index : /\ version'[j] = IF j = i THEN version[i] + 1 ELSE version[j]
                       /\ bitmap'[j] = IF j = i THEN FALSE ELSE bitmap[j]
  BY DEF Reuse, TypeInv, TypeOK
<1>3. version[i] # MaxVersion /\ UNCHANGED <<slabs, issued>>
  BY DEF Reuse, Removed
<1>4. \A j : Present(j)' <=> Present(j)
  BY <1>3 DEF Present
<1>5. Present(i)
  BY DEF SlotsInv, AliveBitsMatch
<1>6. [index |-> i, version |-> version[i] + 1] \notin issued
  <2>1. \A x \in Version : [index |-> i, version |-> x] \in issued => x <= version[i]
    BY <1>5 DEF SlotsInv, VersionsCover
  <2>2. version[i] < MaxVersion /\ version[i] \in Nat
    BY <1>1, <1>3
  <2>3. version[i] + 1 \in Version
    BY <1>1, <2>2 DEF Version
  <2> QED
    BY <2>1, <2>2, <2>3
<1>7. Unused(i)'
  BY <1>2, <1>3, <1>4, <1>5, <1>6 DEF Unused, KeyOf
<1>8. ASSUME NEW j \in Index, Unused(j), j # i PROVE Unused(j)'
  BY <1>2, <1>3, <1>4, <1>8 DEF Unused, KeyOf
<1> QED
  BY <1>7, <1>8

(* The free list keeps its shape when a slot goes back to it.              *)
LEMMA ReuseKeepsKeyInv ==
    ASSUME TypeInv, KeyInv, NEW i \in Index, bitmap[i], Reuse(i), Removed
    PROVE  KeyInv'
<1>1. PICK L \in SUBSET Index : Linked(L)
  BY DEF KeyInv, FreeListLinked
<1>2. i \in Index \ L
  BY <1>1 DEF Linked, Unused
<1>3. DOMAIN storage = Index /\ storage' = [storage EXCEPT ![i] = freeHead]
        /\ freeHead' = i
  BY DEF Reuse, TypeInv, TypeOK
<1>4. ListShape(L \union {i}, freeHead', storage')
  BY <1>1, <1>2, <1>3, PushShape DEF Linked
<1>5. \A j \in L \union {i} : Unused(j)'
  BY <1>1, KeyInvParts, ReuseFrees DEF Linked
<1>6. Linked(L \union {i})' /\ L \union {i} \in SUBSET Index
  BY <1>1, <1>4, <1>5 DEF Linked, ListShape
<1>7. FreeListLinked'
  BY <1>6 DEF FreeListLinked
<1>8. SlotsInv'
  BY KeyInvParts, ReuseKeepsSlots
<1> QED
  BY <1>7, <1>8 DEF KeyInv, SlotsInv

(* A slot that is alive at its last version dies in its slab.              *)
LEMMA RetireKeepsSlots ==
    ASSUME TypeInv, SlotsInv, NEW i \in Index, bitmap[i], Retire(i), Removed
    PROVE  SlotsInv'
<1>1. \A j \in Index : /\ bitmap'[j] = IF j = i THEN FALSE ELSE bitmap[j]
                       /\ aliveBit'[j] = IF j = i THEN FALSE ELSE aliveBit[j]
  BY DEF Retire, TypeInv, TypeOK
<1>2. version[i] = MaxVersion
      /\ UNCHANGED <<slabs, version, storage, freeHead, nextBase, issued>>
  BY DEF Retire, Removed
<1>3. \A j : (Present(j)' <=> Present(j)) /\ KeyOf(j)' = KeyOf(j)
  BY <1>2 DEF Present, KeyOf
<1>4. Present(i) /\ KeyOf(i) \in issued
      /\ KeyOf(i) = [index |-> i, version |-> MaxVersion]
  BY <1>2 DEF SlotsInv, AliveBitsMatch, VersionsCover, KeyOf
<1>5. SlabsOnGrid'
  BY <1>2, <1>3 DEF SlotsInv, SlabsOnGrid
<1>6. AliveBitsMatch'
  BY <1>1, <1>3 DEF SlotsInv, AliveBitsMatch
<1>7. VersionsCover'
  <2>1. MaxVersion \in Nat
    BY SizeAssumption
  <2>2. ASSUME NEW j \in Index, Present(j)', ~bitmap'[j], version'[j] < MaxVersion
        PROVE  KeyOf(j)' \notin issued'
    <3>1. j # i
      BY <1>2, <2>1, <2>2
    <3> QED
      BY <1>1, <1>2, <1>3, <2>2, <3>1 DEF SlotsInv, VersionsCover
  <2>3. ASSUME NEW j \in Index, bitmap'[j]
        PROVE  KeyOf(j)' \in issued' /\ storage'[j] \in Values
    BY <1>1, <1>2, <1>3, <2>3 DEF SlotsInv, VersionsCover
  <2>4. \A k \in issued' :
            /\ k.index < nextBase'
            /\ Present(k.index)' => k.version <= version'[k.index]
    BY <1>2, <1>3 DEF SlotsInv, VersionsCover
  <2>5. NullKey \notin issued' /\ (Present(0)' => version'[0] # 0)
    BY <1>2, <1>3 DEF SlotsInv, VersionsCover
  <2> QED
    BY <2>2, <2>3, <2>4, <2>5 DEF VersionsCover
<1>8. DeadCounted'
  <2>1. \A j \in Index : Dead(j)' <=> Dead(j) \/ j = i
    BY <1>1, <1>2, <1>4 DEF Dead
  <2>2. \A s : DeadOf(s)' = IF s = SlabOf(i) THEN DeadOf(s) \union {i}
                                              ELSE DeadOf(s)
    BY <2>1 DEF DeadOf, Slots
  <2>3. i \notin DeadOf(SlabOf(i)) /\ IsFiniteSet(DeadOf(SlabOf(i)))
    <3>1. IsFiniteSet(Index) /\ DeadOf(SlabOf(i)) \subseteq Index
      BY FS_Interval, SizeAssumption DEF Index, DeadOf, Slots
    <3> QED
      BY <3>1, FS_Subset DEF DeadOf, Dead
  <2>4. Cardinality(DeadOf(SlabOf(i)) \union {i}) = Cardinality(DeadOf(SlabOf(i))) + 1
    BY <2>3, FS_AddElement
  <2>5. SlabOf(i) \in slabs /\ slabs \subseteq SlabIndex
        /\ deadCount \in [SlabIndex -> Nat]
    BY <1>4 DEF Present, TypeInv, TypeOK
  <2>6. deadCount' = [deadCount EXCEPT ![SlabOf(i)] = @ + 1] /\ slabs' = slabs
    BY DEF Retire
  <2>7. ASSUME NEW s \in slabs
        PROVE  deadCount'[s] = Cardinality(DeadOf(s)')
    <3>1. deadCount[s] = Cardinality(DeadOf(s))
      BY DEF SlotsInv, DeadCounted
    <3>2. deadCount'[s] = IF s = SlabOf(i) THEN deadCount[s] + 1 ELSE deadCount[s]
      BY <2>5, <2>6
    <3>3. CASE s = SlabOf(i)
      BY <2>2, <2>4, <3>1, <3>2, <3>3
    <3>4. CASE s # SlabOf(i)
      BY <2>2, <3>1, <3>2, <3>4
    <3> QED
      BY <3>3, <3>4
  <2>8. \A s \in SlabIndex \ slabs : deadCount'[s] = 0
    BY <2>5, <2>6 DEF SlotsInv, DeadCounted
  <2> QED
    BY <2>6, <2>7, <2>8 DEF DeadCounted
<1> QED
  BY <1>5, <1>6, <1>7, <1>8 DEF SlotsInv

(* The slots that can be constructed in are the same.                      *)
LEMMA RetireFreesNone ==
    ASSUME TypeInv, NEW i \in Index, Retire(i), Removed
    PROVE  \A j \in Index : Unused(j) => Unused(j)'
<1>1. \A j \in Index : bitmap'[j] => bitmap[j]
  BY DEF Retire, TypeInv, TypeOK
<1> QED
  BY <1>1 DEF Retire, Removed, Unused, Present, KeyOf

(* A slot that dies is on no list.                                         *)
LEMMA RetireKeepsKeyInv ==
    ASSUME TypeInv, KeyInv, NEW i \in Index, bitmap[i], Retire(i), Removed
    PROVE  KeyInv'
<1>1. PICK L \in SUBSET Index : Linked(L)
  BY DEF KeyInv, FreeListLinked
<1>2. \A j \in L : Unused(j)'
  BY <1>1, RetireFreesNone DEF Linked
<1>3. Linked(L)'
  BY <1>1, <1>2 DEF Linked, ListShape, Retire
<1>4. FreeListLinked'
  BY <1>3 DEF FreeListLinked
<1>5. SlotsInv'
  BY KeyInvParts, RetireKeepsSlots
<1> QED
  BY <1>4, <1>5 DEF KeyInv, SlotsInv

(* The indices of a slab are SlotsPerSlab in number.                       *)
LEMMA SlotsOfSlab ==
    ASSUME NEW s \in SlabIndex
    PROVE  IsFiniteSet(Slots(s)) /\ Cardinality(Slots(s)) = SlotsPerSlab
<1> DEFINE n == SlotsPerSlab
           m == MaxSlots \div n
           a == n * s
           b == n * s + n - 1
<1>1. n \in Nat \ {0} /\ MaxSlots \in Nat \ {0} /\ MaxSlots % n = 0
  BY SizeAssumption
<1>2. MaxSlots = n * m /\ m \in Int
  BY DivMod, <1>1
<1>3. s \in Nat /\ s < m
  BY <1>2 DEF SlabIndex
<1>4. a \in Int /\ b \in Int /\ a >= 0 /\ b = a + n - 1 /\ a + n <= MaxSlots
  <2>1. n * s < n * m => n * s + n <= n * m
    BY MultipleGap, <1>1, <1>2, <1>3
  <2>2. n * s < n * m
    <3>1. s + 1 <= m
      BY <1>2, <1>3
    <3>2. n * (s + 1) <= n * m
      BY <1>1, <1>2, <1>3, <3>1
    <3> QED
      BY <1>1, <1>2, <1>3, <3>2
  <2>3. n * s \in Nat
    BY <1>1, <1>3
  <2> QED
    BY <1>1, <1>2, <1>3, <2>1, <2>2, <2>3
<1>5. Slots(s) = a .. b
  <2>1. ASSUME NEW i \in Index, SlabOf(i) = s PROVE i \in a .. b
    <3>1. i = n * (i \div n) + (i % n) /\ i % n \in Int /\ 0 <= i % n /\ i % n < n
      BY <1>1, DivMod DEF Index
    <3>2. i \div n = s
      BY <2>1 DEF SlabOf
    <3>3. i \in Int
      BY DEF Index
    <3> QED
      BY <1>1, <1>3, <1>4, <3>1, <3>2, <3>3
  <2>2. ASSUME NEW i \in a .. b PROVE i \in Index /\ SlabOf(i) = s
    <3>1. i - a \in 0 .. n - 1 /\ i \in Int /\ i = n * s + (i - a)
      BY <1>1, <1>3, <1>4
    <3>2. (n * s + (i - a)) \div n = s
      BY <1>1, <1>3, <3>1, DivUnique
    <3>3. i \in Index
      BY <1>1, <1>4 DEF Index
    <3> QED
      BY <3>1, <3>2, <3>3 DEF SlabOf
  <2> QED
    BY <2>1, <2>2 DEF Slots
<1> HIDE DEF a, b
<1>6. IsFiniteSet(a .. b) /\ Cardinality(a .. b) = IF a > b THEN 0 ELSE b - a + 1
  BY <1>4, FS_Interval
<1> QED
  BY <1>1, <1>4, <1>5, <1>6

(* The slab deleted when slot i dies holds no free slot: all others died.  *)
LEMMA OthersDied ==
    ASSUME TypeInv, SlotsInv, NEW i \in Index, bitmap[i], Exhausted(SlabOf(i)),
           NEW j \in Slots(SlabOf(i)), j # i
    PROVE  Dead(j)
<1> DEFINE s == SlabOf(i)
<1>1. s \in SlabIndex /\ s \in slabs
  BY SlabOfInRange DEF SlotsInv, AliveBitsMatch, Present
<1>2. IsFiniteSet(Slots(s)) /\ Cardinality(Slots(s)) = SlotsPerSlab
  BY <1>1, SlotsOfSlab
<1>3. Cardinality(DeadOf(s)) + 1 = SlotsPerSlab
  BY <1>1 DEF SlotsInv, DeadCounted, Exhausted
<1>4. i \in Slots(s) /\ i \notin DeadOf(s)
  BY DEF Slots, DeadOf, Dead
<1>5. IsFiniteSet(Slots(s) \ {i}) /\ Cardinality(Slots(s) \ {i}) = SlotsPerSlab - 1
  BY <1>2, <1>4, FS_RemoveElement
<1>6. DeadOf(s) \subseteq Slots(s) \ {i}
  BY <1>4 DEF DeadOf
<1>7. Cardinality(DeadOf(s)) = Cardinality(Slots(s) \ {i})
  <2>1. IsFiniteSet(DeadOf(s))
    BY <1>5, <1>6, FS_Subset
  <2>2. Cardinality(DeadOf(s)) \in Nat
    BY <2>1, FS_CardinalityType
  <2> QED
    BY <1>3, <1>5, <2>2, SizeAssumption
<1>8. DeadOf(s) = Slots(s) \ {i}
  BY <1>5, <1>6, <1>7, FS_Subset
<1> QED
  BY <1>8 DEF DeadOf

(* A slot that died is on no free list: every version was issued.          *)
LEMMA DeadNotUnused ==
    ASSUME TypeInv, SlotsInv, NEW j \in Index, Present(j), Dead(j)
    PROVE  ~Unused(j)
<1>1. MaxVersion <= version[j]
  BY DEF Dead, SlotsInv, VersionsCover
<1>2. version[j] \in 0 .. MaxVersion /\ MaxVersion \in Nat
  BY SizeAssumption DEF TypeInv, TypeOK, Version
<1>3. version[j] = MaxVersion
  BY <1>1, <1>2
<1> QED
  BY <1>3 DEF Dead, Unused, KeyOf

(* The last slot of a slab dies and the slab is deleted.                   *)
LEMMA ReleaseKeepsSlots ==
    ASSUME TypeInv, SlotsInv, NEW i \in Index, bitmap[i], Release(i), Removed
    PROVE  SlotsInv'
<1> DEFINE s == SlabOf(i)
<1>1. \A j \in Index :
          IF SlabOf(j) = s
          THEN ~bitmap'[j] /\ ~aliveBit'[j] /\ version'[j] = 0
          ELSE /\ bitmap'[j] = bitmap[j] /\ aliveBit'[j] = aliveBit[j]
               /\ version'[j] = version[j] /\ storage'[j] = storage[j]
  BY DEF Release, Blank
<1>2. slabs' = slabs \ {s} /\ UNCHANGED <<freeHead, nextBase, issued>>
  BY DEF Release, Removed
<1>3. \A j \in Index : Present(j)' <=> Present(j) /\ SlabOf(j) # s
  BY <1>2 DEF Present
<1>4. \A j \in Index : SlabOf(j) # s => KeyOf(j)' = KeyOf(j)
  BY <1>1 DEF KeyOf
<1>5. \A k \in issued : k.index \in Index
  BY DEF TypeInv, TypeOK, Key
<1> HIDE DEF s
<1>6. SlabsOnGrid'
  BY <1>2, <1>3 DEF SlotsInv, SlabsOnGrid
<1>7. AliveBitsMatch'
  BY <1>1, <1>3 DEF SlotsInv, AliveBitsMatch
<1>8. VersionsCover'
  <2>1. ASSUME NEW k \in issued'
        PROVE  k.index < nextBase' /\ (Present(k.index)' => k.version <= version'[k.index])
    BY <1>1, <1>2, <1>3, <1>5 DEF SlotsInv, VersionsCover
  <2>2. ASSUME NEW j \in Index, bitmap'[j]
        PROVE  KeyOf(j)' \in issued' /\ storage'[j] \in Values
    BY <1>1, <1>2, <1>4, <2>2 DEF SlotsInv, VersionsCover
  <2>3. ASSUME NEW j \in Index, Present(j)', ~bitmap'[j], version'[j] < MaxVersion
        PROVE  KeyOf(j)' \notin issued'
    BY <1>1, <1>2, <1>3, <1>4, <2>3 DEF SlotsInv, VersionsCover
  <2>4. NullKey \notin issued' /\ (Present(0)' => version'[0] # 0)
    <3>1. 0 \in Index
      BY SizeAssumption DEF Index
    <3> QED
      BY <1>1, <1>2, <1>3, <3>1 DEF SlotsInv, VersionsCover
  <2> QED
    BY <2>1, <2>2, <2>3, <2>4 DEF VersionsCover
<1>9. DeadCounted'
  <2>1. ASSUME NEW t \in slabs, t # s PROVE DeadOf(t)' = DeadOf(t)
    BY <1>1, <1>2, <2>1 DEF DeadOf, Slots, Dead
  <2>2. deadCount' = [deadCount EXCEPT ![s] = 0] /\ deadCount \in [SlabIndex -> Nat]
        /\ slabs \subseteq SlabIndex
    BY DEF Release, TypeInv, TypeOK, s
  <2> QED
    BY <1>2, <2>1, <2>2 DEF SlotsInv, DeadCounted
<1> QED
  BY <1>6, <1>7, <1>8, <1>9 DEF SlotsInv

(* No slot that can be constructed in goes with the slab.                  *)
LEMMA ReleaseFreesNone ==
    ASSUME TypeInv, SlotsInv, NEW i \in Index, bitmap[i], Release(i), Removed
    PROVE  \A j \in Index : Unused(j) => Unused(j)' /\ storage'[j] = storage[j]
<1> SUFFICES ASSUME NEW j \in Index, Unused(j)
    PROVE  Unused(j)' /\ storage'[j] = storage[j]
  OBVIOUS
<1>1. Present(j) /\ ~bitmap[j] /\ Exhausted(SlabOf(i))
  BY DEF Unused, Release
<1>2. ASSUME SlabOf(j) = SlabOf(i) PROVE FALSE
  <2>1. j \in Slots(SlabOf(i)) /\ j # i
    BY <1>1, <1>2 DEF Slots
  <2>2. Dead(j)
    BY <1>1, <2>1, OthersDied
  <2> QED
    BY <1>1, <2>2, DeadNotUnused
<1>3. /\ bitmap'[j] = bitmap[j] /\ version'[j] = version[j]
      /\ storage'[j] = storage[j] /\ issued' = issued
      /\ slabs' = slabs \ {SlabOf(i)}
  BY <1>2 DEF Release, Blank, Removed
<1> QED
  BY <1>2, <1>3 DEF Unused, Present, KeyOf

(* A slab that is deleted has no slot on a list.                           *)
LEMMA ReleaseKeepsKeyInv ==
    ASSUME TypeInv, KeyInv, NEW i \in Index, bitmap[i], Release(i), Removed
    PROVE  KeyInv'
<1>1. PICK L \in SUBSET Index : Linked(L)
  BY DEF KeyInv, FreeListLinked
<1>2. \A j \in L : Unused(j)' /\ storage'[j] = storage[j]
  BY <1>1, KeyInvParts, ReleaseFreesNone DEF Linked
<1>3. freeHead' = freeHead
  BY DEF Release
<1>4. Linked(L)'
  BY <1>1, <1>2, <1>3 DEF Linked, ListShape
<1>5. FreeListLinked'
  BY <1>4 DEF FreeListLinked
<1>6. SlotsInv'
  BY KeyInvParts, ReleaseKeepsSlots
<1> QED
  BY <1>5, <1>6 DEF KeyInv, SlotsInv

(* The value in an alive slot changes in place.                            *)
LEMMA AssignKeepsKeyInv ==
    ASSUME TypeInv, KeyInv, NEW i \in Index, bitmap[i], NEW v \in Values,
           storage' = [storage EXCEPT ![i] = v],
           UNCHANGED <<slabs, version, aliveBit, bitmap, deadCount, freeHead,
                       nextBase, issued>>
    PROVE  KeyInv'
<1>1. \A j \in Index : storage'[j] = IF j = i THEN v ELSE storage[j]
  BY DEF TypeInv, TypeOK
<1>2. \A j : (Present(j)' <=> Present(j)) /\ KeyOf(j)' = KeyOf(j)
  BY DEF Present, KeyOf
<1>3. VersionsCover'
  BY <1>1, <1>2 DEF KeyInv, VersionsCover
<1>4. DeadCounted'
  BY DEF KeyInv, DeadCounted, DeadOf, Slots, Dead
<1>5. SlabsOnGrid' /\ AliveBitsMatch'
  BY <1>2 DEF KeyInv, SlabsOnGrid, AliveBitsMatch
<1>6. FreeListLinked'
  <2>1. PICK L \in SUBSET Index : Linked(L)
    BY DEF KeyInv, FreeListLinked
  <2>2. \A j \in L : Unused(j)' /\ storage'[j] = storage[j]
    BY <1>1, <1>2, <2>1 DEF Linked, Unused
  <2>3. Linked(L)'
    BY <2>1, <2>2 DEF Linked, ListShape
  <2> QED
    BY <2>3 DEF FreeListLinked
<1> QED
  BY <1>3, <1>4, <1>5, <1>6 DEF KeyInv

(* clear: every element goes, the list is rebuilt from the versions.       *)
LEMMA ClearKeepsKeyInv ==
    ASSUME TypeInv, KeyInv, Clear
    PROVE  KeyInv'
<1>1. /\ MaxVersion \in Nat /\ \A x \in Version : x \in Nat /\ x <= MaxVersion
      /\ \A j \in Index : version[j] \in Version
  BY SizeAssumption DEF Version, TypeInv, TypeOK
<1>2. \A k \in issued : k.index \in Index /\ k.version \in Version
  BY DEF TypeInv, TypeOK, Key
<1>3. \A j \in Index : /\ ~bitmap'[j]
                       /\ aliveBit'[j] <=> aliveBit[j] /\ ~bitmap[j]
                       /\ version'[j] = IF bitmap[j] /\ version[j] < MaxVersion
                                        THEN version[j] + 1 ELSE version[j]
                       /\ j \in Relinked => storage'[j] = LastOf({x \in Relinked : x < j})
  BY DEF Clear
<1>4. freeHead' = LastOf(Relinked) /\ UNCHANGED <<slabs, nextBase, issued>>
  BY DEF Clear
<1>5. \A j : Present(j)' <=> Present(j)
  BY <1>4 DEF Present
<1>6. ASSUME NEW j \in Index
      PROVE  version[j] \in Nat /\ version'[j] \in Nat /\ version[j] <= version'[j]
  <2>1. version[j] \in Nat
    BY <1>1
  <2>2. version'[j] = version[j] + 1 \/ version'[j] = version[j]
    BY <1>3
  <2> QED
    BY <2>1, <2>2
<1>7. ASSUME NEW j \in Relinked
      PROVE  j \in Index /\ Unused(j)'
  <2>1. j \in Index /\ Present(j) /\ version[j] < MaxVersion
    BY DEF Relinked
  <2>2. CASE bitmap[j]
    <3>1. KeyOf(j)' = [index |-> j, version |-> version[j] + 1]
      BY <1>3, <2>1, <2>2 DEF KeyOf
    <3>2. ASSUME [index |-> j, version |-> version[j] + 1] \in issued PROVE FALSE
      <4>1. version[j] + 1 <= version[j]
        BY <2>1, <3>2 DEF KeyInv, VersionsCover
      <4> QED
        BY <1>6, <2>1, <4>1
    <3> QED
      BY <1>3, <1>4, <1>5, <2>1, <3>1, <3>2 DEF Unused
  <2>3. CASE ~bitmap[j]
    <3>1. KeyOf(j)' = KeyOf(j)
      BY <1>3, <2>1, <2>3 DEF KeyOf
    <3> QED
      BY <1>3, <1>4, <1>5, <2>1, <2>3, <3>1 DEF Unused, KeyInv, VersionsCover
  <2> QED
    BY <2>1, <2>2, <2>3
<1>8. SlabsOnGrid'
  BY <1>4, <1>5 DEF KeyInv, SlabsOnGrid
<1>9. AliveBitsMatch'
  BY <1>3, <1>5 DEF KeyInv, AliveBitsMatch
<1>10. VersionsCover'
  <2>1. ASSUME NEW k \in issued'
        PROVE  k.index < nextBase' /\ (Present(k.index)' => k.version <= version'[k.index])
    <3>1. k \in issued /\ k.index \in Index /\ k.version \in Nat
      BY <1>1, <1>2, <1>4
    <3>2. k.index < nextBase /\ (Present(k.index) => k.version <= version[k.index])
      BY <3>1 DEF KeyInv, VersionsCover
    <3>3. version[k.index] \in Nat /\ version'[k.index] \in Nat
          /\ version[k.index] <= version'[k.index]
      BY <1>6, <3>1
    <3> QED
      BY <1>4, <1>5, <3>1, <3>2, <3>3
  <2>2. ASSUME NEW j \in Index, Present(j)', version'[j] < MaxVersion
        PROVE  KeyOf(j)' \notin issued'
    <3>1. version[j] < MaxVersion
      BY <1>1, <1>6, <2>2
    <3>2. j \in Relinked
      BY <1>5, <2>2, <3>1 DEF Relinked
    <3> QED
      BY <1>7, <3>2 DEF Unused
  <2>3. Present(0)' => version'[0] # 0
    <3>1. 0 \in Index
      BY SizeAssumption DEF Index
    <3>2. version[0] # 0 => version'[0] # 0
      BY <1>6, <3>1
    <3> QED
      BY <1>5, <3>2 DEF KeyInv, VersionsCover
  <2>4. NullKey \notin issued'
    BY <1>4 DEF KeyInv, VersionsCover
  <2> QED
    BY <1>3, <2>1, <2>2, <2>3, <2>4 DEF VersionsCover
<1>11. DeadCounted'
  <2>1. IsFiniteSet(Index)
    BY FS_Interval, SizeAssumption DEF Index
  <2>2. ASSUME NEW j \in Index
        PROVE  Dead(j)' <=> Dead(j) \/ (bitmap[j] /\ version[j] = MaxVersion)
    <3>1. CASE bitmap[j]
      <4>1. KeyOf(j) \in issued /\ Present(j)
        BY <3>1 DEF KeyInv, VersionsCover, AliveBitsMatch
      <4>2. [index |-> j, version |-> MaxVersion] \in issued => MaxVersion <= version[j]
        BY <4>1 DEF KeyInv, VersionsCover
      <4>3. version[j] \in Nat /\ version[j] <= MaxVersion
        BY <1>1
      <4> QED
        <5>1. ~Dead(j)
          BY <3>1 DEF Dead
        <5>2. Dead(j)' <=> [index |-> j, version |-> MaxVersion] \in issued
          BY <1>3, <1>4 DEF Dead
        <5>3. version[j] = MaxVersion
                => [index |-> j, version |-> MaxVersion] \in issued
          BY <4>1 DEF KeyOf
        <5> QED
          BY <1>1, <3>1, <4>2, <4>3, <5>1, <5>2, <5>3
    <3>2. CASE ~bitmap[j]
      BY <1>3, <1>4, <3>2 DEF Dead
    <3> QED
      BY <3>1, <3>2
  <2>3. ASSUME NEW s \in SlabIndex
        PROVE  /\ DeadOf(s)' = DeadOf(s) \union Dying(s)
               /\ DeadOf(s) \intersect Dying(s) = {}
               /\ IsFiniteSet(DeadOf(s)) /\ IsFiniteSet(Dying(s))
    <3>1. DeadOf(s)' = DeadOf(s) \union Dying(s)
      BY <2>2 DEF DeadOf, Dying, Slots
    <3>2. DeadOf(s) \intersect Dying(s) = {}
      BY DEF DeadOf, Dying, Dead
    <3>3. DeadOf(s) \subseteq Index /\ Dying(s) \subseteq Index
      BY DEF DeadOf, Dying, Slots
    <3> QED
      BY <2>1, <3>1, <3>2, <3>3, FS_Subset
  <2>4. \A s \in SlabIndex : deadCount'[s] = deadCount[s] + Cardinality(Dying(s))
    BY DEF Clear
  <2>5. ASSUME NEW s \in slabs PROVE deadCount'[s] = Cardinality(DeadOf(s)')
    <3>1. s \in SlabIndex /\ deadCount[s] = Cardinality(DeadOf(s))
      BY DEF TypeInv, TypeOK, KeyInv, DeadCounted
    <3>2. Cardinality(DeadOf(s) \union Dying(s))
            = Cardinality(DeadOf(s)) + Cardinality(Dying(s))
      <4>1. Cardinality(DeadOf(s)) \in Nat /\ Cardinality(Dying(s)) \in Nat
        BY <2>3, <3>1, FS_CardinalityType
      <4>2. Cardinality(DeadOf(s) \intersect Dying(s)) = 0
        BY <2>3, <3>1, FS_EmptySet
      <4> QED
        <5>1. Cardinality(DeadOf(s) \union Dying(s))
                = Cardinality(DeadOf(s)) + Cardinality(Dying(s))
                    - Cardinality(DeadOf(s) \intersect Dying(s))
          BY <2>3, <3>1, FS_Union
        <5> QED
          BY <4>1, <4>2, <5>1
    <3> QED
      BY <2>3, <2>4, <3>1, <3>2
  <2>6. ASSUME NEW s \in SlabIndex \ slabs PROVE deadCount'[s] = 0
    <3>1. Dying(s) = {}
      BY DEF Dying, Slots, KeyInv, AliveBitsMatch, Present
    <3>2. deadCount[s] = 0
      BY DEF KeyInv, DeadCounted
    <3> QED
      BY <2>4, <3>1, <3>2, FS_EmptySet
  <2> QED
    BY <1>4, <2>5, <2>6 DEF DeadCounted
<1>12. FreeListLinked'
  <2>1. Relinked \in SUBSET Index
    BY DEF Relinked
  <2>2. ListShape(Relinked, freeHead', storage')
    BY <1>3, <1>4, <2>1, RebuiltShape
  <2> DEFINE R == Relinked
  <2>3. PICK L \in SUBSET Index : L = R
    BY <2>1
  <2>4. Linked(L)'
    BY <1>7, <2>2, <2>3 DEF Linked, ListShape
  <2> QED
    BY <2>4 DEF FreeListLinked
<1> QED
  BY <1>8, <1>9, <1>10, <1>11, <1>12 DEF KeyInv

(* An empty map, new or reset.                                             *)
LEMMA BlankKeyInv == ASSUME Init PROVE KeyInv
<1>1. nextBase % SlotsPerSlab = 0 /\ slabs = {} /\ issued = {} /\ freeHead = End
  BY SizeAssumption DEF Init
<1>2. \A j \in Index : ~bitmap[j] /\ ~aliveBit[j] /\ ~Present(j)
  BY DEF Init, Present
<1>3. SlabsOnGrid /\ AliveBitsMatch
  BY <1>1, <1>2 DEF SlabsOnGrid, AliveBitsMatch
<1>4. VersionsCover
  BY <1>1, <1>2 DEF VersionsCover, Present
<1>5. DeadCounted
  BY <1>1 DEF Init, DeadCounted
<1>6. Linked({})
  BY <1>1 DEF Linked, ListShape
<1> QED
  BY <1>3, <1>4, <1>5, <1>6 DEF KeyInv, FreeListLinked

(* One removal, whatever becomes of the slot short of recycling.           *)
LEMMA RemovalKeepsKeyInv ==
    ASSUME TypeInv, KeyInv, NEW k \in Key, EraseFinds(k),
           Reuse(k.index) \/ Retire(k.index) \/ Release(k.index), Removed
    PROVE  KeyInv'
<1>1. k.index \in Index /\ bitmap[k.index]
  BY DEF Key, EraseFinds
<1> QED
  BY <1>1, ReuseKeepsKeyInv, RetireKeepsKeyInv, ReleaseKeepsKeyInv

(* Every step before the first recycling keeps the keys' invariant.        *)
LEMMA KeyInvStep ==
    ASSUME PartialWrites = FALSE, TypeInv, KeyInv, [NextUntilRecycle]_vars
    PROVE  KeyInv'
<1> DEFINE to1 == nextBase + SlotsPerSlab
<1>1. PICK L \in SUBSET Index : Linked(L)
  BY DEF KeyInv, FreeListLinked
<1>2. ASSUME CanAllocate, AddSlabs(to1)
      PROVE  /\ Ready(L \union Grown(to1), nextBase,
                      GrownVersions(to1), GrownLinks(to1))
             /\ nextBase \in L \union Grown(to1)
  <2>1. nextBase < MaxSlots
    BY <1>2 DEF CanAllocate
  <2>2. OnGrid(to1) /\ to1 \in Int /\ nextBase < to1 /\ to1 - SlotsPerSlab = nextBase
    BY <2>1, GridStep, SizeAssumption DEF TypeInv, OnGrid
  <2>3. Ready(L \union Grown(to1), to1 - SlotsPerSlab,
              GrownVersions(to1), GrownLinks(to1))
    BY <1>1, <1>2, <2>2, ReadyAfterGrowth
  <2>4. nextBase \in Grown(to1)
    BY <2>2, SizeAssumption DEF Grown, TypeInv, OnGrid
  <2> QED
    BY <2>2, <2>3, <2>4
<1>3. ASSUME HeadUsable, UNCHANGED <<slabs, nextBase>>
      PROVE  Ready(L, freeHead, version, storage) /\ freeHead \in L
  <2>1. freeHead \in L \union {End} /\ freeHead # End
    BY <1>1, <1>3, IndexIsInt DEF Linked, ListShape, HeadUsable
  <2> QED
    BY <1>1, <1>3, <2>1, ReadyAsItStands
<1>4. ASSUME NEW v \in Values, TryEmplace(v) PROVE KeyInv'
  BY <1>2, <1>3, <1>4, ReadyConstructs DEF TryEmplace
<1>5. CASE EmplaceThrows
  <2>1. CASE freeHead = End /\ CanAllocate /\ AddSlabs(to1)
             /\ version' = GrownVersions(to1) /\ freeHead' = nextBase
             /\ ConstructorThrows(nextBase, GrownLinks(to1))
    BY <1>2, <2>1, ReadyStays DEF ConstructorThrows
  <2>2. CASE HeadUsable /\ UNCHANGED <<slabs, nextBase, version, freeHead>>
             /\ ConstructorThrows(freeHead, storage)
    BY <1>3, <2>2, ReadyStays DEF ConstructorThrows
  <2> QED
    BY <1>5, <2>1, <2>2 DEF EmplaceThrows
<1>6. ASSUME NEW to \in SlabEnds, Reserve(to) PROVE KeyInv'
  <2>1. OnGrid(to) /\ to \in Int /\ nextBase < to /\ AddSlabs(to)
    BY <1>6, SlabEndsOnGrid DEF Reserve, OnGrid
  <2>2. Ready(L \union Grown(to), to - SlotsPerSlab,
              GrownVersions(to), GrownLinks(to))
    BY <1>1, <2>1, ReadyAfterGrowth
  <2> QED
    BY <1>6, <2>2, ReadyStays DEF Reserve
<1>7. ASSUME NEW k \in Key, Erase(k) \/ UseErases(k) PROVE KeyInv'
  BY <1>7, RemovalKeepsKeyInv DEF Erase, UseErases
<1>8. ASSUME NEW k \in Key, PopThrows(k) \/ Use(k) PROVE KeyInv'
  <2>1. k.index \in Index /\ bitmap[k.index]
    BY <1>8 DEF PopThrows, Use, EraseFinds, IsValid, Key, KeyInv, AliveBitsMatch
  <2>2. PICK v \in Values : storage' = [storage EXCEPT ![k.index] = v]
    BY <1>8 DEF PopThrows, Use
  <2> QED
    BY <1>8, <2>1, <2>2, AssignKeepsKeyInv DEF PopThrows, Use
<1>9. CASE Reset
  <2>2. \A j \in Index : ~Present(j)' /\ ~bitmap'[j] /\ ~aliveBit'[j]
    BY <1>9 DEF Reset, Present
  <2>3. SlabsOnGrid' /\ AliveBitsMatch'
    BY <1>9, <2>2, SizeAssumption DEF Reset, SlabsOnGrid, AliveBitsMatch
  <2>4. VersionsCover'
    BY <1>9, <2>2 DEF Reset, VersionsCover, Present
  <2>5. DeadCounted'
    BY <1>9 DEF Reset, DeadCounted
  <2>6. Linked({})'
    BY <1>9 DEF Reset, Linked, ListShape
  <2> QED
    BY <2>3, <2>4, <2>5, <2>6 DEF KeyInv, FreeListLinked
<1>10. CASE Abort \/ UNCHANGED vars
  <2>1. UNCHANGED <<slabs, version, aliveBit, bitmap, storage, deadCount,
                    freeHead, nextBase, issued>>
    BY <1>10 DEF Abort, vars
  <2>2. Ready(L, freeHead, version, storage)
    BY <1>1, <2>1, ReadyAsItStands
  <2> QED
    BY <2>1, <2>2, ReadyStays
<1> QED
  BY <1>4, <1>5, <1>6, <1>7, <1>8, <1>9, <1>10, ClearKeepsKeyInv
     DEF NextUntilRecycle, EmplaceAborts

(* Where constructors leave the slot's bytes alone when they throw, the    *)
(* key invariant holds of every map that has not recycled a slab.          *)
THEOREM KeyInvariant ==
    ASSUME PartialWrites = FALSE
    PROVE  SpecUntilRecycle => []KeyInv
<1>1. Init => TypeInv /\ KeyInv
  BY TypeInit, BlankKeyInv
<1>2. TypeInv /\ KeyInv /\ [NextUntilRecycle]_vars => (TypeInv /\ KeyInv)'
  BY TypeStep, KeyInvStep DEF Next
<1> QED
  BY <1>1, <1>2, PTL DEF SpecUntilRecycle

-----------------------------------------------------------------------------
(* What clients rely on, from the key invariant.                           *)

(* Where it holds, lookups agree, live keys were issued, and IsValid is    *)
(* the match of the version in a live slot.                                *)
LEMMA KeyInvLookups ==
    ASSUME KeyInv
    PROVE  /\ LookupsAgree /\ LiveKeysIssued
           /\ \A k \in Key : IsValid(k) <=> bitmap[k.index] /\ version[k.index] = k.version
<1>1. ASSUME NEW k \in Key
      PROVE  /\ IsValid(k) <=> EraseFinds(k)
             /\ EraseFinds(k) <=> bitmap[k.index] /\ version[k.index] = k.version
             /\ IsValid(k) => k \in issued
  <2>1. k.index \in Index /\ k = [index |-> k.index, version |-> k.version]
    BY DEF Key
  <2>2. IsValid(k) <=> EraseFinds(k)
    BY <2>1 DEF KeyInv, AliveBitsMatch, IsValid, EraseFinds
  <2>3. EraseFinds(k) <=> bitmap[k.index] /\ version[k.index] = k.version
    BY <2>1 DEF KeyInv, AliveBitsMatch, EraseFinds
  <2>4. IsValid(k) => k \in issued
    BY <2>1, <2>2, <2>3 DEF KeyInv, VersionsCover, KeyOf
  <2> QED
    BY <2>2, <2>3, <2>4
<1> QED
  BY <1>1 DEF LookupsAgree, LiveKeysIssued, KeyInv, VersionsCover

(* Only keys that emplace returned work, and the null key is not one.      *)
THEOREM OnlyIssuedKeysWork ==
    ASSUME PartialWrites = FALSE
    PROVE  SpecUntilRecycle => []LiveKeysIssued
<1>1. KeyInv => LiveKeysIssued
  BY KeyInvLookups
<1> QED
  BY <1>1, KeyInvariant, PTL

(* A step either makes no slot alive, or one, under a key never issued.    *)
StillAlive(j) == bitmap'[j] => bitmap[j] /\ version'[j] = version[j]
AddsNone == /\ \A j \in Index : StillAlive(j)
            /\ objectsCreated' # objectsCreated + 1
AddsOne(i) == /\ \A j \in Index \ {i} : StillAlive(j)
              /\ KeyOf(i)' \notin issued /\ KeyOf(i)' \in issued'

(* A construction in a ready slot adds that slot to the live ones.         *)
LEMMA ReadyAddsOne ==
    ASSUME TypeInv, NEW L, NEW i \in L, NEW v \in Values, NEW vers, NEW links,
           Ready(L, i, vers, links), Construct(i, v, vers, links)
    PROVE  i \in Index /\ AddsOne(i)
<1>1. i \in Index /\ KeyOf(i)' = [index |-> i, version |-> vers[i]]
  BY DEF Ready, Construct, KeyOf
<1>2. KeyOf(i)' \notin issued /\ KeyOf(i)' \in issued'
  BY <1>1 DEF Ready, Construct
<1>3. ASSUME NEW j \in Index \ {i} PROVE StillAlive(j)
  BY DEF StillAlive, Ready, Construct, TypeInv, TypeOK
<1> QED
  BY <1>1, <1>2, <1>3 DEF AddsOne

(* Erase adds no live slot.                                                *)
LEMMA RemovalAddsNone ==
    ASSUME TypeInv, NEW i \in Index,
           Reuse(i) \/ Retire(i) \/ Release(i), Removed
    PROVE  AddsNone
<1>1. objectsCreated' # objectsCreated + 1
  BY DEF Removed, TypeInv, TypeOK
<1>2. CASE Reuse(i)
  BY <1>1, <1>2 DEF Reuse, AddsNone, StillAlive, TypeInv, TypeOK
<1>3. CASE Retire(i)
  BY <1>1, <1>3 DEF Retire, AddsNone, StillAlive, TypeInv, TypeOK
<1>4. CASE Release(i)
  BY <1>1, <1>4 DEF Release, Blank, AddsNone, StillAlive
<1> QED
  BY <1>2, <1>3, <1>4

(* A step adds no live slot or one.                                        *)
LEMMA StepAdds ==
    ASSUME TypeInv, KeyInv, [NextUntilRecycle]_vars
    PROVE  AddsNone \/ \E i \in Index : AddsOne(i)
<1> DEFINE to1 == nextBase + SlotsPerSlab
<1>1. PICK L \in SUBSET Index : Linked(L)
  BY DEF KeyInv, FreeListLinked
<1>2. objectsCreated \in Nat
  BY DEF TypeInv, TypeOK
<1>3. ASSUME NEW to \in Int, OnGrid(to), nextBase < to,
             version' = GrownVersions(to), UNCHANGED <<bitmap, objectsCreated>>
      PROVE  AddsNone
  <2>1. \A j \in Index : bitmap[j] => j \notin Grown(to)
    BY DEF KeyInv, AliveBitsMatch, SlabsOnGrid, Grown, TypeInv, OnGrid, Index
  <2>2. \A j \in Index : StillAlive(j)
    BY <1>3, <2>1 DEF StillAlive, GrownVersions
  <2> QED
    BY <1>2, <1>3, <2>2 DEF AddsNone
<1>4. CanAllocate => OnGrid(to1) /\ to1 \in Int /\ nextBase < to1
                     /\ to1 - SlotsPerSlab = nextBase
  BY GridStep, SizeAssumption DEF CanAllocate, TypeInv, OnGrid
<1>5. ASSUME NEW v \in Values, TryEmplace(v) PROVE \E i \in Index : AddsOne(i)
  <2>1. CASE CanAllocate /\ AddSlabs(to1)
             /\ Construct(nextBase, v, GrownVersions(to1), GrownLinks(to1))
    <3>1. Ready(L \union Grown(to1), nextBase, GrownVersions(to1), GrownLinks(to1))
      BY <1>1, <1>4, <2>1, ReadyAfterGrowth
    <3>2. nextBase \in L \union Grown(to1)
      BY <1>4, <2>1, SizeAssumption DEF Grown, TypeInv, OnGrid
    <3> QED
      BY <2>1, <3>1, <3>2, ReadyAddsOne
  <2>2. CASE HeadUsable /\ UNCHANGED <<slabs, nextBase>>
             /\ Construct(freeHead, v, version, storage)
    <3>1. freeHead \in L
      BY <1>1, <2>2, IndexIsInt DEF Linked, ListShape, HeadUsable
    <3>2. Ready(L, freeHead, version, storage)
      BY <1>1, <2>2, ReadyAsItStands
    <3> QED
      BY <2>2, <3>1, <3>2, ReadyAddsOne
  <2> QED
    BY <1>5, <2>1, <2>2 DEF TryEmplace
<1>6. ASSUME EmplaceThrows PROVE AddsNone
  <2>1. CASE CanAllocate /\ version' = GrownVersions(to1)
             /\ UNCHANGED <<bitmap, objectsCreated>>
    BY <1>3, <1>4, <2>1
  <2>2. CASE UNCHANGED <<version, bitmap, objectsCreated>>
    BY <1>2, <2>2 DEF AddsNone, StillAlive
  <2> QED
    BY <1>6, <2>1, <2>2 DEF EmplaceThrows, ConstructorThrows
<1>7. ASSUME NEW to \in SlabEnds, Reserve(to) PROVE AddsNone
  <2>1. OnGrid(to) /\ to \in Int /\ nextBase < to
    BY <1>7, SlabEndsOnGrid DEF Reserve, OnGrid
  <2> QED
    BY <1>3, <1>7, <2>1 DEF Reserve
<1>8. ASSUME NEW k \in Key, Erase(k) \/ UseErases(k) PROVE AddsNone
  BY <1>8, RemovalAddsNone DEF Erase, UseErases, Key
<1>9. ASSUME NEW k \in Key, PopThrows(k) \/ Use(k) PROVE AddsNone
  BY <1>2, <1>9 DEF PopThrows, Use, AddsNone, StillAlive
<1>10. ASSUME Clear \/ Reset PROVE AddsNone
  BY <1>2, <1>10 DEF Clear, Reset, AddsNone, StillAlive
<1>11. ASSUME Abort \/ UNCHANGED vars PROVE AddsNone
  BY <1>2, <1>11 DEF Abort, vars, AddsNone, StillAlive
<1> QED
  BY <1>5, <1>6, <1>7, <1>8, <1>9, <1>10, <1>11
     DEF NextUntilRecycle, EmplaceAborts

(* No key is issued twice: emplace never returns one a client may hold.    *)
THEOREM KeysAreFresh ==
    ASSUME PartialWrites = FALSE
    PROVE  SpecUntilRecycle => IssuesFreshKey
<1>1. TypeInv /\ KeyInv /\ [NextUntilRecycle]_vars
        => [objectsCreated' = objectsCreated + 1 => issued' # issued]_vars
  BY StepAdds DEF AddsNone, AddsOne
<1>2. Init => TypeInv /\ KeyInv
  BY TypeInit, BlankKeyInv
<1>3. TypeInv /\ KeyInv /\ [NextUntilRecycle]_vars => (TypeInv /\ KeyInv)'
  BY TypeStep, KeyInvStep DEF Next
<1> QED
  BY <1>1, <1>2, <1>3, PTL DEF SpecUntilRecycle, IssuesFreshKey

(* A key whose element is gone never finds another one.                    *)
THEOREM StaleKeysStayStale ==
    ASSUME PartialWrites = FALSE
    PROVE  SpecUntilRecycle => StaleKeysStayInvalid
<1>1. ASSUME TypeInv, KeyInv, KeyInv', [NextUntilRecycle]_vars,
             NEW k \in issued, ~IsValid(k)
      PROVE  ~IsValid(k)'
  <2>1. k \in Key /\ k.index \in Index
    BY <1>1 DEF TypeInv, TypeOK, Key
  <2>2. ~(bitmap[k.index] /\ version[k.index] = k.version)
    BY <1>1, <2>1, KeyInvLookups
  <2>3. IsValid(k)' <=> bitmap'[k.index] /\ version'[k.index] = k.version
    <3>1. aliveBit'[k.index] <=> HasAliveBit /\ bitmap'[k.index]
      BY <1>1, <2>1 DEF KeyInv, AliveBitsMatch
    <3>2. bitmap'[k.index] => Present(k.index)'
      BY <1>1, <2>1 DEF KeyInv, AliveBitsMatch
    <3> QED
      BY <3>1, <3>2 DEF IsValid
  <2>4. ASSUME NEW i \in Index, AddsOne(i), i = k.index, version'[i] = k.version
        PROVE  FALSE
    <3>1. KeyOf(i)' = k
      BY <2>1, <2>4 DEF KeyOf, Key
    <3> QED
      BY <2>4, <3>1 DEF AddsOne
  <2>5. AddsNone \/ \E i \in Index : AddsOne(i)
    BY <1>1, StepAdds
  <2> QED
    BY <2>1, <2>2, <2>3, <2>4, <2>5 DEF AddsNone, AddsOne, StillAlive
<1>2. TypeInv /\ KeyInv /\ KeyInv' /\ [NextUntilRecycle]_vars
        => [\A k \in issued : ~IsValid(k) => ~IsValid(k)']_vars
  BY <1>1
<1>3. Init => TypeInv /\ KeyInv
  BY TypeInit, BlankKeyInv
<1>4. TypeInv /\ KeyInv /\ [NextUntilRecycle]_vars => (TypeInv /\ KeyInv)'
  BY TypeStep, KeyInvStep DEF Next
<1> QED
  BY <1>2, <1>3, <1>4, PTL DEF SpecUntilRecycle, StaleKeysStayInvalid

-----------------------------------------------------------------------------
(* The counters.                                                           *)

AliveSlots == {i \in Index : bitmap[i]}
DeadSet == {i \in Index : Dead(i)}
Counts == size = Cardinality(AliveSlots) /\ deadSlots = Cardinality(DeadSet)

(* Sets of slots can be counted.                                           *)
LEMMA IndexSubsetsFinite ==
    \A S \in SUBSET Index : IsFiniteSet(S) /\ Cardinality(S) \in Nat
<1>1. IsFiniteSet(Index)
  BY FS_Interval, SizeAssumption DEF Index
<1> QED
  BY <1>1, FS_Subset, FS_CardinalityType

(* A construction keeps size_ the number of live slots.                    *)
LEMMA CountsConstruct ==
    ASSUME TypeInv, Counts, NEW L, NEW i \in L, NEW v \in Values,
           NEW vers, NEW links,
           Ready(L, i, vers, links), Construct(i, v, vers, links)
    PROVE  Counts'
<1>1. i \in Index /\ ~bitmap[i]
  BY DEF Ready
<1>2. AliveSlots' = AliveSlots \union {i} /\ i \notin AliveSlots
  BY <1>1 DEF AliveSlots, Construct, TypeInv, TypeOK
<1>3. DeadSet' = DeadSet
  BY ConstructKeepsDead DEF DeadSet
<1>4. IsFiniteSet(AliveSlots)
  BY IndexSubsetsFinite DEF AliveSlots
<1>5. Cardinality(AliveSlots \union {i}) = Cardinality(AliveSlots) + 1
  BY <1>2, <1>4, FS_AddElement
<1> QED
  BY <1>2, <1>3, <1>5 DEF Construct, Counts

(* Erase keeps size_ the number of live slots.                             *)
LEMMA CountsRemoval ==
    ASSUME TypeInv, KeyInv, Counts, NEW i \in Index, bitmap[i],
           Reuse(i) \/ Retire(i) \/ Release(i), Removed
    PROVE  Counts'
<1>1. AliveSlots \in SUBSET Index /\ i \in AliveSlots /\ DeadSet \in SUBSET Index
      /\ i \notin DeadSet
  BY DEF AliveSlots, DeadSet, Dead
<1>2. Cardinality(AliveSlots \ {i}) = Cardinality(AliveSlots) - 1
  BY <1>1, IndexSubsetsFinite, FS_RemoveElement
<1>3. Cardinality(DeadSet \union {i}) = Cardinality(DeadSet) + 1
  BY <1>1, IndexSubsetsFinite, FS_AddElement
<1>4. CASE Reuse(i)
  <2>1. AliveSlots' = AliveSlots \ {i}
    BY <1>4 DEF Reuse, AliveSlots, TypeInv, TypeOK
  <2>2. DeadSet' = DeadSet
    BY <1>4, KeyInvParts, ReuseKeepsDead DEF DeadSet
  <2> QED
    BY <1>2, <1>4, <2>1, <2>2 DEF Reuse, Removed, Counts
<1>5. ASSUME version[i] = MaxVersion, deadSlots' = deadSlots + 1,
             \A j \in Index : bitmap'[j] <=> bitmap[j] /\ j # i
      PROVE  Counts'
  <2>1. AliveSlots' = AliveSlots \ {i}
    BY <1>5 DEF AliveSlots
  <2>2. [index |-> i, version |-> MaxVersion] \in issued
    BY <1>5 DEF KeyInv, VersionsCover, KeyOf
  <2>3. DeadSet' = DeadSet \union {i}
    BY <1>5, <2>2 DEF DeadSet, Dead, Removed
  <2> QED
    BY <1>2, <1>3, <1>5, <2>1, <2>3 DEF Removed, Counts
<1>6. CASE Retire(i)
  <2>1. \A j \in Index : bitmap'[j] <=> bitmap[j] /\ j # i
    BY <1>6 DEF Retire, TypeInv, TypeOK
  <2> QED
    BY <1>5, <1>6, <2>1 DEF Retire
<1>7. CASE Release(i)
  <2>1. \A j \in Slots(SlabOf(i)) : j # i => ~bitmap[j]
    BY <1>7, KeyInvParts, OthersDied DEF Release, Dead
  <2>2. \A j \in Index : bitmap'[j] <=> bitmap[j] /\ j # i
    BY <1>7, <2>1 DEF Release, Blank, Slots, TypeInv, TypeOK
  <2> QED
    BY <1>5, <1>7, <2>2 DEF Release
<1> QED
  BY <1>4, <1>6, <1>7

(* clear keeps size_ the number of live slots.                             *)
LEMMA CountsClear ==
    ASSUME TypeInv, KeyInv, Counts, Clear
    PROVE  Counts'
<1>1. \A j \in Index : ~bitmap'[j]
  BY DEF Clear
<1>2. AliveSlots' = {}
  BY <1>1 DEF AliveSlots
<1>3. ASSUME NEW j \in AllDying
      PROVE  j \in Index /\ bitmap[j] /\ [index |-> j, version |-> MaxVersion] \in issued
  BY DEF AllDying, KeyInv, VersionsCover, KeyOf
<1>4. ASSUME NEW j \in Index, bitmap[j], [index |-> j, version |-> MaxVersion] \in issued
      PROVE  j \in AllDying
  <2>1. Present(j)
    BY <1>4 DEF KeyInv, AliveBitsMatch
  <2>2. MaxVersion <= version[j]
    BY <1>4, <2>1 DEF KeyInv, VersionsCover
  <2>3. version[j] \in 0 .. MaxVersion /\ MaxVersion \in Nat
    BY SizeAssumption DEF TypeInv, TypeOK, Version
  <2> QED
    BY <1>4, <2>2, <2>3 DEF AllDying
<1>5. DeadSet' = DeadSet \union AllDying
  BY <1>1, <1>3, <1>4 DEF DeadSet, Dead, Clear
<1>6. DeadSet \intersect AllDying = {}
  BY DEF DeadSet, Dead, AllDying
<1>7. DeadSet \in SUBSET Index /\ AllDying \in SUBSET Index
  BY DEF DeadSet, AllDying
<1>8. Cardinality(DeadSet \union AllDying) = Cardinality(DeadSet)
        + Cardinality(AllDying) - Cardinality(DeadSet \intersect AllDying)
  BY <1>7, IndexSubsetsFinite, FS_Union
<1>9. Cardinality({}) = 0
  BY FS_EmptySet
<1>10. Cardinality(DeadSet \union AllDying)
         = Cardinality(DeadSet) + Cardinality(AllDying)
  BY <1>6, <1>7, <1>8, <1>9, IndexSubsetsFinite
<1> QED
  BY <1>2, <1>5, <1>9, <1>10 DEF Clear, Counts

(* Every step before the first recycling does.                             *)
LEMMA CountsStep ==
    ASSUME TypeInv, KeyInv, Counts, [NextUntilRecycle]_vars
    PROVE  Counts'
<1> DEFINE to1 == nextBase + SlotsPerSlab
<1>1. PICK L \in SUBSET Index : Linked(L)
  BY DEF KeyInv, FreeListLinked
<1>2. ASSUME UNCHANGED <<bitmap, issued, size, deadSlots>> PROVE Counts'
  BY <1>2 DEF Counts, AliveSlots, DeadSet, Dead
<1>3. ASSUME NEW v \in Values, TryEmplace(v) PROVE Counts'
  <2>1. CASE CanAllocate /\ AddSlabs(to1)
             /\ Construct(nextBase, v, GrownVersions(to1), GrownLinks(to1))
    <3>1. OnGrid(to1) /\ to1 \in Int /\ nextBase < to1
          /\ to1 - SlotsPerSlab = nextBase
      BY <2>1, GridStep, SizeAssumption DEF CanAllocate, TypeInv, OnGrid
    <3>2. Ready(L \union Grown(to1), nextBase, GrownVersions(to1), GrownLinks(to1))
      BY <1>1, <2>1, <3>1, ReadyAfterGrowth
    <3>3. nextBase \in L \union Grown(to1)
      BY <3>1, SizeAssumption DEF Grown, TypeInv, OnGrid
    <3> QED
      BY <2>1, <3>2, <3>3, CountsConstruct
  <2>2. CASE HeadUsable /\ UNCHANGED <<slabs, nextBase>>
             /\ Construct(freeHead, v, version, storage)
    <3>1. freeHead \in L
      BY <1>1, <2>2, IndexIsInt DEF Linked, ListShape, HeadUsable
    <3>2. Ready(L, freeHead, version, storage)
      BY <1>1, <2>2, ReadyAsItStands
    <3> QED
      BY <2>2, <3>1, <3>2, CountsConstruct
  <2> QED
    BY <1>3, <2>1, <2>2 DEF TryEmplace
<1>4. ASSUME NEW k \in Key, Erase(k) \/ UseErases(k) PROVE Counts'
  <2>1. k.index \in Index /\ bitmap[k.index]
    BY <1>4 DEF Erase, UseErases, EraseFinds, Key
  <2> QED
    BY <1>4, <2>1, CountsRemoval DEF Erase, UseErases
<1>5. ASSUME Reset PROVE Counts'
  <2>1. AliveSlots' = {} /\ DeadSet' = {}
    BY <1>5 DEF Reset, AliveSlots, DeadSet, Dead
  <2> QED
    BY <1>5, <2>1, FS_EmptySet DEF Reset, Counts
<1>6. ASSUME NEW k \in Key, PopThrows(k) \/ Use(k) PROVE Counts'
  BY <1>2, <1>6 DEF PopThrows, Use
<1>7. ASSUME NEW to \in SlabEnds, Reserve(to) PROVE Counts'
  BY <1>2, <1>7 DEF Reserve
<1>8. ASSUME EmplaceThrows \/ Abort \/ UNCHANGED vars PROVE Counts'
  BY <1>2, <1>8 DEF EmplaceThrows, ConstructorThrows, Abort, vars
<1> QED
  BY <1>3, <1>4, <1>5, <1>6, <1>7, <1>8, CountsClear
     DEF NextUntilRecycle, EmplaceAborts

(* size(), statistics().dead_slots and every slab's dead_count_ are exact. *)
THEOREM CountersExact ==
    ASSUME PartialWrites = FALSE
    PROVE  SpecUntilRecycle => []AccountingExact
<1>1. Init => TypeInv /\ KeyInv /\ Counts
  <2>1. Init => AliveSlots = {} /\ DeadSet = {}
    BY DEF Init, AliveSlots, DeadSet, Dead
  <2> QED
    BY <2>1, TypeInit, BlankKeyInv, FS_EmptySet DEF Init, Counts
<1>2. TypeInv /\ KeyInv /\ Counts /\ [NextUntilRecycle]_vars
        => (TypeInv /\ KeyInv /\ Counts)'
  BY TypeStep, KeyInvStep, CountsStep DEF Next
<1>3. KeyInv /\ Counts => AccountingExact
  BY DEF KeyInv, DeadCounted, DeadOf, Counts, AliveSlots, DeadSet, AccountingExact
<1> QED
  BY <1>1, <1>2, <1>3, PTL DEF SpecUntilRecycle

-----------------------------------------------------------------------------
(* Liveness of slots, whatever the free list has become.  These facts need *)
(* neither a sound free list nor fresh keys, so they survive corrupted     *)
(* bytes and recycling.                                                    *)

(* The two records of liveness agree, and size_ covers the alive slots.    *)
AliveInv == AliveBitsMatch /\ Cardinality(AliveSlots) <= size

(* A new map has no live slot to disagree about.                           *)
LEMMA AliveInit == ASSUME Init PROVE AliveInv
<1>1. AliveSlots = {}
  BY DEF Init, AliveSlots
<1>2. Cardinality(AliveSlots) = 0
  BY <1>1, FS_EmptySet
<1> QED
  BY <1>2 DEF Init, AliveInv, AliveBitsMatch

(* One slot more is alive, and one element more is counted.                *)
LEMMA ConstructKeepsAlive ==
    ASSUME TypeInv, AliveInv, NEW i \in Index, NEW v \in Values,
           NEW vers, NEW links, Construct(i, v, vers, links),
           slabs \subseteq slabs', SlabOf(i) \in slabs'
    PROVE  AliveInv'
<1>1. \A j \in Index : /\ bitmap'[j] = IF j = i THEN TRUE ELSE bitmap[j]
                       /\ aliveBit'[j] = IF j = i THEN HasAliveBit ELSE aliveBit[j]
  BY DEF Construct, TypeInv, TypeOK
<1>2. AliveBitsMatch'
  BY <1>1, PolicyAssumption DEF AliveInv, AliveBitsMatch, Present
<1>3. AliveSlots' = AliveSlots \union {i}
  BY <1>1 DEF AliveSlots
<1>4. IsFiniteSet(AliveSlots) /\ Cardinality(AliveSlots) \in Nat
  BY IndexSubsetsFinite DEF AliveSlots
<1>5. \/ Cardinality(AliveSlots \union {i}) = Cardinality(AliveSlots)
      \/ Cardinality(AliveSlots \union {i}) = Cardinality(AliveSlots) + 1
  BY <1>4, FS_AddElement
<1>6. size \in Int /\ size' = size + 1
  BY DEF Construct, TypeInv, TypeOK
<1>7. Cardinality(AliveSlots') <= size'
  BY <1>3, <1>4, <1>5, <1>6 DEF AliveInv
<1> QED
  BY <1>2, <1>7 DEF AliveInv

(* Slots go, slot i among them, and one element less is counted.           *)
LEMMA FewerAlive ==
    ASSUME TypeInv, AliveInv, NEW i \in Index, bitmap[i], ~bitmap'[i],
           \A j \in Index : bitmap'[j] => bitmap[j],
           size' = size - 1, AliveBitsMatch'
    PROVE  AliveInv'
<1>1. AliveSlots \in SUBSET Index /\ AliveSlots' \in SUBSET Index
      /\ i \in AliveSlots /\ AliveSlots' \in SUBSET (AliveSlots \ {i})
  BY DEF AliveSlots
<1>2. IsFiniteSet(AliveSlots \ {i})
      /\ Cardinality(AliveSlots \ {i}) = Cardinality(AliveSlots) - 1
  BY <1>1, IndexSubsetsFinite, FS_RemoveElement
<1>3. Cardinality(AliveSlots') <= Cardinality(AliveSlots \ {i})
  BY <1>1, <1>2, FS_Subset
<1>4. Cardinality(AliveSlots) \in Nat /\ Cardinality(AliveSlots') \in Nat
      /\ size \in Int
  BY <1>1, IndexSubsetsFinite DEF TypeInv, TypeOK
<1>5. Cardinality(AliveSlots') <= size'
  BY <1>2, <1>3, <1>4 DEF AliveInv
<1> QED
  BY <1>5 DEF AliveInv

(* A removal, short of recycling.                                          *)
LEMMA RemovalKeepsAlive ==
    ASSUME TypeInv, AliveInv, NEW i \in Index, bitmap[i],
           Reuse(i) \/ Retire(i) \/ Release(i), Removed
    PROVE  AliveInv'
<1>1. CASE Reuse(i) \/ Retire(i)
  <2>1. /\ aliveBit' = [aliveBit EXCEPT ![i] = FALSE]
        /\ bitmap' = [bitmap EXCEPT ![i] = FALSE]
        /\ UNCHANGED slabs
    BY <1>1 DEF Reuse, Retire
  <2>2. \A j \in Index : /\ bitmap'[j] = IF j = i THEN FALSE ELSE bitmap[j]
                         /\ aliveBit'[j] = IF j = i THEN FALSE ELSE aliveBit[j]
    BY <2>1 DEF TypeInv, TypeOK
  <2>3. AliveBitsMatch'
    BY <2>1, <2>2 DEF AliveInv, AliveBitsMatch, Present
  <2> QED
    BY <2>2, <2>3, FewerAlive DEF Removed
<1>2. CASE Release(i)
  <2>1. \A j \in Index : IF SlabOf(j) = SlabOf(i)
                         THEN ~bitmap'[j] /\ ~aliveBit'[j]
                         ELSE bitmap'[j] = bitmap[j] /\ aliveBit'[j] = aliveBit[j]
    BY <1>2 DEF Release, Blank
  <2>2. slabs' = slabs \ {SlabOf(i)}
    BY <1>2 DEF Release
  <2>3. AliveBitsMatch'
    BY <2>1, <2>2 DEF AliveInv, AliveBitsMatch, Present
  <2> QED
    BY <2>1, <2>3, FewerAlive DEF Removed
<1> QED
  BY <1>1, <1>2

(* Alive bits match again when a slab without other alive slots is moved.  *)
LEMMA RecycleKeepsBits ==
    ASSUME TypeInv, AliveBitsMatch, NEW i \in Index, bitmap[i], Recycle(i),
           HasAliveBit => \A j \in Slots(SlabOf(i)) \ {i} : ~bitmap[j]
    PROVE  AliveBitsMatch'
<1> DEFINE s == SlabOf(i)
           moved == Grown(nextBase + SlotsPerSlab)
           old(j) == j - nextBase + s * SlotsPerSlab
<1>1. /\ SlotsPerSlab \in Nat \ {0} /\ nextBase \in Nat
      /\ MaxSlots \in Nat \ {0} /\ MaxSlots % SlotsPerSlab = 0
  BY SizeAssumption DEF TypeInv, OnGrid
<1>2. s \in SlabIndex /\ s \in Nat
  BY SlabOfInRange DEF SlabIndex
<1>3. ASSUME NEW j \in moved PROVE old(j) \in Slots(s)
  <2>1. PICK r \in 0 .. SlotsPerSlab - 1 : r = j - nextBase
    BY <1>1 DEF Grown
  <2>2. old(j) = SlotsPerSlab * s + r /\ old(j) \in Nat
    BY <1>1, <1>2, <2>1
  <2>3. old(j) \div SlotsPerSlab = s
    <3>1. PICK q \in Int : q = s
      BY <1>2
    <3>2. (SlotsPerSlab * q + r) \div SlotsPerSlab = q
      BY <1>1, DivUnique
    <3> QED
      BY <2>2, <3>1, <3>2
  <2>4. old(j) < MaxSlots
    <3>1. PICK m \in Int : m = MaxSlots \div SlotsPerSlab
                           /\ MaxSlots = SlotsPerSlab * m
      BY <1>1, DivMod
    <3>2. s + 1 <= m
      BY <1>2, <3>1 DEF SlabIndex
    <3>3. SlotsPerSlab * (s + 1) <= SlotsPerSlab * m
      BY <1>1, <1>2, <3>1, <3>2
    <3>4. SlotsPerSlab * (s + 1) = SlotsPerSlab * s + SlotsPerSlab
      BY <1>1, <1>2
    <3> QED
      BY <1>1, <1>2, <2>1, <2>2, <3>1, <3>3, <3>4
  <2>5. old(j) \in Index
    BY <1>1, <2>2, <2>4 DEF Index
  <2> HIDE DEF old
  <2> QED
    BY <2>3, <2>5 DEF Slots, SlabOf
<1>4. /\ \A j \in Index : aliveBit'[j] =
             IF j \in moved THEN aliveBit[old(j)] /\ old(j) # i
             ELSE aliveBit[j] /\ SlabOf(j) # s
      /\ \A j \in Index : bitmap'[j] =
             (bitmap[j] /\ SlabOf(j) # s /\ j \notin moved)
      /\ slabs \ {s} \subseteq slabs'
  BY DEF Recycle
<1> HIDE DEF moved, old
<1>5. ASSUME NEW j \in Index
      PROVE  /\ aliveBit'[j] <=> HasAliveBit /\ bitmap'[j]
             /\ bitmap'[j] => Present(j)'
  <2>1. CASE j \in moved
    <3>1. old(j) \in Slots(s) /\ old(j) \in Index
      BY <1>3, <2>1 DEF Slots
    <3>2. old(j) = i \/ ~aliveBit[old(j)]
      BY <1>4, <3>1 DEF AliveBitsMatch
    <3> QED
      BY <1>4, <2>1, <3>2
  <2>2. CASE j \notin moved
    <3>1. aliveBit'[j] <=> HasAliveBit /\ bitmap'[j]
      BY <1>4, <2>2 DEF AliveBitsMatch
    <3>2. bitmap'[j] => Present(j)'
      BY <1>4, <2>2 DEF AliveBitsMatch, Present
    <3> QED
      BY <3>1, <3>2
  <2> QED
    BY <2>1, <2>2
<1>6. AliveBitsMatch'
  BY <1>5 DEF AliveBitsMatch
<1> QED
  BY <1>6

(* The recycler moves a slab whose alive bits are all clear: assert() sees *)
(* to it, or there are none.                                               *)
LEMMA RecycleKeepsAlive ==
    ASSUME TypeInv, AliveInv, NEW i \in Index, bitmap[i], Recycle(i), Removed,
           Asserts \/ ~HasAliveBit
    PROVE  AliveInv'
<1>1. Asserts => \A j \in Slots(SlabOf(i)) \ {i} : ~bitmap[j]
  BY DEF Recycle
<1>2. AliveBitsMatch'
  BY <1>1, RecycleKeepsBits DEF AliveInv
<1>3. ~bitmap'[i] /\ \A j \in Index : bitmap'[j] => bitmap[j]
  BY DEF Recycle
<1> QED
  BY <1>2, <1>3, FewerAlive DEF Removed

(* Every step keeps the two records of what is alive in agreement, if      *)
(* recycling cannot leave alive bits behind.                               *)
LEMMA AliveStep ==
    ASSUME TypeInv, AliveInv, [Next]_vars,
           Asserts \/ ~HasAliveBit \/ [NextUntilRecycle]_vars
    PROVE  AliveInv'
<1> DEFINE to1 == nextBase + SlotsPerSlab
<1>1. ASSUME UNCHANGED <<bitmap, aliveBit, size>>, slabs \subseteq slabs'
      PROVE  AliveInv'
  BY <1>1 DEF AliveInv, AliveBitsMatch, AliveSlots, Present
<1>13. ASSUME NEW i \in Index, NEW v \in Values, NEW vers, NEW links,
             Construct(i, v, vers, links), slabs \subseteq slabs',
             SlabOf(i) \in slabs'
      PROVE  AliveInv'
  BY <1>13, ConstructKeepsAlive
<1>2. ASSUME NEW v \in Values, TryEmplace(v) PROVE AliveInv'
  <2>1. CASE CanAllocate /\ AddSlabs(to1)
             /\ Construct(nextBase, v, GrownVersions(to1), GrownLinks(to1))
    <3>1. nextBase \in Index /\ nextBase \in Grown(to1)
      BY <2>1, SizeAssumption DEF CanAllocate, TypeInv, OnGrid, Index, Grown
    <3>2. slabs \subseteq slabs' /\ SlabOf(nextBase) \in slabs'
      BY <2>1, <3>1 DEF AddSlabs
    <3> QED
      BY <1>13, <2>1, <3>1, <3>2
  <2>2. CASE HeadUsable /\ UNCHANGED <<slabs, nextBase>>
             /\ Construct(freeHead, v, version, storage)
    <3>1. freeHead \in Index /\ slabs \subseteq slabs'
          /\ SlabOf(freeHead) \in slabs'
      BY <2>2 DEF HeadUsable, Present
    <3> QED
      BY <1>13, <2>2, <3>1
  <2> QED
    BY <1>2, <2>1, <2>2 DEF TryEmplace
<1>3. CASE EmplaceThrows
  BY <1>1, <1>3 DEF EmplaceThrows, ConstructorThrows, AddSlabs
<1>4. ASSUME NEW to \in SlabEnds, Reserve(to) PROVE AliveInv'
  BY <1>1, <1>4 DEF Reserve, AddSlabs
<1>5. ASSUME NEW k \in Key, Erase(k) \/ UseErases(k) PROVE AliveInv'
  <2>1. k.index \in Index /\ bitmap[k.index]
    BY <1>5 DEF Erase, UseErases, EraseFinds, Key
  <2> QED
    BY <1>5, <2>1, RemovalKeepsAlive DEF Erase, UseErases
<1>6. ASSUME NEW k \in Key, PopThrows(k) \/ Use(k) PROVE AliveInv'
  BY <1>1, <1>6 DEF PopThrows, Use
<1>7. CASE Clear \/ Reset
  <2>1. /\ \A j \in Index : ~bitmap'[j] /\ (aliveBit'[j] => aliveBit[j] /\ ~bitmap[j])
        /\ size' = 0
    BY <1>7 DEF Clear, Reset
  <2>2. AliveBitsMatch'
    BY <2>1 DEF AliveInv, AliveBitsMatch
  <2>3. AliveSlots' = {}
    BY <2>1 DEF AliveSlots
  <2> QED
    BY <2>1, <2>2, <2>3, FS_EmptySet DEF AliveInv
<1>8. CASE Abort \/ UNCHANGED vars
  BY <1>1, <1>8 DEF Abort, vars
<1>9. ASSUME NEW k \in Key, EraseRecycles(k), Asserts \/ ~HasAliveBit
      PROVE  AliveInv'
  <2>1. k.index \in Index /\ bitmap[k.index]
    BY <1>9 DEF EraseRecycles, EraseFinds, Key
  <2> QED
    BY <1>9, <2>1, RecycleKeepsAlive DEF EraseRecycles
<1>10. ASSUME NEW k \in Key, RecycleFails(k) PROVE AliveInv'
  <2>1. k.index \in Index /\ bitmap[k.index]
    BY <1>10 DEF RecycleFails, EraseFinds, Key
  <2>2. /\ aliveBit' = [aliveBit EXCEPT ![k.index] = FALSE]
        /\ bitmap' = [bitmap EXCEPT ![k.index] = FALSE]
        /\ UNCHANGED slabs /\ Removed
    BY <1>10, Zenon DEF RecycleFails
  <2>3. \A j \in Index :
            /\ bitmap'[j] = IF j = k.index THEN FALSE ELSE bitmap[j]
            /\ aliveBit'[j] = IF j = k.index THEN FALSE ELSE aliveBit[j]
    BY <2>2 DEF TypeInv, TypeOK
  <2>4. AliveBitsMatch'
    BY <2>2, <2>3 DEF AliveInv, AliveBitsMatch, Present
  <2> QED
    BY <2>1, <2>2, <2>3, <2>4, FewerAlive DEF Removed
<1>11. ASSUME [NextUntilRecycle]_vars PROVE AliveInv'
  BY <1>2, <1>3, <1>4, <1>5, <1>6, <1>7, <1>8, <1>11
     DEF NextUntilRecycle, EmplaceAborts
<1>12. ASSUME NEW k \in Key, RecycleAborts(k) PROVE AliveInv'
  BY <1>8, <1>12 DEF RecycleAborts
<1> QED
  BY <1>9, <1>10, <1>11, <1>12 DEF Next

(* What the records of liveness mean to a client.                          *)
LEMMA AliveInvLookups ==
    ASSUME TypeInv, AliveInv
    PROVE  LookupsAgree /\ SizeNeverWraps
<1> DEFINE Valid == {k \in Key : IsValid(k)}
<1>1. ASSUME NEW k \in Key
      PROVE  /\ IsValid(k) <=> EraseFinds(k)
             /\ IsValid(k) => k.index \in AliveSlots /\ version[k.index] = k.version
  <2>1. k.index \in Index
    BY DEF Key
  <2> QED
    BY <2>1 DEF AliveInv, AliveBitsMatch, IsValid, EraseFinds, AliveSlots
<1> DEFINE f == [k \in Valid |-> k.index]
<1>2. f \in [Valid -> AliveSlots]
  BY <1>1
<1>3. ASSUME NEW a \in Valid, NEW b \in Valid, f[a] = f[b] PROVE a = b
  <2>1. a.index = b.index /\ a.version = b.version
    BY <1>1, <1>3
  <2> QED
    BY <2>1 DEF Key
<1>4. f \in Injection(Valid, AliveSlots)
  BY <1>2, <1>3 DEF Injection, IsInjective
<1>5. IsFiniteSet(AliveSlots) /\ Cardinality(AliveSlots) \in Nat /\ size \in Int
  BY IndexSubsetsFinite DEF AliveSlots, TypeInv, TypeOK
<1> HIDE DEF f, Valid
<1>6. IsFiniteSet(Valid) /\ Cardinality(Valid) <= Cardinality(AliveSlots)
  BY <1>4, <1>5, FS_Injection
<1>7. Cardinality(Valid) \in Nat
  BY <1>6, FS_CardinalityType
<1>8. Cardinality(Valid) <= size
  BY <1>5, <1>6, <1>7 DEF AliveInv
<1> QED
  BY <1>1, <1>8 DEF LookupsAgree, SizeNeverWraps, Valid

(* Until the first recycling use() and erase() accept the same keys, and   *)
(* size_ does not wrap: whatever throwing constructors wrote.              *)
THEOREM LookupsAlwaysAgree == SpecUntilRecycle => [](LookupsAgree /\ SizeNeverWraps)
<1>1. Init => TypeInv /\ AliveInv
  BY TypeInit, AliveInit
<1>2. TypeInv /\ AliveInv /\ [NextUntilRecycle]_vars => (TypeInv /\ AliveInv)'
  BY TypeStep, AliveStep DEF Next
<1>3. TypeInv /\ AliveInv => LookupsAgree /\ SizeNeverWraps
  BY AliveInvLookups
<1> QED
  BY <1>1, <1>2, <1>3, PTL DEF SpecUntilRecycle

(* With assert() compiled in, or where keys embed no alive bit, they do so *)
(* in every behaviour, through recycling and its failure.                  *)
THEOREM LookupsAgreeThroughRecycling ==
    ASSUME Asserts \/ ~HasAliveBit
    PROVE  Spec => []LookupsAgree
<1>1. Init => TypeInv /\ AliveInv
  BY TypeInit, AliveInit
<1>2. TypeInv /\ AliveInv /\ [Next]_vars => (TypeInv /\ AliveInv)'
  BY TypeStep, AliveStep
<1>3. TypeInv /\ AliveInv => LookupsAgree
  BY AliveInvLookups
<1> QED
  BY <1>1, <1>2, <1>3, PTL DEF Spec

(* size_ is never decremented below zero, on a corrupted free list too.    *)
THEOREM SizeNeverBelowZero ==
    ASSUME Asserts \/ ~HasAliveBit
    PROVE  Spec => []SizeNeverWraps
<1>1. Init => TypeInv /\ AliveInv
  BY TypeInit, AliveInit
<1>2. TypeInv /\ AliveInv /\ [Next]_vars => (TypeInv /\ AliveInv)'
  BY TypeStep, AliveStep
<1>3. TypeInv /\ AliveInv => SizeNeverWraps
  BY AliveInvLookups
<1> QED
  BY <1>1, <1>2, <1>3, PTL DEF Spec

(* A single-slab map never recycles, so what holds until the first         *)
(* recycling holds of all its behaviours.                                  *)
THEOREM SingleSlabNeverRecycles ==
    ASSUME SingleSlab
    PROVE  Spec => SpecUntilRecycle
<1>1. [Next]_vars => [NextUntilRecycle]_vars
  BY DEF Next, EraseRecycles, Recycle, RecycleFails, RecycleAborts, Exhausted
<1> QED
  BY <1>1, PTL DEF Spec, SpecUntilRecycle

-----------------------------------------------------------------------------
(* Recycling, of a slab whose other slots are counted dead.                *)

(* The slab moves to index range [nextBase, nextBase + SlotsPerSlab).      *)
LEMMA RecycleRange ==
    ASSUME TypeInv, SlotsInv, NEW i \in Index, bitmap[i], Recycle(i), Removed
    PROVE  /\ nextBase \in Index /\ nextBase # 0
           /\ SlabOf(nextBase) \notin slabs /\ SlabOf(i) \in slabs
           /\ slabs \subseteq SlabIndex /\ SlabOf(nextBase) \in SlabIndex
           /\ Grown(nextBase + SlotsPerSlab) \in SUBSET Index
           /\ \A j \in Index :
                  SlabOf(j) = SlabOf(nextBase)
                      <=> j \in Grown(nextBase + SlotsPerSlab)
           /\ nextBase' % SlotsPerSlab = 0
<1> DEFINE moved == Grown(nextBase + SlotsPerSlab)
<1>1. /\ SlotsPerSlab \in Nat \ {0} /\ nextBase \in Nat /\ MaxSlots \in Nat
      /\ nextBase \in Int /\ nextBase % SlotsPerSlab = 0
  BY SizeAssumption DEF TypeInv, OnGrid
<1>2. nextBase + SlotsPerSlab <= MaxSlots
  BY <1>1 DEF Recycle, NoRoom
<1>3. nextBase \in Index /\ moved \in SUBSET Index
  BY <1>1, <1>2 DEF Index, Grown
<1>4. SlabOf(i) \in slabs /\ i < nextBase
  BY DEF SlotsInv, AliveBitsMatch, SlabsOnGrid, Present
<1>5. nextBase # 0
  BY <1>1, <1>4 DEF Index
<1>6. SlabOf(nextBase) \notin slabs
  BY <1>1, <1>3 DEF SlotsInv, SlabsOnGrid, Present
<1>7. (nextBase + SlotsPerSlab) % SlotsPerSlab = 0
  BY ONLY <1>1, NextBoundary
<1>8. ASSUME NEW j \in Index, SlabOf(j) = SlabOf(nextBase) PROVE j \in moved
  <2>1. /\ j \in Nat /\ j \div SlotsPerSlab = nextBase \div SlotsPerSlab
        /\ nextBase \div SlotsPerSlab = j \div SlotsPerSlab
    BY <1>8 DEF SlabOf, Index
  <2>2. PICK b \in Nat : b = nextBase + SlotsPerSlab
    BY <1>1
  <2>3. nextBase < b /\ b % SlotsPerSlab = 0
    BY <1>1, <1>7, <2>2
  <2>4. j < b
    BY ONLY <1>1, <2>1, <2>2, <2>3, SameSide
  <2>5. j < nextBase => nextBase < nextBase
    BY ONLY <1>1, <2>1, SameSide
  <2> QED
    BY <1>1, <2>1, <2>2, <2>4, <2>5 DEF Grown
<1>9. ASSUME NEW j \in moved PROVE SlabOf(j) = SlabOf(nextBase)
  <2>1. nextBase = SlotsPerSlab * (nextBase \div SlotsPerSlab)
          /\ nextBase \div SlotsPerSlab \in Int
    BY <1>1, DivMod
  <2>2. PICK q \in Int : q = nextBase \div SlotsPerSlab
    BY <2>1
  <2>3. PICK r \in 0 .. SlotsPerSlab - 1 : r = j - nextBase
    BY <1>1 DEF Grown
  <2>4. j = SlotsPerSlab * q + r
    BY <1>1, <2>1, <2>2, <2>3 DEF Grown
  <2>5. (SlotsPerSlab * q + r) \div SlotsPerSlab = q
    BY <1>1, DivUnique
  <2> QED
    BY <2>2, <2>4, <2>5 DEF SlabOf
<1>10. nextBase' % SlotsPerSlab = 0
  BY <1>7 DEF Recycle
<1>11. slabs \subseteq SlabIndex /\ SlabOf(nextBase) \in SlabIndex
  BY <1>3, SlabOfInRange DEF TypeInv, TypeOK
<1> QED
  BY <1>3, <1>4, <1>5, <1>6, <1>8, <1>9, <1>10, <1>11

(* What becomes of each slot: those of the new range are fresh, those of   *)
(* the old one are gone, the others stay as they were.                     *)
LEMMA RecycleSlots ==
    ASSUME TypeInv, SlotsInv, NEW i \in Index, bitmap[i], Recycle(i), Removed
    PROVE  \A j \in Index :
               /\ j \in Grown(nextBase + SlotsPerSlab) =>
                      Present(j)' /\ ~bitmap'[j] /\ version'[j] = 0
               /\ SlabOf(j) = SlabOf(i) => ~Present(j)' /\ ~bitmap'[j]
               /\ j \notin Grown(nextBase + SlotsPerSlab)
                      /\ SlabOf(j) # SlabOf(i) =>
                      /\ Present(j)' <=> Present(j)
                      /\ bitmap'[j] <=> bitmap[j]
                      /\ version'[j] = version[j] /\ storage'[j] = storage[j]
<1> SUFFICES ASSUME NEW j \in Index
    PROVE  /\ j \in Grown(nextBase + SlotsPerSlab) =>
                  Present(j)' /\ ~bitmap'[j] /\ version'[j] = 0
           /\ SlabOf(j) = SlabOf(i) => ~Present(j)' /\ ~bitmap'[j]
           /\ j \notin Grown(nextBase + SlotsPerSlab)
                  /\ SlabOf(j) # SlabOf(i) =>
                  /\ Present(j)' <=> Present(j)
                  /\ bitmap'[j] <=> bitmap[j]
                  /\ version'[j] = version[j] /\ storage'[j] = storage[j]
  OBVIOUS
<1>1. /\ SlabOf(nextBase) # SlabOf(i)
      /\ SlabOf(j) = SlabOf(nextBase)
             <=> j \in Grown(nextBase + SlotsPerSlab)
  BY RecycleRange
<1>2. Present(j)' <=> (Present(j) /\ SlabOf(j) # SlabOf(i))
                          \/ SlabOf(j) = SlabOf(nextBase)
  BY DEF Recycle, Present
<1>3. /\ version'[j] =
             IF SlabOf(j) = SlabOf(i) \/ j \in Grown(nextBase + SlotsPerSlab)
             THEN 0 ELSE version[j]
      /\ bitmap'[j] <=> bitmap[j] /\ SlabOf(j) # SlabOf(i)
                          /\ j \notin Grown(nextBase + SlotsPerSlab)
      /\ j \notin Grown(nextBase + SlotsPerSlab) /\ SlabOf(j) # SlabOf(i) =>
             storage'[j] = storage[j]
  BY DEF Recycle
<1> QED
  BY <1>1, <1>2, <1>3

(* Keys of the new range were never issued.                                *)
LEMMA RecycledUnissued ==
    ASSUME TypeInv, SlotsInv, NEW i \in Index, bitmap[i], Recycle(i), Removed,
           NEW j \in Grown(nextBase + SlotsPerSlab), NEW v
    PROVE  [index |-> j, version |-> v] \notin issued
<1>1. nextBase \in Nat /\ nextBase <= j /\ j \in Nat
  BY RecycleRange DEF Grown, Index
<1>2. [index |-> j, version |-> v] \in issued => j < nextBase
  BY DEF SlotsInv, VersionsCover
<1> QED
  BY <1>1, <1>2

(* Every slot of the new range can be constructed in, and so can those     *)
(* before it.                                                              *)
LEMMA RecycleFrees ==
    ASSUME TypeInv, SlotsInv, NEW i \in Index, bitmap[i], Recycle(i), Removed
    PROVE  \A j \in Grown(nextBase + SlotsPerSlab) : Unused(j)'
<1>1. ASSUME NEW j \in Grown(nextBase + SlotsPerSlab) PROVE Unused(j)'
  <2>1. j \in Index
    BY RecycleRange
  <2>2. Present(j)' /\ ~bitmap'[j]
    BY <2>1, RecycleSlots
  <2>3. issued' = issued
    BY DEF Removed
  <2>4. [index |-> j, version |-> version'[j]] \notin issued
    BY RecycledUnissued
  <2> QED
    BY <2>2, <2>3, <2>4 DEF Unused, KeyOf
<1> QED
  BY <1>1

(* The slots, and the counts of the dead among them, stay sound.           *)
LEMMA RecycleKeepsSlots ==
    ASSUME TypeInv, SlotsInv, NEW i \in Index, bitmap[i], Recycle(i), Removed
    PROVE  SlotsInv'
<1> DEFINE s == SlabOf(i)
           moved == Grown(nextBase + SlotsPerSlab)
<1> PICK t : t = SlabOf(nextBase)
  OBVIOUS
<1>1. /\ nextBase \in Nat /\ SlotsPerSlab \in Nat \ {0}
      /\ nextBase' = nextBase + SlotsPerSlab /\ issued' = issued
  BY SizeAssumption DEF Recycle, Removed, TypeInv, OnGrid
<1>2. \A k \in issued : k.index \in Index
  BY DEF TypeInv, TypeOK, Key
<1>3. /\ nextBase # 0 /\ t \notin slabs /\ s \in slabs /\ t \in SlabIndex
      /\ slabs \subseteq SlabIndex /\ nextBase' % SlotsPerSlab = 0
      /\ \A j \in Index : SlabOf(j) = t <=> j \in moved
  BY RecycleRange
<1>4. \A j \in moved : nextBase <= j /\ j < nextBase' /\ j \in Nat
  BY <1>1 DEF Grown
<1>5. \A j \in Index :
          /\ j \in moved => Present(j)' /\ ~bitmap'[j] /\ version'[j] = 0
          /\ SlabOf(j) = s => ~Present(j)' /\ ~bitmap'[j]
          /\ j \notin moved /\ SlabOf(j) # s =>
                 /\ Present(j)' <=> Present(j)
                 /\ bitmap'[j] <=> bitmap[j]
                 /\ version'[j] = version[j] /\ storage'[j] = storage[j]
  BY RecycleSlots
<1>6. \A j \in moved : \A v : [index |-> j, version |-> v] \notin issued
  BY RecycledUnissued
<1>7. SlabsOnGrid'
  <2>1. ASSUME NEW j \in Index, Present(j)' PROVE j < nextBase'
    <3>1. CASE j \in moved
      BY <1>4, <3>1
    <3>2. CASE j \notin moved
      <4>1. Present(j)
        BY <1>5, <2>1, <3>2
      <4>2. j < nextBase /\ j \in Nat
        BY <4>1 DEF SlotsInv, SlabsOnGrid, Index
      <4> QED
        BY <1>1, <4>2
    <3> QED
      BY <3>1, <3>2
  <2> QED
    BY <1>3, <2>1 DEF SlabsOnGrid
<1>8. AliveBitsMatch'
  <2>1. \A j \in Slots(s) \ {i} : ~bitmap[j]
    BY OthersDied DEF Recycle, Dead
  <2> QED
    BY <2>1, RecycleKeepsBits DEF SlotsInv
<1> HIDE DEF s, moved
<1>9. VersionsCover'
  <2>1. ASSUME NEW k \in issued'
        PROVE  k.index < nextBase' /\ (Present(k.index)' => k.version <= version'[k.index])
    <3>1. k \in issued /\ k.index \in Index /\ k.index \in Nat
            /\ k.index < nextBase
      BY <1>1, <1>2 DEF SlotsInv, VersionsCover, Index
    <3>2. k.index \notin moved
      BY <1>1, <1>4, <3>1
    <3>3. Present(k.index)' => k.version <= version'[k.index]
      BY <1>5, <3>1, <3>2 DEF SlotsInv, VersionsCover
    <3> QED
      BY <1>1, <3>1, <3>3
  <2>2. ASSUME NEW j \in Index, bitmap'[j]
        PROVE  KeyOf(j)' \in issued' /\ storage'[j] \in Values
    <3>1. /\ bitmap[j] /\ version'[j] = version[j] /\ storage'[j] = storage[j]
      BY <1>5, <2>2
    <3> QED
      BY <1>1, <3>1 DEF SlotsInv, VersionsCover, KeyOf
  <2>3. ASSUME NEW j \in Index, Present(j)', ~bitmap'[j], version'[j] < MaxVersion
        PROVE  KeyOf(j)' \notin issued'
    <3>1. CASE j \in moved
      BY <1>1, <1>6, <3>1 DEF KeyOf
    <3>2. CASE j \notin moved
      <4>1. Present(j) /\ ~bitmap[j] /\ version'[j] = version[j]
        BY <1>5, <2>3, <3>2
      <4> QED
        BY <1>1, <2>3, <4>1 DEF SlotsInv, VersionsCover, KeyOf
    <3> QED
      BY <3>1, <3>2
  <2>4. NullKey \notin issued' /\ (Present(0)' => version'[0] # 0)
    <3>1. 0 \in Index
      BY SizeAssumption DEF Index
    <3>2. 0 \notin moved
      BY <1>1, <1>3, <1>4
    <3> QED
      BY <1>1, <1>5, <3>1, <3>2 DEF SlotsInv, VersionsCover
  <2> QED
    BY <2>1, <2>2, <2>3, <2>4 DEF VersionsCover
<1>10. DeadCounted'
  <2>1. /\ deadCount' = [deadCount EXCEPT ![s] = 0, ![t] = 0]
        /\ slabs' = (slabs \ {s}) \union {t}
    BY DEF Recycle, s
  <2>2. deadCount \in [SlabIndex -> Nat]
    BY DEF TypeInv, TypeOK
  <2>3. DeadOf(t)' = {}
    <3>1. ASSUME NEW j \in Index, SlabOf(j) = t PROVE ~Dead(j)'
      BY <1>1, <1>3, <1>6, <3>1 DEF Dead
    <3> QED
      BY <3>1 DEF DeadOf, Slots
  <2>4. ASSUME NEW u \in slabs, u # s PROVE DeadOf(u)' = DeadOf(u)
    <3>1. ASSUME NEW j \in Index, SlabOf(j) = u PROVE Dead(j)' <=> Dead(j)
      <4>1. bitmap'[j] <=> bitmap[j]
        BY <1>3, <1>5, <2>4, <3>1
      <4> QED
        BY <1>1, <4>1 DEF Dead
    <3> QED
      BY <3>1 DEF DeadOf, Slots
  <2>5. ASSUME NEW u \in slabs' PROVE deadCount'[u] = Cardinality(DeadOf(u)')
    <3>1. CASE u = t
      <4>1. deadCount'[u] = 0
        BY <1>3, <2>1, <2>2, <3>1
      <4> QED
        BY <2>3, <3>1, <4>1, FS_EmptySet
    <3>2. CASE u # t
      <4>1. u \in slabs /\ u # s
        BY <2>1, <3>2
      <4>2. deadCount'[u] = deadCount[u]
        BY <1>3, <2>1, <2>2, <3>2, <4>1
      <4> QED
        BY <2>4, <4>1, <4>2 DEF SlotsInv, DeadCounted
    <3> QED
      BY <3>1, <3>2
  <2>6. \A u \in SlabIndex \ slabs' : deadCount'[u] = 0
    BY <1>3, <2>1, <2>2 DEF SlotsInv, DeadCounted
  <2> QED
    BY <2>5, <2>6 DEF DeadCounted
<1> QED
  BY <1>7, <1>8, <1>9, <1>10 DEF SlotsInv

-----------------------------------------------------------------------------
(* A slot map is a keyed store.  Each step of a map that has not recycled  *)
(* a slab is one step of the store on the elements use() reaches, or none. *)

ValidKeys == {x \in Key : IsValid(x)}

(* Which keys work is read off the bitmap and the versions.                *)
LEMMA ValidMeans ==
    ASSUME KeyInv, NEW k \in Key
    PROVE  IsValid(k) <=> bitmap[k.index] /\ version[k.index] = k.version
BY KeyInvLookups

(* The same in the next state.                                             *)
LEMMA ValidMeansNext ==
    ASSUME KeyInv', NEW k \in Key
    PROVE  IsValid(k)' <=> bitmap'[k.index] /\ version'[k.index] = k.version
<1>1. k.index \in Index
  BY DEF Key
<1>2. /\ aliveBit'[k.index] <=> HasAliveBit /\ bitmap'[k.index]
      /\ bitmap'[k.index] => Present(k.index)'
  BY <1>1 DEF KeyInv, AliveBitsMatch
<1> QED
  BY <1>2 DEF IsValid

(* A step that leaves the alive slots alone leaves the elements alone.     *)
LEMMA ElementsStay ==
    ASSUME KeyInv, KeyInv',
           \A i \in Index : bitmap'[i] <=> bitmap[i],
           \A i \in Index : bitmap[i] => version'[i] = version[i]
                                         /\ storage'[i] = storage[i]
    PROVE  Elements' = Elements
<1>1. ASSUME NEW k \in Key PROVE IsValid(k)' <=> IsValid(k)
  <2>1. k.index \in Index
    BY DEF Key
  <2> QED
    BY <2>1, ValidMeans, ValidMeansNext
<1>2. ValidKeys' = ValidKeys
  BY <1>1 DEF ValidKeys
<1>3. \A k \in ValidKeys : storage'[k.index] = storage[k.index]
  <2>1. ASSUME NEW k \in ValidKeys PROVE k.index \in Index /\ bitmap[k.index]
    BY ValidMeans DEF ValidKeys, Key
  <2> QED
    BY <2>1
<1>4. Elements = [k \in ValidKeys |-> storage[k.index]]
  BY DEF Elements, ValidKeys
<1>5. Elements' = [k \in ValidKeys' |-> storage'[k.index]]
  BY DEF Elements, ValidKeys
<1> QED
  BY <1>2, <1>3, <1>4, <1>5

(* There are no more elements than alive slots.                            *)
LEMMA ElementsBounded ==
    ASSUME KeyInv, NEW i \in Index, ~bitmap[i]
    PROVE  IsFiniteSet(ValidKeys) /\ Cardinality(ValidKeys) < MaxSlots
<1> DEFINE T == Index \ {i}
           f == [k \in ValidKeys |-> k.index]
<1>1. IsFiniteSet(Index) /\ Cardinality(Index) = MaxSlots /\ MaxSlots \in Nat
  <2>1. MaxSlots \in Nat \ {0} /\ 0 \in Int /\ MaxSlots - 1 \in Int
    BY SizeAssumption
  <2>2. IsFiniteSet(0 .. MaxSlots - 1)
        /\ Cardinality(0 .. MaxSlots - 1)
             = IF 0 > MaxSlots - 1 THEN 0 ELSE MaxSlots - 1 - 0 + 1
    BY ONLY <2>1, FS_Interval
  <2> QED
    BY <2>1, <2>2 DEF Index
<1>2. IsFiniteSet(T) /\ Cardinality(T) = MaxSlots - 1
  BY <1>1, FS_RemoveElement
<1>3. ASSUME NEW k \in ValidKeys
      PROVE  k.index \in T /\ version[k.index] = k.version
             /\ k = [index |-> k.index, version |-> k.version]
  BY ValidMeans DEF ValidKeys, Key
<1>4. f \in [ValidKeys -> T]
  BY <1>3
<1>5. \A a, b \in ValidKeys : f[a] = f[b] => a = b
  BY <1>3
<1>6. f \in Injection(ValidKeys, T)
  BY <1>4, <1>5, Fun_IsInj
<1>7. IsFiniteSet(ValidKeys) /\ Cardinality(ValidKeys) <= MaxSlots - 1
  BY <1>2, <1>6, FS_Injection
<1>8. Cardinality(ValidKeys) \in Nat
  BY <1>7, FS_CardinalityType
<1> QED
  BY <1>1, <1>7, <1>8

(* The store counts its elements as the map's modules do.                  *)
LEMMA SameCardinality ==
    \A S : Store!Cardinality(S) = Cardinality(S)
BY DEF Store!Cardinality, Cardinality

(* emplace inserts one element under a key the store never used.           *)
LEMMA ConstructInserts ==
    ASSUME TypeInv, KeyInv, KeyInv', NEW L, NEW i \in L, NEW v \in Values,
           NEW vers, NEW links,
           Ready(L, i, vers, links), Construct(i, v, vers, links)
    PROVE  \E k \in Key \ {NullKey} : Store!Insert(k, v)
<1> DEFINE new == [index |-> i, version |-> vers[i]]
<1>1. i \in Index /\ Present(i)' /\ ~bitmap[i] /\ new \notin issued
      /\ vers \in [Index -> Version] /\ DOMAIN links = Index
      /\ vers[i] \in Version
  BY DEF Ready
<1>2. \A j \in Index : /\ version'[j] = vers[j]
                       /\ bitmap'[j] <=> bitmap[j] \/ j = i
                       /\ storage'[j] = IF j = i THEN v ELSE links[j]
  BY <1>1 DEF Construct, TypeInv, TypeOK
<1>3. new \in Key \ {NullKey}
  BY <1>1 DEF Key, NullKey, Ready
<1>4. ASSUME NEW k \in Key PROVE IsValid(k)' <=> IsValid(k) \/ k = new
  <2>1. k.index \in Index /\ k = [index |-> k.index, version |-> k.version]
    BY DEF Key
  <2>2. IsValid(k)' <=> bitmap'[k.index] /\ version'[k.index] = k.version
    BY ValidMeansNext
  <2>3. IsValid(k) <=> bitmap[k.index] /\ version[k.index] = k.version
    BY ValidMeans
  <2>4. CASE k.index = i
    BY <1>1, <1>2, <2>1, <2>2, <2>3, <2>4
  <2>5. CASE k.index # i
    <3>1. bitmap[k.index] => version'[k.index] = version[k.index]
      BY <1>2, <2>1 DEF Ready
    <3> QED
      BY <1>2, <2>1, <2>2, <2>3, <2>5, <3>1
  <2> QED
    BY <2>4, <2>5
<1>5. ValidKeys' = ValidKeys \union {new}
  BY <1>3, <1>4 DEF ValidKeys
<1>6. ASSUME NEW k \in ValidKeys, k # new
      PROVE  storage'[k.index] = storage[k.index]
  <2>1. k.index \in Index /\ bitmap[k.index]
    BY ValidMeans DEF ValidKeys, Key
  <2>2. k.index # i
    BY <1>1, <2>1
  <2> QED
    BY <1>2, <2>1, <2>2 DEF Ready
<1>7. storage'[new.index] = v
  BY <1>1, <1>2
<1>8. DOMAIN Elements = ValidKeys /\ Cardinality(ValidKeys) < MaxSlots
  BY <1>1, ElementsBounded DEF Elements, ValidKeys
<1>9. Elements = [k \in ValidKeys |-> storage[k.index]]
      /\ Elements' = [k \in ValidKeys' |-> storage'[k.index]]
  BY DEF Elements, ValidKeys
<1> HIDE DEF new
<1>10. Elements' = [x \in ValidKeys \union {new} |->
                        IF x = new THEN v ELSE Elements[x]]
  BY <1>5, <1>6, <1>7, <1>9
<1>11. issued' = issued \union {new} /\ new \notin issued
  BY <1>1 DEF Construct, new
<1>12. Store!Insert(new, v)
  <2>1. Store!Live = ValidKeys
    BY <1>8 DEF Store!Live
  <2>2. Elements' = [x \in Store!Live \union {new} |->
                        IF x = new THEN v ELSE Elements[x]]
    BY <1>10, <2>1
  <2>3. Cardinality(Store!Live) < MaxSlots
    BY <1>8, <2>1
  <2>4. Store!Cardinality(Store!Live) = Cardinality(Store!Live)
    BY SameCardinality
  <2> QED
    BY <1>11, <2>2, <2>3, <2>4 DEF Store!Insert
<1> QED
  BY <1>3, <1>12

(* erase deletes the element of its key, and no other.                     *)
LEMMA RemovalDeletes ==
    ASSUME TypeInv, KeyInv, KeyInv', NEW k \in Key, EraseFinds(k),
           Reuse(k.index) \/ Retire(k.index) \/ Release(k.index), Removed
    PROVE  Store!Delete(k)
<1> DEFINE i == k.index
<1>1. i \in Index /\ bitmap[i] /\ version[i] = k.version /\ IsValid(k)
  BY KeyInvLookups DEF Key, EraseFinds
<1>2. \A j \in Index : bitmap'[j] <=> bitmap[j] /\ j # i
  <2>1. CASE Reuse(i) \/ Retire(i)
    BY <1>1, <2>1 DEF Reuse, Retire, TypeInv, TypeOK
  <2>2. CASE Release(i)
    <3>1. \A j \in Slots(SlabOf(i)) : j # i => ~bitmap[j]
      BY <1>1, <2>2, KeyInvParts, OthersDied DEF Release, Dead
    <3> QED
      BY <1>1, <2>2, <3>1 DEF Release, Blank, Slots, TypeInv, TypeOK
  <2> QED
    BY <2>1, <2>2
<1>3. \A j \in Index : bitmap[j] /\ j # i =>
          version'[j] = version[j] /\ storage'[j] = storage[j]
  <2>1. CASE Reuse(i) \/ Retire(i)
    BY <1>1, <2>1 DEF Reuse, Retire, TypeInv, TypeOK
  <2>2. CASE Release(i)
    <3>1. \A j \in Slots(SlabOf(i)) : j # i => ~bitmap[j]
      BY <1>1, <2>2, KeyInvParts, OthersDied DEF Release, Dead
    <3> QED
      BY <1>1, <2>2, <3>1 DEF Release, Blank, Slots, TypeInv, TypeOK
  <2> QED
    BY <2>1, <2>2
<1>4. ASSUME NEW x \in Key PROVE IsValid(x)' <=> IsValid(x) /\ x # k
  <2>1. x.index \in Index /\ x = [index |-> x.index, version |-> x.version]
        /\ k = [index |-> k.index, version |-> k.version]
    BY DEF Key
  <2>2. IsValid(x)' <=> bitmap'[x.index] /\ version'[x.index] = x.version
    BY ValidMeansNext
  <2>3. IsValid(x) <=> bitmap[x.index] /\ version[x.index] = x.version
    BY ValidMeans
  <2>4. CASE x.index = i
    BY <1>1, <1>2, <2>1, <2>2, <2>3, <2>4
  <2>5. CASE x.index # i
    BY <1>2, <1>3, <2>1, <2>2, <2>3, <2>5
  <2> QED
    BY <2>4, <2>5
<1>5. ValidKeys' = ValidKeys \ {k}
  BY <1>4 DEF ValidKeys
<1>6. ASSUME NEW x \in ValidKeys \ {k}
      PROVE  storage'[x.index] = storage[x.index]
  <2>1. x \in Key /\ x.index \in Index /\ IsValid(x)
        /\ x = [index |-> x.index, version |-> x.version]
        /\ k = [index |-> k.index, version |-> k.version]
    BY DEF ValidKeys, Key
  <2>2. bitmap[x.index] /\ version[x.index] = x.version
    BY <2>1, ValidMeans
  <2> QED
    BY <1>1, <1>3, <2>1, <2>2
<1>7. Elements = [x \in ValidKeys |-> storage[x.index]]
      /\ Elements' = [x \in ValidKeys' |-> storage'[x.index]]
  BY DEF Elements, ValidKeys
<1>8. Elements' = [x \in ValidKeys \ {k} |-> Elements[x]]
  BY <1>5, <1>6, <1>7
<1>9. k \in DOMAIN Elements /\ DOMAIN Elements = ValidKeys
  BY <1>1 DEF Elements, ValidKeys
<1> QED
  BY <1>8, <1>9 DEF Store!Delete, Store!Live, Removed

(* use assigns the element of its key.                                     *)
LEMMA UseAssigns ==
    ASSUME TypeInv, KeyInv, NEW k \in Key, IsValid(k), NEW v \in Values,
           storage' = [storage EXCEPT ![k.index] = v],
           UNCHANGED <<slabs, version, aliveBit, bitmap, issued>>
    PROVE  Store!Assign(k, v)
<1>1. k.index \in Index /\ bitmap[k.index] /\ version[k.index] = k.version
  BY ValidMeans DEF Key
<1>2. \A x : IsValid(x)' <=> IsValid(x)
  BY DEF IsValid, Present
<1>3. ValidKeys' = ValidKeys /\ k \in ValidKeys
  BY <1>2 DEF ValidKeys
<1>4. ASSUME NEW x \in ValidKeys
      PROVE  storage'[x.index] = IF x = k THEN v ELSE storage[x.index]
  <2>1. x \in Key /\ x.index \in Index /\ IsValid(x)
        /\ x = [index |-> x.index, version |-> x.version]
        /\ k = [index |-> k.index, version |-> k.version]
    BY DEF ValidKeys, Key
  <2>2. version[x.index] = x.version
    BY <2>1, ValidMeans
  <2>3. x.index = k.index => x = k
    BY <1>1, <2>1, <2>2
  <2> QED
    BY <1>1, <2>1, <2>3 DEF TypeInv, TypeOK
<1>5. Elements = [x \in ValidKeys |-> storage[x.index]]
      /\ Elements' = [x \in ValidKeys' |-> storage'[x.index]]
  BY DEF Elements, ValidKeys
<1>6. Elements' = [Elements EXCEPT ![k] = v]
  BY <1>3, <1>4, <1>5
<1> QED
  BY <1>3, <1>5, <1>6 DEF Store!Assign, Store!Live

(* A map without alive slots has no elements.                              *)
LEMMA NoElements ==
    ASSUME KeyInv', \A i \in Index : ~bitmap'[i]
    PROVE  Elements' = [k \in {} |-> {}]
<1>1. ASSUME NEW k \in Key PROVE ~IsValid(k)'
  BY ValidMeansNext DEF Key
<1>2. ValidKeys' = {}
  BY <1>1 DEF ValidKeys
<1>3. Elements' = [k \in ValidKeys' |-> storage'[k.index]]
  BY DEF Elements, ValidKeys
<1> QED
  BY <1>2, <1>3

(* What a step of the map is to the store.                                 *)
StoreStep == Store!StoreNext \/ UNCHANGED <<Elements, issued>>

(* Every step of the map before the first recycling is a step of the store *)
(* of keys, or none.                                                       *)
LEMMA StoreStepTaken ==
    ASSUME PartialWrites = FALSE, TypeInv, KeyInv, KeyInv',
           [NextUntilRecycle]_vars
    PROVE  StoreStep
<1> DEFINE to1 == nextBase + SlotsPerSlab
<1>1. PICK L \in SUBSET Index : Linked(L)
  BY DEF KeyInv, FreeListLinked
<1>2. ASSUME NEW to \in Int, OnGrid(to), nextBase < to,
             version' = GrownVersions(to), storage' = GrownLinks(to),
             UNCHANGED <<bitmap, issued>>
      PROVE  StoreStep
  <2>1. \A j \in Index : bitmap[j] => j \notin Grown(to)
    BY DEF KeyInv, AliveBitsMatch, SlabsOnGrid, Grown, TypeInv, OnGrid, Index
  <2>2. \A j \in Index : bitmap[j] => version'[j] = version[j]
                                      /\ storage'[j] = storage[j]
    BY <1>2, <2>1 DEF GrownVersions, GrownLinks
  <2>3. Elements' = Elements
    BY <1>2, <2>2, ElementsStay
  <2> QED
    BY <1>2, <2>3 DEF StoreStep
<1>3. CanAllocate => OnGrid(to1) /\ to1 \in Int /\ nextBase < to1
                     /\ to1 - SlotsPerSlab = nextBase
  BY GridStep, SizeAssumption DEF CanAllocate, TypeInv, OnGrid
<1>4. ASSUME UNCHANGED <<version, bitmap, storage, issued>> PROVE StoreStep
  <2>1. Elements' = Elements
    BY <1>4, ElementsStay
  <2> QED
    BY <1>4, <2>1 DEF StoreStep
<1>5. ASSUME NEW v \in Values, TryEmplace(v) PROVE StoreStep
  <2>1. CASE CanAllocate /\ AddSlabs(to1)
             /\ Construct(nextBase, v, GrownVersions(to1), GrownLinks(to1))
    <3>1. Ready(L \union Grown(to1), nextBase, GrownVersions(to1), GrownLinks(to1))
      BY <1>1, <1>3, <2>1, ReadyAfterGrowth
    <3>2. nextBase \in L \union Grown(to1)
      BY <1>3, <2>1, SizeAssumption DEF Grown, TypeInv, OnGrid
    <3>3. \E k \in Key \ {NullKey} : Store!Insert(k, v)
      BY <2>1, <3>1, <3>2, ConstructInserts
    <3> QED
      BY <3>3 DEF StoreStep, Store!StoreNext
  <2>2. CASE HeadUsable /\ UNCHANGED <<slabs, nextBase>>
             /\ Construct(freeHead, v, version, storage)
    <3>1. freeHead \in L
      BY <1>1, <2>2, IndexIsInt DEF Linked, ListShape, HeadUsable
    <3>2. Ready(L, freeHead, version, storage)
      BY <1>1, <2>2, ReadyAsItStands
    <3>3. \E k \in Key \ {NullKey} : Store!Insert(k, v)
      BY <2>2, <3>1, <3>2, ConstructInserts
    <3> QED
      BY <3>3 DEF StoreStep, Store!StoreNext
  <2> QED
    BY <1>5, <2>1, <2>2 DEF TryEmplace
<1>6. ASSUME EmplaceThrows PROVE StoreStep
  <2>1. CASE CanAllocate /\ version' = GrownVersions(to1)
             /\ ConstructorThrows(nextBase, GrownLinks(to1))
    BY <1>2, <1>3, <2>1 DEF ConstructorThrows
  <2>2. CASE UNCHANGED version /\ ConstructorThrows(freeHead, storage)
    BY <1>4, <2>2 DEF ConstructorThrows
  <2> QED
    BY <1>6, <2>1, <2>2 DEF EmplaceThrows
<1>7. ASSUME NEW to \in SlabEnds, Reserve(to) PROVE StoreStep
  <2>1. OnGrid(to) /\ to \in Int /\ nextBase < to
    BY <1>7, SlabEndsOnGrid DEF Reserve, OnGrid
  <2> QED
    BY <1>2, <1>7, <2>1 DEF Reserve
<1>8. ASSUME NEW k \in Key, Erase(k) \/ UseErases(k) PROVE StoreStep
  <2>1. Store!Delete(k) /\ EraseFinds(k)
    BY <1>8, RemovalDeletes DEF Erase, UseErases
  <2>2. k # NullKey
    BY <1>8, <2>1, KeyInvLookups DEF LookupsAgree, LiveKeysIssued
  <2> QED
    BY <2>1, <2>2 DEF StoreStep, Store!StoreNext
<1>9. ASSUME NEW k \in Key, PopThrows(k) \/ Use(k) PROVE StoreStep
  <2>1. IsValid(k) /\ k # NullKey
    BY <1>9, KeyInvLookups DEF PopThrows, Use, LookupsAgree, LiveKeysIssued
  <2>2. PICK v \in Values : storage' = [storage EXCEPT ![k.index] = v]
    BY <1>9 DEF PopThrows, Use
  <2>3. Store!Assign(k, v)
    BY <1>9, <2>1, <2>2, UseAssigns DEF PopThrows, Use
  <2> QED
    BY <2>1, <2>3 DEF StoreStep, Store!StoreNext
<1>10. ASSUME Clear PROVE StoreStep
  <2>1. Elements' = [k \in {} |-> {}]
    BY <1>10, NoElements DEF Clear
  <2>2. Store!DeleteAll
    BY <1>10, <2>1 DEF Clear, Store!DeleteAll
  <2> QED
    BY <2>2 DEF StoreStep, Store!StoreNext
<1>11. ASSUME Reset PROVE StoreStep
  <2>1. Elements' = [k \in {} |-> {}]
    BY <1>11, NoElements DEF Reset
  <2>2. Store!Renew
    BY <1>11, <2>1 DEF Reset, Store!Renew, Store!StoreInit
  <2> QED
    BY <2>2 DEF StoreStep, Store!StoreNext
<1>12. ASSUME Abort \/ UNCHANGED vars PROVE StoreStep
  BY <1>4, <1>12 DEF Abort, vars
<1> QED
  BY <1>5, <1>6, <1>7, <1>8, <1>9, <1>10, <1>11, <1>12
     DEF NextUntilRecycle, EmplaceAborts

(* A slot map is a keyed store: clients cannot tell that keys are slots    *)
(* and versions.  Every call before the first recycling changes the        *)
(* elements use() reaches as one store operation does, and an insertion    *)
(* never takes a key the store handed out since the last reset.            *)
THEOREM StoreIsImplemented ==
    ASSUME PartialWrites = FALSE
    PROVE  SpecUntilRecycle => StoreImplemented
<1>1. Init => Store!StoreInit
  <2>1. SUFFICES ASSUME Init PROVE Store!StoreInit
    OBVIOUS
  <2>2. KeyInv /\ \A i \in Index : ~bitmap[i]
    <3>1. KeyInv
      BY <2>1, BlankKeyInv
    <3>2. \A i \in Index : ~bitmap[i]
      BY <2>1 DEF Init
    <3> QED
      BY <3>1, <3>2
  <2>3. \A k \in Key : ~IsValid(k)
    BY <2>2, ValidMeans DEF Key
  <2>4. {x \in Key : IsValid(x)} = {}
    BY <2>3
  <2>5. Elements = [k \in {} |-> {}]
    BY <2>4 DEF Elements
  <2> QED
    BY <2>1, <2>5 DEF Init, Store!StoreInit
<1>2. TypeInv /\ KeyInv /\ KeyInv' /\ [NextUntilRecycle]_vars
        => [Store!StoreNext]_(Store!storeVars)
  BY StoreStepTaken DEF StoreStep, Store!storeVars
<1>3. Init => TypeInv /\ KeyInv
  BY TypeInit, BlankKeyInv
<1>4. TypeInv /\ KeyInv /\ [NextUntilRecycle]_vars => (TypeInv /\ KeyInv)'
  BY TypeStep, KeyInvStep DEF Next
<1> QED
  BY <1>1, <1>2, <1>3, <1>4, PTL
     DEF SpecUntilRecycle, StoreImplemented, Store!StoreSpec

-----------------------------------------------------------------------------
(* The free list.  No call loses, doubles or misplaces a free slot: the    *)
(* list try_emplace walks ends, and holds every slot with a version left.  *)
(* Links alone cannot say that the list holds all of its slots, since they *)
(* would allow a cycle off to the side; numbering the slots from the end   *)
(* of the list does.                                                       *)

(* A nonempty set of numbers has a least one: induction, for the provers.  *)
LEMMA LeastNat ==
    ASSUME NEW S \in SUBSET Nat, S # {}
    PROVE  \E m \in S : \A x \in S : m <= x
<1>1. PICK m \in S : \A y \in S : ~(<<y, m>> \in OpToRel(<, Nat))
  BY NatLessThanWellFounded, WFMin
<1>2. ASSUME NEW x \in S PROVE m <= x
  <2>1. m \in Nat /\ x \in Nat /\ ~(x < m)
    BY <1>1 DEF OpToRel
  <2> QED
    BY <2>1
<1> QED
  BY <1>2

(* The slots of L are the list that starts at head, n in number: r numbers *)
(* them from the last, 1, to the head, n.                                  *)
Ranked(L, n, head, links, r) ==
    /\ n \in Nat /\ r \in [L -> 1 .. n]
    /\ IF n = 0 THEN head = End ELSE head \in L /\ r[head] = n
    /\ \A i \in L : \/ r[i] = 1 /\ links[i] = End
                    \/ links[i] \in L /\ r[i] = r[links[i]] + 1
    /\ \A i, j \in L : r[i] = r[j] => i = j

(* The slots an emplace must find: free, with a version left above theirs. *)
Free(i) == Present(i) /\ ~bitmap[i] /\ version[i] < MaxVersion

ListOf(L) ==
    /\ \A i \in L : Unused(i)
    /\ \A i \in Index : Free(i) => i \in L
    /\ \E n, r : Ranked(L, n, freeHead, storage, r)

ListInv == \E L \in SUBSET Index : ListOf(L)

(* A numbered list has the shape the key invariant speaks of.              *)
LEMMA RankedIsShape ==
    ASSUME NEW L \in SUBSET Index, NEW n, NEW head, NEW links, NEW r,
           Ranked(L, n, head, links, r)
    PROVE  ListShape(L, head, links)
<1>1. n \in Nat /\ \A i \in L : r[i] \in Nat /\ 1 <= r[i] /\ r[i] <= n
  BY DEF Ranked
<1>2. head \in L \union {End}
  BY DEF Ranked
<1>3. \A i \in L : links[i] \in L \union {End}
  BY DEF Ranked
<1>4. End \notin L
  BY IndexIsInt
<1>5. ASSUME NEW i \in L, links[i] = head, head # End PROVE FALSE
  <2>1. head \in L /\ r[head] = n
    BY <1>5 DEF Ranked
  <2>2. r[i] = r[head] + 1
    BY <1>4, <1>5, <2>1 DEF Ranked
  <2> QED
    BY <1>1, <2>1, <2>2
<1>6. ASSUME NEW i \in L, NEW j \in L, links[i] = links[j], links[i] # End
      PROVE  i = j
  <2>1. r[i] = r[links[i]] + 1 /\ r[j] = r[links[j]] + 1
    BY <1>6 DEF Ranked
  <2> QED
    BY <1>6, <2>1 DEF Ranked
<1> QED
  BY <1>2, <1>3, <1>5, <1>6 DEF ListShape

(* So has the free list.                                                   *)
LEMMA ListIsLinked ==
    ASSUME NEW L \in SUBSET Index, ListOf(L)
    PROVE  Linked(L)
BY RankedIsShape DEF ListOf, Linked

(* emplace takes the head off.                                             *)
LEMMA PopRanked ==
    ASSUME NEW L \in SUBSET Index, NEW n, NEW h \in L, NEW links, NEW r,
           NEW bytes, DOMAIN links = Index, Ranked(L, n, h, links, r)
    PROVE  \E s : Ranked(L \ {h}, n - 1, links[h], [links EXCEPT ![h] = bytes], s)
<1> DEFINE M == L \ {h}
           s == [i \in M |-> r[i]]
           new == [links EXCEPT ![h] = bytes]
<1>1. h # End /\ End \notin L
  BY IndexIsInt
<1>2. n \in Nat /\ n # 0 /\ r[h] = n /\ \A i \in L : r[i] \in 1 .. n
  BY <1>1 DEF Ranked
<1>3. \A i \in M : r[i] # n
  BY <1>2 DEF Ranked
<1>4. s \in [M -> 1 .. n - 1] /\ n - 1 \in Nat
  BY <1>2, <1>3
<1>5. IF n - 1 = 0 THEN links[h] = End ELSE links[h] \in M /\ s[links[h]] = n - 1
  <2>1. CASE r[h] = 1 /\ links[h] = End
    BY <1>2, <2>1
  <2>2. CASE links[h] \in L /\ r[h] = r[links[h]] + 1
    <3>1. r[links[h]] = n - 1 /\ r[links[h]] \in 1 .. n
      BY <1>2, <2>2
    <3>2. links[h] # h /\ n - 1 # 0
      BY <1>2, <3>1
    <3> QED
      BY <2>2, <3>1, <3>2
  <2> QED
    BY <2>1, <2>2 DEF Ranked
<1>6. ASSUME NEW i \in M
      PROVE  \/ s[i] = 1 /\ new[i] = End
             \/ new[i] \in M /\ s[i] = s[new[i]] + 1
  <2>1. new[i] = links[i] /\ s[i] = r[i]
    BY Zenon
  <2>2. CASE r[i] = 1 /\ links[i] = End
    BY <2>1, <2>2
  <2>3. CASE links[i] \in L /\ r[i] = r[links[i]] + 1
    <3>1. links[i] # h
      BY <1>2, <2>3
    <3> QED
      BY <2>1, <2>3, <3>1
  <2> QED
    BY <2>2, <2>3 DEF Ranked
<1>7. \A i, j \in M : s[i] = s[j] => i = j
  BY DEF Ranked
<1> HIDE DEF M, s, new
<1>8. Ranked(M, n - 1, links[h], new, s)
  BY <1>4, <1>5, <1>6, <1>7 DEF Ranked
<1> QED
  BY <1>8 DEF M, s, new

(* erase puts slot i in front.                                             *)
LEMMA PushRanked ==
    ASSUME NEW L \in SUBSET Index, NEW n, NEW h, NEW links, NEW r,
           NEW i \in Index \ L, DOMAIN links = Index, Ranked(L, n, h, links, r)
    PROVE  Ranked(L \union {i}, n + 1, i, [links EXCEPT ![i] = h],
                  [j \in L \union {i} |-> IF j = i THEN n + 1 ELSE r[j]])
<1> DEFINE M == L \union {i}
           s == [j \in M |-> IF j = i THEN n + 1 ELSE r[j]]
           new == [links EXCEPT ![i] = h]
<1>1. n \in Nat /\ \A j \in L : r[j] \in 1 .. n
  BY DEF Ranked
<1>2. s \in [M -> 1 .. n + 1] /\ n + 1 \in Nat /\ n + 1 # 0
  BY <1>1
<1>3. i \in M /\ s[i] = n + 1
  OBVIOUS
<1>4. \A j \in L : new[j] = links[j] /\ s[j] = r[j] /\ j # i
  OBVIOUS
<1>5. new[i] = h
  OBVIOUS
<1>6. ASSUME NEW j \in M
      PROVE  \/ s[j] = 1 /\ new[j] = End
             \/ new[j] \in M /\ s[j] = s[new[j]] + 1
  <2>1. CASE j = i
    <3>1. CASE n = 0
      BY <1>3, <1>5, <2>1, <3>1 DEF Ranked
    <3>2. CASE n # 0
      <4>1. h \in L /\ r[h] = n
        BY <3>2 DEF Ranked
      <4>2. s[h] = n
        BY <1>4, <4>1
      <4> QED
        BY <1>3, <1>5, <2>1, <4>1, <4>2
    <3> QED
      BY <3>1, <3>2
  <2>2. CASE j \in L
    <3>1. CASE r[j] = 1 /\ links[j] = End
      BY <1>4, <2>2, <3>1
    <3>2. CASE links[j] \in L /\ r[j] = r[links[j]] + 1
      BY <1>4, <2>2, <3>2
    <3> QED
      BY <2>2, <3>1, <3>2 DEF Ranked
  <2> QED
    BY <2>1, <2>2
<1>7. ASSUME NEW x \in M, NEW y \in M, s[x] = s[y] PROVE x = y
  <2>1. \A j \in L : s[j] # n + 1
    BY <1>1, <1>4
  <2> QED
    BY <1>3, <1>4, <1>7, <2>1 DEF Ranked
<1> HIDE DEF M, s, new
<1>8. Ranked(M, n + 1, i, new, s)
  BY <1>2, <1>3, <1>6, <1>7 DEF Ranked
<1> QED
  BY <1>8 DEF M, s, new

(* clear numbers the slots in the order of their indices.                  *)
LEMMA RebuiltRanked ==
    ASSUME NEW R \in SUBSET Index, NEW links,
           \A i \in R : links[i] = LastOf({j \in R : j < i})
    PROVE  Ranked(R, Cardinality(R), LastOf(R), links,
                  [i \in R |-> Cardinality({j \in R : j <= i})])
<1> DEFINE Below(i) == {j \in R : j < i}
           UpTo(i) == {j \in R : j <= i}
           r == [i \in R |-> Cardinality(UpTo(i))]
           n == Cardinality(R)
<1>1. IsFiniteSet(Index)
  BY FS_Interval, SizeAssumption DEF Index
<1>2. \A S \in SUBSET Index : IsFiniteSet(S) /\ Cardinality(S) \in Nat
  BY <1>1, FS_Subset, FS_CardinalityType
<1>3. n \in Nat /\ IsFiniteSet(R)
  BY <1>2
<1>4. \A i \in R : i \in Int
  BY DEF Index
<1>5. ASSUME NEW i \in R
      PROVE  /\ Cardinality(Below(i)) \in Nat
             /\ r[i] = Cardinality(UpTo(i))
             /\ r[i] = Cardinality(Below(i)) + 1
             /\ r[i] \in 1 .. n
  <2>1. UpTo(i) = Below(i) \union {i} /\ i \notin Below(i)
        /\ Below(i) \in SUBSET Index /\ UpTo(i) \in SUBSET R
    BY <1>4
  <2>2. Cardinality(Below(i)) \in Nat
    BY <1>2, <2>1
  <2>3. Cardinality(UpTo(i)) = Cardinality(Below(i)) + 1
    BY <1>2, <2>1, FS_AddElement
  <2>4. Cardinality(UpTo(i)) <= n
    BY <1>3, <2>1, FS_Subset
  <2>5. r[i] = Cardinality(UpTo(i))
    OBVIOUS
  <2> HIDE DEF r, n, UpTo, Below
  <2> QED
    BY <1>3, <2>2, <2>3, <2>4, <2>5
<1>6. r \in [R -> 1 .. n]
  BY <1>5
<1> HIDE DEF r
<1>7. IF n = 0 THEN LastOf(R) = End ELSE LastOf(R) \in R /\ r[LastOf(R)] = n
  <2>1. CASE R = {}
    BY <2>1, FS_EmptySet DEF LastOf
  <2>2. CASE R # {}
    <3>1. n # 0
      BY <1>3, <2>2, FS_EmptySet
    <3>2. LastOf(R) \in R /\ UpTo(LastOf(R)) = R
      BY <2>2, LastOfIsLast
    <3>3. r[LastOf(R)] = Cardinality(UpTo(LastOf(R)))
      BY <1>5, <3>2
    <3> QED
      BY <3>1, <3>2, <3>3
  <2> HIDE DEF n
  <2> QED
    BY <2>1, <2>2
<1>8. ASSUME NEW i \in R
      PROVE  \/ r[i] = 1 /\ links[i] = End
             \/ links[i] \in R /\ r[i] = r[links[i]] + 1
  <2>1. CASE Below(i) = {}
    <3>1. links[i] = End
      BY <2>1 DEF LastOf
    <3>2. Cardinality(Below(i)) = 0
      BY <2>1, FS_EmptySet
    <3>3. r[i] = Cardinality(Below(i)) + 1
      BY <1>5
    <3> HIDE DEF Below
    <3> QED
      BY <3>1, <3>2, <3>3
  <2>2. CASE Below(i) # {}
    <3> DEFINE p == LastOf(Below(i))
    <3>1. p \in Below(i) /\ \A j \in Below(i) : j <= p
      <4>1. Below(i) \in SUBSET Index
        OBVIOUS
      <4> QED
        BY <2>2, <4>1, LastOfIsLast
    <3>2. links[i] = p
      OBVIOUS
    <3> HIDE DEF p
    <3>3. p \in R /\ p < i
      BY <3>1
    <3>4. UpTo(p) = Below(i)
      BY <1>4, <3>1, <3>3
    <3>5. r[p] = Cardinality(Below(i))
      BY <1>5, <3>3, <3>4
    <3> QED
      BY <1>5, <3>2, <3>3, <3>5
  <2> QED
    BY <2>1, <2>2
<1>9. ASSUME NEW i \in R, NEW j \in R, i < j PROVE r[i] # r[j]
  <2>1. UpTo(i) \in SUBSET Below(j) /\ Below(j) \in SUBSET Index
    BY <1>4, <1>9
  <2>2. Cardinality(UpTo(i)) <= Cardinality(Below(j))
    BY <1>2, <2>1, FS_Subset
  <2>3. r[i] = Cardinality(UpTo(i)) /\ r[j] = Cardinality(Below(j)) + 1
    BY <1>5
  <2>4. Cardinality(UpTo(i)) \in Nat /\ Cardinality(Below(j)) \in Nat
    BY <1>2, <1>5, <2>1
  <2> HIDE DEF UpTo, Below
  <2> QED
    BY <2>2, <2>3, <2>4
<1>10. \A i, j \in R : r[i] = r[j] => i = j
  BY <1>4, <1>9
<1> HIDE DEF n
<1>11. Ranked(R, n, LastOf(R), links, r)
  BY <1>3, <1>6, <1>7, <1>8, <1>10 DEF Ranked
<1> QED
  BY <1>11 DEF r, n

(* reserve and try_emplace: the slots of each new slab in order, the newer *)
(* slab in front of the older.                                             *)
LEMMA GrownRanked ==
    ASSUME TypeInv, NEW to \in Int, OnGrid(to), nextBase < to,
           NEW L \in SUBSET Index, \A i \in L : i < nextBase,
           NEW n, NEW r, Ranked(L, n, freeHead, storage, r)
    PROVE  \E s : Ranked(L \union Grown(to), n + (to - nextBase),
                        to - SlotsPerSlab, GrownLinks(to), s)
<1> DEFINE p == SlotsPerSlab
           G == Grown(to)
           g == GrownLinks(to)
           place(i) == n + (i - nextBase) + p - 2 * (i % p)
           s == [i \in L \union G |-> IF i \in L THEN r[i] ELSE place(i)]
           m == n + (to - nextBase)
           head == to - p
<1>1. /\ p \in Nat \ {0} /\ MaxSlots \in Nat /\ nextBase \in Nat /\ to \in Nat
      /\ nextBase % p = 0 /\ to % p = 0 /\ to <= MaxSlots /\ n \in Nat
  BY SizeAssumption DEF TypeInv, OnGrid, Ranked
<1>2. nextBase + p <= to
  BY ONLY <1>1, BoundaryGap, nextBase < to
<1>3. \A i \in L : i \in Int /\ i < nextBase /\ r[i] \in 1 .. n
  BY <1>1 DEF Index, Ranked
<1>4. \A i : i \in G <=> i \in Int /\ nextBase <= i /\ i < to
  BY <1>1 DEF Grown
(* i % p is the place of i in its slab, which starts at i - (i % p).       *)
<1>5. ASSUME NEW i \in G
      PROVE  /\ i % p \in Nat /\ i % p < p
             /\ i - (i % p) \in Nat /\ (i - (i % p)) % p = 0
             /\ nextBase <= i - (i % p) /\ i - (i % p) + p <= to
  <2>1. i \in Int /\ nextBase <= i /\ i < to
    BY <1>4
  <2>2. PICK q \in Int, o \in 0 .. p - 1 : i = p * q + o /\ o = i % p
    <3>1. /\ i = p * (i \div p) + (i % p)
          /\ i % p \in Int /\ 0 <= i % p /\ i % p < p /\ i \div p \in Int
      BY ONLY <1>1, <2>1, DivMod
    <3>2. i % p \in 0 .. p - 1
      BY <1>1, <3>1
    <3> QED
      BY <3>1, <3>2
  <2>3. PICK c \in Int : nextBase = p * c
    <3>1. nextBase = p * (nextBase \div p) + (nextBase % p) /\ nextBase \div p \in Int
      BY ONLY <1>1, DivMod
    <3>2. nextBase = p * (nextBase \div p)
      BY <1>1, <3>1
    <3> QED
      BY <3>1, <3>2
  <2> DEFINE a == p * q
  <2>4. a \in Int /\ i = a + o
    BY <1>1, <2>2
  <2>5. a % p = 0
    <3>1. (p * q + 0) % p = 0
      BY <1>1, DivUnique
    <3>2. p * q + 0 = p * q
      BY <1>1
    <3> QED
      BY <3>1, <3>2
  <2>6. nextBase <= a
    <3>1. SUFFICES ASSUME a < nextBase PROVE FALSE
      BY <1>1, <2>4
    <3>2. p * q + p <= p * c
      BY ONLY <1>1, <2>3, <3>1, MultipleGap
    <3>3. a + p <= nextBase
      BY <2>3, <3>2
    <3> HIDE DEF a
    <3> QED
      BY <1>1, <2>1, <2>2, <2>4, <3>3
  <2> HIDE DEF a
  <2>7. a + p <= to
    <3>1. a \in Nat /\ a < to
      BY <1>1, <2>1, <2>4, <2>6
    <3> QED
      BY ONLY <1>1, <2>5, <3>1, BoundaryGap
  <2>8. a = i - (i % p) /\ i % p \in Nat /\ i % p < p
    BY <1>1, <2>1, <2>2, <2>4
  <2> QED
    BY <1>1, <2>4, <2>5, <2>6, <2>7, <2>8
<1>6. \A i \in L : i \notin G /\ s[i] = r[i] /\ g[i] = storage[i]
  <2>1. ASSUME NEW i \in L PROVE i \notin G
    BY <1>1, <1>3, <1>4
  <2>2. ASSUME NEW i \in L PROVE g[i] = storage[i]
    BY <2>1 DEF GrownLinks
  <2>3. ASSUME NEW i \in L PROVE s[i] = r[i]
    OBVIOUS
  <2> QED
    BY <2>1, <2>2, <2>3
<1>7. \A i \in G : i \notin L /\ s[i] = place(i)
  <2>1. ASSUME NEW i \in G PROVE i \notin L
    BY <1>1, <1>3, <1>4
  <2>2. ASSUME NEW i \in G PROVE s[i] = place(i)
    BY <2>1
  <2> QED
    BY <2>1, <2>2
<1>8. \A i \in G : place(i) \in Int /\ n < place(i) /\ place(i) <= m
  BY <1>1, <1>4, <1>5
<1>9. head \in G /\ head % p = 0 /\ place(head) = m
  <2>1. head % p = 0
    BY ONLY <1>1, NextBoundary
  <2> QED
    BY <1>1, <1>2, <1>4, <2>1
<1>10. m \in Nat /\ m # 0 /\ n <= m
  BY <1>1, <1>2
<1> HIDE DEF G, g, s
<1>11. s \in [L \union G -> 1 .. m]
  <2>1. \A i \in L \union G : s[i] \in 1 .. m
    BY <1>1, <1>3, <1>6, <1>7, <1>8, <1>10
  <2> QED
    BY <2>1 DEF s
<1>12. ASSUME NEW i \in G
       PROVE  \/ i + 1 \in G /\ g[i] = i + 1 /\ (i + 1) % p # 0
              \/ i < nextBase + p /\ g[i] = freeHead /\ (i + 1) % p = 0
              \/ /\ i + 1 - 2 * p \in G /\ g[i] = i + 1 - 2 * p
                 /\ (i + 1) % p = 0
  BY GrownLinkCases DEF TypeInv, G, g
(* Within a slab the place grows by one; a slab ends with place p - 1.     *)
<1>13. ASSUME NEW i \in G
       PROVE  IF (i + 1) % p = 0 THEN i % p = p - 1
                                 ELSE ((i + 1) % p) = (i % p) + 1
  <2>1. /\ i = p * (i \div p) + (i % p) /\ i \in Int
        /\ i % p \in Int /\ 0 <= i % p /\ i % p < p
        /\ i \div p \in Int
    BY <1>1, <1>4, DivMod
  <2>2. CASE i % p = p - 1
    <3>1. i + 1 = p * (i \div p + 1) + 0
      BY <1>1, <2>1, <2>2
    <3>2. (p * (i \div p + 1) + 0) % p = 0
      <4>1. PICK q \in Int : q = i \div p + 1
        BY <2>1
      <4>2. (p * q + 0) % p = 0
        BY <1>1, DivUnique
      <4> QED
        BY <4>1, <4>2
    <3> QED
      BY <2>2, <3>1, <3>2
  <2>3. CASE i % p # p - 1
    <3>1. i + 1 = p * (i \div p) + ((i % p) + 1) /\ (i % p) + 1 \in 0 .. p - 1
      BY <1>1, <2>1, <2>3
    <3>2. (p * (i \div p) + ((i % p) + 1)) % p = (i % p) + 1
      BY <1>1, <2>1, <3>1, DivUnique
    <3> QED
      BY <1>1, <2>1, <3>1, <3>2
  <2> QED
    BY <2>2, <2>3
<1>14. ASSUME NEW i \in L \union G
       PROVE  \/ s[i] = 1 /\ g[i] = End
              \/ g[i] \in L \union G /\ s[i] = s[g[i]] + 1
  <2>1. CASE i \in L
    BY <1>6, <2>1 DEF Ranked
  <2>2. CASE i \in G /\ i + 1 \in G /\ g[i] = i + 1 /\ (i + 1) % p # 0
    <3>1. ((i + 1) % p) = (i % p) + 1
      BY <1>13, <2>2
    <3>2. place(i) = place(i + 1) + 1
      BY <1>1, <1>4, <1>5, <2>2, <3>1
    <3> QED
      BY <1>7, <2>2, <3>2
  <2>3. CASE i \in G /\ i < nextBase + p /\ g[i] = freeHead /\ (i + 1) % p = 0
    <3>1. i % p = p - 1
      BY <1>13, <2>3
    <3>2. i - (i % p) = nextBase
      <4>1. nextBase <= i - (p - 1)
        BY <1>5, <2>3, <3>1
      <4> QED
        BY <1>1, <1>4, <2>3, <3>1, <4>1
    <3>3. place(i) = n + 1
      BY <1>1, <1>4, <2>3, <3>1, <3>2
    <3>4. CASE n = 0
      BY <1>7, <2>3, <3>3, <3>4 DEF Ranked
    <3>5. CASE n # 0
      BY <1>6, <1>7, <2>3, <3>3, <3>5 DEF Ranked
    <3> QED
      BY <3>4, <3>5
  <2>4. CASE i \in G /\ i + 1 - 2 * p \in G /\ g[i] = i + 1 - 2 * p
             /\ (i + 1) % p = 0
    <3>1. i % p = p - 1
      BY <1>13, <2>4
    <3>2. (i + 1 - 2 * p) % p = 0
      <4>1. PICK a \in Int : a = i + 1 /\ a % p = 0
        BY <1>4, <2>4
      <4>2. PICK b \in Int : b = a - p /\ b % p = 0
        BY <1>1, <4>1, NextBoundary
      <4>3. (b - p) % p = 0
        BY <1>1, <4>2, NextBoundary
      <4>4. b - p = i + 1 - 2 * p
        BY <1>1, <1>4, <2>4, <4>1, <4>2
      <4> QED
        BY <4>3, <4>4
    <3>3. place(i) = place(i + 1 - 2 * p) + 1
      BY <1>1, <1>4, <2>4, <3>1, <3>2
    <3> QED
      BY <1>7, <2>4, <3>3
  <2> QED
    BY <1>12, <2>1, <2>2, <2>3, <2>4
<1>15. ASSUME NEW i \in G, NEW j \in G, place(i) = place(j),
              i - (i % p) < j - (j % p)
       PROVE  FALSE
  <2> DEFINE a == i - (i % p)
             b == j - (j % p)
  <2>1. a \in Nat /\ a % p = 0 /\ b \in Nat /\ b % p = 0 /\ a < b
    BY <1>5, <1>15
  <2> HIDE DEF a, b
  <2>2. a + p <= b
    BY ONLY <1>1, <2>1, BoundaryGap
  <2> QED
    BY <1>1, <1>4, <1>5, <1>15, <2>2 DEF a, b
<1>16. ASSUME NEW i \in G, NEW j \in G, place(i) = place(j) PROVE i = j
  <2>1. i - (i % p) = j - (j % p)
    <3>1. i - (i % p) \in Nat /\ j - (j % p) \in Nat
      BY <1>5
    <3>2. ~(i - (i % p) < j - (j % p))
      BY <1>15, <1>16
    <3>3. ~(j - (j % p) < i - (i % p))
      BY <1>15, <1>16
    <3> QED
      BY <3>1, <3>2, <3>3
  <2>2. i \in Int /\ j \in Int /\ i % p \in Nat /\ j % p \in Nat
    BY <1>4, <1>5
  <2>3. i - 2 * (i % p) = j - 2 * (j % p)
    BY <1>1, <1>16, <2>2
  <2> QED
    BY <2>1, <2>2, <2>3
<1>17. ASSUME NEW i \in L \union G, NEW j \in L \union G, s[i] = s[j]
       PROVE  i = j
  <2>1. CASE i \in L /\ j \in L
    BY <1>6, <1>17, <2>1 DEF Ranked
  <2>2. CASE i \in G /\ j \in G
    BY <1>7, <1>16, <1>17, <2>2
  <2>3. ASSUME NEW x \in L, NEW y \in G PROVE s[x] # s[y]
    BY <1>1, <1>3, <1>6, <1>7, <1>8
  <2> QED
    BY <1>17, <2>1, <2>2, <2>3
<1> HIDE DEF m, head
<1>18. Ranked(L \union G, m, head, g, s)
  BY <1>7, <1>9, <1>10, <1>11, <1>14, <1>17 DEF Ranked
<1> QED
  BY <1>18 DEF G, g, m, head

-----------------------------------------------------------------------------
(* One call keeps the list.                                                *)

(* Ready, for the list as a whole: it is numbered, and holds every free    *)
(* slot once the call has grown the map or left it alone.                  *)
ReadyList(L, h, vers, links) ==
    /\ Ready(L, h, vers, links)
    /\ \A i \in Index :
           Present(i)' /\ ~bitmap[i] /\ vers[i] < MaxVersion => i \in L
    /\ \E n, r : Ranked(L, n, h, links, r)

(* The slots of new slabs join the list.                                   *)
LEMMA ListAfterGrowth ==
    ASSUME TypeInv, KeyInv, NEW to \in Int, OnGrid(to), nextBase < to,
           AddSlabs(to), NEW L \in SUBSET Index, ListOf(L)
    PROVE  ReadyList(L \union Grown(to), to - SlotsPerSlab,
                     GrownVersions(to), GrownLinks(to))
<1>1. Ready(L \union Grown(to), to - SlotsPerSlab,
            GrownVersions(to), GrownLinks(to))
  BY ListIsLinked, ReadyAfterGrowth
<1>2. ASSUME NEW i \in Index, Present(i)', ~bitmap[i],
             GrownVersions(to)[i] < MaxVersion, i \notin Grown(to)
      PROVE  i \in L
  <2>1. Present(i)
    BY <1>2, PresentGrown
  <2>2. GrownVersions(to)[i] = version[i]
    BY <1>2 DEF GrownVersions
  <2> QED
    BY <1>2, <2>1, <2>2 DEF ListOf, Free
<1>3. \E n, r : Ranked(L \union Grown(to), n, to - SlotsPerSlab,
                      GrownLinks(to), r)
  <2>1. PICK n, r : Ranked(L, n, freeHead, storage, r)
    BY DEF ListOf
  <2>2. \A i \in L : i < nextBase
    BY DEF ListOf, Unused, KeyInv, SlabsOnGrid
  <2> QED
    BY <2>1, <2>2, GrownRanked
<1> QED
  BY <1>1, <1>2, <1>3 DEF ReadyList

(* A call that allocates nothing starts from the list it finds.            *)
LEMMA ListAsItStands ==
    ASSUME TypeInv, KeyInv, UNCHANGED <<slabs, nextBase>>,
           NEW L \in SUBSET Index, ListOf(L)
    PROVE  ReadyList(L, freeHead, version, storage)
<1>1. Ready(L, freeHead, version, storage)
  BY ListIsLinked, ReadyAsItStands
<1>2. \A i \in Index : Present(i)' <=> Present(i)
  BY DEF Present
<1> QED
  BY <1>1, <1>2 DEF ReadyList, ListOf, Free

(* The first slot of a slab about to be added.                             *)
LEMMA FirstGrown ==
    ASSUME TypeInv, CanAllocate
    PROVE  /\ OnGrid(nextBase + SlotsPerSlab)
           /\ nextBase + SlotsPerSlab \in Int
           /\ nextBase < nextBase + SlotsPerSlab
           /\ (nextBase + SlotsPerSlab) - SlotsPerSlab = nextBase
           /\ nextBase \in Grown(nextBase + SlotsPerSlab)
           /\ nextBase \in Index
<1>1. nextBase < MaxSlots
  BY DEF CanAllocate
<1> QED
  BY <1>1, GridStep, SizeAssumption DEF TypeInv, TypeOK, OnGrid, Grown, Index

(* A head that can be used is on the list.                                 *)
LEMMA HeadIsListed ==
    ASSUME TypeInv, KeyInv, HeadUsable, NEW L \in SUBSET Index, ListOf(L)
    PROVE  freeHead \in L
BY IndexIsInt, ListIsLinked DEF Linked, ListShape, HeadUsable

(* From the list L a call goes on to another.  A slot that is unused then  *)
(* is on it, or was unused and off the list already, or is one that        *)
(* clear() passes over.                                                    *)
Carried(L) ==
    \E M \in SUBSET Index :
        /\ ListOf(M)'
        /\ \A i \in Index : Unused(i)' =>
               \/ i \in M
               \/ Unused(i) /\ i \notin L
               \/ Clear /\ Unused(i) /\ version[i] = MaxVersion

(* Growth leaves the slots there were as they are.                         *)
LEMMA UnusedAfterGrowth ==
    ASSUME TypeInv, NEW to \in Int, OnGrid(to), nextBase < to, AddSlabs(to),
           version' = GrownVersions(to), issued \subseteq issued',
           NEW i \in Index, bitmap[i] => bitmap'[i], Unused(i)',
           i \notin Grown(to)
    PROVE  Unused(i)
<1>1. Present(i)
  BY PresentGrown DEF Unused
<1>2. version'[i] = version[i]
  BY DEF GrownVersions
<1> QED
  BY <1>1, <1>2 DEF Unused, KeyOf

(* A call that only grew the map, or failed to construct.                  *)
LEMMA ListStays ==
    ASSUME NEW L, NEW h, NEW vers, NEW links, ReadyList(L, h, vers, links),
           version' = vers, storage' = links, freeHead' = h,
           UNCHANGED <<bitmap, issued>>
    PROVE  L \in SUBSET Index /\ ListOf(L)'
<1>1. L \in SUBSET Index
  BY DEF ReadyList, Ready
<1>2. \A i \in L : Unused(i)'
  BY DEF ReadyList, Ready, Unused, KeyOf
<1>3. \A i \in Index : Free(i)' => i \in L
  BY DEF ReadyList, Free
<1>4. \E n, r : Ranked(L, n, freeHead', storage', r)
  BY DEF ReadyList
<1> QED
  BY <1>1, <1>2, <1>3, <1>4 DEF ListOf, Ranked

(* The head of the list becomes an element.                                *)
LEMMA ListConstructs ==
    ASSUME TypeInv, NEW L, NEW i \in L, NEW v \in Values, NEW vers, NEW links,
           ReadyList(L, i, vers, links), Construct(i, v, vers, links)
    PROVE  L \in SUBSET Index /\ ListOf(L \ {i})'
<1>1. Ready(L, i, vers, links) /\ i \in Index /\ L \in SUBSET Index
      /\ DOMAIN links = Index
  BY DEF ReadyList, Ready
<1>2. PICK n, r : Ranked(L, n, i, links, r)
  BY DEF ReadyList
<1>3. freeHead' = links[i] /\ storage' = [links EXCEPT ![i] = v]
  <2>1. links[i] \in Link
    BY <1>1, SizeAssumption DEF Ready, ListShape, Link, Index, End
  <2> QED
    BY <2>1 DEF Construct, LinksRead
<1>4. \E m, s : Ranked(L \ {i}, m, freeHead', storage', s)
  <2>1. \E s : Ranked(L \ {i}, n - 1, links[i], [links EXCEPT ![i] = v], s)
    BY <1>1, <1>2, PopRanked
  <2> QED
    BY <1>3, <2>1
<1>5. \A j \in Index : /\ version'[j] = vers[j]
                       /\ bitmap'[j] = IF j = i THEN TRUE ELSE bitmap[j]
  BY <1>1 DEF Construct, TypeInv, TypeOK
<1>6. issued' = issued \union {[index |-> i, version |-> vers[i]]}
  BY DEF Construct
<1>7. ASSUME NEW j \in L \ {i} PROVE Unused(j)'
  <2>1. j \in Index /\ Present(j)' /\ ~bitmap[j]
        /\ [index |-> j, version |-> vers[j]] \notin issued
    BY <1>1 DEF Ready
  <2> QED
    BY <1>5, <1>6, <2>1 DEF Unused, KeyOf
<1>8. ASSUME NEW j \in Index, Free(j)' PROVE j \in L \ {i}
  BY <1>5, <1>8 DEF ReadyList, Free
<1>9. ListOf(L \ {i})'
  BY <1>4, <1>7, <1>8 DEF ListOf, Ranked
<1> QED
  BY <1>1, <1>9

(* An erased slot with versions left becomes the head.                     *)
LEMMA ListReuses ==
    ASSUME TypeInv, KeyInv, KeyInv', NEW L \in SUBSET Index, ListOf(L),
           NEW i \in Index, bitmap[i], Reuse(i), Removed
    PROVE  ListOf(L \union {i})'
<1>1. \A j \in Index : /\ version'[j] = IF j = i THEN version[i] + 1 ELSE version[j]
                       /\ bitmap'[j] = IF j = i THEN FALSE ELSE bitmap[j]
  BY DEF Reuse, TypeInv, TypeOK
<1>2. version[i] # MaxVersion /\ freeHead' = i /\ DOMAIN storage = Index
      /\ storage' = [storage EXCEPT ![i] = freeHead] /\ UNCHANGED <<slabs, issued>>
  BY DEF Reuse, Removed, TypeInv, TypeOK
<1>3. \A j : Present(j)' <=> Present(j)
  BY <1>2 DEF Present
<1>4. i \in Index \ L
  BY DEF ListOf, Unused
<1>5. \E n, r : Ranked(L \union {i}, n, freeHead', storage', r)
  <2>1. PICK n, r : Ranked(L, n, freeHead, storage, r)
    BY DEF ListOf
  <2> QED
    BY <1>2, <1>4, <2>1, PushRanked
<1>6. Unused(i)'
  <2>1. Present(i)
    BY DEF KeyInv, AliveBitsMatch
  <2>2. [index |-> i, version |-> version[i] + 1] \notin issued
    <3>1. SUFFICES ASSUME [index |-> i, version |-> version[i] + 1] \in issued
                   PROVE  FALSE
      OBVIOUS
    <3>2. version[i] + 1 <= version[i]
      BY <2>1, <3>1 DEF KeyInv, VersionsCover
    <3>3. version[i] \in Nat
      BY DEF TypeInv, TypeOK, Version
    <3> QED
      BY <3>2, <3>3
  <2> QED
    BY <1>1, <1>2, <1>3, <2>1, <2>2 DEF Unused, KeyOf
<1>7. ASSUME NEW j \in L PROVE Unused(j)'
  BY <1>1, <1>2, <1>3, <1>4, <1>7 DEF ListOf, Unused, KeyOf
<1>8. ASSUME NEW j \in Index, Free(j)', j # i PROVE j \in L
  BY <1>1, <1>3, <1>8 DEF ListOf, Free
<1> QED
  BY <1>5, <1>6, <1>7, <1>8 DEF ListOf, Ranked

(* A call that leaves list and free slots alone.                           *)
LEMMA ListUntouched ==
    ASSUME NEW L \in SUBSET Index, ListOf(L), UNCHANGED freeHead,
           \A j \in L : Unused(j)' /\ storage'[j] = storage[j],
           \A j \in Index : Free(j)' => Free(j)
    PROVE  ListOf(L)'
<1>1. PICK n, r : Ranked(L, n, freeHead, storage, r)
  BY DEF ListOf
<1>2. Ranked(L, n, freeHead', storage', r)
  BY <1>1 DEF Ranked
<1> QED
  BY <1>2 DEF ListOf, Ranked

(* The slots clear() puts on the new list can be constructed in.           *)
LEMMA RelinkedUnused ==
    ASSUME TypeInv, KeyInv, Clear, NEW j \in Relinked
    PROVE  Unused(j)'
<1>1. j \in Index /\ Present(j) /\ version[j] < MaxVersion /\ version[j] \in Nat
  BY DEF Relinked, TypeInv, TypeOK, Version
<1>2. /\ ~bitmap'[j] /\ Present(j)' /\ issued' = issued
      /\ version'[j] = IF bitmap[j] THEN version[j] + 1 ELSE version[j]
  BY <1>1 DEF Clear, Present
<1>3. CASE bitmap[j]
  <2>1. [index |-> j, version |-> version[j] + 1] \notin issued
    <3>1. SUFFICES ASSUME [index |-> j, version |-> version[j] + 1] \in issued
                   PROVE  FALSE
      OBVIOUS
    <3>2. version[j] + 1 <= version[j]
      BY <1>1, <3>1 DEF KeyInv, VersionsCover
    <3> QED
      BY <1>1, <3>2
  <2> QED
    BY <1>2, <1>3, <2>1 DEF Unused, KeyOf
<1>4. CASE ~bitmap[j]
  BY <1>1, <1>2, <1>4 DEF Unused, KeyOf, KeyInv, VersionsCover
<1> QED
  BY <1>3, <1>4

(* clear() rebuilds the list from the versions.                            *)
LEMMA ListRebuilt ==
    ASSUME TypeInv, KeyInv, Clear, NEW L
    PROVE  Carried(L)
<1> DEFINE R == Relinked
<1>1. R \in SUBSET Index
  BY DEF Relinked
<1>2. \A i \in R : storage'[i] = LastOf({j \in R : j < i})
  BY DEF Clear, Relinked
<1>3. freeHead' = LastOf(R)
  BY DEF Clear
<1>4. ASSUME NEW i \in Index, Free(i)' PROVE i \in R
  <2>1. version[i] < MaxVersion
    <3>1. version[i] \in Nat /\ MaxVersion \in Nat
      BY SizeAssumption DEF TypeInv, TypeOK, Version
    <3>2. version'[i] = version[i] + 1 \/ version'[i] = version[i]
      BY DEF Clear
    <3>3. version'[i] < MaxVersion
      BY <1>4 DEF Free
    <3> QED
      BY <3>1, <3>2, <3>3
  <2>2. Present(i)
    BY <1>4 DEF Free, Present, Clear
  <2> QED
    BY <2>1, <2>2 DEF Relinked
<1>5. \A i \in R : Unused(i)'
  BY RelinkedUnused
<1>9. ASSUME NEW i \in Index, Unused(i)', i \notin R
      PROVE  Unused(i) /\ version[i] = MaxVersion
  <2>1. Present(i) /\ issued' = issued
    BY <1>9 DEF Unused, Present, Clear
  <2>2. version[i] = MaxVersion
    BY <1>9, <2>1, SizeAssumption DEF Relinked, TypeInv, TypeOK, Version
  <2>3. version'[i] = version[i]
    BY <2>2, SizeAssumption DEF Clear
  <2>4. KeyOf(i) \notin issued
    BY <1>9, <2>1, <2>3 DEF Unused, KeyOf
  <2> QED
    BY <2>1, <2>2, <2>4 DEF Unused, KeyInv, VersionsCover
<1> HIDE DEF R
<1>6. \E n, r : Ranked(R, n, freeHead', storage', r)
  BY <1>1, <1>2, <1>3, RebuiltRanked
<1>7. PICK M \in SUBSET Index : M = R
  BY <1>1
<1>8. ListOf(M)'
  BY <1>4, <1>5, <1>6, <1>7 DEF ListOf, Ranked
<1> QED
  BY <1>7, <1>8, <1>9 DEF Carried

(* A map without slabs has no free slots.                                  *)
LEMMA NoList == ASSUME slabs = {}, freeHead = End PROVE ListInv
<1>1. Ranked({}, 0, freeHead, storage, [i \in {} |-> 1])
  BY DEF Ranked
<1>2. ListOf({})
  BY <1>1 DEF ListOf, Free, Present
<1> QED
  BY <1>2 DEF ListInv

(* Erase carries the list on, whichever of the three branches the erased   *)
(* slot takes.                                                             *)
LEMMA ListRemoval ==
    ASSUME TypeInv, KeyInv, KeyInv', NEW L \in SUBSET Index, ListOf(L),
           NEW k \in Key, EraseFinds(k),
           Reuse(k.index) \/ Retire(k.index) \/ Release(k.index), Removed
    PROVE  Carried(L)
<1> DEFINE i == k.index
<1>1. i \in Index /\ bitmap[i] /\ KeyOf(i) \in issued
  BY DEF Key, EraseFinds, KeyInv, VersionsCover
<1>3. i \notin L
  BY <1>1 DEF ListOf, Unused
<1> HIDE DEF i
<1>4. CASE Reuse(i)
  <2>1. ListOf(L \union {i})'
    BY <1>1, <1>4, ListReuses
  <2>2. \A j \in Index : j # i => version'[j] = version[j] /\ bitmap'[j] = bitmap[j]
    BY <1>4 DEF Reuse, TypeInv, TypeOK
  <2>3. UNCHANGED <<slabs, issued>>
    BY <1>4 DEF Reuse, Removed
  <2>4. ASSUME NEW j \in Index, Unused(j)', j # i PROVE Unused(j)
    BY <2>2, <2>3, <2>4 DEF Unused, Present, KeyOf
  <2>5. L \union {i} \in SUBSET Index
    BY <1>1
  <2> QED
    BY <2>1, <2>4, <2>5 DEF Carried
<1>5. CASE Retire(i)
  <2>1. \A j \in Index : bitmap'[j] = IF j = i THEN FALSE ELSE bitmap[j]
    BY <1>5 DEF Retire, TypeInv, TypeOK
  <2>2. version[i] = MaxVersion
        /\ UNCHANGED <<slabs, version, storage, freeHead, issued>>
    BY <1>5 DEF Retire, Removed
  <2>3. ASSUME NEW j \in Index, Free(j)' PROVE Free(j)
    <3>1. j # i
      BY <1>1, <2>2, <2>3, SizeAssumption DEF Free
    <3> QED
      BY <2>1, <2>2, <2>3, <3>1 DEF Free, Present
  <2>4. \A j \in L : Unused(j)' /\ storage'[j] = storage[j]
    BY <1>3, <2>1, <2>2 DEF ListOf, Unused, Present, KeyOf
  <2>5. ASSUME NEW j \in Index, Unused(j)' PROVE Unused(j)
    BY <1>1, <2>1, <2>2, <2>5 DEF Unused, Present, KeyOf
  <2>6. ListOf(L)'
    BY <2>2, <2>3, <2>4, ListUntouched
  <2> QED
    BY <2>5, <2>6 DEF Carried
<1>6. CASE Release(i)
  <2>1. \A j \in Index : SlabOf(j) # SlabOf(i) =>
            /\ bitmap'[j] = bitmap[j] /\ version'[j] = version[j]
            /\ storage'[j] = storage[j]
    BY <1>6 DEF Release, Blank
  <2>2. slabs' = slabs \ {SlabOf(i)} /\ UNCHANGED <<freeHead, issued>>
    BY <1>6 DEF Release, Removed
  <2>3. ASSUME NEW j \in L PROVE SlabOf(j) # SlabOf(i)
    <3>1. Unused(j) /\ Present(j) /\ j # i /\ j \in Index
      BY <1>3 DEF ListOf, Unused
    <3>2. SUFFICES ASSUME SlabOf(j) = SlabOf(i) PROVE FALSE
      OBVIOUS
    <3>3. Exhausted(SlabOf(i)) /\ j \in Slots(SlabOf(i))
      BY <1>6, <3>1, <3>2 DEF Release, Slots
    <3>4. Dead(j)
      BY <1>1, <3>1, <3>3, KeyInvParts, OthersDied
    <3> QED
      BY <3>1, <3>4, KeyInvParts, DeadNotUnused
  <2>4. \A j \in L : Unused(j)' /\ storage'[j] = storage[j]
    BY <2>1, <2>2, <2>3 DEF ListOf, Unused, Present, KeyOf
  <2>5. ASSUME NEW j \in Index, Free(j)' PROVE Free(j)
    <3>1. Present(j) /\ SlabOf(j) # SlabOf(i)
      BY <2>2, <2>5 DEF Free, Present
    <3> QED
      BY <2>1, <2>5, <3>1 DEF Free
  <2>6. ListOf(L)'
    BY <2>2, <2>4, <2>5, ListUntouched
  <2>7. ASSUME NEW j \in Index, Unused(j)' PROVE Unused(j)
    <3>1. Present(j) /\ SlabOf(j) # SlabOf(i)
      BY <2>2, <2>7 DEF Unused, Present
    <3> QED
      BY <2>1, <2>2, <2>7, <3>1 DEF Unused, KeyOf
  <2> QED
    BY <2>6, <2>7 DEF Carried
<1> QED
  BY <1>4, <1>5, <1>6 DEF i

(* The head becomes an element, of a map that just grew or one that did    *)
(* not.                                                                    *)
LEMMA EmplaceCarries ==
    ASSUME TypeInv, KeyInv, NEW L \in SUBSET Index, ListOf(L),
           NEW v \in Values, TryEmplace(v)
    PROVE  Carried(L)
<1> DEFINE to1 == nextBase + SlotsPerSlab
<1>1. CASE CanAllocate /\ AddSlabs(to1)
           /\ Construct(nextBase, v, GrownVersions(to1), GrownLinks(to1))
  <2>1. /\ OnGrid(to1) /\ to1 \in Int /\ nextBase < to1
        /\ to1 - SlotsPerSlab = nextBase /\ nextBase \in Grown(to1)
        /\ nextBase \in Index
    <3>1. CanAllocate
      BY <1>1
    <3> QED
      BY <3>1, FirstGrown
  <2> HIDE DEF to1
  <2>2. ReadyList(L \union Grown(to1), nextBase,
                  GrownVersions(to1), GrownLinks(to1))
    BY <1>1, <2>1, ListAfterGrowth
  <2>3. PICK M \in SUBSET Index : M = L \union Grown(to1)
    BY <2>2 DEF ReadyList, Ready
  <2>4. PICK b \in Index : b = nextBase
    BY <2>1
  <2>5. ListOf(M \ {b})'
    BY <1>1, <2>1, <2>2, <2>3, <2>4, ListConstructs
  <2>6. /\ version' = GrownVersions(to1) /\ issued \subseteq issued'
        /\ bitmap'[b] /\ \A i \in Index : bitmap[i] => bitmap'[i]
    BY <1>1, <2>4 DEF Construct, TypeInv, TypeOK
  <2>7. ASSUME NEW i \in Index, Unused(i)', i \notin M \ {b}
        PROVE  Unused(i) /\ i \notin L
    <3>1. i # b
      BY <2>6, <2>7 DEF Unused
    <3>2. i \notin Grown(to1) /\ i \notin L
      BY <2>3, <2>7, <3>1
    <3> QED
      BY <1>1, <2>1, <2>6, <2>7, <3>2, UnusedAfterGrowth
  <2> QED
    BY <2>5, <2>7 DEF Carried
<1>2. CASE HeadUsable /\ UNCHANGED <<slabs, nextBase>>
           /\ Construct(freeHead, v, version, storage)
  <2>1. ReadyList(L, freeHead, version, storage)
    BY <1>2, ListAsItStands
  <2>0. PICK h \in L : h = freeHead
    BY <1>2, HeadIsListed
  <2>2. ListOf(L \ {h})'
    BY <1>2, <2>0, <2>1, ListConstructs
  <2>3. /\ version' = version /\ issued \subseteq issued' /\ bitmap'[h]
        /\ \A i \in Index : bitmap[i] => bitmap'[i]
    BY <1>2, <2>0 DEF Construct, TypeInv, TypeOK
  <2>4. ASSUME NEW i \in Index, Unused(i)', i \notin L \ {h}
        PROVE  Unused(i) /\ i \notin L
    <3>1. i # h
      BY <2>3, <2>4 DEF Unused
    <3> QED
      BY <1>2, <2>3, <2>4, <3>1 DEF Unused, Present, KeyOf
  <2>5. L \ {h} \in SUBSET Index
    OBVIOUS
  <2> QED
    BY <2>2, <2>4, <2>5 DEF Carried
<1> QED
  BY <1>1, <1>2 DEF TryEmplace

(* A slab that stays empty only adds its slots.                            *)
LEMMA GrowthCarries ==
    ASSUME TypeInv, KeyInv, NEW L \in SUBSET Index, ListOf(L), NEW to \in Int,
           OnGrid(to), nextBase < to, AddSlabs(to), version' = GrownVersions(to),
           storage' = GrownLinks(to), freeHead' = to - SlotsPerSlab,
           UNCHANGED <<bitmap, issued>>
    PROVE  Carried(L)
<1>1. ReadyList(L \union Grown(to), to - SlotsPerSlab,
                GrownVersions(to), GrownLinks(to))
  BY ListAfterGrowth
<1>2. PICK M \in SUBSET Index : M = L \union Grown(to)
  BY <1>1 DEF ReadyList, Ready
<1>3. ListOf(M)'
  BY <1>1, <1>2, ListStays
<1>4. ASSUME NEW i \in Index, Unused(i)', i \notin M
      PROVE  Unused(i) /\ i \notin L
  BY <1>2, <1>4, UnusedAfterGrowth
<1> QED
  BY <1>3, <1>4 DEF Carried

(* Every call carries the list on.                                         *)
LEMMA ListStep ==
    ASSUME PartialWrites = FALSE, TypeInv, KeyInv, NEW L \in SUBSET Index,
           ListOf(L), [NextUntilRecycle]_vars
    PROVE  Carried(L)
<1> DEFINE to1 == nextBase + SlotsPerSlab
<1>1. KeyInv'
  BY KeyInvStep
<1>2. ASSUME ListOf(L)', \A i \in Index : Unused(i)' => Unused(i)
      PROVE  Carried(L)
  BY <1>2 DEF Carried
<1>3. ASSUME NEW v \in Values, TryEmplace(v) PROVE Carried(L)
  BY <1>3, EmplaceCarries
<1>4. CASE EmplaceThrows
  <2>1. CASE freeHead = End /\ CanAllocate /\ AddSlabs(to1)
             /\ version' = GrownVersions(to1) /\ freeHead' = nextBase
             /\ ConstructorThrows(nextBase, GrownLinks(to1))
    <3>1. CanAllocate
      BY <2>1
    <3>2. OnGrid(to1) /\ to1 \in Int /\ nextBase < to1
          /\ to1 - SlotsPerSlab = nextBase
      BY <3>1, FirstGrown
    <3> HIDE DEF to1
    <3> QED
      BY <2>1, <3>2, GrowthCarries DEF ConstructorThrows
  <2>2. CASE HeadUsable /\ UNCHANGED <<slabs, nextBase, version, freeHead>>
             /\ ConstructorThrows(freeHead, storage)
    <3>1. UNCHANGED <<slabs, version, bitmap, storage, freeHead, issued>>
      BY <2>2 DEF ConstructorThrows
    <3> QED
      BY <1>2, <3>1, ListUntouched DEF ListOf, Unused, Present, KeyOf, Free
  <2> QED
    BY <1>4, <2>1, <2>2 DEF EmplaceThrows
<1>5. ASSUME NEW to \in SlabEnds, Reserve(to) PROVE Carried(L)
  <2>1. OnGrid(to) /\ to \in Int /\ nextBase < to /\ AddSlabs(to)
    BY <1>5, SlabEndsOnGrid DEF Reserve, OnGrid
  <2> QED
    BY <1>5, <2>1, GrowthCarries DEF Reserve
<1>6. ASSUME NEW k \in Key, Erase(k) \/ UseErases(k) PROVE Carried(L)
  BY <1>1, <1>6, ListRemoval DEF Erase, UseErases
<1>7. ASSUME NEW k \in Key, PopThrows(k) \/ Use(k) PROVE Carried(L)
  <2>1. k.index \in Index /\ bitmap[k.index]
    BY <1>7 DEF PopThrows, Use, EraseFinds, IsValid, Key, KeyInv, AliveBitsMatch
  <2>2. PICK v \in Values : storage' = [storage EXCEPT ![k.index] = v]
    BY <1>7 DEF PopThrows, Use
  <2>3. UNCHANGED <<slabs, version, bitmap, freeHead, issued>>
    BY <1>7 DEF PopThrows, Use
  <2>4. \A j \in L : Unused(j)' /\ storage'[j] = storage[j]
    BY <2>1, <2>2, <2>3 DEF ListOf, Unused, Present, KeyOf, TypeInv, TypeOK
  <2>5. \A j \in Index : Free(j)' => Free(j)
    BY <2>3 DEF Free, Present
  <2>6. \A j \in Index : Unused(j)' => Unused(j)
    BY <2>3 DEF Unused, Present, KeyOf
  <2>7. ListOf(L)'
    BY <2>3, <2>4, <2>5, ListUntouched
  <2> QED
    BY <1>2, <2>6, <2>7
<1>8. CASE Reset
  <2>1. slabs' = {} /\ freeHead' = End
    BY <1>8 DEF Reset
  <2>2. Ranked({}, 0, freeHead', storage', [i \in {} |-> 1])
    BY <2>1 DEF Ranked
  <2>3. ListOf({})'
    BY <2>1, <2>2 DEF ListOf, Free, Present, Ranked
  <2>4. \A i \in Index : ~Unused(i)'
    BY <2>1 DEF Unused, Present
  <2> QED
    BY <2>3, <2>4 DEF Carried
<1>9. CASE Abort \/ UNCHANGED vars
  <2>1. UNCHANGED <<slabs, version, bitmap, storage, freeHead, issued>>
    BY <1>9 DEF Abort, vars
  <2> QED
    BY <1>2, <2>1, ListUntouched DEF ListOf, Unused, Present, KeyOf, Free
<1> QED
  BY <1>3, <1>4, <1>5, <1>6, <1>7, <1>8, <1>9, ListRebuilt
     DEF NextUntilRecycle, EmplaceAborts

(* So there always is one.                                                 *)
LEMMA ListInvStep ==
    ASSUME PartialWrites = FALSE, TypeInv, KeyInv, ListInv,
           [NextUntilRecycle]_vars
    PROVE  ListInv'
<1>1. PICK L \in SUBSET Index : ListOf(L)
  BY DEF ListInv
<1>2. PICK M \in SUBSET Index : ListOf(M)'
  BY <1>1, ListStep DEF Carried
<1> QED
  BY <1>2 DEF ListInv

-----------------------------------------------------------------------------
(* Walking the list.                                                       *)

(* Every number up to the head's is some slot's.                           *)
LEMMA EveryRank ==
    ASSUME NEW L \in SUBSET Index, NEW n, NEW h, NEW links, NEW r,
           Ranked(L, n, h, links, r), NEW m \in 1 .. n
    PROVE  \E i \in L : r[i] = m
<1> DEFINE Missing == {k \in 0 .. n - 1 : \A i \in L : r[i] # n - k}
<1>1. n \in Nat /\ n # 0 /\ \A i \in L : r[i] \in 1 .. n
  BY DEF Ranked
<1>2. Missing \in SUBSET Nat
  BY <1>1
<1>3. ASSUME Missing # {} PROVE FALSE
  <2>1. PICK k \in Missing : \A x \in Missing : k <= x
    BY <1>2, <1>3, LeastNat
  <2>2. k \in 0 .. n - 1 /\ \A i \in L : r[i] # n - k
    OBVIOUS
  <2>3. k # 0
    BY <1>1, <2>2 DEF Ranked
  <2>4. k - 1 \notin Missing
    BY <1>2, <2>1
  <2>5. PICK i \in L : r[i] = n - (k - 1)
    BY <1>1, <2>2, <2>3, <2>4
  <2>6. r[i] # 1
    BY <1>1, <2>2, <2>5
  <2>7. links[i] \in L /\ r[i] = r[links[i]] + 1
    BY <2>6 DEF Ranked
  <2>8. r[links[i]] = n - k
    BY <1>1, <2>2, <2>5, <2>7
  <2> QED
    BY <2>2, <2>7, <2>8
<1>4. n - m \in 0 .. n - 1 /\ n - (n - m) = m
  BY <1>1
<1> QED
  BY <1>3, <1>4

(* A list is no longer than the index space.                               *)
LEMMA RanksFit ==
    ASSUME NEW L \in SUBSET Index, NEW n, NEW h, NEW links, NEW r,
           Ranked(L, n, h, links, r)
    PROVE  n <= MaxSlots
<1>1. n \in Nat /\ MaxSlots \in Nat
  BY SizeAssumption DEF Ranked
<1>2. SUFFICES ASSUME MaxSlots < n PROVE FALSE
  BY <1>1
<1> DEFINE at == [m \in 1 .. n |-> CHOOSE i \in L : r[i] = m]
<1>3. \A m \in 1 .. n : at[m] \in L /\ r[at[m]] = m
  BY EveryRank
<1>4. IsFiniteSet(1 .. n) /\ Cardinality(1 .. n) = n
  BY <1>1, <1>2, FS_Interval
<1>5. IsFiniteSet(Index) /\ Cardinality(Index) = MaxSlots
  BY SizeAssumption, FS_Interval DEF Index
<1>6. at \in [1 .. n -> Index]
  BY <1>3
<1> HIDE DEF at
<1>7. PICK x \in 1 .. n, y \in 1 .. n : x # y /\ at[x] = at[y]
  BY <1>2, <1>4, <1>5, <1>6, FS_PigeonHole
<1> QED
  BY <1>3, <1>7

(* Following the links from the head visits the slots of L, each once, and *)
(* ends.                                                                   *)
LEMMA ChainOfRanked ==
    ASSUME TypeInv, NEW L \in SUBSET Index, NEW n, NEW r,
           Ranked(L, n, freeHead, storage, r)
    PROVE  /\ Chain[MaxSlots] = End
           /\ FreeList = L
<1> DEFINE N == 0 .. MaxSlots
           Step(f) == [k \in N |->
               IF k = 0 THEN freeHead
               ELSE IF f[k - 1] \notin Index THEN f[k - 1]
               ELSE IF storage[f[k - 1]] \notin Link THEN Wild
               ELSE storage[f[k - 1]]]
           at(m) == CHOOSE i \in L : r[i] = m
           walk == [k \in N |-> IF k < n THEN at(n - k) ELSE End]
<1>1. n \in Nat /\ MaxSlots \in Nat /\ n <= MaxSlots
  BY RanksFit, SizeAssumption DEF Ranked
<1>2. \A m \in 1 .. n : at(m) \in L /\ r[at(m)] = m
  BY EveryRank
<1>3. ASSUME NEW i \in L PROVE r[i] \in 1 .. n /\ at(r[i]) = i
  BY <1>2 DEF Ranked
<1> HIDE DEF at
<1>4. \A i \in L : i \in Index /\ i \in Link
  BY DEF Link
<1>5. End \notin Index /\ End \in Link
  BY IndexIsInt DEF Link
<1>6. ASSUME NEW k \in N
      PROVE  walk[k] = IF k < n THEN at(n - k) ELSE End
  OBVIOUS
<1>7. ASSUME NEW k \in N
      PROVE  walk[k] = Step(walk)[k]
  <2>1. CASE k = 0
    <3>1. CASE n = 0
      BY <1>6, <2>1, <3>1 DEF Ranked
    <3>2. CASE n # 0
      <4>1. freeHead \in L /\ r[freeHead] = n
        BY <3>2 DEF Ranked
      <4>2. at(n) = freeHead
        BY <1>3, <4>1
      <4>3. walk[0] = at(n)
        BY <1>1, <1>6, <2>1, <3>2
      <4> QED
        BY <2>1, <4>2, <4>3
    <3> QED
      BY <3>1, <3>2
  <2>2. CASE k # 0 /\ k - 1 < n
    <3>1. k - 1 \in N /\ n - (k - 1) \in 1 .. n
      BY <1>1, <2>2
    <3> DEFINE i == at(n - (k - 1))
    <3>2. i \in L /\ r[i] = n - (k - 1) /\ walk[k - 1] = i
      BY <1>2, <1>6, <2>2, <3>1
    <3> HIDE DEF i
    <3>3. CASE r[i] = 1 /\ storage[i] = End
      <4>1. ~(k < n)
        BY <1>1, <3>1, <3>2, <3>3
      <4>2. walk[k] = End
        BY <1>6, <4>1
      <4> HIDE DEF walk
      <4> QED
        BY <1>4, <1>5, <2>2, <3>2, <3>3, <4>2
    <3>4. CASE storage[i] \in L /\ r[i] = r[storage[i]] + 1
      <4>1. r[storage[i]] \in 1 .. n /\ at(r[storage[i]]) = storage[i]
        BY <1>3, <3>4
      <4>2. r[storage[i]] = n - k /\ k < n
        BY <1>1, <3>1, <3>2, <3>4, <4>1
      <4>3. walk[k] = storage[i]
        BY <1>6, <4>1, <4>2
      <4> HIDE DEF walk
      <4> QED
        BY <1>4, <2>2, <3>2, <3>4, <4>3
    <3> QED
      BY <3>2, <3>3, <3>4 DEF Ranked
  <2>3. CASE k # 0 /\ ~(k - 1 < n)
    <3>1. k - 1 \in N /\ ~(k < n)
      BY <1>1, <2>3
    <3>2. walk[k - 1] = End /\ walk[k] = End
      BY <1>6, <2>3, <3>1
    <3> HIDE DEF walk
    <3> QED
      BY <1>5, <2>3, <3>2
  <2> QED
    BY <2>1, <2>2, <2>3
<1>8. walk = Step(walk)
  <2>1. DOMAIN walk = N /\ walk = [k \in N |-> walk[k]]
    OBVIOUS
  <2>2. DOMAIN Step(walk) = N /\ Step(walk) = [k \in N |-> Step(walk)[k]]
    OBVIOUS
  <2> HIDE DEF walk, Step
  <2> QED
    BY <1>7, <2>1, <2>2
<1>9. Chain = Step(Chain)
  <2>1. Chain = CHOOSE f : f = Step(f)
    BY DEF Chain
  <2> HIDE DEF walk, Step
  <2> QED
    BY <1>8, <2>1
<1>10. ASSUME NEW k \in N PROVE Chain[k] = walk[k]
  <2> DEFINE Off == {x \in N : Chain[x] # walk[x]}
  <2>1. SUFFICES ASSUME Off # {} PROVE FALSE
    OBVIOUS
  <2>2. Off \in SUBSET Nat
    BY <1>1
  <2>3. PICK x \in Off : \A y \in Off : x <= y
    BY <2>1, <2>2, LeastNat
  <2>4. x \in N /\ Chain[x] # walk[x]
    OBVIOUS
  <2>5. Chain[x] = Step(Chain)[x] /\ walk[x] = Step(walk)[x]
    BY <1>8, <1>9
  <2>6. CASE x = 0
    <3>1. Step(Chain)[x] = freeHead /\ Step(walk)[x] = freeHead
      BY <2>4, <2>6
    <3> QED
      BY <2>4, <2>5, <3>1
  <2>7. CASE x # 0
    <3>1. x - 1 \in N /\ x - 1 \notin Off
      BY <1>1, <2>2, <2>3, <2>4, <2>7
    <3>2. Chain[x - 1] = walk[x - 1]
      BY <3>1
    <3> HIDE DEF walk
    <3>3. Step(Chain)[x] = Step(walk)[x]
      BY <2>4, <3>2
    <3> HIDE DEF Step
    <3> QED
      BY <2>4, <2>5, <3>3
  <2> QED
    BY <2>6, <2>7
<1>11. Chain[MaxSlots] = End
  BY <1>1, <1>6, <1>10
<1>12. ASSUME NEW i \in FreeList PROVE i \in L
  <2>1. PICK k \in N : i = Chain[k] /\ i # End
    BY DEF FreeList
  <2>2. k < n /\ i = at(n - k)
    BY <1>6, <1>10, <2>1
  <2>3. n - k \in 1 .. n
    BY <1>1, <2>1, <2>2
  <2> QED
    BY <1>2, <2>2, <2>3
<1>13. ASSUME NEW i \in L PROVE i \in FreeList
  <2>1. n - r[i] \in N /\ n - r[i] < n /\ n - (n - r[i]) = r[i]
    BY <1>1, <1>3
  <2>2. Chain[n - r[i]] = i
    BY <1>3, <1>6, <1>10, <2>1
  <2> QED
    BY <1>4, <1>5, <2>1, <2>2 DEF FreeList
<1> QED
  BY <1>11, <1>12, <1>13

(* What the invariant says of the list try_emplace walks.                  *)
LEMMA ListInvSound == ASSUME TypeInv, ListInv PROVE FreeListSound
<1>1. PICK L \in SUBSET Index : ListOf(L)
  BY DEF ListInv
<1>2. PICK n, r : Ranked(L, n, freeHead, storage, r)
  BY <1>1 DEF ListOf
<1>3. Chain[MaxSlots] = End /\ FreeList = L
  BY <1>2, ChainOfRanked
<1> QED
  BY <1>1, <1>3 DEF FreeListSound, ListOf, Unused, Free

(* Whatever is emplaced, erased, reserved, cleared or reset, the free list *)
(* ends, holds only slots that emplace may construct in, each once, and    *)
(* holds every slot that is free below its last version.                   *)
THEOREM FreeListIntact ==
    ASSUME PartialWrites = FALSE
    PROVE  SpecUntilRecycle => []FreeListSound
<1>1. Init => TypeInv /\ KeyInv /\ ListInv
  BY TypeInit, BlankKeyInv, NoList DEF Init
<1>2. TypeInv /\ KeyInv /\ ListInv /\ [NextUntilRecycle]_vars
        => (TypeInv /\ KeyInv /\ ListInv)'
  BY TypeStep, KeyInvStep, ListInvStep DEF Next
<1>3. TypeInv /\ KeyInv /\ ListInv => FreeListSound
  BY ListInvSound
<1> QED
  BY <1>1, <1>2, <1>3, PTL DEF SpecUntilRecycle

(* A list is the one try_emplace walks.                                    *)
LEMMA ListIsFreeList ==
    ASSUME TypeInv, NEW L \in SUBSET Index, ListOf(L) PROVE FreeList = L
BY ChainOfRanked DEF ListOf

(* The free list keeps every unused slot, one at its last version too,     *)
(* until emplace takes it; only clear() drops those at the last version,   *)
(* and no others.                                                          *)
THEOREM OnlyClearDrops ==
    ASSUME PartialWrites = FALSE
    PROVE  SpecUntilRecycle => OnlyClearDropsSlots
<1> DEFINE Named == \A L \in SUBSET Index : ListOf(L) => FreeList = L
           Stays == \A i \in Index : Unused(i)' =>
                        \/ i \in FreeList'
                        \/ Unused(i) /\ i \notin FreeList
                        \/ Clear /\ Unused(i) /\ version[i] = MaxVersion
<1>1. Init => TypeInv /\ KeyInv /\ ListInv
  BY TypeInit, BlankKeyInv, NoList DEF Init
<1>2. TypeInv /\ KeyInv /\ ListInv /\ [NextUntilRecycle]_vars
        => (TypeInv /\ KeyInv /\ ListInv)'
  BY TypeStep, KeyInvStep, ListInvStep DEF Next
<1>3. TypeInv => Named
  BY ListIsFreeList
<1>4. TypeInv /\ KeyInv /\ ListInv /\ Named /\ Named' /\ [NextUntilRecycle]_vars
        => [Stays]_vars
  <2> SUFFICES ASSUME TypeInv, KeyInv, ListInv, Named, Named',
                      [NextUntilRecycle]_vars
               PROVE  Stays
    OBVIOUS
  <2>1. PICK L \in SUBSET Index : ListOf(L)
    BY DEF ListInv
  <2>2. Carried(L)
    BY <2>1, ListStep
  <2>3. PICK M \in SUBSET Index :
            /\ ListOf(M)'
            /\ \A i \in Index : Unused(i)' =>
                   \/ i \in M
                   \/ Unused(i) /\ i \notin L
                   \/ Clear /\ Unused(i) /\ version[i] = MaxVersion
    BY <2>2 DEF Carried
  <2>4. FreeList = L /\ FreeList' = M
    BY <2>1, <2>3
  <2> QED
    BY <2>3, <2>4
<1> QED
  BY <1>1, <1>2, <1>3, <1>4, PTL DEF SpecUntilRecycle, OnlyClearDropsSlots

(* An emplace finds the slot at the head usable: no assert() fires and no  *)
(* null slab is used.                                                      *)
THEOREM EmplaceNeverAborts ==
    ASSUME PartialWrites = FALSE
    PROVE  SpecUntilRecycle => []NeverAborts
<1>1. ASSUME KeyInv, freeHead # End PROVE HeadUsable
  BY <1>1 DEF KeyInv, FreeListLinked, Linked, ListShape, Unused, HeadUsable
<1>2. Init => TypeInv /\ KeyInv /\ NeverAborts
  BY TypeInit, BlankKeyInv DEF Init, NeverAborts
<1>3. TypeInv /\ KeyInv /\ NeverAborts /\ [NextUntilRecycle]_vars
        => (TypeInv /\ KeyInv /\ NeverAborts)'
  <2>1. ASSUME KeyInv, NeverAborts, [NextUntilRecycle]_vars PROVE NeverAborts'
    BY <1>1, <2>1
       DEF NextUntilRecycle, TryEmplace, Construct, EmplaceThrows,
           ConstructorThrows, EmplaceAborts, Reserve, Erase, PopThrows, Use,
           UseErases, Clear, Reset, vars, NeverAborts
  <2> QED
    BY <2>1, TypeStep, KeyInvStep DEF Next
<1> QED
  BY <1>2, <1>3, PTL DEF SpecUntilRecycle

-----------------------------------------------------------------------------
(* statistics() adds up.  Every slot is counted in exactly one group, no   *)
(* difference of counters wraps, and objects_remaining is the number of    *)
(* keys the map can still issue.                                           *)

(* Unsigned differences.                                                   *)

(* A difference that is not negative does not wrap.                        *)
LEMMA MinusExact ==
    ASSUME NEW range \in Nat \ {0}, NEW a \in Int, NEW b \in Int,
           0 <= a - b, a - b < range
    PROVE  Minus(a, b, range) = a - b
<1>1. PICK d \in 0 .. range - 1 : d = a - b
  OBVIOUS
<1>2. d = range * 0 + d /\ 0 \in Int
  BY <1>1
<1>3. (range * 0 + d) % range = d
  BY <1>1, DivUnique
<1> QED
  BY <1>1, <1>2, <1>3 DEF Minus

(* Any difference is in the range of the counters.                         *)
LEMMA MinusInRange ==
    ASSUME NEW range \in Nat \ {0}, NEW a \in Int, NEW b \in Int
    PROVE  Minus(a, b, range) \in 0 .. range - 1
<1>1. a - b \in Int
  OBVIOUS
<1>2. (a - b) % range \in Int /\ 0 <= (a - b) % range /\ (a - b) % range < range
  BY <1>1, DivMod
<1> QED
  BY <1>2 DEF Minus

-----------------------------------------------------------------------------
(* Where the slots are.                                                    *)

(* An index range counts as allocated, no more.                            *)
LEMMA AllocatedCount ==
    ASSUME TypeInv
    PROVE  Allocated \in SUBSET Index /\ Cardinality(Allocated) = nextBase
<1>1. nextBase \in Nat /\ nextBase <= MaxSlots /\ MaxSlots \in Nat
  BY SizeAssumption DEF TypeInv, OnGrid
<1>2. Allocated = 0 .. nextBase - 1
  BY <1>1 DEF Allocated, Index
<1>3. 0 \in Int /\ nextBase - 1 \in Int
  BY <1>1
<1>4. Cardinality(0 .. nextBase - 1)
        = IF 0 > nextBase - 1 THEN 0 ELSE nextBase - 1 - 0 + 1
  BY <1>3, FS_Interval
<1>5. Allocated \in SUBSET Index
  BY DEF Allocated
<1>6. Cardinality(0 .. nextBase - 1) = nextBase
  BY ONLY <1>1, <1>4
<1> QED
  BY ONLY <1>2, <1>5, <1>6

(* The index space has MaxSlots slots.                                     *)
LEMMA IndexCount == Cardinality(Index) = MaxSlots /\ IsFiniteSet(Index)
BY FS_Interval, SizeAssumption DEF Index

(* There are no more slabs than ranges handed out.                         *)
LEMMA SlabsFit ==
    ASSUME TypeInv, KeyInv
    PROVE  /\ Cardinality(slabs) \in Nat
           /\ Cardinality(slabs) * SlotsPerSlab <= nextBase
<1> DEFINE p == SlotsPerSlab
           q == nextBase \div p
<1>1. p \in Nat \ {0} /\ nextBase \in Nat /\ nextBase <= MaxSlots
      /\ MaxSlots \in Nat \ {0} /\ MaxSlots % p = 0 /\ nextBase % p = 0
  BY SizeAssumption DEF TypeInv, OnGrid
<1>2. nextBase = p * q /\ q \in Int
  <2>1. nextBase = p * (nextBase \div p) + (nextBase % p)
        /\ nextBase \div p \in Int
    BY ONLY <1>1, DivMod
  <2> QED
    BY <1>1, <2>1
<1>3. MaxSlots = p * (MaxSlots \div p) /\ MaxSlots \div p \in Int
  <2>1. MaxSlots = p * (MaxSlots \div p) + (MaxSlots % p)
        /\ MaxSlots \div p \in Int
    BY ONLY <1>1, DivMod
  <2> QED
    BY <1>1, <2>1
<1>4. 0 <= q
  BY <1>1, <1>2
<1>5. ASSUME NEW s \in slabs PROVE s \in 0 .. q - 1
  <2>1. s \in Nat /\ s < MaxSlots \div p
    BY <1>3 DEF TypeInv, TypeOK, SlabIndex
  <2> DEFINE i == p * s + 0
  <2>2. i \div p = s /\ i \in Nat
    BY <1>1, <2>1, DivUnique
  <2>3. i < MaxSlots
    <3>1. p * (s + 1) <= p * (MaxSlots \div p)
      BY <1>1, <1>3, <2>1
    <3>2. p * (s + 1) = i + p
      BY <1>1, <2>1
    <3> QED
      BY <1>1, <1>3, <2>2, <3>1, <3>2
  <2>4. i \in Index /\ Present(i)
    BY <1>1, <2>2, <2>3 DEF Index, Present, SlabOf
  <2>5. i < nextBase
    BY <2>4 DEF KeyInv, SlabsOnGrid
  <2>6. p * s < p * q
    BY <1>1, <1>2, <2>1, <2>5
  <2>7. s < q
    BY <1>1, <1>2, <2>1, <2>6
  <2> QED
    BY <1>2, <2>1, <2>7
<1> HIDE DEF q
<1>6. IsFiniteSet(0 .. q - 1) /\ Cardinality(0 .. q - 1) = q
  <2>1. 0 \in Int /\ q - 1 \in Int
    BY <1>2
  <2>2. /\ Cardinality(0 .. q - 1) = (IF 0 > q - 1 THEN 0 ELSE q - 1 - 0 + 1)
        /\ IsFiniteSet(0 .. q - 1)
    BY ONLY <2>1, FS_Interval
  <2> QED
    BY ONLY <1>2, <1>4, <2>2
<1>7. slabs \in SUBSET (0 .. q - 1)
  BY <1>5
<1>8. IsFiniteSet(slabs) /\ Cardinality(slabs) <= q
  BY <1>6, <1>7, FS_Subset
<1>9. Cardinality(slabs) \in Nat
  BY <1>8, FS_CardinalityType
<1>10. ASSUME NEW c \in Nat, c <= q PROVE c * p <= p * q
  BY <1>1, <1>2, <1>10
<1> QED
  BY <1>1, <1>2, <1>8, <1>9, <1>10

(* The counters and the slots they stand for.                              *)
LEMMA SlotsInGroups ==
    ASSUME TypeInv, KeyInv, Counts
    PROVE  /\ size = Cardinality(Alive) /\ deadSlots = Cardinality(DeadOnes)
           /\ Alive \in SUBSET Allocated /\ DeadOnes \in SUBSET Allocated
           /\ Cardinality(Alive \union DeadOnes) = size + deadSlots
           /\ size \in Nat /\ deadSlots \in Nat /\ size + deadSlots <= nextBase
<1>1. Alive = AliveSlots /\ DeadOnes = DeadSet
  BY DEF Alive, AliveSlots, DeadOnes, DeadSet
<1>2. size = Cardinality(Alive) /\ deadSlots = Cardinality(DeadOnes)
  BY <1>1 DEF Counts
<1>3. Alive \in SUBSET Allocated
  BY DEF Alive, Allocated, KeyInv, AliveBitsMatch, SlabsOnGrid
<1>4. DeadOnes \in SUBSET Allocated
  BY DEF DeadOnes, Dead, Allocated, KeyInv, VersionsCover
<1>5. Allocated \in SUBSET Index /\ Cardinality(Allocated) = nextBase
  BY AllocatedCount
<1>6. IsFiniteSet(Allocated) /\ IsFiniteSet(Alive) /\ IsFiniteSet(DeadOnes)
      /\ size \in Nat /\ deadSlots \in Nat
  BY <1>2, <1>3, <1>4, <1>5, IndexSubsetsFinite
<1>7. Alive \intersect DeadOnes = {}
  BY DEF Alive, DeadOnes, Dead
<1>8. Cardinality(Alive \intersect DeadOnes) = 0
  BY <1>7, FS_EmptySet
<1>9. Cardinality(Alive \union DeadOnes) = Cardinality(Alive)
        + Cardinality(DeadOnes) - Cardinality(Alive \intersect DeadOnes)
  BY <1>6, FS_Union
<1>10. Cardinality(Alive \union DeadOnes) = size + deadSlots
  BY <1>2, <1>6, <1>8, <1>9
<1>11. Alive \union DeadOnes \in SUBSET Allocated
  BY <1>3, <1>4
<1>12. Cardinality(Alive \union DeadOnes) <= Cardinality(Allocated)
  BY <1>6, <1>11, FS_Subset
<1> QED
  BY <1>2, <1>3, <1>4, <1>5, <1>6, <1>10, <1>12

(* The number of slots outside a group.                                    *)
LEMMA Outside ==
    ASSUME NEW S, IsFiniteSet(S), NEW T \in SUBSET S
    PROVE  Cardinality(S \ T) = Cardinality(S) - Cardinality(T)
<1>1. S \intersect T = T
  OBVIOUS
<1> QED
  BY <1>1, FS_Difference

(* max_objects, and when it does not saturate.                             *)
LEMMA MaxObjectsType ==
    /\ MaxObjects \in Nat /\ MaxObjects \in 0 .. ObjectRange - 1
    /\ MaxSlots * (MaxVersion + 1) <= ObjectRange
         => MaxObjects = MaxSlots * (MaxVersion + 1) - 1
<1>1. ObjectRange \in Nat \ {0} /\ MaxSlots \in Nat \ {0} /\ MaxVersion + 1 \in Nat \ {0}
  BY RangeAssumption, SizeAssumption
<1>2. PICK x \in Nat \ {0} : x = MaxSlots * (MaxVersion + 1)
  BY <1>1
<1> QED
  BY <1>1, <1>2 DEF MaxObjects

(* Fewer than 2^64 objects have been created.                              *)
CreatedFits == objectsCreated <= MaxCreated

(* The counters add up in every state the key invariant allows.            *)
LEMMA AddsUp ==
    ASSUME TypeInv, KeyInv, Counts, CreatedFits, MaxCreated < SizeRange
    PROVE  SlotsAddUp
<1> DEFINE st == statistics
<1>1. /\ MaxSlots \in Nat \ {0} /\ SizeRange \in Nat /\ SizeRange > 2 * MaxSlots
      /\ SlotsPerSlab \in Nat \ {0} /\ SizeRange \in Nat \ {0}
      /\ ObjectRange \in Nat \ {0} /\ MaxCreated \in Nat
  BY SizeAssumption, RangeAssumption
<1>2. /\ nextBase \in Nat /\ nextBase <= MaxSlots
      /\ size \in Nat /\ deadSlots \in Nat /\ size + deadSlots <= nextBase
      /\ objectsCreated \in Nat /\ objectsCreated <= MaxCreated
  BY SlotsInGroups DEF TypeInv, TypeOK, OnGrid, CreatedFits
<1>0. ASSUME NEW a \in Nat, NEW b \in Nat, b <= a, a <= MaxSlots
      PROVE  Minus(a, b, SizeRange) = a - b
  <2>1. a \in Int /\ b \in Int /\ 0 <= a - b /\ a - b < SizeRange
    BY <1>1, <1>0
  <2> QED
    BY ONLY <1>1, <2>1, MinusExact
<1>3. Minus(nextBase, size, SizeRange) = nextBase - size
  <2>1. size <= nextBase
    BY <1>2
  <2> QED
    BY ONLY <1>2, <1>0, <2>1
<1>4. FreeCount = nextBase - size - deadSlots
  <2>1. Minus(nextBase - size, deadSlots, SizeRange) = nextBase - size - deadSlots
    <3>1. nextBase - size \in Nat /\ deadSlots <= nextBase - size
          /\ nextBase - size <= MaxSlots
      BY <1>1, <1>2
    <3> QED
      BY ONLY <1>2, <1>0, <3>1
  <2> QED
    BY <1>3, <2>1 DEF FreeCount
<1>5. Minus(MaxSlots, nextBase, SizeRange) = MaxSlots - nextBase
  BY ONLY <1>1, <1>2, <1>0
<1>6. Minus(MaxSlots, deadSlots, SizeRange) = MaxSlots - deadSlots
  <2>1. deadSlots <= MaxSlots
    BY <1>1, <1>2
  <2> QED
    BY ONLY <1>1, <1>2, <1>0, <2>1
<1>7. Cardinality(slabs) \in Nat /\ Cardinality(slabs) * SlotsPerSlab <= nextBase
      /\ Cardinality(slabs) <= nextBase
  <2>1. Cardinality(slabs) \in Nat /\ Cardinality(slabs) * SlotsPerSlab <= nextBase
    BY SlabsFit
  <2>2. ASSUME NEW c \in Nat PROVE c <= c * SlotsPerSlab
    BY <1>1
  <2>3. ASSUME NEW c \in Nat, c * SlotsPerSlab <= nextBase PROVE c <= nextBase
    BY <1>1, <1>2, <2>2, <2>3
  <2> QED
    BY <2>1, <2>3
<1>8. /\ Minus(MaxObjects, objectsCreated, ObjectRange) \in 0 .. ObjectRange - 1
      /\ MaxObjects \in 0 .. ObjectRange - 1
  <2>1. MaxObjects \in 0 .. ObjectRange - 1 /\ MaxObjects \in Int
    BY MaxObjectsType
  <2>2. objectsCreated \in Int
    BY <1>2
  <2> QED
    BY ONLY <1>1, <2>1, <2>2, MinusInRange
<1>9. st \in Counters
  <2>1. st = [max_slots |-> MaxSlots, max_objects |-> MaxObjects,
              active_slots |-> size, dead_slots |-> deadSlots,
              allocated_slots |-> nextBase,
              free_slots |-> nextBase - size - deadSlots,
              unallocated_slots |-> MaxSlots - nextBase,
              remaining_slots |-> MaxSlots - deadSlots,
              objects_created |-> objectsCreated,
              objects_remaining |-> Minus(MaxObjects, objectsCreated, ObjectRange),
              slab_count |-> Cardinality(slabs)]
    BY <1>4, <1>5, <1>6 DEF statistics
  <2>2. \A x \in Nat : x <= MaxSlots => x \in 0 .. SizeRange - 1
    BY <1>1
  <2>3. /\ MaxSlots \in 0 .. SizeRange - 1 /\ size \in 0 .. SizeRange - 1
        /\ deadSlots \in 0 .. SizeRange - 1 /\ nextBase \in 0 .. SizeRange - 1
        /\ nextBase - size - deadSlots \in 0 .. SizeRange - 1
        /\ MaxSlots - nextBase \in 0 .. SizeRange - 1
        /\ MaxSlots - deadSlots \in 0 .. SizeRange - 1
        /\ objectsCreated \in 0 .. SizeRange - 1
        /\ Cardinality(slabs) \in 0 .. SizeRange - 1
    BY <1>1, <1>2, <1>7
  <2> QED
    BY <1>8, <2>1, <2>3 DEF Counters
<1>10. /\ IsFiniteSet(Index) /\ Cardinality(Index) = MaxSlots
       /\ Allocated \in SUBSET Index /\ IsFiniteSet(Allocated)
       /\ Cardinality(Allocated) = nextBase
  BY IndexCount, AllocatedCount, FS_Subset
<1>11. /\ size = Cardinality(Alive) /\ deadSlots = Cardinality(DeadOnes)
       /\ Alive \union DeadOnes \in SUBSET Allocated /\ DeadOnes \in SUBSET Index
       /\ Cardinality(Alive \union DeadOnes) = size + deadSlots
  BY <1>10, SlotsInGroups
<1>12. Cardinality(Allocated \ (Alive \union DeadOnes)) = nextBase - (size + deadSlots)
  BY <1>10, <1>11, Outside
<1>13. Cardinality(Index \ Allocated) = MaxSlots - nextBase
  BY <1>10, Outside
<1>14. Cardinality(Index \ DeadOnes) = MaxSlots - deadSlots
  BY <1>10, <1>11, Outside
<1>15. /\ st.active_slots = size /\ st.free_slots = FreeCount
       /\ st.unallocated_slots = MaxSlots - nextBase
       /\ st.remaining_slots = MaxSlots - deadSlots
       /\ st.slab_count = Cardinality(slabs) /\ st.max_slots = MaxSlots
  BY <1>5, <1>6 DEF statistics
<1> HIDE DEF st
<1>16. st.free_slots = Cardinality(Allocated \ (Alive \union DeadOnes))
  BY <1>2, <1>4, <1>12, <1>15
<1>17. st.active_slots <= st.remaining_slots
       /\ st.slab_count * SlotsPerSlab + st.unallocated_slots <= st.max_slots
  <2>1. PICK c \in Nat : c = Cardinality(slabs) /\ c * SlotsPerSlab <= nextBase
    BY <1>7
  <2> QED
    BY <1>1, <1>2, <1>15, <2>1
<1>18. /\ st \in Counters
       /\ st.active_slots = Cardinality(Alive)
       /\ st.free_slots = Cardinality(Allocated \ (Alive \union DeadOnes))
       /\ st.unallocated_slots = Cardinality(Index \ Allocated)
       /\ st.remaining_slots = Cardinality(Index \ DeadOnes)
       /\ st.active_slots <= st.remaining_slots
       /\ st.slab_count * SlotsPerSlab + st.unallocated_slots <= st.max_slots
  BY <1>9, <1>11, <1>13, <1>14, <1>15, <1>16, <1>17
<1> QED
  BY <1>18 DEF SlotsAddUp, st

(* The bound on created objects is kept.                                   *)
LEMMA CreatedStep ==
    ASSUME TypeInv, CreatedFits, [NextUntilRecycle]_vars
    PROVE  CreatedFits'
<1>1. objectsCreated \in Nat /\ MaxCreated \in Nat
  BY SizeAssumption DEF TypeInv, TypeOK
<1>2. ASSUME NEW v \in Values, TryEmplace(v) PROVE CreatedFits'
  BY <1>1, <1>2 DEF TryEmplace, Construct, CreatedFits
<1>3. CASE Reset
  BY <1>1, <1>3 DEF Reset, CreatedFits
<1>4. CASE UNCHANGED objectsCreated
  BY <1>4 DEF CreatedFits
<1> QED
  BY <1>2, <1>3, <1>4 DEF NextUntilRecycle, EmplaceThrows, ConstructorThrows,
     EmplaceAborts, Abort, Reserve, Erase, UseErases, Removed, PopThrows, Use,
     Clear, vars

(* statistics() counts every slot once, and none of its differences wraps, *)
(* as long as no more objects are created than size_t counts.              *)
THEOREM StatisticsAddUp ==
    ASSUME PartialWrites = FALSE, MaxCreated < SizeRange
    PROVE  SpecUntilRecycle => []SlotsAddUp
<1>1. Init => TypeInv /\ KeyInv /\ Counts /\ CreatedFits
  <2>1. Init => AliveSlots = {} /\ DeadSet = {}
    BY DEF Init, AliveSlots, DeadSet, Dead
  <2> QED
    BY <2>1, TypeInit, BlankKeyInv, FS_EmptySet, SizeAssumption
       DEF Init, Counts, CreatedFits
<1>2. TypeInv /\ KeyInv /\ Counts /\ CreatedFits /\ [NextUntilRecycle]_vars
        => (TypeInv /\ KeyInv /\ Counts /\ CreatedFits)'
  BY TypeStep, KeyInvStep, CountsStep, CreatedStep DEF Next
<1>3. TypeInv /\ KeyInv /\ Counts /\ CreatedFits => SlotsAddUp
  BY AddsUp
<1> QED
  BY <1>1, <1>2, <1>3, PTL DEF SpecUntilRecycle
-----------------------------------------------------------------------------
(* The keys left.                                                          *)

(* No version is skipped: of an allocated slot, every key below the slot's *)
(* own version was issued, and of a slot whose slab was deleted, all were. *)
NoneSkipped ==
    \A k \in Key \ {NullKey} :
        k \notin issued =>
            \/ k.index >= nextBase
            \/ Present(k.index) /\ k.version >= version[k.index]

(* Every object created has a key of its own.                              *)
OneKeyEach == objectsCreated = Cardinality(issued)

(* There are as many keys as pairs of an index and a version.              *)
LEMMA KeyCount ==
    IsFiniteSet(Key) /\ Cardinality(Key) = MaxSlots * (MaxVersion + 1)
<1>1. IsFiniteSet(Index) /\ Cardinality(Index) = MaxSlots
  BY IndexCount
<1>2. IsFiniteSet(Version) /\ Cardinality(Version) = MaxVersion + 1
  <2>1. /\ Cardinality(0 .. MaxVersion)
             = (IF 0 > MaxVersion THEN 0 ELSE MaxVersion - 0 + 1)
        /\ IsFiniteSet(0 .. MaxVersion)
    BY FS_Interval, SizeAssumption
  <2> QED
    BY <2>1, SizeAssumption DEF Version
<1> DEFINE f == [p \in Index \X Version |-> [index |-> p[1], version |-> p[2]]]
<1>3. f \in [Index \X Version -> Key]
  BY DEF Key
<1>4. ASSUME NEW a \in Index \X Version, NEW b \in Index \X Version, f[a] = f[b]
      PROVE  a = b
  <2>1. f[a] = [index |-> a[1], version |-> a[2]]
        /\ f[b] = [index |-> b[1], version |-> b[2]]
    OBVIOUS
  <2>2. a[1] = b[1] /\ a[2] = b[2]
    BY <1>4, <2>1
  <2> QED
    BY <2>2
<1>5. ASSUME NEW k \in Key PROVE \E p \in Index \X Version : f[p] = k
  <2>1. <<k.index, k.version>> \in Index \X Version
        /\ k = [index |-> k.index, version |-> k.version]
    BY DEF Key
  <2> QED
    BY <2>1
<1> HIDE DEF f
<1>6. f \in Bijection(Index \X Version, Key)
  BY <1>3, <1>4, <1>5, Fun_IsBij
<1>7. ExistsBijection(Index \X Version, Key)
  BY <1>6 DEF ExistsBijection
<1>8. IsFiniteSet(Index \X Version)
      /\ Cardinality(Index \X Version) = MaxSlots * (MaxVersion + 1)
  BY <1>1, <1>2, FS_Product
<1> QED
  BY <1>7, <1>8, FS_Bijection

(* New slabs skip no version, and leave those of the other slots.          *)
LEMMA GrowthSkipsNone ==
    ASSUME TypeInv, NoneSkipped, NEW to \in Int, OnGrid(to), nextBase < to,
           AddSlabs(to), version' = GrownVersions(to), issued \subseteq issued'
    PROVE  NoneSkipped'
<1>1. MaxSlots \in Nat /\ nextBase \in Nat /\ to \in Nat /\ nextBase' = to
  BY SizeAssumption DEF TypeInv, OnGrid, AddSlabs
<1>2. ASSUME NEW k \in Key \ {NullKey}, k \notin issued'
      PROVE  \/ k.index >= to
             \/ Present(k.index)' /\ k.version >= version'[k.index]
  <2>1. k.index \in Index /\ k.index \in Nat /\ k.version \in Nat /\ k \notin issued
    BY <1>2, SizeAssumption DEF Key, Index, Version
  <2>2. CASE k.index \in Grown(to)
    <3>1. version'[k.index] = IF k.index = 0 THEN 1 ELSE 0
      BY <2>1, <2>2 DEF GrownVersions
    <3>2. k.index = 0 => k.version # 0
      BY <1>2 DEF NullKey, Key
    <3>3. Present(k.index)'
      BY <2>1, <2>2, PresentGrown
    <3> QED
      BY <2>1, <3>1, <3>2, <3>3
  <2>3. CASE k.index \notin Grown(to) /\ k.index < to
    <3>1. k.index < nextBase
      BY <1>1, <2>1, <2>3 DEF Grown
    <3>2. Present(k.index) /\ k.version >= version[k.index]
      BY <1>1, <1>2, <2>1, <3>1 DEF NoneSkipped
    <3>3. Present(k.index)'
      BY <2>1, <3>2, PresentGrown
    <3>4. version'[k.index] = version[k.index]
      BY <2>1, <2>3 DEF GrownVersions
    <3> QED
      BY <3>2, <3>3, <3>4
  <2> QED
    BY <1>1, <2>1, <2>2, <2>3
<1> QED
  BY <1>1, <1>2 DEF NoneSkipped

(* A call that leaves slabs and versions alone skips none.                 *)
LEMMA StandingSkipsNone ==
    ASSUME NoneSkipped, UNCHANGED <<slabs, nextBase, version>>,
           issued \subseteq issued'
    PROVE  NoneSkipped'
<1>1. \A i : Present(i)' <=> Present(i)
  BY DEF Present
<1> QED
  BY <1>1 DEF NoneSkipped

(* A removal skips none: the version it leaves behind was issued.          *)
LEMMA RemovalSkipsNone ==
    ASSUME TypeInv, KeyInv, NoneSkipped, NEW i \in Index, bitmap[i],
           Reuse(i) \/ Retire(i) \/ Release(i), Removed
    PROVE  NoneSkipped'
<1>1. MaxVersion \in Nat /\ \A j \in Index : version[j] \in 0 .. MaxVersion
  BY SizeAssumption DEF TypeInv, TypeOK, Version
<1>2. KeyOf(i) \in issued /\ issued' = issued
  BY DEF KeyInv, VersionsCover, Removed
<1>3. \A k \in Key : k.index \in Index /\ k.version \in 0 .. MaxVersion
                     /\ k = [index |-> k.index, version |-> k.version]
  BY DEF Key, Version
<1>4. CASE Reuse(i)
  <2>1. UNCHANGED <<slabs, nextBase>>
        /\ \A j \in Index : version'[j] = IF j = i THEN version[i] + 1 ELSE version[j]
    BY <1>4 DEF Reuse, TypeInv, TypeOK
  <2>2. \A j : Present(j)' <=> Present(j)
    BY <2>1 DEF Present
  <2>3. ASSUME NEW k \in Key \ {NullKey}, k \notin issued',
               ~(k.index >= nextBase)
        PROVE  Present(k.index)' /\ k.version >= version'[k.index]
    <3>1. Present(k.index) /\ k.version >= version[k.index] /\ k.index \in Index
      BY <1>2, <1>3, <2>3 DEF NoneSkipped
    <3>2. CASE k.index = i
      <4>1. k.version # version[i]
        BY <1>2, <1>3, <2>3, <3>2 DEF KeyOf
      <4>2. k.version >= version[i] + 1
        BY <1>1, <1>3, <3>1, <3>2, <4>1
      <4> QED
        BY <2>1, <2>2, <3>1, <3>2, <4>2
    <3>3. CASE k.index # i
      BY <2>1, <2>2, <3>1, <3>3
    <3> QED
      BY <3>2, <3>3
  <2> QED
    BY <2>1, <2>3 DEF NoneSkipped
<1>5. CASE Retire(i)
  BY <1>2, <1>5, StandingSkipsNone DEF Retire
<1>6. CASE Release(i)
  <2> DEFINE s == SlabOf(i)
  <2>1. slabs' = slabs \ {s} /\ nextBase' = nextBase /\ version[i] = MaxVersion
        /\ Exhausted(s)
        /\ \A j \in Index : SlabOf(j) # s => version'[j] = version[j]
    BY <1>6 DEF Release, Blank
  <2>2. ASSUME NEW k \in Key \ {NullKey}, k \notin issued',
               ~(k.index >= nextBase)
        PROVE  Present(k.index)' /\ k.version >= version'[k.index]
    <3>1. Present(k.index) /\ k.version >= version[k.index] /\ k.index \in Index
      BY <1>2, <1>3, <2>2 DEF NoneSkipped
    <3>2. ASSUME SlabOf(k.index) = s PROVE FALSE
      <4>1. [index |-> k.index, version |-> MaxVersion] \in issued
            /\ version[k.index] = MaxVersion
        <5>1. CASE k.index = i
          BY <1>2, <2>1, <5>1 DEF KeyOf
        <5>2. CASE k.index # i
          <6>1. Dead(k.index)
            BY <2>1, <3>1, <3>2, <5>2, KeyInvParts, OthersDied DEF Slots
          <6>2. MaxVersion <= version[k.index]
            BY <3>1, <6>1 DEF Dead, KeyInv, VersionsCover
          <6> QED
            BY <1>1, <3>1, <6>1, <6>2 DEF Dead
        <5> QED
          BY <5>1, <5>2
      <4>2. k.version = MaxVersion
        BY <1>1, <1>3, <3>1, <4>1
      <4> QED
        BY <1>2, <1>3, <2>2, <4>1, <4>2
    <3> QED
      BY <2>1, <3>1, <3>2 DEF Present
  <2> QED
    BY <2>1, <2>2 DEF NoneSkipped
<1> QED
  BY <1>4, <1>5, <1>6

(* No call skips a version.                                                *)
LEMMA SkipStep ==
    ASSUME TypeInv, KeyInv, NoneSkipped, [NextUntilRecycle]_vars
    PROVE  NoneSkipped'
<1> DEFINE to1 == nextBase + SlotsPerSlab
<1>1. CanAllocate => OnGrid(to1) /\ to1 \in Int /\ nextBase < to1
  BY GridStep, SizeAssumption DEF CanAllocate, TypeInv, OnGrid
<1>2. ASSUME NEW v \in Values, TryEmplace(v) PROVE NoneSkipped'
  <2>1. issued \subseteq issued'
    BY <1>2 DEF TryEmplace, Construct
  <2>2. CASE CanAllocate /\ AddSlabs(to1) /\ version' = GrownVersions(to1)
    BY <1>1, <2>1, <2>2, GrowthSkipsNone
  <2>3. CASE UNCHANGED <<slabs, nextBase, version>>
    BY <2>1, <2>3, StandingSkipsNone
  <2> QED
    BY <1>2, <2>2, <2>3 DEF TryEmplace, Construct
<1>3. CASE EmplaceThrows
  <2>1. issued' = issued
    BY <1>3 DEF EmplaceThrows, ConstructorThrows
  <2>2. CASE CanAllocate /\ AddSlabs(to1) /\ version' = GrownVersions(to1)
    BY <1>1, <2>1, <2>2, GrowthSkipsNone
  <2>3. CASE UNCHANGED <<slabs, nextBase, version>>
    BY <2>1, <2>3, StandingSkipsNone
  <2> QED
    BY <1>3, <2>2, <2>3 DEF EmplaceThrows
<1>4. ASSUME NEW to \in SlabEnds, Reserve(to) PROVE NoneSkipped'
  <2>1. OnGrid(to) /\ to \in Int /\ nextBase < to
    BY <1>4, SlabEndsOnGrid DEF Reserve, OnGrid
  <2> QED
    BY <1>4, <2>1, GrowthSkipsNone DEF Reserve
<1>5. ASSUME NEW k \in Key, Erase(k) \/ UseErases(k) PROVE NoneSkipped'
  <2>1. k.index \in Index /\ bitmap[k.index]
    BY <1>5 DEF Erase, UseErases, EraseFinds, Key
  <2> QED
    BY <1>5, <2>1, RemovalSkipsNone DEF Erase, UseErases
<1>6. CASE Clear
  <2>1. UNCHANGED <<slabs, nextBase, issued>>
        /\ \A j \in Index : version'[j] = IF bitmap[j] /\ version[j] < MaxVersion
                                          THEN version[j] + 1 ELSE version[j]
    BY <1>6 DEF Clear
  <2>2. \A j : Present(j)' <=> Present(j)
    BY <2>1 DEF Present
  <2>3. ASSUME NEW k \in Key \ {NullKey}, k \notin issued,
               ~(k.index >= nextBase)
        PROVE  Present(k.index)' /\ k.version >= version'[k.index]
    <3>1. /\ Present(k.index) /\ k.version >= version[k.index]
          /\ k.index \in Index /\ k.version \in Nat /\ version[k.index] \in Nat
          /\ k = [index |-> k.index, version |-> k.version]
      BY <2>3, SizeAssumption DEF NoneSkipped, Key, Version, TypeInv, TypeOK
    <3>2. ASSUME bitmap[k.index] PROVE k.version >= version[k.index] + 1
      <4>1. k.version # version[k.index]
        BY <2>3, <3>1, <3>2 DEF KeyInv, VersionsCover, KeyOf
      <4> QED
        BY <3>1, <4>1
    <3> QED
      BY <2>1, <2>2, <3>1, <3>2
  <2> QED
    BY <2>1, <2>3 DEF NoneSkipped
<1>7. CASE Reset
  <2>1. \A k \in Key : k.index >= 0
    BY DEF Key, Index
  <2> QED
    BY <1>7, <2>1 DEF Reset, NoneSkipped
<1>8. CASE UNCHANGED <<slabs, nextBase, version, issued>>
  BY <1>8, StandingSkipsNone
<1> QED
  BY <1>2, <1>3, <1>4, <1>5, <1>6, <1>7, <1>8 DEF NextUntilRecycle,
     EmplaceAborts, Abort, PopThrows, Use, vars

(* The key a construction issues is new.                                   *)
LEMMA ConstructIssuesOne ==
    ASSUME TypeInv, OneKeyEach, NEW L, NEW i \in L, NEW v \in Values,
           NEW vers, NEW links,
           Ready(L, i, vers, links), Construct(i, v, vers, links)
    PROVE  OneKeyEach'
<1> DEFINE new == [index |-> i, version |-> vers[i]]
<1>1. new \notin issued /\ issued' = issued \union {new}
      /\ objectsCreated' = objectsCreated + 1
  BY DEF Ready, Construct
<1>2. IsFiniteSet(issued)
  BY KeyCount, FS_Subset DEF TypeInv, TypeOK
<1>3. Cardinality(issued \union {new}) = Cardinality(issued) + 1
  BY <1>1, <1>2, FS_AddElement
<1> QED
  BY <1>1, <1>3 DEF OneKeyEach

(* Every call keeps one key for each object.                               *)
LEMMA OneKeyStep ==
    ASSUME TypeInv, KeyInv, OneKeyEach, [NextUntilRecycle]_vars
    PROVE  OneKeyEach'
<1> DEFINE to1 == nextBase + SlotsPerSlab
<1>1. PICK L \in SUBSET Index : Linked(L)
  BY DEF KeyInv, FreeListLinked
<1>2. CanAllocate => OnGrid(to1) /\ to1 \in Int /\ nextBase < to1
                     /\ to1 - SlotsPerSlab = nextBase
  BY GridStep, SizeAssumption DEF CanAllocate, TypeInv, OnGrid
<1>3. ASSUME NEW v \in Values, TryEmplace(v) PROVE OneKeyEach'
  <2>1. CASE CanAllocate /\ AddSlabs(to1)
             /\ Construct(nextBase, v, GrownVersions(to1), GrownLinks(to1))
    <3>1. Ready(L \union Grown(to1), nextBase, GrownVersions(to1), GrownLinks(to1))
      BY <1>1, <1>2, <2>1, ReadyAfterGrowth
    <3>2. nextBase \in L \union Grown(to1)
      BY <1>2, <2>1, SizeAssumption DEF Grown, TypeInv, OnGrid
    <3> QED
      BY <2>1, <3>1, <3>2, ConstructIssuesOne
  <2>2. CASE HeadUsable /\ UNCHANGED <<slabs, nextBase>>
             /\ Construct(freeHead, v, version, storage)
    <3>1. freeHead \in L
      BY <1>1, <2>2, IndexIsInt DEF Linked, ListShape, HeadUsable
    <3>2. Ready(L, freeHead, version, storage)
      BY <1>1, <2>2, ReadyAsItStands
    <3> QED
      BY <2>2, <3>1, <3>2, ConstructIssuesOne
  <2> QED
    BY <1>3, <2>1, <2>2 DEF TryEmplace
<1>4. CASE Reset
  BY <1>4, FS_EmptySet DEF Reset, OneKeyEach
<1>5. CASE UNCHANGED <<objectsCreated, issued>>
  BY <1>5 DEF OneKeyEach
<1> QED
  BY <1>3, <1>4, <1>5 DEF NextUntilRecycle, EmplaceThrows, ConstructorThrows,
     EmplaceAborts, Abort, Reserve, Erase, UseErases, Removed, PopThrows, Use,
     Clear, vars

(* The one key that a slot clear() has lost still had to give.             *)
KeysLost == {k \in Key : k.index \in LostSlots /\ k = KeyOf(k.index)}

(* A lost slot is at its last version.                                     *)
LEMMA LostAtLast ==
    ASSUME TypeInv, FreeListSound, NEW i \in LostSlots
    PROVE  i \in Index /\ Unused(i) /\ version[i] = MaxVersion
<1>1. i \in Index /\ Unused(i) /\ i \notin FreeList
  BY DEF LostSlots
<1>2. ~(version[i] < MaxVersion)
  BY <1>1 DEF FreeListSound, Unused
<1> QED
  BY <1>1, <1>2, SizeAssumption DEF TypeInv, TypeOK, Version

(* There are as many of these keys as lost slots.                          *)
LEMMA LostKeyCount ==
    ASSUME TypeInv, FreeListSound
    PROVE  IsFiniteSet(KeysLost) /\ Cardinality(KeysLost) = Cardinality(LostSlots)
<1> DEFINE f == [i \in LostSlots |-> KeyOf(i)]
<1>1. LostSlots \in SUBSET Index
  BY DEF LostSlots
<1>2. IsFiniteSet(LostSlots)
  BY <1>1, IndexCount, FS_Subset
<1>3. \A i \in LostSlots : f[i] = KeyOf(i) /\ KeyOf(i).index = i
  BY DEF KeyOf
<1>4. \A i \in LostSlots : KeyOf(i) \in KeysLost
  BY <1>1 DEF KeyOf, KeysLost, Key, TypeInv, TypeOK
<1>5. ASSUME NEW k \in KeysLost PROVE \E i \in LostSlots : f[i] = k
  BY <1>5 DEF KeysLost
<1>6. f \in [LostSlots -> KeysLost]
  BY <1>3, <1>4
<1> HIDE DEF f
<1>7. f \in Bijection(LostSlots, KeysLost)
  BY <1>3, <1>5, <1>6, Fun_IsBij
<1>8. ExistsBijection(LostSlots, KeysLost)
  BY <1>7 DEF ExistsBijection
<1> QED
  BY <1>2, <1>8, FS_Bijection

(* What was not issued can be issued, but for the keys of lost slots.      *)
LEMMA LeftOrLost ==
    ASSUME TypeInv, KeyInv, NoneSkipped, FreeListSound
    PROVE  /\ KeysLeft \union KeysLost = (Key \ {NullKey}) \ issued
           /\ KeysLeft \intersect KeysLost = {}
<1>1. ASSUME NEW k \in KeysLost PROVE k \in (Key \ {NullKey}) \ issued
  <2>1. k \in Key /\ k.index \in LostSlots /\ k = KeyOf(k.index)
    BY DEF KeysLost
  <2>2. KeyOf(k.index) \notin issued /\ k.version = MaxVersion
    BY <2>1, LostAtLast DEF Unused, KeyOf
  <2>3. k # NullKey
    BY <2>2, SizeAssumption DEF NullKey
  <2> QED
    BY <2>1, <2>2, <2>3
<1>2. ASSUME NEW k \in (Key \ {NullKey}) \ issued, k \notin KeysLeft
      PROVE  k \in KeysLost
  <2>1. k.index \in LostSlots /\ k.version >= version[k.index]
    BY <1>2 DEF KeysLeft, NoneSkipped
  <2>2. version[k.index] = MaxVersion
    BY <2>1, LostAtLast
  <2>3. k.version = MaxVersion
    BY <1>2, <2>1, <2>2, SizeAssumption DEF Key, Version
  <2>4. k = [index |-> k.index, version |-> k.version]
    BY <1>2 DEF Key
  <2> QED
    BY <1>2, <2>1, <2>2, <2>3, <2>4 DEF KeysLost, KeyOf
<1>3. ASSUME NEW k \in KeysLeft PROVE k \in (Key \ {NullKey}) \ issued
  BY DEF KeysLeft
<1>4. ASSUME NEW k \in KeysLeft, k \in KeysLost PROVE FALSE
  <2>1. k.index \in LostSlots
    BY <1>4 DEF KeysLost
  <2>2. k.index < nextBase
    <3>1. Present(k.index) /\ k.index \in Index
      BY <2>1, LostAtLast DEF Unused
    <3> QED
      BY <3>1 DEF KeyInv, SlabsOnGrid
  <2>3. k.index \in Index /\ nextBase \in Int
    BY <2>1, LostAtLast DEF TypeInv, OnGrid
  <2> QED
    BY <2>1, <2>2, <2>3, IndexIsInt DEF KeysLeft
<1> QED
  BY <1>1, <1>2, <1>3, <1>4

(* What is left or lost is what was not issued.                            *)
LEMMA LeftIsExact ==
    ASSUME TypeInv, KeyInv, NoneSkipped, OneKeyEach, FreeListSound,
           MaxSlots * (MaxVersion + 1) <= ObjectRange
    PROVE  LifetimeExact
<1> DEFINE All == Key \ {NullKey}
           Rest == KeysLeft \union KeysLost
           n == MaxSlots * (MaxVersion + 1)
<1>1. MaxSlots \in Nat \ {0} /\ MaxVersion \in Nat \ {0}
      /\ ObjectRange \in Nat \ {0} /\ n \in Nat \ {0}
  BY SizeAssumption, RangeAssumption
<1>2. NullKey \in Key
  BY SizeAssumption DEF NullKey, Key, Index, Version
<1>3. IsFiniteSet(All) /\ Cardinality(All) = n - 1
  BY <1>2, KeyCount, FS_RemoveElement
<1>4. issued \in SUBSET All
  BY DEF TypeInv, TypeOK, KeyInv, VersionsCover
<1>5. Rest = All \ issued
  BY LeftOrLost
<1>6. Cardinality(Rest) = n - 1 - objectsCreated
  BY <1>3, <1>4, <1>5, Outside DEF OneKeyEach
<1>7. IsFiniteSet(Rest)
  BY <1>3, <1>5, FS_Subset
<1>8. Cardinality(Rest) \in Nat /\ objectsCreated \in Nat
  BY <1>7, FS_CardinalityType DEF TypeInv, TypeOK
<1>12. Cardinality(Rest) = Cardinality(KeysLeft) + Cardinality(LostSlots)
  <2>1. IsFiniteSet(KeysLeft)
    BY <1>7, FS_Subset
  <2>2. Cardinality(Rest) = Cardinality(KeysLeft) + Cardinality(KeysLost)
                            - Cardinality({})
    BY <2>1, LostKeyCount, LeftOrLost, FS_Union
  <2>3. Cardinality(KeysLeft) \in Nat /\ Cardinality(LostSlots) \in Nat
    BY <2>1, LostKeyCount, FS_CardinalityType
  <2> QED
    BY <2>2, <2>3, LostKeyCount, FS_EmptySet
<1> HIDE DEF Rest
<1>9. MaxObjects = n - 1
  BY MaxObjectsType
<1> HIDE DEF n
<1>10. n - 1 \in Int /\ objectsCreated \in Int
       /\ 0 <= n - 1 - objectsCreated /\ n - 1 - objectsCreated < ObjectRange
  BY <1>1, <1>6, <1>8 DEF n
<1>11. Minus(n - 1, objectsCreated, ObjectRange) = n - 1 - objectsCreated
  BY ONLY <1>1, <1>10, MinusExact
<1> QED
  BY <1>6, <1>9, <1>11, <1>12 DEF LifetimeExact, statistics

(* Whenever max_objects_type can count all keys, objects_remaining is the  *)
(* number of keys that emplace can still issue plus one for each slot that *)
(* clear() dropped from the free list at its last version: no erase,       *)
(* deleted slab or failed constructor loses a key or leaves one to be      *)
(* issued twice.                                                           *)
THEOREM LifetimeIsExact ==
    ASSUME PartialWrites = FALSE, MaxSlots * (MaxVersion + 1) <= ObjectRange
    PROVE  SpecUntilRecycle => []LifetimeExact
<1>1. Init => TypeInv /\ KeyInv /\ ListInv /\ NoneSkipped /\ OneKeyEach
  <2>1. Init => NoneSkipped
    <3>1. \A k \in Key : k.index >= 0
      BY DEF Key, Index
    <3> QED
      BY <3>1 DEF Init, NoneSkipped
  <2> QED
    BY <2>1, TypeInit, BlankKeyInv, NoList, FS_EmptySet DEF Init, OneKeyEach
<1>2. TypeInv /\ KeyInv /\ ListInv /\ NoneSkipped /\ OneKeyEach
      /\ [NextUntilRecycle]_vars
        => (TypeInv /\ KeyInv /\ ListInv /\ NoneSkipped /\ OneKeyEach)'
  BY TypeStep, KeyInvStep, ListInvStep, SkipStep, OneKeyStep DEF Next
<1>3. TypeInv /\ KeyInv /\ ListInv /\ NoneSkipped /\ OneKeyEach
        => LifetimeExact
  BY ListInvSound, LeftIsExact
<1> QED
  BY <1>1, <1>2, <1>3, PTL DEF SpecUntilRecycle
=============================================================================
