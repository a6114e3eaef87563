--------------------------- MODULE ForEachProofs ---------------------------
(***************************************************************************)
(* Proofs about ForEach.  A walk goes wrong only when its slab goes while  *)
(* it still has a word of the bitmap to load or a copied bit to visit: not *)
(* when the one slab never goes, nor when a slab's bitmap is one word and  *)
(* callbacks erase nothing of that word but the element they were given.   *)
(***************************************************************************)
EXTENDS ForEach, SlotMapProofs

-----------------------------------------------------------------------------
(* The list that try_emplace walks, in any state.                          *)

(* Where one step of the walk leads.                                       *)
Followed(x) ==
    IF x \notin Index THEN x
    ELSE IF storage[x] \notin Link THEN Wild ELSE storage[x]

(* f has the first n steps.                                                *)
Follows(f, n) ==
    f[0] = freeHead /\ \A k \in Nat : k < n => f[k + 1] = Followed(f[k])

(* There are as many steps as one likes.                                   *)
LEMMA FollowsExist == \A n \in Nat : \E f : Follows(f, n)
<1>1. PICK Bad : Bad = {n \in Nat : ~ \E f : Follows(f, n)}
  OBVIOUS
<1>2. SUFFICES ASSUME Bad # {} PROVE FALSE
  BY <1>1
<1>3. PICK m \in Bad : \A x \in Bad : m <= x
  BY <1>1, <1>2, LeastNat
<1>4. m \in Nat /\ ~ \E f : Follows(f, m)
  BY <1>1
<1>5. Follows([k \in Nat |-> freeHead], 0)
  BY DEF Follows
<1>6. m # 0
  BY <1>4, <1>5
<1>7. PICK n \in Nat : m = n + 1
  <2>1. m - 1 \in Nat /\ m = (m - 1) + 1
    BY <1>4, <1>6
  <2> QED
    BY <2>1
<1>8. n \notin Bad
  BY <1>3, <1>7
<1>9. PICK f : Follows(f, n)
  BY <1>1, <1>8
<1>10. PICK g : g = [k \in Nat |-> IF k = n + 1 THEN Followed(f[n]) ELSE f[k]]
  OBVIOUS
<1>11. g[0] = freeHead
  BY <1>9, <1>10 DEF Follows
<1>12. ASSUME NEW k \in Nat, k < n + 1 PROVE g[k + 1] = Followed(g[k])
  <2>1. k # n + 1 /\ k + 1 \in Nat /\ (k = n \/ k < n)
    BY <1>12
  <2>2. g[k] = f[k]
    BY <1>10, <2>1
  <2>3. CASE k = n
    BY <1>10, <2>1, <2>2, <2>3
  <2>4. CASE k < n
    <3>1. k + 1 # n + 1 /\ f[k + 1] = Followed(f[k])
      BY <1>9, <2>4 DEF Follows
    <3> QED
      BY <1>10, <2>1, <2>2, <3>1
  <2> QED
    BY <2>1, <2>3, <2>4
<1>13. Follows(g, m)
  BY <1>7, <1>11, <1>12 DEF Follows
<1> QED
  BY <1>4, <1>13

(* Chain is that walk, up to its last step.                                *)
LEMMA ChainFollows ==
    /\ Chain[0] = freeHead
    /\ \A k \in 1 .. MaxSlots : Chain[k] = Followed(Chain[k - 1])
<1> DEFINE N == 0 .. MaxSlots
           Step(f) == [k \in N |->
               IF k = 0 THEN freeHead
               ELSE IF f[k - 1] \notin Index THEN f[k - 1]
               ELSE IF storage[f[k - 1]] \notin Link THEN Wild
               ELSE storage[f[k - 1]]]
<1>1. MaxSlots \in Nat
  BY SizeAssumption
<1>2. PICK f : Follows(f, MaxSlots)
  BY <1>1, FollowsExist
<1>3. PICK g : g = [k \in N |-> f[k]]
  OBVIOUS
<1>4. ASSUME NEW k \in N PROVE g[k] = Step(g)[k]
  <2>1. CASE k = 0
    BY <1>2, <1>3, <2>1 DEF Follows
  <2>2. CASE k # 0
    <3>1. k - 1 \in N /\ k - 1 \in Nat /\ k - 1 < MaxSlots /\ (k - 1) + 1 = k
      BY <1>1, <2>2
    <3>2. f[(k - 1) + 1] = Followed(f[k - 1])
      BY <1>2, <3>1 DEF Follows
    <3>3. g[k] = Followed(g[k - 1])
      BY <1>3, <3>1, <3>2
    <3> QED
      BY <2>2, <3>3 DEF Followed
  <2> QED
    BY <2>1, <2>2
<1>5. g = Step(g)
  <2>1. DOMAIN g = N /\ g = [k \in N |-> g[k]]
    BY <1>3
  <2>2. DOMAIN Step(g) = N /\ Step(g) = [k \in N |-> Step(g)[k]]
    OBVIOUS
  <2> HIDE DEF Step
  <2> QED
    BY <1>4, <2>1, <2>2
<1>6. Chain = Step(Chain)
  <2>1. Chain = CHOOSE h : h = Step(h)
    BY DEF Chain
  <2> HIDE DEF Step
  <2> QED
    BY <1>5, <2>1
<1>7. ASSUME NEW k \in N PROVE Chain[k] = Step(Chain)[k]
  BY <1>6
<1>8. Chain[0] = freeHead
  <2>1. 0 \in N /\ Step(Chain)[0] = freeHead
    BY <1>1
  <2> QED
    BY <1>7, <2>1
<1>9. ASSUME NEW k \in 1 .. MaxSlots PROVE Chain[k] = Followed(Chain[k - 1])
  <2>1. k \in N /\ k # 0
    BY <1>1
  <2>2. Step(Chain)[k] = Followed(Chain[k - 1])
    BY <2>1 DEF Followed
  <2> QED
    BY <1>7, <2>1, <2>2
<1> QED
  BY <1>8, <1>9

(* The free list leads in a circle, of slots that emplace could construct  *)
(* in: so it is once a slab was recycled.                                  *)
Circle(C) ==
    freeHead \in C /\ \A i \in C : storage[i] \in C /\ Unused(i)
FreeListCircles == \E C \in SUBSET Index : Circle(C)

(* A circle does not end.                                                  *)
LEMMA CirclesDoNotEnd ==
    ASSUME FreeListCircles
    PROVE  Chain[MaxSlots] # End
<1>1. PICK C \in SUBSET Index : Circle(C)
  BY DEF FreeListCircles
<1>2. MaxSlots \in Nat
  BY SizeAssumption
<1>3. PICK Off : Off = {k \in 0 .. MaxSlots : Chain[k] \notin C}
  OBVIOUS
<1>4. ASSUME Off # {} PROVE FALSE
  <2>1. Off \in SUBSET Nat
    BY <1>2, <1>3
  <2>2. PICK k \in Off : \A x \in Off : k <= x
    BY <1>4, <2>1, LeastNat
  <2>3. k \in 0 .. MaxSlots /\ Chain[k] \notin C
    BY <1>3
  <2>4. k # 0
    BY <1>1, <2>3, ChainFollows DEF Circle
  <2>5. k \in 1 .. MaxSlots /\ k - 1 \in 0 .. MaxSlots /\ ~(k <= k - 1)
    BY <1>2, <2>3, <2>4
  <2>6. Chain[k - 1] \in C
    BY <1>3, <2>2, <2>5
  <2>7. Chain[k] = Followed(Chain[k - 1])
    BY <2>5, ChainFollows
  <2>8. Followed(Chain[k - 1]) \in C
    BY <1>1, <2>6 DEF Circle, Followed, Link
  <2> QED
    BY <2>3, <2>7, <2>8
<1>5. Chain[MaxSlots] \in C
  BY <1>2, <1>3, <1>4
<1> QED
  BY <1>1, <1>5, IndexIsInt

-----------------------------------------------------------------------------
(* The map between and under walks.                                        *)

(* The slots are sound, and the free list too until it leads in a circle.  *)
MapInv == TypeInv /\ SlotsInv /\ (FreeListLinked \/ FreeListCircles)

(* A removal leaves the circle a circle.                                   *)
LEMMA RemovalKeepsCircle ==
    ASSUME TypeInv, SlotsInv, FreeListCircles, NEW i \in Index, bitmap[i],
           Reuse(i) \/ Retire(i) \/ Release(i), Removed
    PROVE  FreeListCircles'
<1>1. PICK C \in SUBSET Index : Circle(C)
  BY DEF FreeListCircles
<1>2. CASE Reuse(i)
  <2>1. i \notin C
    BY <1>1 DEF Circle, Unused
  <2>2. /\ storage' = [storage EXCEPT ![i] = freeHead] /\ freeHead' = i
        /\ DOMAIN storage = Index
    BY <1>2 DEF Reuse, TypeInv, TypeOK
  <2>3. \A j \in C \union {i} : Unused(j)'
    BY <1>1, <1>2, ReuseFrees DEF Circle
  <2>4. \A j \in C \union {i} : storage'[j] \in C \union {i}
    BY <1>1, <2>1, <2>2 DEF Circle
  <2>5. Circle(C \union {i})' /\ C \union {i} \in SUBSET Index
    BY <2>2, <2>3, <2>4 DEF Circle
  <2> QED
    BY <2>5 DEF FreeListCircles
<1>3. CASE Retire(i)
  <2>1. \A j \in C : Unused(j)'
    BY <1>1, <1>3, RetireFreesNone DEF Circle
  <2>2. Circle(C)'
    BY <1>1, <1>3, <2>1 DEF Circle, Retire
  <2> QED
    BY <2>2 DEF FreeListCircles
<1>4. CASE Release(i)
  <2>1. \A j \in C : Unused(j)' /\ storage'[j] = storage[j]
    BY <1>1, <1>4, ReleaseFreesNone DEF Circle
  <2>2. freeHead' = freeHead
    BY <1>4 DEF Release
  <2>3. Circle(C)'
    BY <1>1, <2>1, <2>2 DEF Circle
  <2> QED
    BY <2>3 DEF FreeListCircles
<1> QED
  BY <1>2, <1>3, <1>4

(* The recycler closes the circle: the last slot of the new range leads to *)
(* its first.                                                              *)
LEMMA RecyclingCircles ==
    ASSUME TypeInv, SlotsInv, NEW i \in Index, bitmap[i], Recycle(i), Removed
    PROVE  FreeListCircles'
<1> DEFINE moved == Grown(nextBase + SlotsPerSlab)
<1>1. PICK C : C = moved
  OBVIOUS
<1>2. C \in SUBSET Index /\ \A j \in C : Unused(j)'
  BY <1>1, RecycleRange, RecycleFrees
<1>3. freeHead' = nextBase /\ nextBase \in C
  <2>1. nextBase \in Nat /\ SlotsPerSlab \in Nat \ {0}
    BY SizeAssumption DEF TypeInv, OnGrid
  <2> QED
    BY <1>1, <2>1 DEF Recycle, Grown
<1>4. ASSUME NEW j \in C PROVE storage'[j] \in C
  <2>1. storage'[j] = IF j + 1 \in moved THEN j + 1 ELSE freeHead'
    BY <1>1, <1>2 DEF Recycle
  <2> QED
    BY <1>1, <1>3, <2>1
<1>5. Circle(C)'
  BY <1>2, <1>3, <1>4 DEF Circle
<1> QED
  BY <1>2, <1>5 DEF FreeListCircles

(* One removal, recycling or not.                                          *)
LEMMA RemovalKeepsMap ==
    ASSUME MapInv, TypeInv', NEW i \in Index, bitmap[i], Removed,
           Reuse(i) \/ Retire(i) \/ Release(i) \/ Recycle(i)
    PROVE  MapInv'
<1>1. CASE Recycle(i)
  BY <1>1, RecyclingCircles, RecycleKeepsSlots DEF MapInv
<1>2. CASE Reuse(i) \/ Retire(i) \/ Release(i)
  <2>1. SlotsInv'
    BY <1>2, ReuseKeepsSlots, RetireKeepsSlots, ReleaseKeepsSlots DEF MapInv
  <2>2. FreeListLinked => FreeListLinked'
    BY <1>2, KeyInvParts, ReuseKeepsKeyInv, RetireKeepsKeyInv,
       ReleaseKeepsKeyInv DEF MapInv, KeyInv
  <2>3. FreeListCircles => FreeListCircles'
    BY <1>2, RemovalKeepsCircle DEF MapInv
  <2> QED
    BY <2>1, <2>2, <2>3 DEF MapInv
<1> QED
  BY <1>1, <1>2

(* The map is left alone.                                                  *)
LEMMA MapStays ==
    ASSUME MapInv,
           UNCHANGED <<slabs, version, aliveBit, bitmap, storage, deadCount,
                       freeHead, size, deadSlots, objectsCreated, nextBase,
                       issued>>,
           status' \in {"returned", "threw", "aborted"}
    PROVE  MapInv'
<1>1. \A j : (Unused(j)' <=> Unused(j)) /\ (Present(j)' <=> Present(j))
             /\ (KeyOf(j)' = KeyOf(j))
  BY DEF Unused, Present, KeyOf
<1>2. TypeInv'
  BY DEF MapInv, TypeInv, TypeOK
<1>3. SlabsOnGrid' /\ AliveBitsMatch' /\ VersionsCover'
  BY <1>1 DEF MapInv, SlotsInv, SlabsOnGrid, AliveBitsMatch, VersionsCover
<1>4. DeadCounted'
  <2>1. \A s : DeadOf(s)' = DeadOf(s)
    BY DEF DeadOf, Slots, Dead
  <2> QED
    BY <2>1 DEF MapInv, SlotsInv, DeadCounted
<1>5. FreeListLinked => FreeListLinked'
  <2>1. \A L : Linked(L) => Linked(L)'
    BY <1>1 DEF Linked, ListShape
  <2> QED
    BY <2>1 DEF FreeListLinked
<1>6. FreeListCircles => FreeListCircles'
  <2>1. \A C : Circle(C) => Circle(C)'
    BY <1>1 DEF Circle
  <2> QED
    BY <2>1 DEF FreeListCircles
<1> QED
  BY <1>2, <1>3, <1>4, <1>5, <1>6 DEF MapInv, SlotsInv

(* What a callback asks the map to erase, or that is not there to erase.   *)
LEMMA EraseKeepsMap ==
    ASSUME MapInv, NEW k \in Key, EraseCall(k)
    PROVE  MapInv'
<1>1. k.index \in Index
  BY DEF Key
<1>2. CASE Erase(k)
  <2>1. TypeInv'
    BY <1>2, TypeStep DEF MapInv, Next, NextUntilRecycle
  <2> QED
    BY <1>1, <1>2, <2>1, RemovalKeepsMap DEF Erase, EraseFinds
<1>3. CASE EraseRecycles(k)
  <2>1. TypeInv'
    BY <1>3, TypeStep DEF MapInv, Next
  <2> QED
    BY <1>1, <1>3, <2>1, RemovalKeepsMap DEF EraseRecycles, EraseFinds
<1>4. CASE RecycleAborts(k)
  BY <1>4, MapStays DEF RecycleAborts, Abort
<1>5. CASE UNCHANGED vars
  BY <1>5, MapStays DEF vars, MapInv, TypeInv, TypeOK
<1> QED
  BY <1>2, <1>3, <1>4, <1>5 DEF EraseCall

(* A call between walks finds the list sound.                              *)
LEMMA CallKeepsMap ==
    ASSUME PartialWrites = FALSE, MapInv, MapCall
    PROVE  MapInv'
<1>1. TypeInv' /\ Next
  BY TypeStep DEF MapInv, MapCall
<1>2. KeyInv
  BY CirclesDoNotEnd, KeyInvParts DEF MapInv, MapCall
<1>3. CASE NextUntilRecycle
  <2>1. KeyInv'
    BY <1>2, <1>3, KeyInvStep DEF MapInv
  <2> QED
    BY <1>1, <2>1, KeyInvParts DEF MapInv, KeyInv, SlotsInv
<1>4. ASSUME NEW k \in Key, EraseRecycles(k) PROVE MapInv'
  <2>1. k.index \in Index
    BY DEF Key
  <2> QED
    BY <1>1, <1>4, <2>1, RemovalKeepsMap DEF EraseRecycles, EraseFinds
<1>5. ASSUME NEW k \in Key, RecycleFails(k) PROVE MapInv'
  BY <1>5, WalkAssumption DEF RecycleFails
<1>6. ASSUME NEW k \in Key, RecycleAborts(k) PROVE MapInv'
  BY <1>6, MapStays DEF RecycleAborts, Abort
<1> QED
  BY <1>1, <1>3, <1>4, <1>5, <1>6 DEF Next

(* An alive slot other than the one erased stays alive under its version,  *)
(* in a slab that stays where it is.                                       *)
LEMMA EraseSparesOthers ==
    ASSUME MapInv, NEW k \in Key, EraseCall(k), NEW j \in Index, bitmap[j],
           j # k.index
    PROVE  bitmap'[j] /\ SlabOf(j) \in slabs' /\ version'[j] = version[j]
<1>1. k.index \in Index /\ SlabOf(j) \in slabs /\ j < nextBase /\ j \in Nat
        /\ nextBase \in Nat
  BY DEF Key, MapInv, SlotsInv, AliveBitsMatch, SlabsOnGrid, Present, Index,
         TypeInv, OnGrid
<1>2. CASE Reuse(k.index) \/ Retire(k.index)
  BY <1>1, <1>2 DEF Reuse, Retire, MapInv, TypeInv, TypeOK
<1>3. ASSUME bitmap[k.index], Exhausted(SlabOf(k.index))
      PROVE  SlabOf(j) # SlabOf(k.index)
  <2>1. SUFFICES ASSUME SlabOf(j) = SlabOf(k.index) PROVE FALSE
    OBVIOUS
  <2>2. j \in Slots(SlabOf(k.index))
    BY <2>1 DEF Slots
  <2>3. Dead(j)
    BY <1>1, <1>3, <2>2, OthersDied DEF MapInv
  <2> QED
    BY <2>3 DEF Dead
<1>4. CASE bitmap[k.index] /\ Release(k.index)
  BY <1>1, <1>3, <1>4 DEF Release, Blank
<1>5. CASE bitmap[k.index] /\ Recycle(k.index)
  <2>1. j \notin Grown(nextBase + SlotsPerSlab)
    BY <1>1 DEF Grown
  <2> QED
    BY <1>1, <1>3, <1>5, <2>1 DEF Recycle
<1>6. CASE UNCHANGED <<slabs, bitmap, version>>
  BY <1>1, <1>6
<1> QED
  BY <1>2, <1>4, <1>5, <1>6
     DEF EraseCall, Erase, EraseRecycles, EraseFinds, RecycleAborts, Abort, vars

-----------------------------------------------------------------------------
(* The walk.                                                               *)

(* The slab held by pointer is where the walk took it from.                *)
InPlace == at = slabIdx /\ at \in slabs

(* What the walk relies on: its slab is in place while there is a word to  *)
(* load, and while bits are left to visit, which stand for alive slots;    *)
(* the callback's key is of a slot of the word, its bit already cleared.   *)
WalkInv ==
    /\ pc \in {"idle", "slabs", "words", "bits", "callback"}
    /\ slabIdx \in Nat /\ offset \in Nat /\ offset % ChunkSlots = 0
    /\ pc \in {"bits", "callback"} =>
           rest \in SUBSET Word /\ offset < SlotsPerSlab
    /\ pc = "words" /\ Words => InPlace
    /\ pc \in {"bits", "callback"} /\ offset + ChunkSlots < SlotsPerSlab
           => InPlace
    /\ pc \in {"bits", "callback"} =>
           \A j \in rest : InPlace /\ bitmap[SlotAt(j)]
    /\ pc = "callback" =>
           key \in Key /\ key.index - slabIdx * SlotsPerSlab \in Word \ rest

(* When the walk is safe: the one slab never goes, or all of a slab's bits *)
(* are in the word that was copied.                                        *)
OneSlabOrOneWord == SingleSlab \/ ChunkSlots = SlotsPerSlab

(* Slabs are made of words.                                                *)
LEMMA WordsFit ==
    /\ ChunkSlots \in Nat \ {0} /\ SlotsPerSlab \in Nat \ {0}
    /\ SlotsPerSlab % ChunkSlots = 0 /\ 0 % ChunkSlots = 0
<1>1. ASSUME NEW n \in Nat \ {0} PROVE 0 % n = 0
  OBVIOUS
<1> QED
  BY <1>1, WalkAssumption, SizeAssumption

(* The words of a slab end where it does.                                  *)
LEMMA WordInSlab ==
    ASSUME WalkInv, offset < SlotsPerSlab, NEW j \in Word
    PROVE  j \in 0 .. SlotsPerSlab - 1
<1>1. /\ ChunkSlots \in Nat \ {0} /\ SlotsPerSlab \in Nat \ {0}
      /\ SlotsPerSlab % ChunkSlots = 0
      /\ offset \in Nat /\ offset % ChunkSlots = 0
  BY WalkAssumption, SizeAssumption DEF WalkInv
<1>2. offset + ChunkSlots <= SlotsPerSlab
  BY ONLY <1>1, offset < SlotsPerSlab, BoundaryGap
<1> QED
  BY <1>1, <1>2 DEF Word

(* A slot of a slab that is there.                                         *)
LEMMA SlotOfSlab ==
    ASSUME NEW s \in SlabIndex, NEW j \in 0 .. SlotsPerSlab - 1
    PROVE  /\ s * SlotsPerSlab + j \in Index
           /\ SlabOf(s * SlotsPerSlab + j) = s
<1>1. /\ SlotsPerSlab \in Nat \ {0} /\ MaxSlots \in Nat \ {0}
      /\ MaxSlots % SlotsPerSlab = 0
  BY SizeAssumption
<1>2. PICK m \in Int : m = MaxSlots \div SlotsPerSlab
                           /\ MaxSlots = SlotsPerSlab * m
  BY <1>1, DivMod
<1>3. s \in Nat /\ s \in Int /\ s + 1 <= m
  BY <1>2 DEF SlabIndex
<1>4. SlotsPerSlab * (s + 1) <= SlotsPerSlab * m
  BY <1>1, <1>2, <1>3
<1>5. SlotsPerSlab * (s + 1) = SlotsPerSlab * s + SlotsPerSlab
        /\ SlotsPerSlab * s = s * SlotsPerSlab /\ s * SlotsPerSlab \in Nat
  BY <1>1, <1>3
<1>6. PICK x \in Nat : x = s * SlotsPerSlab
  BY <1>5
<1>7. x + j \in Index
  BY <1>1, <1>2, <1>4, <1>5, <1>6 DEF Index
<1>8. (SlotsPerSlab * s + j) \div SlotsPerSlab = s
  BY <1>1, <1>3, DivUnique
<1> QED
  BY <1>5, <1>6, <1>7, <1>8 DEF SlabOf

(* Bits left to visit stand for alive slots of a slab in place.            *)
LEMMA RestIsAlive ==
    ASSUME MapInv, WalkInv, pc \in {"bits", "callback"}, NEW j \in rest
    PROVE  /\ SlotAt(j) \in Index /\ bitmap[SlotAt(j)] /\ SlabOf(SlotAt(j)) = at
           /\ InPlace /\ at \in SlabIndex
           /\ SlotAt(j) = slabIdx * SlotsPerSlab + j
           /\ j \in 0 .. SlotsPerSlab - 1
<1>1. InPlace /\ bitmap[SlotAt(j)] /\ offset < SlotsPerSlab /\ j \in Word
  BY DEF WalkInv
<1>2. j \in 0 .. SlotsPerSlab - 1
  BY <1>1, WordInSlab
<1>3. at \in SlabIndex
  BY <1>1 DEF InPlace, MapInv, TypeInv, TypeOK
<1>4. SlotAt(j) \in Index /\ SlabOf(SlotAt(j)) = at
  BY <1>2, <1>3, SlotOfSlab DEF SlotAt
<1> QED
  BY <1>1, <1>2, <1>3, <1>4 DEF SlotAt, InPlace

(* Erasing an element whose bit is cleared, or of another word, leaves the *)
(* bits left to visit as good as they were.                                *)
LEMMA EraseSparesRest ==
    ASSUME MapInv, WalkInv, pc = "callback", NEW k \in Key,
           k.index - slabIdx * SlotsPerSlab \notin rest,
           EraseCall(k), Follow
    PROVE  \A j \in rest : at' = slabIdx /\ at' \in slabs' /\ bitmap'[SlotAt(j)]
<1> SUFFICES ASSUME NEW j \in rest
    PROVE  at' = slabIdx /\ at' \in slabs' /\ bitmap'[SlotAt(j)]
  OBVIOUS
<1>1. /\ SlotAt(j) \in Index /\ bitmap[SlotAt(j)] /\ SlabOf(SlotAt(j)) = at
      /\ at = slabIdx /\ SlotAt(j) = slabIdx * SlotsPerSlab + j
      /\ j \in Nat
  BY RestIsAlive DEF InPlace
<1>2. SlotAt(j) # k.index
  <2>1. slabIdx * SlotsPerSlab \in Nat
    BY SizeAssumption DEF WalkInv
  <2>2. PICK x \in Nat : x = slabIdx * SlotsPerSlab
    BY <2>1
  <2>3. (x + j) - x = j
    BY <1>1
  <2> QED
    BY <1>1, <2>2, <2>3
<1>3. bitmap'[SlotAt(j)] /\ at \in slabs'
  BY <1>1, <1>2, EraseSparesOthers
<1> QED
  BY <1>1, <1>3 DEF Follow

(* A slab that never goes stays in place.                                  *)
LEMMA SingleStays ==
    ASSUME SingleSlab, NEW k, EraseCall(k)
    PROVE  slabs' = slabs
BY DEF EraseCall, Erase, EraseRecycles, RecycleAborts, Abort, Reuse, Retire,
       Release, Recycle, Exhausted, vars

(* A removal asked for by the callback leaves the walk's slab in place, or *)
(* nothing more to do with it.                                             *)
LEMMA EraseKeepsWalk ==
    ASSUME OneSlabOrOneWord, MapInv, WalkInv, pc = "callback", NEW k \in Key,
           k.index - slabIdx * SlotsPerSlab \notin rest,
           EraseCall(k), Follow
    PROVE  /\ \A j \in rest :
                  at' = slabIdx /\ at' \in slabs' /\ bitmap'[SlotAt(j)]
                      /\ at' = at
           /\ offset + ChunkSlots < SlotsPerSlab =>
                  at' = slabIdx /\ at' \in slabs'
<1>1. \A j \in rest : at' = slabIdx /\ at' \in slabs' /\ bitmap'[SlotAt(j)]
  BY EraseSparesRest
<1>2. \A j \in rest : at = slabIdx
  BY DEF WalkInv, InPlace
<1>3. ASSUME offset + ChunkSlots < SlotsPerSlab
      PROVE  at' = slabIdx /\ at' \in slabs'
  <2>1. InPlace /\ offset \in Nat
    BY <1>3 DEF WalkInv
  <2>2. SingleSlab
    BY ONLY <1>3, <2>1, WordsFit, OneSlabOrOneWord DEF OneSlabOrOneWord
  <2>3. slabs' = slabs
    BY <2>2, SingleStays
  <2> QED
    BY <2>1, <2>3 DEF Follow, InPlace
<1> QED
  BY <1>1, <1>2, <1>3

(* What WalkInv says of a callback's state, from what the removal leaves.  *)
LEMMA CallbackGoesOn ==
    ASSUME WalkInv, pc = "callback", UNCHANGED <<slabIdx, offset, rest>>,
           \A j \in rest :
               at' = slabIdx /\ at' \in slabs' /\ bitmap'[SlotAt(j)] /\ at' = at,
           offset + ChunkSlots < SlotsPerSlab => at' = slabIdx /\ at' \in slabs',
           pc' = "bits" \/ (pc' = "callback" /\ key' = key)
    PROVE  WalkInv'
<1>1. Word' = Word
  BY DEF Word
<1>2. \A j \in rest' : InPlace' /\ bitmap'[SlotAt(j)']
  BY DEF InPlace, SlotAt
<1>3. offset' + ChunkSlots < SlotsPerSlab => InPlace'
  BY DEF InPlace
<1>4. \A j \in rest' : InPlace' /\ (bitmap[SlotAt(j)])'
  BY <1>2
<1> QED
  BY <1>1, <1>3, <1>4 DEF WalkInv

(* No step of a walk, and no call between walks, breaks the invariant.     *)
LEMMA WalkInvStep ==
    ASSUME OneSlabOrOneWord, MayErase # "anything", MapInv, WalkInv,
           [WalkNext]_allVars
    PROVE  WalkInv'
<1>1. CASE MapCall
  BY <1>1 DEF MapCall, walkVars, WalkInv, Words
<1>2. CASE BeginWalk
  BY <1>2 DEF BeginWalk, WalkInv
<1>3. CASE NextSlab
  <2>1. 0 % ChunkSlots = 0
    BY WordsFit
  <2>2. CASE slabIdx \in slabs /\ ~stop
    BY <1>3, <2>1, <2>2 DEF NextSlab, vars, WalkInv, InPlace
  <2>3. CASE ~(slabIdx \in slabs /\ ~stop)
    BY <1>3, <2>3 DEF NextSlab, WalkInv
  <2> QED
    BY <2>2, <2>3
<1>4. CASE Leave
  <2>1. 0 % ChunkSlots = 0
    BY WordsFit
  <2> QED
    BY <1>4, <2>1 DEF Leave, WalkInv
<1>5. CASE LoadWord
  <2>1. InPlace /\ offset < SlotsPerSlab
    BY <1>5 DEF LoadWord, WalkInv, Words
  <2>2. at # Gone
    <3>1. at \in SlabIndex
      BY <2>1 DEF InPlace, MapInv, TypeInv, TypeOK
    <3>2. MaxSlots \div SlotsPerSlab \in Int
      BY SizeAssumption, DivMod
    <3> QED
      BY <3>1, <3>2 DEF SlabIndex, Gone, NSlabs
  <2>3. rest' = {j \in Word : bitmap[SlotAt(j)]}
          /\ pc' = "bits" /\ UNCHANGED <<vars, slabIdx, at, offset>>
    BY <1>5, <2>2 DEF LoadWord
  <2>4. UNCHANGED <<slabs, bitmap>>
    BY <2>3 DEF vars
  <2>5. Word' = Word /\ InPlace' /\ \A j : SlotAt(j)' = SlotAt(j)
    BY <2>1, <2>3, <2>4 DEF Word, InPlace, SlotAt
  <2>6. \A j \in rest' : (bitmap[SlotAt(j)])'
    BY <2>3, <2>4, <2>5
  <2> QED
    BY <2>1, <2>3, <2>5, <2>6 DEF WalkInv
<1>6. CASE EndSlab
  BY <1>6 DEF EndSlab, WalkInv
<1>7. CASE EndWord
  <2>1. offset + ChunkSlots < SlotsPerSlab => InPlace
    BY <1>7 DEF EndWord, WalkInv
  <2>2. offset' \in Nat /\ offset' % ChunkSlots = 0
    <3>1. offset \in Int /\ offset \in Nat /\ ChunkSlots \in Nat \ {0}
            /\ offset % ChunkSlots = 0
      BY WordsFit DEF WalkInv
    <3>2. (offset + ChunkSlots) % ChunkSlots = 0
      BY ONLY <3>1, NextBoundary
    <3> QED
      BY <1>7, <3>1, <3>2 DEF EndWord
  <2>3. InPlace' <=> InPlace
    BY <1>7 DEF EndWord, InPlace, vars
  <2> QED
    BY <1>7, <2>1, <2>2, <2>3 DEF EndWord, WalkInv, Words
<1>8. CASE CallBack
  <2>1. PICK j : j = CHOOSE x \in rest : \A y \in rest : x <= y
    OBVIOUS
  <2>2. rest \in SUBSET Word /\ rest # {} /\ pc = "bits"
    BY <1>8 DEF CallBack, WalkInv
  <2>3. j \in rest
    <3>1. rest \in SUBSET Nat
      BY <2>2 DEF Word, WalkInv
    <3>2. \E x \in rest : \A y \in rest : x <= y
      BY <2>2, <3>1, LeastNat
    <3> QED
      BY <2>1, <3>2
  <2>4. SlotAt(j) \in Index /\ InPlace /\ at \in SlabIndex
          /\ SlotAt(j) = slabIdx * SlotsPerSlab + j /\ j \in Nat
    BY <2>2, <2>3, RestIsAlive
  <2>5. at # Gone
    <3>1. MaxSlots \div SlotsPerSlab \in Int
      BY SizeAssumption, DivMod
    <3> QED
      BY <2>4, <3>1 DEF SlabIndex, Gone, NSlabs
  <2>6. /\ key' = [index |-> slabIdx * SlotsPerSlab + j,
                   version |-> version[SlotAt(j)]]
        /\ rest' = rest \ {j} /\ pc' = "callback"
        /\ UNCHANGED <<vars, slabIdx, at, offset>>
    BY <1>8, <2>1, <2>5 DEF CallBack, BitCleared
  <2>7. key' \in Key
    BY <2>4, <2>6 DEF Key, MapInv, TypeInv, TypeOK
  <2>8. key'.index - slabIdx' * SlotsPerSlab \in Word' \ rest'
    <3>1. slabIdx * SlotsPerSlab \in Nat
      BY SizeAssumption DEF WalkInv
    <3>2. (slabIdx * SlotsPerSlab + j) - slabIdx * SlotsPerSlab = j
      BY <2>4, <3>1
    <3>3. j \in Word' \ rest'
      BY <2>2, <2>3, <2>6 DEF Word
    <3> QED
      BY <2>6, <3>2, <3>3
  <2>9. UNCHANGED <<slabs, bitmap>>
    BY <2>6 DEF vars
  <2>10. /\ Word' = Word /\ InPlace' /\ offset < SlotsPerSlab
         /\ \A x : SlotAt(x)' = SlotAt(x)
    BY <2>2, <2>4, <2>6, <2>9 DEF Word, InPlace, SlotAt, WalkInv
  <2>11. \A x \in rest' : (bitmap[SlotAt(x)])'
    BY <2>2, <2>6, <2>9, <2>10 DEF WalkInv
  <2> QED
    BY <2>2, <2>6, <2>7, <2>8, <2>10, <2>11 DEF WalkInv
<1>9. CASE CallbackReturns
  <2>1. pc = "callback" /\ UNCHANGED <<offset, rest, key>> /\ key \in Key
          /\ key.index - slabIdx * SlotsPerSlab \notin rest
    BY <1>9 DEF CallbackReturns, WalkInv
  <2>2. CASE stop'
    BY <1>9, <2>2 DEF CallbackReturns, WalkInv
  <2>3. CASE ~stop'
    <3>1. pc' = "bits" /\ slabIdx' = slabIdx
      BY <1>9, <2>3 DEF CallbackReturns
    <3>2. CASE EraseCall(key) /\ Follow
      BY <2>1, <3>1, <3>2, EraseKeepsWalk, CallbackGoesOn
    <3>3. CASE UNCHANGED <<vars, at>>
      <4>1. UNCHANGED <<slabs, bitmap>>
        BY <3>3 DEF vars
      <4>2. \A j \in rest : at' = slabIdx /\ at' \in slabs'
                                /\ bitmap'[SlotAt(j)] /\ at' = at
        BY <2>1, <3>3, <4>1 DEF WalkInv, InPlace
      <4>3. offset + ChunkSlots < SlotsPerSlab =>
                at' = slabIdx /\ at' \in slabs'
        BY <2>1, <3>3, <4>1 DEF WalkInv, InPlace
      <4> QED
        BY <2>1, <3>1, <4>2, <4>3, CallbackGoesOn
    <3> QED
      BY <1>9, <3>2, <3>3 DEF CallbackReturns
  <2> QED
    BY <2>2, <2>3
<1>10. ASSUME NEW k \in Key, CallbackErases(k) PROVE WalkInv'
  <2>1. pc = "callback" /\ UNCHANGED <<pc, slabIdx, offset, rest, key>>
          /\ EraseCall(k) /\ Follow
    BY <1>10 DEF CallbackErases
  <2>2. k.index - slabIdx * SlotsPerSlab \notin rest
    BY <1>10, <2>1 DEF CallbackErases, SameWord, WalkInv
  <2> QED
    BY <2>1, <2>2, EraseKeepsWalk, CallbackGoesOn
<1>11. CASE UNCHANGED allVars
  BY <1>11 DEF allVars, vars, walkVars, WalkInv, Word, Words, InPlace, SlotAt
<1> QED
  BY <1>1, <1>2, <1>3, <1>4, <1>5, <1>6, <1>7, <1>8, <1>9, <1>10, <1>11
     DEF WalkNext, WalkStep, EndWalk, CallbackThrows

(* The map's invariant holds of every step, walking or not.                *)
LEMMA MapInvStep ==
    ASSUME PartialWrites = FALSE, MapInv, WalkInv, [WalkNext]_allVars
    PROVE  MapInv'
<1>1. CASE MapCall
  BY <1>1, CallKeepsMap
<1>2. CASE UNCHANGED vars
  BY <1>2, MapStays DEF vars, MapInv, TypeInv, TypeOK
<1>3. CASE CallbackReturns
  <2>1. key \in Key
    BY <1>3 DEF CallbackReturns, WalkInv
  <2> QED
    BY <1>2, <1>3, <2>1, EraseKeepsMap DEF CallbackReturns
<1>4. ASSUME NEW k \in Key, CallbackErases(k) PROVE MapInv'
  BY <1>4, EraseKeepsMap DEF CallbackErases
<1> QED
  BY <1>1, <1>2, <1>3, <1>4
     DEF WalkNext, WalkStep, BeginWalk, NextSlab, EndWalk, LoadWord, EndSlab,
         EndWord, CallBack, CallbackThrows, allVars

(* An empty map, and no walk.                                              *)
LEMMA WalkStarts == WalkInit => MapInv /\ WalkInv
<1>1. ASSUME WalkInit PROVE MapInv
  BY <1>1, TypeInit, BlankKeyInv, KeyInvParts DEF WalkInit, MapInv
<1>2. ASSUME WalkInit PROVE WalkInv
  BY <1>2, WordsFit DEF WalkInit, WalkInv
<1> QED
  BY <1>1, <1>2

-----------------------------------------------------------------------------
(* What callers rely on.                                                   *)

(* Where constructors leave the slot's bytes alone when they throw, and    *)
(* callbacks erase nothing of the word they are called for but their own   *)
(* element, every element handed to a callback is alive and its key is the *)
(* one that finds it: if there is one slab, or one word to a slab.         *)
THEOREM WalkHandsOutTheLiving ==
    ASSUME PartialWrites = FALSE, MayErase # "anything", OneSlabOrOneWord
    PROVE  WalkSpec => HandsOutLiveElements
<1>1. WalkInit => MapInv /\ WalkInv
  BY WalkStarts
<1>2. MapInv /\ WalkInv /\ [WalkNext]_allVars => (MapInv /\ WalkInv)'
  BY MapInvStep, WalkInvStep
<1>3. MapInv /\ WalkInv /\ [WalkNext]_allVars =>
          [pc = "bits" /\ pc' = "callback" => IsValid(key')]_allVars
  <2>1. SUFFICES ASSUME MapInv, WalkInv, CallBack, pc = "bits"
        PROVE  IsValid(key')
    BY DEF WalkNext, WalkStep, MapCall, walkVars, BeginWalk, NextSlab, EndWalk,
           Leave, LoadWord, EndSlab, EndWord, CallbackReturns, CallbackThrows,
           CallbackErases
  <2>2. PICK j : j = CHOOSE x \in rest : \A y \in rest : x <= y
    OBVIOUS
  <2>3. j \in rest
    <3>1. rest \in SUBSET Nat /\ rest # {}
      BY <2>1 DEF Word, WalkInv, CallBack
    <3>2. \E x \in rest : \A y \in rest : x <= y
      BY <3>1, LeastNat
    <3> QED
      BY <2>2, <3>2
  <2>4. SlotAt(j) \in Index /\ InPlace /\ at \in SlabIndex
          /\ bitmap[SlotAt(j)] /\ SlotAt(j) = slabIdx * SlotsPerSlab + j
    BY <2>1, <2>3, RestIsAlive
  <2>5. at # Gone
    <3>1. MaxSlots \div SlotsPerSlab \in Int
      BY SizeAssumption, DivMod
    <3> QED
      BY <2>4, <3>1 DEF SlabIndex, Gone, NSlabs
  <2>6. key' = [index |-> SlotAt(j), version |-> version[SlotAt(j)]]
    BY <2>1, <2>2, <2>4, <2>5 DEF CallBack
  <2>7. ASSUME NEW k, k = [index |-> SlotAt(j), version |-> version[SlotAt(j)]]
        PROVE  IsValid(k)
    <3>1. k.index = SlotAt(j) /\ k.version = version[SlotAt(j)]
      BY <2>7
    <3>2. SlabOf(SlotAt(j)) \in slabs /\ (HasAliveBit => aliveBit[SlotAt(j)])
      <4>1. PICK x : x = SlotAt(j)
        OBVIOUS
      <4>2. AliveBitsMatch
        BY <2>1 DEF MapInv, SlotsInv
      <4>3. x \in Index /\ bitmap[x]
        BY <2>4, <4>1
      <4> QED
        BY <4>1, <4>2, <4>3 DEF AliveBitsMatch, Present
    <3> QED
      BY <2>4, <3>1, <3>2 DEF IsValid, Present
  <2> QED
    BY <2>6, <2>7
<1> QED
  BY <1>1, <1>2, <1>3, PTL DEF WalkSpec, HandsOutLiveElements

-----------------------------------------------------------------------------
(* What a walk visits.                                                     *)

(* The first slot no word has been loaded for, and a slot of the slab.     *)
Here(j) == slabIdx * SlotsPerSlab + j
Cursor ==
    Here(IF pc = "words" THEN offset
         ELSE IF pc \in {"bits", "callback"} THEN offset + ChunkSlots ELSE 0)

(* The slots still to visit: bits left in the word, and all ahead.         *)
ToVisit(i) == i >= Cursor \/ \E j \in rest : i = Here(j)

(* Where the walk's local variables stand from step to step.               *)
WalkShape ==
    /\ pc \in {"words", "bits", "callback"} => ~stop
    /\ pc = "words" => offset <= SlotsPerSlab
    /\ pc = "idle" => /\ slabIdx = 0 /\ rest = {} /\ visited = 0 /\ ~stop
                      /\ due = {} /\ seen = {}
    /\ ~stop /\ pc \in {"slabs", "words"} => rest = {}

(* Until it is stopped, the count is that of the elements handed out.      *)
Tally ==
    ~stop => /\ IsFiniteSet(seen) /\ visited \in Nat
             /\ Cardinality(seen) = visited + (IF pc = "callback" THEN 1 ELSE 0)
             /\ pc = "callback" => key \in seen

(* What was handed out lies behind the walk, what is due ahead of it.      *)
SeenBehind == ~stop => \A k \in seen : k \in Key /\ ~ToVisit(k.index)
DueAhead ==
    ~stop => \A k \in due \ seen : k \in Key /\ IsValid(k) /\ ToVisit(k.index)

VisitInv == WalkShape /\ Tally /\ SeenBehind /\ DueAhead

(* Which keys work is read off the bitmap and the versions, in any state.  *)
LEMMA WorkingKeys ==
    ASSUME MapInv, NEW k \in Key
    PROVE  IsValid(k) <=> bitmap[k.index] /\ version[k.index] = k.version
<1>1. k.index \in Index
  BY DEF Key
<1>2. /\ aliveBit[k.index] <=> HasAliveBit /\ bitmap[k.index]
      /\ bitmap[k.index] => Present(k.index)
  BY <1>1 DEF MapInv, SlotsInv, AliveBitsMatch
<1> QED
  BY <1>2 DEF IsValid

(* The same in the next state.                                             *)
LEMMA WorkingKeysNext ==
    ASSUME MapInv', NEW k \in Key
    PROVE  IsValid(k)' <=> bitmap'[k.index] /\ version'[k.index] = k.version
<1>1. k.index \in Index
  BY DEF Key
<1>2. /\ aliveBit'[k.index] <=> HasAliveBit /\ bitmap'[k.index]
      /\ bitmap'[k.index] => Present(k.index)'
  BY <1>1 DEF MapInv, SlotsInv, AliveBitsMatch
<1> QED
  BY <1>2 DEF IsValid

(* An erase leaves every other key working.                                *)
LEMMA EraseSparesKeys ==
    ASSUME MapInv, MapInv', NEW k \in Key, EraseCall(k), NEW d \in Key, d # k,
           IsValid(d)
    PROVE  IsValid(d)'
<1>1. d.index \in Index /\ bitmap[d.index] /\ version[d.index] = d.version
  BY WorkingKeys DEF Key
<1>2. CASE UNCHANGED <<bitmap, version>>
  BY <1>1, <1>2, WorkingKeysNext
<1>3. CASE EraseFinds(k)
  <2>1. d.index # k.index
    BY <1>1, <1>3 DEF EraseFinds, Key
  <2>2. bitmap'[d.index] /\ version'[d.index] = version[d.index]
    BY <1>1, <2>1, EraseSparesOthers
  <2> QED
    BY <1>1, <2>2, WorkingKeysNext
<1> QED
  BY <1>2, <1>3 DEF EraseCall, Erase, EraseRecycles, RecycleAborts, Abort, vars

(* A slot between two multiples of the slab size is of the slab between.   *)
LEMMA SlabBetween ==
    ASSUME NEW i \in Index, NEW s \in Nat, s * SlotsPerSlab <= i,
           i < s * SlotsPerSlab + SlotsPerSlab
    PROVE  SlabOf(i) = s
<1>1. SlotsPerSlab \in Nat \ {0} /\ i \in Nat
  BY SizeAssumption DEF Index
<1>2. PICK b \in Nat : b = SlotsPerSlab * s /\ b = s * SlotsPerSlab
  BY <1>1
<1>3. i - b \in 0 .. SlotsPerSlab - 1 /\ i = b + (i - b)
  BY <1>1, <1>2
<1>4. (SlotsPerSlab * s + (i - b)) \div SlotsPerSlab = s
  BY <1>1, <1>3, DivUnique
<1> QED
  BY <1>2, <1>3, <1>4 DEF SlabOf

(* The next slab's first slot.                                             *)
LEMMA NextSlabStarts ==
    ASSUME NEW s \in Nat
    PROVE  /\ s * SlotsPerSlab \in Nat
           /\ (s + 1) * SlotsPerSlab = s * SlotsPerSlab + SlotsPerSlab
<1>1. SlotsPerSlab \in Nat \ {0}
  BY SizeAssumption
<1> QED
  BY <1>1

(* Going on to the next position passes nothing by: no slab there, nothing *)
(* due there.                                                              *)
LEMMA NextSlabVisits ==
    ASSUME MapInv, WalkInv, VisitInv, NextSlab
    PROVE  VisitInv'
<1>1. slabIdx \in Nat /\ pc = "slabs"
        /\ UNCHANGED <<vars, rest, key, stop, visited, due, seen>>
  BY DEF NextSlab, WalkInv
<1>2. PICK b \in Nat : b = slabIdx * SlotsPerSlab
                           /\ (slabIdx + 1) * SlotsPerSlab = b + SlotsPerSlab
  BY <1>1, NextSlabStarts
<1>3. SlotsPerSlab \in Nat \ {0} /\ Cursor = b
  BY <1>1, <1>2, WordsFit DEF Cursor, Here
<1>4. \A k : IsValid(k)' <=> IsValid(k)
  BY <1>1 DEF vars, IsValid, Present
<1>5. \A k \in Key : k.index \in Index /\ k.index \in Nat
  BY DEF Key, Index
<1>6. CASE slabIdx \in slabs /\ ~stop
  <2>1. pc' = "words" /\ offset' = 0 /\ slabIdx' = slabIdx
    BY <1>6 DEF NextSlab
  <2>2. Cursor' = b
    BY <1>2, <1>3, <2>1 DEF Cursor, Here
  <2>3. rest = {}
    BY <1>1, <1>6 DEF VisitInv, WalkShape
  <2>4. \A i : ToVisit(i)' <=> ToVisit(i)
    BY <1>1, <1>3, <2>2, <2>3 DEF ToVisit
  <2>5. WalkShape'
    BY <1>1, <1>3, <1>6, <2>1, <2>3 DEF WalkShape
  <2>6. Tally'
    BY <1>1, <1>6, <2>1 DEF VisitInv, Tally
  <2>7. SeenBehind' /\ DueAhead'
    BY <1>1, <1>4, <1>6, <2>4 DEF VisitInv, SeenBehind, DueAhead
  <2> QED
    BY <2>5, <2>6, <2>7 DEF VisitInv
<1>7. CASE ~(slabIdx \in slabs /\ ~stop)
  <2>1. pc' = "slabs" /\ slabIdx' = slabIdx + 1
    BY <1>1, <1>7 DEF NextSlab
  <2>2. WalkShape' /\ Tally'
    BY <1>1, <2>1 DEF VisitInv, WalkShape, Tally
  <2>3. CASE stop
    BY <1>1, <2>2, <2>3 DEF VisitInv, SeenBehind, DueAhead
  <2>4. CASE ~stop
    <3>1. rest = {} /\ rest' = {} /\ slabIdx \notin slabs
      BY <1>1, <1>7, <2>4 DEF VisitInv, WalkShape
    <3>2. Cursor' = b + SlotsPerSlab
      BY <1>2, <1>3, <2>1 DEF Cursor, Here
    <3>3. \A i : (ToVisit(i) <=> i >= b)
                 /\ (ToVisit(i)' <=> i >= b + SlotsPerSlab)
      BY <1>3, <3>1, <3>2 DEF ToVisit
    <3>4. SeenBehind'
      <4>1. ASSUME NEW k \in seen PROVE k \in Key /\ ~ToVisit(k.index)'
        <5>1. k \in Key /\ ~(k.index >= b)
          BY <2>4, <3>3 DEF VisitInv, SeenBehind
        <5> QED
          BY <1>2, <1>3, <1>5, <3>3, <5>1
      <4> QED
        BY <1>1, <4>1 DEF SeenBehind
    <3>5. DueAhead'
      <4>1. ASSUME NEW k \in due \ seen
            PROVE  k \in Key /\ IsValid(k)' /\ ToVisit(k.index)'
        <5>1. k \in Key /\ IsValid(k) /\ k.index >= b
          BY <2>4, <3>3 DEF VisitInv, DueAhead
        <5>2. SlabOf(k.index) \in slabs
          BY <5>1 DEF IsValid, Present
        <5>3. k.index < b + SlotsPerSlab => SlabOf(k.index) = slabIdx
          BY <1>1, <1>2, <1>5, <5>1, SlabBetween
        <5>4. k.index >= b + SlotsPerSlab
          BY <1>2, <1>3, <1>5, <3>1, <5>1, <5>2, <5>3
        <5> QED
          BY <1>4, <3>3, <5>1, <5>4
      <4> QED
        BY <1>1, <4>1 DEF DueAhead
    <3> QED
      BY <2>2, <3>4, <3>5 DEF VisitInv
  <2> QED
    BY <2>3, <2>4
<1> QED
  BY <1>6, <1>7

(* The word copied has the bits of all that is due in it.                  *)
LEMMA LoadWordVisits ==
    ASSUME MapInv, WalkInv, VisitInv, LoadWord
    PROVE  VisitInv'
<1>1. /\ pc = "words" /\ pc' = "bits" /\ ~stop /\ offset < SlotsPerSlab
      /\ at = slabIdx /\ at \in slabs /\ slabIdx \in Nat /\ offset \in Nat
      /\ rest = {} /\ ChunkSlots \in Nat \ {0}
      /\ UNCHANGED <<vars, slabIdx, at, offset, key, stop, visited, due, seen>>
  BY WordsFit DEF LoadWord, Words, WalkInv, InPlace, VisitInv, WalkShape
<1>2. at # Gone
  <2>1. at \in SlabIndex
    BY <1>1 DEF MapInv, TypeInv, TypeOK
  <2>2. MaxSlots \div SlotsPerSlab \in Int
    BY SizeAssumption, DivMod
  <2> QED
    BY <2>1, <2>2 DEF SlabIndex, Gone, NSlabs
<1>3. rest' = {j \in Word : bitmap[SlotAt(j)]}
  BY <1>2 DEF LoadWord
<1>4. PICK b \in Nat : b = slabIdx * SlotsPerSlab
  BY <1>1, NextSlabStarts
<1>5. Cursor = b + offset /\ Cursor' = b + offset + ChunkSlots
  BY <1>1, <1>4 DEF Cursor, Here
<1>6. \A j : SlotAt(j) = b + j /\ Here(j)' = b + j
  BY <1>1, <1>4 DEF SlotAt, Here
<1>7. \A k : IsValid(k)' <=> IsValid(k)
  BY <1>1 DEF vars, IsValid, Present
<1>8. \A k \in Key : k.index \in Index /\ k.index \in Nat
  BY DEF Key, Index
<1>9. WalkShape' /\ Tally'
  BY <1>1 DEF VisitInv, WalkShape, Tally
<1>10. SeenBehind'
  <2>1. ASSUME NEW k \in seen PROVE k \in Key /\ ~ToVisit(k.index)'
    <3>1. k \in Key /\ ~(k.index >= b + offset)
      BY <1>1, <1>5 DEF VisitInv, SeenBehind, ToVisit
    <3>2. k.index < b + offset /\ k.index \in Nat
      BY <1>1, <1>4, <1>8, <3>1
    <3>3. \A j \in rest' : j \in Nat /\ offset <= j
      BY <1>1, <1>3 DEF Word
    <3>4. ~ \E j \in rest' : k.index = b + j
      BY <1>1, <1>4, <3>2, <3>3
    <3>5. ~(k.index >= b + offset + ChunkSlots)
      BY <1>1, <1>4, <3>2
    <3> QED
      BY <1>5, <1>6, <3>1, <3>4, <3>5 DEF ToVisit
  <2> QED
    BY <1>1, <2>1 DEF SeenBehind
<1>11. DueAhead'
  <2>1. ASSUME NEW k \in due \ seen
        PROVE  k \in Key /\ IsValid(k)' /\ ToVisit(k.index)'
    <3>1. k \in Key /\ IsValid(k) /\ k.index >= b + offset
      BY <1>1, <1>5 DEF VisitInv, DueAhead, ToVisit
    <3>2. bitmap[k.index]
      BY <3>1, WorkingKeys
    <3>3. CASE k.index < b + offset + ChunkSlots
      <4>1. PICK j : j = k.index - b
        OBVIOUS
      <4>2. j \in Word /\ k.index = b + j
        BY <1>1, <1>4, <1>8, <3>1, <3>3, <4>1 DEF Word
      <4>3. j \in rest' /\ k.index = Here(j)'
        BY <1>3, <1>6, <3>2, <4>2
      <4> QED
        BY <1>7, <3>1, <4>3 DEF ToVisit
    <3>4. CASE ~(k.index < b + offset + ChunkSlots)
      <4>1. k.index >= b + offset + ChunkSlots
        BY <1>1, <1>4, <1>8, <3>1, <3>4
      <4> QED
        BY <1>5, <1>7, <3>1, <4>1 DEF ToVisit
    <3> QED
      BY <3>3, <3>4
  <2> QED
    BY <1>1, <2>1 DEF DueAhead
<1> QED
  BY <1>9, <1>10, <1>11 DEF VisitInv

(* Leaving a word or a slab with no bit left leaves nothing behind.        *)
LEMMA EndsVisit ==
    ASSUME WalkInv, VisitInv, EndWord \/ EndSlab
    PROVE  VisitInv'
<1>1. /\ rest = {} /\ ~stop /\ slabIdx \in Nat /\ offset \in Nat
      /\ pc' \in {"words", "slabs"}
      /\ UNCHANGED <<vars, rest, key, stop, visited, due, seen>>
  BY DEF EndWord, EndSlab, WalkInv, VisitInv, WalkShape
<1>2. PICK b \in Nat : b = slabIdx * SlotsPerSlab
                           /\ (slabIdx + 1) * SlotsPerSlab = b + SlotsPerSlab
  BY <1>1, NextSlabStarts
<1>3. ChunkSlots \in Nat \ {0} /\ SlotsPerSlab \in Nat \ {0}
  BY WordsFit
<1>4. Cursor' = Cursor /\ (pc' = "words" => offset' <= SlotsPerSlab)
  <2>1. CASE EndWord
    <3>1. offset < SlotsPerSlab /\ offset % ChunkSlots = 0 /\ pc = "bits"
            /\ pc' = "words" /\ offset' = offset + ChunkSlots
            /\ slabIdx' = slabIdx
      BY <2>1 DEF EndWord, WalkInv
    <3>2. offset + ChunkSlots <= SlotsPerSlab
      BY ONLY <1>1, <3>1, WordsFit, BoundaryGap
    <3> QED
      BY <1>2, <3>1, <3>2 DEF Cursor, Here
  <2>2. CASE EndSlab
    <3>1. pc = "words" /\ pc' = "slabs" /\ slabIdx' = slabIdx + 1
      BY <2>2 DEF EndSlab
    <3>2. offset = SlotsPerSlab
      BY <1>1, <1>3, <2>2, <3>1 DEF EndSlab, Words, VisitInv, WalkShape
    <3> QED
      BY <1>2, <1>3, <3>1, <3>2 DEF Cursor, Here
  <2> QED
    BY <2>1, <2>2
<1>5. \A i : ToVisit(i)' <=> ToVisit(i)
  BY <1>1, <1>4 DEF ToVisit
<1>6. \A k : IsValid(k)' <=> IsValid(k)
  BY <1>1 DEF vars, IsValid, Present
<1>7. WalkShape'
  BY <1>1, <1>4 DEF WalkShape
<1>8. Tally'
  BY <1>1 DEF EndWord, EndSlab, VisitInv, Tally
<1>9. SeenBehind' /\ DueAhead'
  BY <1>1, <1>5, <1>6 DEF VisitInv, SeenBehind, DueAhead
<1> QED
  BY <1>7, <1>8, <1>9 DEF VisitInv

(* The element handed out was not before, and is the one due in its slot.  *)
LEMMA CallBackVisits ==
    ASSUME MapInv, WalkInv, VisitInv, CallBack
    PROVE  VisitInv'
<1>1. PICK j : j = CHOOSE x \in rest : \A y \in rest : x <= y
  OBVIOUS
<1>2. /\ rest \in SUBSET Word /\ rest # {} /\ pc = "bits" /\ pc' = "callback"
      /\ ~stop /\ slabIdx \in Nat
      /\ UNCHANGED <<vars, slabIdx, at, offset, stop, visited, due>>
      /\ seen' = seen \union {key'}
  BY DEF CallBack, WalkInv, VisitInv, WalkShape
<1>3. j \in rest
  <2>1. rest \in SUBSET Nat
    BY <1>2 DEF Word, WalkInv
  <2>2. \E x \in rest : \A y \in rest : x <= y
    BY <1>2, <2>1, LeastNat
  <2> QED
    BY <1>1, <2>2
<1>4. SlotAt(j) \in Index /\ InPlace /\ at \in SlabIndex
        /\ SlotAt(j) = slabIdx * SlotsPerSlab + j /\ j \in Nat
  BY <1>2, <1>3, RestIsAlive
<1>5. at # Gone
  <2>1. MaxSlots \div SlotsPerSlab \in Int
    BY SizeAssumption, DivMod
  <2> QED
    BY <1>4, <2>1 DEF SlabIndex, Gone, NSlabs
<1>6. PICK i \in Index : i = SlotAt(j) /\ i = Here(j)
  BY <1>4 DEF Here
<1>7. key' = [index |-> i, version |-> version[i]] /\ rest' = rest \ {j}
  BY <1>1, <1>4, <1>5, <1>6 DEF CallBack, BitCleared
<1>8. key' \in Key /\ key'.index = i /\ key'.version = version[i]
  BY <1>6, <1>7 DEF Key, MapInv, TypeInv, TypeOK
<1>9. ToVisit(i) /\ key' \notin seen
  BY <1>2, <1>3, <1>6, <1>8 DEF ToVisit, VisitInv, SeenBehind
<1>10. Cursor' = Cursor /\ \A x : Here(x)' = Here(x)
  BY <1>2 DEF Cursor, Here
<1>11. PICK b \in Nat : b = slabIdx * SlotsPerSlab
  BY <1>2, NextSlabStarts
<1>12. ~ToVisit(i)'
  <2>1. i = b + j /\ Cursor = b + offset + ChunkSlots /\ offset \in Nat
          /\ ChunkSlots \in Nat
    BY <1>2, <1>6, <1>11, WordsFit DEF Cursor, Here, WalkInv
  <2>2. j < offset + ChunkSlots
    BY <1>2, <1>3, <2>1 DEF Word
  <2>3. ~(i >= Cursor)
    BY <1>4, <1>11, <2>1, <2>2
  <2>4. \A x \in rest' : x \in Nat /\ x # j
    BY <1>2, <1>7, <2>1 DEF Word
  <2>5. \A x \in rest' : i # b + x
    BY <1>4, <1>11, <2>1, <2>4
  <2> QED
    BY <1>10, <1>11, <2>3, <2>5 DEF ToVisit, Here
<1>13. WalkShape'
  BY <1>2 DEF WalkShape
<1>14. Tally'
  <2>1. IsFiniteSet(seen) /\ visited \in Nat /\ Cardinality(seen) = visited
    BY <1>2 DEF VisitInv, Tally
  <2>2. IsFiniteSet(seen') /\ Cardinality(seen') = visited + 1
    BY <1>2, <1>9, <2>1, FS_AddElement
  <2> QED
    BY <1>2, <2>1, <2>2 DEF Tally
<1>15. SeenBehind'
  <2>1. ASSUME NEW k \in seen' PROVE k \in Key /\ ~ToVisit(k.index)'
    <3>1. CASE k = key'
      BY <1>8, <1>12, <3>1
    <3>2. CASE k \in seen
      <4>1. k \in Key /\ ~ToVisit(k.index)
        BY <1>2, <3>2 DEF VisitInv, SeenBehind
      <4> QED
        BY <1>7, <1>10, <4>1 DEF ToVisit
    <3> QED
      BY <1>2, <2>1, <3>1, <3>2
  <2> QED
    BY <2>1 DEF SeenBehind
<1>16. DueAhead'
  <2>1. ASSUME NEW k \in due \ seen'
        PROVE  k \in Key /\ IsValid(k)' /\ ToVisit(k.index)'
    <3>1. k \in Key /\ IsValid(k) /\ ToVisit(k.index)
      BY <1>2, <2>1 DEF VisitInv, DueAhead
    <3>2. k.index # i
      <4>1. version[k.index] = k.version /\ k # key'
        BY <1>2, <2>1, <3>1, WorkingKeys
      <4> QED
        BY <1>7, <3>1, <4>1 DEF Key
    <3>3. IsValid(k)'
      BY <1>2, <3>1 DEF vars, IsValid, Present
    <3> QED
      BY <1>6, <1>7, <1>10, <3>1, <3>2, <3>3 DEF ToVisit
  <2> QED
    BY <1>2, <2>1 DEF DueAhead
<1> QED
  BY <1>13, <1>14, <1>15, <1>16 DEF VisitInv

(* A callback's erase takes no more than its own key from what is due.     *)
LEMMA EraseVisits ==
    ASSUME MapInv, MapInv', NEW k \in Key, EraseCall(k), due' = due \ {k},
           DueAhead, ~stop, seen' = seen, \A i : ToVisit(i)' <=> ToVisit(i)
    PROVE  DueAhead'
<1>1. ASSUME NEW d \in due' \ seen'
      PROVE  d \in Key /\ IsValid(d)' /\ ToVisit(d.index)'
  <2>1. d \in due \ seen /\ d # k
    BY <1>1
  <2>2. d \in Key /\ IsValid(d) /\ ToVisit(d.index)
    BY <2>1 DEF DueAhead
  <2>3. IsValid(d)'
    BY <2>1, <2>2, EraseSparesKeys
  <2> QED
    BY <2>2, <2>3
<1> QED
  BY <1>1 DEF DueAhead

(* The callback returns: one more is counted.                              *)
LEMMA ReturnVisits ==
    ASSUME MapInv, MapInv', WalkInv, VisitInv, CallbackReturns
    PROVE  VisitInv'
<1>1. /\ pc = "callback" /\ ~stop /\ key \in Key
      /\ visited' = visited + 1 /\ stop' \in BOOLEAN
      /\ UNCHANGED <<offset, rest, key, seen>>
  BY DEF CallbackReturns, WalkInv, VisitInv, WalkShape
<1>2. CASE stop'
  BY <1>1, <1>2
     DEF CallbackReturns, VisitInv, WalkShape, Tally, SeenBehind, DueAhead
<1>3. CASE ~stop'
  <2>1. pc' = "bits" /\ slabIdx' = slabIdx
    BY <1>3 DEF CallbackReturns
  <2>2. Cursor' = Cursor /\ \A x : Here(x)' = Here(x)
    BY <1>1, <2>1 DEF Cursor, Here
  <2>3. \A i : ToVisit(i)' <=> ToVisit(i)
    BY <1>1, <2>2 DEF ToVisit
  <2>4. WalkShape'
    BY <1>3, <2>1 DEF WalkShape
  <2>5. Tally'
    BY <1>1, <2>1 DEF VisitInv, Tally
  <2>6. SeenBehind'
    BY <1>1, <2>3 DEF VisitInv, SeenBehind
  <2>7. DueAhead'
    <3>1. CASE EraseCall(key) /\ due' = due \ {key}
      BY <1>1, <2>3, <3>1, EraseVisits DEF VisitInv
    <3>2. CASE UNCHANGED <<vars, due>>
      <4>1. \A k : IsValid(k)' <=> IsValid(k)
        BY <3>2 DEF vars, IsValid, Present
      <4> QED
        BY <1>1, <2>3, <3>2, <4>1 DEF VisitInv, DueAhead
    <3> QED
      BY <3>1, <3>2 DEF CallbackReturns
  <2> QED
    BY <2>4, <2>5, <2>6, <2>7 DEF VisitInv
<1> QED
  BY <1>2, <1>3

(* No step passes by what is due, or hands out what was seen.              *)
LEMMA VisitStep ==
    ASSUME MapInv, MapInv', WalkInv, VisitInv, [WalkNext]_allVars
    PROVE  VisitInv'
<1>1. CASE MapCall
  BY <1>1 DEF MapCall, walkVars, VisitInv, WalkShape, Tally, SeenBehind,
              DueAhead
<1>2. CASE BeginWalk
  <2>1. /\ pc' = "slabs" /\ slabIdx' = 0 /\ rest' = {} /\ seen' = {} /\ ~stop'
        /\ visited' = 0 /\ due' = {k \in Key : IsValid(k)}
        /\ UNCHANGED vars
    BY <1>2 DEF BeginWalk, VisitInv, WalkShape
  <2>2. Cursor' = 0
    BY <2>1, NextSlabStarts, WordsFit DEF Cursor, Here
  <2>3. \A k \in Key : ToVisit(k.index)'
    BY <2>2 DEF ToVisit, Key, Index
  <2>4. \A k : IsValid(k)' <=> IsValid(k)
    BY <2>1 DEF vars, IsValid, Present
  <2>5. WalkShape' /\ Tally'
    BY <2>1, FS_EmptySet DEF WalkShape, Tally
  <2>6. SeenBehind' /\ DueAhead'
    BY <2>1, <2>3, <2>4 DEF SeenBehind, DueAhead
  <2> QED
    BY <2>5, <2>6 DEF VisitInv
<1>3. CASE Leave
  BY <1>3, FS_EmptySet
     DEF Leave, VisitInv, WalkShape, Tally, SeenBehind, DueAhead
<1>4. ASSUME NEW k \in Key, CallbackErases(k) PROVE VisitInv'
  <2>1. /\ pc = "callback" /\ ~stop /\ EraseCall(k) /\ due' = due \ {k}
        /\ UNCHANGED <<pc, slabIdx, offset, rest, key, stop, visited, seen>>
    BY <1>4 DEF CallbackErases, VisitInv, WalkShape
  <2>2. Cursor' = Cursor /\ \A x : Here(x)' = Here(x)
    BY <2>1 DEF Cursor, Here
  <2>3. \A i : ToVisit(i)' <=> ToVisit(i)
    BY <2>1, <2>2 DEF ToVisit
  <2>4. WalkShape' /\ Tally' /\ SeenBehind'
    BY <2>1, <2>3 DEF VisitInv, WalkShape, Tally, SeenBehind
  <2>5. DueAhead'
    BY <2>1, <2>3, EraseVisits DEF VisitInv
  <2> QED
    BY <2>4, <2>5 DEF VisitInv
<1>5. CASE UNCHANGED allVars
  <2>1. \A k : IsValid(k)' <=> IsValid(k)
    BY <1>5 DEF allVars, vars, IsValid, Present
  <2>2. \A i : ToVisit(i)' <=> ToVisit(i)
    BY <1>5 DEF allVars, walkVars, ToVisit, Cursor, Here
  <2> QED
    BY <1>5, <2>1, <2>2
       DEF allVars, walkVars, VisitInv, WalkShape, Tally, SeenBehind, DueAhead
<1> QED
  BY <1>1, <1>2, <1>3, <1>4, <1>5, NextSlabVisits, LoadWordVisits, EndsVisit,
     CallBackVisits, ReturnVisits
     DEF WalkNext, WalkStep, EndWalk, CallbackThrows

(* Under the same conditions a walk that was not stopped has visited each  *)
(* element that was alive at its start and not erased since, and none      *)
(* twice, however slabs are deleted or recycled under it.                  *)
THEOREM WalkVisitsEachOnce ==
    ASSUME PartialWrites = FALSE, MayErase # "anything", OneSlabOrOneWord
    PROVE  WalkSpec => EachElementOnce
<1>1. WalkInit => MapInv /\ WalkInv /\ VisitInv
  <2>1. ASSUME WalkInit PROVE VisitInv
    BY <2>1, FS_EmptySet
       DEF WalkInit, VisitInv, WalkShape, Tally, SeenBehind, DueAhead
  <2> QED
    BY <2>1, WalkStarts
<1>2. MapInv /\ WalkInv /\ VisitInv /\ [WalkNext]_allVars =>
          (MapInv /\ WalkInv /\ VisitInv)'
  BY MapInvStep, WalkInvStep, VisitStep
<1>3. MapInv /\ WalkInv /\ VisitInv /\ [WalkNext]_allVars =>
          [pc = "slabs" /\ pc' = "idle" /\ ~stop =>
               due \subseteq seen /\ visited = Cardinality(seen)]_allVars
  <2>1. SUFFICES ASSUME MapInv, WalkInv, VisitInv, pc = "slabs", ~stop,
                        slabIdx = NSlabs
        PROVE  due \subseteq seen /\ visited = Cardinality(seen)
    BY DEF WalkNext, WalkStep, MapCall, walkVars, BeginWalk, NextSlab, EndWalk,
           Leave, LoadWord, EndSlab, EndWord, CallBack, CallbackReturns,
           CallbackThrows, CallbackErases
  <2>2. rest = {} /\ visited = Cardinality(seen)
    BY <2>1 DEF VisitInv, WalkShape, Tally
  <2>3. Cursor = MaxSlots
    <3>1. MaxSlots = SlotsPerSlab * (MaxSlots \div SlotsPerSlab)
            /\ MaxSlots \div SlotsPerSlab \in Int
      BY SizeAssumption, DivMod
    <3> QED
      BY <2>1, <3>1, WordsFit DEF Cursor, Here, NSlabs
  <2>4. ASSUME NEW k \in due \ seen PROVE FALSE
    <3>1. k \in Key /\ k.index >= MaxSlots
      BY <2>1, <2>2, <2>3 DEF VisitInv, DueAhead, ToVisit
    <3>2. k.index \in 0 .. MaxSlots - 1
      BY <3>1 DEF Key, Index
    <3> QED
      BY <3>1, <3>2, SizeAssumption
  <2> QED
    BY <2>2, <2>4
<1> QED
  BY <1>1, <1>2, <1>3, PTL DEF WalkSpec, EachElementOnce

-----------------------------------------------------------------------------
(* Walks as calls of the map.                                              *)

(* The walk's variables, whatever has become of its slab.                  *)
WalkTypes ==
    /\ slabIdx \in Nat /\ offset \in Nat /\ offset % ChunkSlots = 0
    /\ pc \in {"words", "bits", "callback"} =>
           slabIdx \in SlabIndex /\ at \in SlabIndex \union {Gone}
    /\ pc \in {"bits", "callback"} =>
           rest \in SUBSET Word /\ offset < SlotsPerSlab
    /\ pc = "callback" => key \in Key

(* What a callback is given is a key, read from freed memory though it be. *)
LEMMA CallBackGivesKeys ==
    ASSUME TypeInv, WalkTypes, CallBack
    PROVE  key' \in Key
<1>1. PICK j : j = CHOOSE x \in rest : \A y \in rest : x <= y
  OBVIOUS
<1>2. rest \in SUBSET Word /\ rest # {} /\ offset < SlotsPerSlab
        /\ offset \in Nat /\ offset % ChunkSlots = 0
        /\ slabIdx \in SlabIndex /\ at \in SlabIndex \union {Gone}
  BY DEF CallBack, WalkTypes
<1>3. j \in Word
  <2>1. rest \in SUBSET Nat
    BY <1>2 DEF Word
  <2>2. \E x \in rest : \A y \in rest : x <= y
    BY <1>2, <2>1, LeastNat
  <2> QED
    BY <1>1, <1>2, <2>2
<1>4. offset + ChunkSlots <= SlotsPerSlab
  <2>1. SlotsPerSlab \in Nat
    BY WordsFit
  <2> QED
    BY ONLY <1>2, <2>1, WordsFit, BoundaryGap
<1>5. j \in 0 .. SlotsPerSlab - 1
  BY <1>2, <1>3, <1>4, WordsFit DEF Word
<1>6. slabIdx * SlotsPerSlab + j \in Index
  BY <1>2, <1>5, SlotOfSlab
<1>7. PICK v : key' = [index |-> slabIdx * SlotsPerSlab + j, version |-> v]
                 /\ (at = Gone => v \in Version)
                 /\ (at # Gone => v = version[SlotAt(j)])
  BY <1>1 DEF CallBack
<1>8. v \in Version
  <2>1. CASE at = Gone
    BY <1>7, <2>1
  <2>2. CASE at # Gone
    <3>1. SlotAt(j) \in Index
      BY <1>2, <1>5, <2>2, SlotOfSlab DEF SlotAt
    <3> QED
      BY <1>7, <2>2, <3>1 DEF TypeInv, TypeOK
  <2> QED
    BY <2>1, <2>2
<1> QED
  BY <1>6, <1>7, <1>8 DEF Key

(* The slab held by pointer is followed to a place in the vector.          *)
LEMMA FollowedToPlace ==
    ASSUME TypeInv', at \in SlabIndex \union {Gone}, NEW k, EraseCall(k), Follow
    PROVE  at' \in SlabIndex \union {Gone}
<1>1. ASSUME nextBase' > nextBase, nextBase' # nextBase
      PROVE  SlabOf(nextBase) \in slabs'
  BY <1>1 DEF EraseCall, Erase, Reuse, Retire, Release, EraseRecycles, Recycle,
              RecycleAborts, Abort, vars
<1>2. slabs' \subseteq SlabIndex
  BY DEF TypeInv, TypeOK
<1>3. CASE at \in slabs' \/ at' = Gone
  BY <1>3 DEF Follow
<1>4. CASE at \notin slabs' /\ at' # Gone
  <2>1. at' = SlabOf(nextBase) /\ nextBase' > nextBase
    BY <1>4 DEF Follow
  <2>2. nextBase' # nextBase
    <3>1. nextBase' \in Int
      BY DEF TypeInv, TypeOK, OnGrid
    <3> QED
      BY <2>1, <3>1
  <2> QED
    BY <1>1, <1>2, <2>1, <2>2
<1> QED
  BY <1>3, <1>4

(* Every step is a call of the map, or leaves it alone.                    *)
LEMMA WalkCallsMap ==
    ASSUME WalkTypes, [WalkNext]_allVars
    PROVE  [Next]_vars
<1>1. ASSUME NEW k \in Key, EraseCall(k) PROVE [Next]_vars
  BY <1>1 DEF EraseCall, Next, NextUntilRecycle
<1>2. CASE CallbackReturns
  BY <1>1, <1>2 DEF CallbackReturns, WalkTypes
<1>3. ASSUME NEW k \in Key, CallbackErases(k) PROVE [Next]_vars
  BY <1>1, <1>3 DEF CallbackErases
<1> QED
  BY <1>2, <1>3
     DEF WalkNext, WalkStep, MapCall, BeginWalk, NextSlab, EndWalk, LoadWord,
         EndSlab, EndWord, CallBack, CallbackThrows, allVars

(* The walk's variables keep their types.                                  *)
LEMMA WalkTypesStep ==
    ASSUME TypeInv, TypeInv', WalkTypes, [WalkNext]_allVars
    PROVE  WalkTypes'
<1>1. CASE MapCall \/ BeginWalk \/ EndSlab \/ UNCHANGED allVars
  BY <1>1 DEF MapCall, walkVars, BeginWalk, EndSlab, allVars, WalkTypes, Word
<1>2. CASE NextSlab
  <2>1. slabs \subseteq SlabIndex /\ 0 % ChunkSlots = 0
    BY WordsFit DEF TypeInv, TypeOK
  <2>2. CASE slabIdx \in slabs /\ ~stop
    BY <1>2, <2>1, <2>2 DEF NextSlab, WalkTypes
  <2>3. CASE ~(slabIdx \in slabs /\ ~stop)
    BY <1>2, <2>3 DEF NextSlab, WalkTypes
  <2> QED
    BY <2>2, <2>3
<1>3. CASE Leave
  BY <1>3, WordsFit DEF Leave, WalkTypes
<1>4. CASE LoadWord
  <2>1. rest' \in SUBSET Word /\ offset < SlotsPerSlab
    BY <1>4 DEF LoadWord, Words
  <2> QED
    BY <1>4, <2>1 DEF LoadWord, WalkTypes, Word
<1>5. CASE EndWord
  <2>1. offset' \in Nat /\ offset' % ChunkSlots = 0
    <3>1. offset \in Int /\ offset \in Nat /\ ChunkSlots \in Nat \ {0}
            /\ offset % ChunkSlots = 0
      BY WordsFit DEF WalkTypes
    <3>2. (offset + ChunkSlots) % ChunkSlots = 0
      BY ONLY <3>1, NextBoundary
    <3> QED
      BY <1>5, <3>1, <3>2 DEF EndWord
  <2> QED
    BY <1>5, <2>1 DEF EndWord, WalkTypes
<1>6. CASE CallBack
  <2>1. key' \in Key
    BY <1>6, CallBackGivesKeys
  <2>2. rest' \in SUBSET rest /\ pc = "bits" /\ UNCHANGED <<slabIdx, at, offset>>
    BY <1>6 DEF CallBack, BitCleared
  <2> QED
    BY <2>1, <2>2 DEF WalkTypes, Word
<1>7. CASE CallbackReturns
  <2>1. pc = "callback" /\ pc' \in {"slabs", "bits"} /\ slabIdx' \in Nat
          /\ (pc' = "bits" => slabIdx' = slabIdx)
          /\ UNCHANGED <<offset, rest>>
    BY <1>7 DEF CallbackReturns, WalkTypes
  <2>2. at' \in SlabIndex \union {Gone}
    BY <1>7, <2>1, FollowedToPlace DEF CallbackReturns, WalkTypes
  <2> QED
    BY <2>1, <2>2 DEF WalkTypes, Word
<1>8. ASSUME NEW k \in Key, CallbackErases(k) PROVE WalkTypes'
  <2>1. pc = "callback" /\ UNCHANGED <<pc, slabIdx, offset, rest, key>>
          /\ EraseCall(k) /\ Follow
    BY <1>8 DEF CallbackErases
  <2>2. at' \in SlabIndex \union {Gone}
    BY <2>1, FollowedToPlace DEF WalkTypes
  <2> QED
    BY <2>1, <2>2 DEF WalkTypes, Word
<1> QED
  BY <1>1, <1>2, <1>3, <1>4, <1>5, <1>6, <1>7, <1>8
     DEF WalkNext, WalkStep, EndWalk, CallbackThrows

(* The map's and the walk's types hold of every step, which is a call.     *)
LEMMA WalkTypesInvariant ==
    /\ WalkInit => TypeInv /\ WalkTypes
    /\ TypeInv /\ WalkTypes /\ [WalkNext]_allVars
           => (TypeInv /\ WalkTypes)' /\ [Next]_vars
<1>1. ASSUME WalkInit PROVE TypeInv /\ WalkTypes
  BY <1>1, TypeInit, WordsFit DEF WalkInit, WalkTypes
<1>2. ASSUME TypeInv, WalkTypes, [WalkNext]_allVars
      PROVE  (TypeInv /\ WalkTypes)' /\ [Next]_vars
  <2>1. [Next]_vars
    BY <1>2, WalkCallsMap
  <2>2. TypeInv'
    BY <1>2, <2>1, TypeStep
  <2> QED
    BY <1>2, <2>1, <2>2, WalkTypesStep
<1> QED
  BY <1>1, <1>2

(* A map with walks in it goes through SlotMap's calls, one at a time,     *)
(* whatever callbacks do, even while a freed bitmap is being read: what is *)
(* proved of all behaviours of SlotMap holds in the middle of a for_each.  *)
THEOREM WalksAreCalls == WalkSpec => Spec
<1>1. WalkInit => Init
  BY DEF WalkInit
<1> QED
  BY <1>1, WalkTypesInvariant, PTL DEF WalkSpec, Spec

(* With one slab the free list stays sound under walks that erase, a key   *)
(* is issued once, and stale keys stay invalid.                            *)
THEOREM OneSlabKeepsPromises ==
    ASSUME SingleSlab, PartialWrites = FALSE
    PROVE  WalkSpec => /\ []FreeListSound
                       /\ IssuesFreshKey
                       /\ StaleKeysStayInvalid
<1>1. WalkSpec => SpecUntilRecycle
  BY WalksAreCalls, SingleSlabNeverRecycles
<1> QED
  BY <1>1, FreeListIntact, KeysAreFresh, StaleKeysStayStale

(* With one slab, wherever the walk is in it, the slab is in place.        *)
PlaceInv == pc \in {"words", "bits", "callback"} => InPlace

(* A removal in the one slab keeps it in place.                            *)
LEMMA PlaceThroughErase ==
    ASSUME SingleSlab, InPlace, NEW k, EraseCall(k), Follow
    PROVE  at' = at /\ slabs' = slabs
BY SingleStays DEF Follow, InPlace

(* No step of a walk, and no call between walks, moves the slab.           *)
LEMMA PlaceStep ==
    ASSUME SingleSlab, PlaceInv, [WalkNext]_allVars
    PROVE  PlaceInv'
<1>1. CASE MapCall \/ BeginWalk \/ Leave
  BY <1>1 DEF MapCall, walkVars, BeginWalk, Leave, PlaceInv
<1>2. CASE NextSlab \/ LoadWord \/ EndSlab \/ EndWord \/ CallBack
             \/ UNCHANGED allVars
  BY <1>2 DEF NextSlab, LoadWord, EndSlab, EndWord, CallBack, allVars, walkVars,
              vars, PlaceInv, InPlace
<1>3. CASE CallbackReturns
  <2>1. InPlace
    BY <1>3 DEF CallbackReturns, PlaceInv
  <2>2. at' = at /\ slabs' = slabs
    BY <1>3, <2>1, PlaceThroughErase DEF CallbackReturns, vars
  <2> QED
    BY <1>3, <2>1, <2>2 DEF CallbackReturns, PlaceInv, InPlace
<1>4. ASSUME NEW k \in Key, CallbackErases(k) PROVE PlaceInv'
  <2>1. InPlace /\ slabIdx' = slabIdx
    BY <1>4 DEF CallbackErases, PlaceInv
  <2>2. at' = at /\ slabs' = slabs
    BY <1>4, <2>1, PlaceThroughErase DEF CallbackErases
  <2> QED
    BY <2>1, <2>2 DEF PlaceInv, InPlace
<1> QED
  BY <1>1, <1>2, <1>3, <1>4 DEF WalkNext, WalkStep, EndWalk, CallbackThrows

(* With one slab, whatever callbacks erase, the bitmap is only read from a *)
(* slab that exists.                                                       *)
THEOREM OneSlabIsNeverGone ==
    ASSUME SingleSlab
    PROVE  WalkSpec => []ReadsExistingSlab
<1>1. WalkInit => PlaceInv
  BY DEF WalkInit, PlaceInv
<1>2. PlaceInv /\ [WalkNext]_allVars => PlaceInv'
  BY PlaceStep
<1>3. TypeInv /\ PlaceInv => ReadsExistingSlab
  <2>1. MaxSlots \div SlotsPerSlab \in Int
    BY SizeAssumption, DivMod
  <2> QED
    BY <2>1 DEF TypeInv, TypeOK, SlabIndex, Gone, NSlabs, PlaceInv, InPlace,
                ReadsExistingSlab
<1> QED
  BY <1>1, <1>2, <1>3, WalkTypesInvariant, PTL DEF WalkSpec
=============================================================================
