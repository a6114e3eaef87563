----------------------------- MODULE SlabProofs -----------------------------
(***************************************************************************)
(* Proofs about Slab and SlabClone, for any number of slots, any widths of *)
(* version and integer, any byte, and with or without an embedded alive    *)
(* bit: bitmap, version bytes, dead_count_ and the values in the slots     *)
(* tell one story, whoever reads which; the slab keeps its promise; and a  *)
(* clone is its source's equal, or has left nothing behind.                *)
(***************************************************************************)
EXTENDS SlabClone, FiniteSetTheorems, TLAPS

-----------------------------------------------------------------------------
(* The inductive invariant.                                                *)

(* The version bytes of a slot alive in its life v.                        *)
AliveBytes(v) == IF HasAliveBit THEN v + AliveBit ELSE v

(* The bitmap, the object, the bytes and the life of slot i agree.  A slot *)
(* past its last life keeps the last version.                              *)
SlotAgrees(i) ==
    IF IsAlive(bitmap, i)
    THEN /\ objects[i] = 1 /\ life[i] <= MaxVersion /\ storage[i] \in Values
         /\ version_bytes[i] = AliveBytes(life[i])
    ELSE /\ objects[i] = 0
         /\ version_bytes[i] = IF life[i] <= MaxVersion THEN life[i] ELSE MaxVersion

Bitmaps == [ByteIdx -> [BitIdx -> {0, 1}]]
NoSpare(bm) ==
    \A b \in ByteIdx, j \in BitIdx : bm[b][j] = 1 => ByteBits * b + j \in SlotIdx

Spent == {i \in SlotIdx : life[i] = MaxVersion + 1}

SlabTyped ==
    /\ version_bytes \in [SlotIdx -> Nat]
    /\ storage \in [SlotIdx -> Values \union Link]
    /\ bitmap \in Bitmaps
    /\ dead_count \in Nat
    /\ objects \in [SlotIdx -> Int]
    /\ life \in [SlotIdx -> 0 .. MaxVersion + 1]
    /\ gone \in BOOLEAN

(* No bit of the last byte beyond the last slot is ever set, or a slab all *)
(* of whose slots are dead would not look it.                              *)
SlabInv ==
    /\ SlabTyped /\ NoSpare(bitmap)
    /\ IF gone THEN \A i \in SlotIdx : objects[i] = 0
       ELSE /\ \A i \in SlotIdx : SlotAgrees(i)
            /\ dead_count = Cardinality(Spent)

-----------------------------------------------------------------------------
(* Bits and bytes.                                                         *)

(* What the assumptions say of the constants.                              *)
LEMMA ConstantFacts ==
    /\ SlotsPerSlab \in Nat \ {0} /\ ByteBits \in Nat \ {0}
    /\ AliveBit \in Nat \ {0} /\ MaxVersion \in Nat \ {0}
    /\ MaxVersion < 2 * AliveBit /\ (HasAliveBit => MaxVersion < AliveBit)
    /\ Values \intersect Link = {}
BY SlabAssumption DEF HasAliveBit, Link

(* Quotient and remainder.                                                 *)
LEMMA DivMod ==
    ASSUME NEW p \in Nat \ {0}, NEW i \in Nat
    PROVE  /\ i \div p \in Nat /\ i % p \in 0 .. p - 1
           /\ i = p * (i \div p) + (i % p)
OBVIOUS

(* A product of whole parts is below what it is a part of.                 *)
LEMMA DivAtLeast ==
    ASSUME NEW p \in Nat \ {0}, NEW n \in Nat, NEW x \in Nat, p * n <= x
    PROVE  n <= x \div p
<1>1. PICK q \in Nat, r \in 0 .. p - 1 : q = x \div p /\ x = p * q + r
  BY DivMod
<1>2. CASE n <= q
  BY <1>1, <1>2
<1>3. CASE q + 1 <= n
  <2>1. p * (q + 1) <= p * n
    BY <1>3
  <2>2. p * (q + 1) = p * q + p
    OBVIOUS
  <2> QED
    BY <1>1, <2>1, <2>2
<1> QED
  BY <1>1, <1>2, <1>3

(* Every slot has a bit of its own.                                        *)
LEMMA BitPlace ==
    ASSUME NEW i \in SlotIdx
    PROVE  /\ i \div ByteBits \in ByteIdx /\ i % ByteBits \in BitIdx
           /\ i = ByteBits * (i \div ByteBits) + (i % ByteBits)
<1>1. PICK B \in Nat \ {0}, S \in Nat \ {0} : B = ByteBits /\ S = SlotsPerSlab
  BY ConstantFacts
<1>2. i \in Nat /\ i + 1 <= S
  BY <1>1 DEF SlotIdx
<1>3. PICK q \in Nat, r \in 0 .. B - 1 :
          q = i \div B /\ r = i % B /\ i = B * q + r
  BY <1>2, DivMod
<1>4. B * (q + 1) <= S + B - 1
  <2>1. B * (q + 1) = B * q + B
    OBVIOUS
  <2> QED
    BY <1>2, <1>3, <2>1
<1>5. q + 1 <= (S + B - 1) \div B
  <2>1. S + B - 1 \in Nat /\ q + 1 \in Nat
    OBVIOUS
  <2> QED
    BY ONLY <1>1, <1>4, <2>1, DivAtLeast
<1>6. NumBytes = (S + B - 1) \div B /\ NumBytes \in Nat
  <2>1. S + B - 1 \in Nat
    OBVIOUS
  <2> QED
    BY <1>1, <2>1, DivMod DEF NumBytes
<1> QED
  BY <1>1, <1>3, <1>5, <1>6 DEF ByteIdx, BitIdx

(* Writing one slot's bit reads back, and disturbs no other slot.          *)
LEMMA SetAliveIs ==
    ASSUME NEW bm \in Bitmaps, NoSpare(bm), NEW i \in SlotIdx, NEW alive \in BOOLEAN
    PROVE  /\ SetAlive(bm, i, alive) \in Bitmaps /\ NoSpare(SetAlive(bm, i, alive))
           /\ \A x \in SlotIdx : IsAlive(SetAlive(bm, i, alive), x) <=>
                  IF x = i THEN alive ELSE IsAlive(bm, x)
<1>1. PICK b \in ByteIdx, j \in BitIdx, bit \in {0, 1} :
          /\ b = i \div ByteBits /\ j = i % ByteBits /\ i = ByteBits * b + j
          /\ bit = IF alive THEN 1 ELSE 0
  BY BitPlace
<1>2. PICK new : new = SetAlive(bm, i, alive)
  OBVIOUS
<1>3. new = [bm EXCEPT ![b] = [bm[b] EXCEPT ![j] = bit]]
  BY <1>1, <1>2 DEF SetAlive, Bitmaps
<1>4. new \in Bitmaps
  BY <1>1, <1>3 DEF Bitmaps
<1>5. \A c \in ByteIdx, k \in BitIdx :
          new[c][k] = IF c = b /\ k = j THEN bit ELSE bm[c][k]
  BY <1>1, <1>3 DEF Bitmaps
<1>6. NoSpare(new)
  BY <1>1, <1>5 DEF NoSpare
<1>7. ASSUME NEW x \in SlotIdx
      PROVE  IsAlive(new, x) <=> IF x = i THEN alive ELSE IsAlive(bm, x)
  <2>1. PICK c \in ByteIdx, k \in BitIdx :
            c = x \div ByteBits /\ k = x % ByteBits /\ x = ByteBits * c + k
    BY BitPlace
  <2>2. x = i <=> c = b /\ k = j
    BY <1>1, <2>1
  <2> QED
    BY <1>1, <1>5, <2>1, <2>2 DEF IsAlive, Bit
<1> QED
  BY <1>2, <1>4, <1>6, <1>7

(* An empty bitmap.                                                        *)
LEMMA NoBitsAre ==
    /\ NoBits \in Bitmaps /\ NoSpare(NoBits)
    /\ \A i \in SlotIdx : ~IsAlive(NoBits, i)
BY BitPlace DEF NoBits, Bitmaps, NoSpare, IsAlive, Bit

(* When every slot is dead, every byte is zero.                            *)
LEMMA NoneAlive ==
    ASSUME NEW bm \in Bitmaps, NoSpare(bm), \A i \in SlotIdx : ~IsAlive(bm, i)
    PROVE  AreAllDead(bm)
<1>1. ASSUME NEW b \in ByteIdx, NEW j \in BitIdx, bm[b][j] # 0 PROVE FALSE
  <2>1. bm[b][j] = 1
    BY <1>1 DEF Bitmaps
  <2>2. PICK i \in SlotIdx : i = ByteBits * b + j
    BY <2>1 DEF NoSpare
  <2>3. PICK B \in Nat \ {0} : B = ByteBits
    BY ConstantFacts
  <2>4. b \in Nat /\ j \in 0 .. B - 1
    BY <2>3, ConstantFacts DEF ByteIdx, BitIdx
  <2>5. \A q, r \in Int : r \in 0 .. B - 1 =>
            (B * q + r) \div B = q /\ (B * q + r) % B = r
    OBVIOUS
  <2>6. i \div ByteBits = b /\ i % ByteBits = j
    BY <2>2, <2>3, <2>4, <2>5
  <2> QED
    BY <2>1, <2>2, <2>6 DEF IsAlive, Bit
<1> QED
  BY <1>1 DEF AreAllDead

(* What Slot's operations make of the version bytes: the alive bit and the *)
(* version never touch.                                                    *)
LEMMA BytesAre ==
    ASSUME NEW v \in 0 .. MaxVersion
    PROVE  /\ v \in Nat /\ AliveBytes(v) \in Nat
           /\ Version(v) = v /\ Version(AliveBytes(v)) = v
           /\ SetFree(v) = v /\ SetFree(AliveBytes(v)) = v
           /\ SetAliveBit(v) = AliveBytes(v)
           /\ IsFree(v) /\ IsAliveSlot(AliveBytes(v))
           /\ \A u \in 0 .. MaxVersion : WithVersion(u, v) = v
           /\ Destroyed(AliveBytes(v)) = IF v = MaxVersion THEN v ELSE v + 1
<1>1. PICK A \in Nat \ {0}, M \in Nat \ {0} :
          A = AliveBit /\ M = MaxVersion
  BY ConstantFacts
<1>2. ASSUME HasAliveBit, NEW u \in 0 .. M
      PROVE  /\ u % A = u /\ (u + A) % A = u /\ ~(u >= A) /\ u + A >= A
  <2>1. u \in Nat /\ u < A
    <3>1. M < A
      BY <1>1, <1>2 DEF HasAliveBit
    <3> QED
      BY <1>2, <3>1
  <2>2. u % A = u /\ (u + A) % A = u
    BY <2>1
  <2> QED
    BY <2>1, <2>2
<1>3. v \in Nat /\ v \in 0 .. M /\ AliveBytes(v) \in Nat
  BY <1>1 DEF AliveBytes
<1>4. \A u \in 0 .. M : SetFree(u) = u /\ Version(u) = u /\ IsFree(u)
                        /\ WithVersion(u, v) = v
  BY <1>1, <1>2 DEF SetFree, Version, IsFree, WithVersion, AliveIn
<1>5. /\ SetFree(AliveBytes(v)) = v /\ Version(AliveBytes(v)) = v
      /\ SetAliveBit(v) = AliveBytes(v) /\ IsAliveSlot(AliveBytes(v))
  BY <1>1, <1>2, <1>3 DEF SetFree, Version, SetAliveBit, IsAliveSlot, AliveBytes, AliveIn
<1>6. Destroyed(AliveBytes(v)) = IF v = MaxVersion THEN v ELSE v + 1
  <2>1. CASE v = MaxVersion
    BY <1>5, <2>1 DEF Destroyed
  <2>2. CASE v # MaxVersion
    <3>1. WithVersion(v, v + 1) = v + 1
      BY <1>1, <1>2, <1>3 DEF WithVersion, AliveIn
    <3> QED
      BY <1>5, <2>2, <3>1 DEF Destroyed
  <2> QED
    BY <2>1, <2>2
<1> QED
  BY <1>1, <1>3, <1>4, <1>5, <1>6

-----------------------------------------------------------------------------
(* What an invariant slab's slots look like.                               *)

(* Of an alive slot.                                                       *)
LEMMA AliveSlot ==
    ASSUME SlabInv, ~gone, NEW i \in SlotIdx, IsAlive(bitmap, i)
    PROVE  /\ life[i] \in 0 .. MaxVersion /\ objects[i] = 1
           /\ storage[i] \in Values /\ storage[i] # 0
           /\ version_bytes[i] = AliveBytes(life[i])
<1>1. 0 \in Link
  BY ConstantFacts DEF Link
<1> QED
  BY <1>1, ConstantFacts DEF SlabInv, SlabTyped, SlotAgrees

(* Of one the map may emplace in.                                          *)
LEMMA ReusableSlot ==
    ASSUME SlabInv, ~gone, NEW i \in SlotIdx, Reusable(i)
    PROVE  /\ ~IsAlive(bitmap, i) /\ life[i] \in 0 .. MaxVersion
           /\ objects[i] = 0 /\ version_bytes[i] = life[i]
BY ConstantFacts DEF SlabInv, SlabTyped, SlotAgrees, Reusable

(* A slab starts with the invariant: no slot alive, none dead.             *)
LEMMA SlabInit == Init => SlabInv
<1> SUFFICES ASSUME Init PROVE SlabInv
  OBVIOUS
<1>1. version_bytes = life /\ gone = FALSE /\ bitmap = NoBits /\ dead_count = 0
      /\ \A i \in SlotIdx : objects[i] = 0 /\ life[i] \in {0, 1}
  BY DEF Init
<1>2. SlabTyped
  <2>1. \A i \in SlotIdx : i + 1 \in Link
    BY ConstantFacts DEF SlotIdx, Link
  <2>2. 0 \in 0 .. MaxVersion + 1 /\ 1 \in 0 .. MaxVersion + 1
    BY ConstantFacts
  <2>3. life \in [SlotIdx -> {0, 1}] /\ storage = [i \in SlotIdx |-> i + 1]
        /\ objects = [i \in SlotIdx |-> 0]
    BY DEF Init
  <2>4. life \in [SlotIdx -> 0 .. MaxVersion + 1] /\ version_bytes \in [SlotIdx -> Nat]
    BY <1>1, <2>2, <2>3
  <2>5. storage \in [SlotIdx -> Values \union Link]
    BY <2>1, <2>3
  <2>6. objects \in [SlotIdx -> Int]
    BY ONLY <2>3
  <2>7. bitmap \in Bitmaps
    BY <1>1, NoBitsAre
  <2>8. gone \in BOOLEAN /\ dead_count \in Nat
    BY ONLY <1>1
  <2> QED
    BY <2>4, <2>5, <2>6, <2>7, <2>8 DEF SlabTyped
<1>3. Spent = {}
  BY <1>1, ConstantFacts DEF Spent
<1>4. ASSUME NEW i \in SlotIdx PROVE SlotAgrees(i)
  BY <1>1, NoBitsAre, ConstantFacts DEF SlotAgrees
<1> QED
  BY <1>1, <1>2, <1>3, <1>4, NoBitsAre, FS_EmptySet DEF SlabInv

(* emplace keeps the invariant.                                            *)
LEMMA EmplaceKeeps ==
    ASSUME SlabInv, NEW i \in SlotIdx, NEW v \in Values, Emplace(i, v)
    PROVE  SlabInv'
<1>1. /\ ~gone /\ Reusable(i) /\ gone' = gone /\ dead_count' = dead_count
      /\ life' = life /\ bitmap' = SetAlive(bitmap, i, TRUE)
      /\ storage' = [storage EXCEPT ![i] = v]
      /\ version_bytes' = [version_bytes EXCEPT ![i] = SetAliveBit(version_bytes[i])]
      /\ objects' = [objects EXCEPT ![i] = objects[i] + 1]
  BY DEF Emplace
<1>2. /\ ~IsAlive(bitmap, i) /\ life[i] \in 0 .. MaxVersion
      /\ objects[i] = 0 /\ version_bytes[i] = life[i]
  BY <1>1, ReusableSlot
<1>3. SlabTyped /\ NoSpare(bitmap) /\ bitmap \in Bitmaps
  BY DEF SlabInv, SlabTyped
<1>4. /\ bitmap' \in Bitmaps /\ NoSpare(bitmap')
      /\ \A x \in SlotIdx : IsAlive(bitmap', x) <=> (x = i \/ IsAlive(bitmap, x))
  BY <1>1, <1>3, SetAliveIs
<1>5. SetAliveBit(life[i]) = AliveBytes(life[i]) /\ AliveBytes(life[i]) \in Nat
  BY <1>2, BytesAre
<1>6. SlabTyped'
  <2>1. version_bytes' \in [SlotIdx -> Nat]
    BY <1>1, <1>2, <1>3, <1>5 DEF SlabTyped
  <2>2. objects' \in [SlotIdx -> Int] /\ storage' \in [SlotIdx -> Values \union Link]
    BY <1>1, <1>3 DEF SlabTyped
  <2> QED
    BY <1>1, <1>3, <1>4, <2>1, <2>2 DEF SlabTyped
<1>7. ASSUME NEW x \in SlotIdx PROVE SlotAgrees(x)'
  <2>1. CASE x = i
    <3>1. /\ storage'[x] = v /\ objects'[x] = 1 /\ life'[x] = life[i]
          /\ version_bytes'[x] = AliveBytes(life[i])
      BY <1>1, <1>2, <1>3, <1>5, <2>1 DEF SlabTyped
    <3>2. IsAlive(bitmap', x) /\ life[i] <= MaxVersion
      BY <1>2, <1>4, <2>1, ConstantFacts
    <3>3. AliveBytes(life[i])' = AliveBytes(life'[i])
      BY DEF AliveBytes
    <3> QED
      BY <2>1, <3>1, <3>2, <3>3 DEF SlotAgrees
  <2>2. CASE x # i
    <3>1. SlotAgrees(x)
      BY <1>1 DEF SlabInv
    <3>2. /\ storage'[x] = storage[x] /\ version_bytes'[x] = version_bytes[x]
          /\ objects'[x] = objects[x] /\ life'[x] = life[x]
      BY <1>1, <1>3, <2>2 DEF SlabTyped
    <3> QED
      BY <1>4, <2>2, <3>1, <3>2 DEF SlotAgrees
  <2> QED
    BY <2>1, <2>2
<1>8. Spent' = Spent
  BY <1>1 DEF Spent
<1> QED
  BY <1>1, <1>4, <1>6, <1>7, <1>8 DEF SlabInv

(* A constructor that throws leaves bytes in a slot that stays free.       *)
LEMMA EmplaceThrowsKeeps ==
    ASSUME SlabInv, NEW i \in SlotIdx, NEW v \in Values, EmplaceThrows(i, v)
    PROVE  SlabInv'
<1>1. /\ ~gone /\ Reusable(i) /\ storage' = [storage EXCEPT ![i] = v]
      /\ UNCHANGED <<version_bytes, bitmap, dead_count, objects, life, told, gone>>
  BY DEF EmplaceThrows
<1>2. ~IsAlive(bitmap, i) /\ SlabTyped
  BY <1>1 DEF Reusable, SlabInv
<1>3. SlabTyped'
  BY <1>1, <1>2 DEF SlabTyped
<1>4. ASSUME NEW x \in SlotIdx PROVE SlotAgrees(x)'
  <2>1. SlotAgrees(x) /\ (x # i => storage'[x] = storage[x])
    BY <1>1, <1>2 DEF SlabInv, SlabTyped
  <2> QED
    BY <1>1, <1>2, <2>1 DEF SlotAgrees
<1> QED
  BY <1>1, <1>3, <1>4 DEF SlabInv, Spent

(* destroy keeps the invariant, the slot reused or retired.                *)
LEMMA DestroyKeeps ==
    ASSUME SlabInv, NEW i \in SlotIdx, NEW next \in Link, Destroy(i, next)
    PROVE  SlabInv'
<1>1. /\ ~gone /\ IsAlive(bitmap, i) /\ gone' = gone
      /\ life' = [life EXCEPT ![i] = life[i] + 1]
      /\ bitmap' = SetAlive(bitmap, i, FALSE)
      /\ version_bytes' = [version_bytes EXCEPT ![i] = Destroyed(version_bytes[i])]
      /\ objects' = [objects EXCEPT ![i] = objects[i] - 1]
  BY DEF Destroy
<1>2. /\ life[i] \in 0 .. MaxVersion /\ objects[i] = 1
      /\ version_bytes[i] = AliveBytes(life[i])
  BY <1>1, AliveSlot
<1>3. SlabTyped /\ NoSpare(bitmap) /\ bitmap \in Bitmaps /\ dead_count = Cardinality(Spent)
  BY <1>1 DEF SlabInv, SlabTyped
<1>4. /\ bitmap' \in Bitmaps /\ NoSpare(bitmap')
      /\ \A x \in SlotIdx : IsAlive(bitmap', x) <=> (x # i /\ IsAlive(bitmap, x))
  BY <1>1, <1>3, SetAliveIs
<1>5. /\ Version(version_bytes[i]) = life[i]
      /\ Destroyed(version_bytes[i]) = IF life[i] = MaxVersion THEN life[i] ELSE life[i] + 1
  BY <1>2, BytesAre
<1>6. life[i] \in Nat /\ life[i] + 1 \in 0 .. MaxVersion + 1 /\ MaxVersion \in Nat
  BY <1>2, ConstantFacts
<1>7. /\ life[i] = MaxVersion => dead_count' = dead_count + 1 /\ storage' = storage
      /\ life[i] # MaxVersion =>
             dead_count' = dead_count /\ storage' = [storage EXCEPT ![i] = next]
  BY <1>5 DEF Destroy
<1>8. SlabTyped'
  <2>1. Destroyed(version_bytes[i]) \in Nat
    BY <1>5, <1>6
  <2>2. version_bytes' \in [SlotIdx -> Nat]
    BY <1>1, <1>3, <2>1 DEF SlabTyped
  <2>3. objects' \in [SlotIdx -> Int] /\ life' \in [SlotIdx -> 0 .. MaxVersion + 1]
    BY <1>1, <1>3, <1>6 DEF SlabTyped
  <2>4. storage' \in [SlotIdx -> Values \union Link] /\ dead_count' \in Nat
    <3>1. CASE life[i] = MaxVersion
      BY <1>3, <1>7, <3>1 DEF SlabTyped
    <3>2. CASE life[i] # MaxVersion
      BY <1>3, <1>7, <3>2 DEF SlabTyped
    <3> QED
      BY <3>1, <3>2
  <2> QED
    BY <1>1, <1>3, <1>4, <2>2, <2>3, <2>4 DEF SlabTyped
<1>9. ASSUME NEW x \in SlotIdx PROVE SlotAgrees(x)'
  <2>1. CASE x = i
    <3>1. /\ objects'[x] = 0 /\ life'[x] = life[i] + 1
          /\ version_bytes'[x] = IF life[i] = MaxVersion THEN life[i] ELSE life[i] + 1
      BY <1>1, <1>2, <1>3, <1>5, <2>1 DEF SlabTyped
    <3>2. ~IsAlive(bitmap', x)
      BY <1>4, <2>1
    <3>3. version_bytes'[x] = IF life'[x] <= MaxVersion THEN life'[x] ELSE MaxVersion
      <4>1. PICK l \in Nat, M \in Nat : l = life[i] /\ M = MaxVersion /\ l <= M
        BY <1>2, ConstantFacts
      <4> QED
        BY <3>1, <4>1
    <3> QED
      BY <3>1, <3>2, <3>3 DEF SlotAgrees
  <2>2. CASE x # i
    <3>1. SlotAgrees(x)
      BY <1>1 DEF SlabInv
    <3>2. /\ storage'[x] = storage[x] /\ version_bytes'[x] = version_bytes[x]
          /\ objects'[x] = objects[x] /\ life'[x] = life[x]
      BY <1>1, <1>3, <1>7, <2>2 DEF SlabTyped
    <3> QED
      BY <1>4, <2>2, <3>1, <3>2 DEF SlotAgrees
  <2> QED
    BY <2>1, <2>2
<1>10. dead_count' = Cardinality(Spent')
  <2>1. \A x \in SlotIdx : life'[x] = IF x = i THEN life[i] + 1 ELSE life[x]
    BY <1>1, <1>3 DEF SlabTyped
  <2>2. CASE life[i] = MaxVersion
    <3>1. Spent' = Spent \union {i} /\ i \notin Spent
      BY <1>6, <2>1, <2>2 DEF Spent
    <3>2. IsFiniteSet(Spent)
      <4>1. IsFiniteSet(0 .. SlotsPerSlab - 1)
        BY ConstantFacts, FS_Interval
      <4> QED
        BY <4>1, FS_Subset DEF Spent, SlotIdx
    <3> QED
      BY <1>3, <1>7, <2>2, <3>1, <3>2, FS_AddElement
  <2>3. CASE life[i] # MaxVersion
    <3>1. Spent' = Spent
      BY <1>6, <2>1, <2>3 DEF Spent
    <3> QED
      BY <1>3, <1>7, <2>3, <3>1
  <2> QED
    BY <2>2, <2>3
<1> QED
  BY <1>1, <1>4, <1>8, <1>9, <1>10 DEF SlabInv

(* dead_count_ reaches the slab's size only when every slot's lives are    *)
(* spent.                                                                  *)
LEMMA AllSpent ==
    ASSUME SlabInv, ~gone, CanBeRecycled
    PROVE  \A i \in SlotIdx : life[i] = MaxVersion + 1 /\ ~IsAlive(bitmap, i)
<1>1. PICK S \in Nat \ {0} : S = SlotsPerSlab
  BY ConstantFacts
<1>2. IsFiniteSet(0 .. S - 1) /\ Cardinality(0 .. S - 1) = S
  <2>1. 0 \in Int /\ S - 1 \in Int /\ 0 <= S - 1 /\ (S - 1) - 0 + 1 = S
    OBVIOUS
  <2> QED
    BY <2>1, FS_Interval
<1>3. Spent \subseteq 0 .. S - 1 /\ Cardinality(Spent) = S
  BY <1>1 DEF Spent, SlotIdx, SlabInv, CanBeRecycled
<1>4. Spent = 0 .. S - 1
  BY <1>2, <1>3, FS_Subset
<1>5. \A i \in SlotIdx : life[i] = MaxVersion + 1
  BY <1>1, <1>4 DEF Spent, SlotIdx
<1> QED
  BY <1>5, ConstantFacts DEF SlabInv, SlotAgrees

(* recycle keeps the invariant.                                            *)
LEMMA RecycleKeeps ==
    ASSUME SlabInv, NEW last_next \in Link, Recycle(last_next)
    PROVE  SlabInv'
<1>1. /\ ~gone /\ CanBeRecycled /\ dead_count' = 0 /\ bitmap' = NoBits
      /\ version_bytes' = [i \in SlotIdx |-> WithVersion(version_bytes[i], 0)]
      /\ life' = [i \in SlotIdx |-> 0] /\ objects' = objects /\ gone' = gone
      /\ storage' = [i \in SlotIdx |->
             IF i < SlotsPerSlab - 1 THEN i + 1 ELSE last_next]
  BY DEF Recycle
<1>2. ASSUME NEW i \in SlotIdx
      PROVE  objects[i] = 0 /\ WithVersion(version_bytes[i], 0) = 0
  <2>1. life[i] = MaxVersion + 1 /\ ~IsAlive(bitmap, i) /\ MaxVersion \in 0 .. MaxVersion
        /\ 0 \in 0 .. MaxVersion /\ ~(MaxVersion + 1 <= MaxVersion)
    BY <1>1, AllSpent, ConstantFacts
  <2>2. objects[i] = 0 /\ version_bytes[i] = MaxVersion
    BY <1>1, <2>1 DEF SlabInv, SlotAgrees
  <2> QED
    BY <2>1, <2>2, BytesAre
<1>3. SlabTyped'
  <2>1. \A i \in SlotIdx : i + 1 \in Link
    BY ConstantFacts DEF SlotIdx, Link
  <2>2. 0 \in 0 .. MaxVersion + 1
    BY ConstantFacts
  <2> QED
    BY <1>1, <1>2, <2>1, <2>2, NoBitsAre DEF SlabInv, SlabTyped
<1>4. ASSUME NEW i \in SlotIdx PROVE SlotAgrees(i)'
  BY <1>1, <1>2, NoBitsAre, ConstantFacts DEF SlotAgrees
<1>5. Spent' = {}
  BY <1>1, ConstantFacts DEF Spent
<1> QED
  BY <1>1, <1>3, <1>4, <1>5, NoBitsAre, FS_EmptySet DEF SlabInv

(* finalize keeps the invariant.                                           *)
LEMMA FinalizeKeeps ==
    ASSUME SlabInv, Finalize
    PROVE  SlabInv'
<1>1. /\ ~gone /\ gone' = TRUE
      /\ objects' = [i \in SlotIdx |-> objects[i] - Bit(bitmap, i)]
      /\ version_bytes' = [i \in SlotIdx |->
             IF IsAlive(bitmap, i) THEN SetFree(version_bytes[i]) ELSE version_bytes[i]]
      /\ UNCHANGED <<storage, bitmap, dead_count, life>>
  BY DEF Finalize
<1>2. ASSUME NEW i \in SlotIdx
      PROVE  objects[i] - Bit(bitmap, i) = 0
             /\ (IsAlive(bitmap, i) => SetFree(version_bytes[i]) \in Nat)
  <2>1. CASE IsAlive(bitmap, i)
    BY <1>1, <2>1, AliveSlot, BytesAre DEF IsAlive
  <2>2. CASE ~IsAlive(bitmap, i)
    <3>1. Bit(bitmap, i) \in {0, 1}
      BY BitPlace DEF SlabInv, SlabTyped, Bitmaps, Bit
    <3>2. Bit(bitmap, i) = 0 /\ objects[i] = 0
      BY <1>1, <2>2, <3>1 DEF IsAlive, SlabInv, SlotAgrees
    <3> QED
      BY <2>2, <3>2
  <2> QED
    BY <2>1, <2>2
<1>3. SlabTyped'
  BY <1>1, <1>2 DEF SlabInv, SlabTyped
<1> QED
  BY <1>1, <1>2, <1>3 DEF SlabInv

(* Every step keeps the invariant.                                         *)
LEMMA SlabStep == SlabInv /\ [Next]_vars => SlabInv'
<1> SUFFICES ASSUME SlabInv, [Next]_vars PROVE SlabInv'
  OBVIOUS
<1>1. CASE UNCHANGED vars
  BY <1>1 DEF vars, SlabInv, SlabTyped, SlotAgrees, Spent
<1> QED
  BY <1>1, EmplaceKeeps, EmplaceThrowsKeeps, DestroyKeeps, RecycleKeeps,
     FinalizeKeeps DEF Next

(* It holds in every state.                                                *)
LEMMA SlabHolds == Spec => []SlabInv
BY SlabInit, SlabStep, PTL DEF Spec

-----------------------------------------------------------------------------
(* What follows for the slab's readers.                                    *)

(* A lookup's test, and who passes it.                                     *)
LEMMA LookupMeans == SlabInv => LookupFindsTheLife
<1> SUFFICES ASSUME SlabInv, ~gone, NEW i \in SlotIdx, NEW v \in 0 .. MaxVersion
             PROVE  IsValid(v, i) <=> objects[i] = 1 /\ life[i] = v
  BY DEF LookupFindsTheLife
<1>1. PICK A \in Nat \ {0}, M \in Nat \ {0} : A = AliveBit /\ M = MaxVersion
  BY ConstantFacts
<1>2. v \in Nat /\ v <= M
  BY <1>1
<1>3. CASE IsAlive(bitmap, i)
  <2>1. /\ life[i] \in 0 .. MaxVersion /\ objects[i] = 1
        /\ version_bytes[i] = AliveBytes(life[i])
    BY <1>3, AliveSlot
  <2>2. Version(version_bytes[i]) = life[i]
    BY <2>1, BytesAre
  <2>3. PICK l \in Nat : l = life[i]
    BY <1>1, <2>1
  <2>4. CASE HasAliveBit
    <3>1. IsValid(v, i) <=> l + A = v + A
      BY <1>1, <2>1, <2>3, <2>4 DEF IsValid, MakeAliveVersion, AliveBytes
    <3> QED
      BY <1>2, <2>1, <2>3, <3>1
  <2>5. CASE ~HasAliveBit
    BY <1>3, <2>1, <2>2, <2>5 DEF IsValid
  <2> QED
    BY <2>4, <2>5
<1>4. CASE ~IsAlive(bitmap, i)
  <2>1. objects[i] = 0 /\ version_bytes[i] \in 0 .. M
    <3>1. life[i] \in 0 .. M + 1 /\ SlotAgrees(i)
      BY <1>1 DEF SlabInv, SlabTyped
    <3> QED
      BY <1>1, <1>4, <3>1 DEF SlotAgrees
  <2>2. ~IsValid(v, i)
    <3>1. CASE HasAliveBit
      <4>1. M < A
        BY <1>1, <3>1 DEF HasAliveBit
      <4>2. version_bytes[i] # v + A
        BY <1>2, <2>1, <4>1
      <4> QED
        BY <1>1, <3>1, <4>2 DEF IsValid, MakeAliveVersion
    <3>2. CASE ~HasAliveBit
      BY <1>4, <3>2 DEF IsValid
    <3> QED
      BY <3>1, <3>2
  <2> QED
    BY <2>1, <2>2
<1> QED
  BY <1>3, <1>4

(* Values constructed and the bitmap.                                      *)
LEMMA BalanceMeans == SlabInv => ObjectsBalance
BY DEF SlabInv, ObjectsBalance, SlotAgrees

(* What the asserts ask.                                                   *)
LEMMA AssertsMean == SlabInv => AssertsHold
<1> SUFFICES ASSUME SlabInv, ~gone
             PROVE  /\ \A i \in SlotIdx : IF IsAlive(bitmap, i)
                           THEN IsAliveSlot(version_bytes[i])
                           ELSE IsFree(version_bytes[i])
                    /\ CanBeRecycled => AreAllDead(bitmap)
  BY DEF AssertsHold
<1>1. ASSUME NEW i \in SlotIdx, IsAlive(bitmap, i) PROVE IsAliveSlot(version_bytes[i])
  BY <1>1, AliveSlot, BytesAre
<1>2. ASSUME NEW i \in SlotIdx, ~IsAlive(bitmap, i) PROVE IsFree(version_bytes[i])
  <2>1. version_bytes[i] \in 0 .. MaxVersion
    <3>1. life[i] \in 0 .. MaxVersion + 1 /\ SlotAgrees(i) /\ MaxVersion \in Nat
      BY ConstantFacts DEF SlabInv, SlabTyped
    <3> QED
      BY <1>2, <3>1 DEF SlotAgrees
  <2> QED
    BY <2>1, BytesAre
<1>3. ASSUME CanBeRecycled PROVE AreAllDead(bitmap)
  BY <1>3, AllSpent, NoneAlive DEF SlabInv, SlabTyped
<1> QED
  BY <1>1, <1>2, <1>3

(* Whatever is emplaced, destroyed and recycled, and whichever constructor *)
(* throws, one comparison of integers finds a slot exactly when it lives   *)
(* the life the key names.                                                 *)
THEOREM LookupsFindLives == Spec => []LookupFindsTheLife
BY SlabHolds, LookupMeans, PTL

(* Every value constructed in a slab is destroyed, and destroyed once.     *)
THEOREM ValuesBalance == Spec => []ObjectsBalance
BY SlabHolds, BalanceMeans, PTL

(* Bitmap, embedded bits and dead_count_ never contradict each other, so   *)
(* that no assert() of Slot or Slab fires.                                 *)
THEOREM NoAssertFires == Spec => []AssertsHold
BY SlabHolds, AssertsMean, PTL

-----------------------------------------------------------------------------
(* The slab implements its promise.                                        *)

(* The element each slot holds, as AbstractSlab sees it.                   *)
Content == [i \in SlotIdx |-> IF IsAlive(bitmap, i) THEN storage[i] ELSE 0]

(* A slab's abstract content is nothing exactly where its bitmap says so.  *)
LEMMA ContentIs ==
    ASSUME SlabInv, NEW i \in SlotIdx, ~gone
    PROVE  Content[i] = 0 <=> ~IsAlive(bitmap, i)
BY AliveSlot DEF Content

(* Every step of the slab is a step of the abstract one, or none.          *)
LEMMA PromiseStep == SlabInv /\ [Next]_vars => [Abstract!Next]_(Abstract!vars)
<1> SUFFICES ASSUME SlabInv, [Next]_vars
             PROVE  \/ Abstract!Next
                    \/ Content' = Content /\ life' = life /\ told' = told
  BY DEF Abstract!vars, Content
<1>0. SlabTyped /\ NoSpare(bitmap) /\ bitmap \in Bitmaps
  BY DEF SlabInv, SlabTyped
<1>1. ASSUME NEW i \in SlotIdx, NEW v \in Values, Emplace(i, v)
      PROVE  Abstract!Emplace(i, v)
  <2>1. /\ ~gone /\ Reusable(i) /\ life' = life
        /\ bitmap' = SetAlive(bitmap, i, TRUE) /\ storage' = [storage EXCEPT ![i] = v]
        /\ told' = <<"version", Version(version_bytes[i])>>
    BY <1>1 DEF Emplace
  <2>2. /\ ~IsAlive(bitmap, i) /\ life[i] \in 0 .. MaxVersion
        /\ version_bytes[i] = life[i]
    BY <2>1, ReusableSlot
  <2>3. Version(version_bytes[i]) = life[i] /\ life[i] <= MaxVersion
    BY <2>2, BytesAre, ConstantFacts
  <2>4. \A x \in SlotIdx : IsAlive(bitmap', x) <=> (x = i \/ IsAlive(bitmap, x))
    BY <1>0, <2>1, SetAliveIs
  <2>5. Content' = [Content EXCEPT ![i] = v]
    BY <1>0, <2>1, <2>4 DEF Content, SlabTyped
  <2>6. Content[i] = 0
    BY <2>2 DEF Content
  <2> QED
    BY <2>1, <2>3, <2>5, <2>6 DEF Abstract!Emplace, Content
<1>2. ASSUME NEW i \in SlotIdx, NEW v \in Values, EmplaceThrows(i, v)
      PROVE  Content' = Content /\ life' = life /\ told' = told
  <2>1. /\ ~IsAlive(bitmap, i) /\ storage' = [storage EXCEPT ![i] = v]
        /\ bitmap' = bitmap /\ life' = life /\ told' = told
    BY <1>2 DEF EmplaceThrows, Reusable
  <2> QED
    BY <1>0, <2>1 DEF Content, SlabTyped
<1>3. ASSUME NEW i \in SlotIdx, NEW next \in Link, Destroy(i, next)
      PROVE  Abstract!Destroy(i)
  <2>1. /\ ~gone /\ IsAlive(bitmap, i) /\ bitmap' = SetAlive(bitmap, i, FALSE)
        /\ life' = [life EXCEPT ![i] = @ + 1]
        /\ told' = <<"reusable", Version(version_bytes[i]) # MaxVersion>>
        /\ storage' = storage \/ storage' = [storage EXCEPT ![i] = next]
    BY <1>3 DEF Destroy
  <2>2. life[i] \in 0 .. MaxVersion /\ Version(version_bytes[i]) = life[i]
    BY <2>1, AliveSlot, BytesAre
  <2>3. (life[i] # MaxVersion) = (life[i] < MaxVersion)
    BY <2>2, ConstantFacts
  <2>4. \A x \in SlotIdx : IsAlive(bitmap', x) <=> (x # i /\ IsAlive(bitmap, x))
    BY <1>0, <2>1, SetAliveIs
  <2>5. Content' = [Content EXCEPT ![i] = 0]
    BY <1>0, <2>1, <2>4 DEF Content, SlabTyped
  <2>6. Content[i] # 0
    BY <2>1, ContentIs
  <2> QED
    BY <2>1, <2>2, <2>3, <2>5, <2>6 DEF Abstract!Destroy, Content
<1>4. ASSUME NEW next \in Link, Recycle(next) PROVE Abstract!Renew
  <2>1. /\ ~gone /\ CanBeRecycled /\ bitmap' = NoBits /\ told' = told
        /\ life' = [i \in SlotIdx |-> 0]
    BY <1>4 DEF Recycle
  <2>2. \A i \in SlotIdx : life[i] = MaxVersion + 1 /\ ~IsAlive(bitmap, i)
    BY <2>1, AllSpent
  <2>3. Content' = Content
    BY <2>1, <2>2, NoBitsAre DEF Content
  <2> QED
    BY <2>1, <2>2, <2>3 DEF Abstract!Renew, Content
<1>5. CASE Finalize
  BY <1>5 DEF Finalize, Content
<1>6. CASE UNCHANGED vars
  BY <1>6 DEF vars, Content
<1> QED
  BY <1>1, <1>2, <1>3, <1>4, <1>5, <1>6 DEF Next, Abstract!Next

(* The bits implement the promise: versions number lives, one after the    *)
(* other, in slots that hold one element at most, and destroy says exactly *)
(* whether a life is left.                                                 *)
THEOREM BitsKeepPromise == Spec => SlabKeepsPromise
<1>1. Init => Abstract!Init
  <2> SUFFICES ASSUME Init PROVE Abstract!Init
    OBVIOUS
  <2>1. Content = [i \in SlotIdx |-> 0]
    BY NoBitsAre DEF Init, Content
  <2>2. life \in [SlotIdx -> {0, 1}] /\ told = <<>>
    BY DEF Init
  <2> QED
    BY <2>1, <2>2 DEF Abstract!Init, Content
<1> QED
  BY <1>1, SlabHolds, PromiseStep, PTL DEF Spec, SlabKeepsPromise, Abstract!Spec

-----------------------------------------------------------------------------
(* Cloning.                                                                *)

CopyRecord ==
    [version_bytes : [SlotIdx -> Nat], storage : [SlotIdx -> Values \union Link],
     bitmap : Bitmaps, dead_count : Nat, objects : [SlotIdx -> Int]]

(* Slot i of the copy is what the slab's is.                               *)
SlotCopied(i) ==
    /\ copy.version_bytes[i] = version_bytes[i]
    /\ copy.storage[i] = storage[i] /\ copy.objects[i] = objects[i]

CloneInv ==
    /\ SlabInv
    /\ pc \in {"idle", "copying", "unwinding", "finalizing", "done", "thrown"}
    /\ next_slot \in 0 .. SlotsPerSlab /\ copy \in CopyRecord
    /\ pc # "idle" => ~gone /\ copy.dead_count = dead_count
    /\ pc \in {"copying", "unwinding", "finalizing"} =>
           copy.bitmap \in [ByteIdx -> [BitIdx -> FreshBits]]
    /\ pc \in {"copying", "unwinding", "done"} =>
           /\ \A i \in SlotIdx : i < next_slot => SlotCopied(i)
           /\ \A i \in SlotIdx : i >= next_slot => copy.objects[i] = 0
    /\ pc = "done" => next_slot = SlotsPerSlab /\ copy.bitmap = bitmap
    /\ pc = "finalizing" => \A i \in SlotIdx : copy.objects[i] = 0

(* The memory a clone starts in has the slab's dead count, the bytes it    *)
(* was given for a bitmap, and no object.                                  *)
LEMMA RawIs ==
    ASSUME NEW bm \in Bitmaps, SlabInv
    PROVE  /\ Raw(bm) \in CopyRecord /\ Raw(bm).bitmap = bm
           /\ Raw(bm).dead_count = dead_count
           /\ \A i \in SlotIdx : Raw(bm).objects[i] = 0
<1>1. 0 \in Link /\ dead_count \in Nat
  BY ConstantFacts DEF Link, SlabInv, SlabTyped
<1> QED
  BY <1>1 DEF Raw, CopyRecord

(* The clone's invariant holds before a clone is begun.                    *)
LEMMA CloneStarts == CloneInit => CloneInv
<1> SUFFICES ASSUME CloneInit PROVE CloneInv
  OBVIOUS
<1>1. SlabInv /\ pc = "idle" /\ next_slot = 0 /\ copy = Raw(NoBits)
  BY SlabInit DEF CloneInit
<1>2. copy \in CopyRecord /\ 0 \in 0 .. SlotsPerSlab
  BY <1>1, RawIs, NoBitsAre, ConstantFacts
<1> QED
  BY <1>1, <1>2 DEF CloneInv

(* clone's allocation keeps the clone's invariant.                         *)
LEMMA BeginKeeps == CloneInv /\ Begin => CloneInv'
<1> SUFFICES ASSUME CloneInv, Begin PROVE CloneInv'
  OBVIOUS
<1>1. PICK bm \in [ByteIdx -> [BitIdx -> FreshBits]] : copy' = Raw(bm)
  BY DEF Begin
<1>2. bm \in Bitmaps
  BY FreshAssumption DEF Bitmaps
<1>3. /\ pc' = "copying" /\ next_slot' = 0 /\ ~gone /\ UNCHANGED vars /\ SlabInv
  BY DEF Begin, CloneInv
<1>4. SlabInv' /\ ~gone' /\ dead_count' = dead_count
  BY <1>3, SlabStep DEF vars
<1>5. /\ copy' \in CopyRecord /\ copy'.bitmap = bm /\ copy'.dead_count = dead_count
      /\ \A i \in SlotIdx : copy'.objects[i] = 0
  BY <1>1, <1>2, <1>3, RawIs
<1>6. 0 \in 0 .. SlotsPerSlab /\ \A i \in SlotIdx : ~(i < 0)
  BY ConstantFacts DEF SlotIdx
<1> QED
  BY <1>3, <1>4, <1>5, <1>6 DEF CloneInv

(* Version, free or alive, is carried over whole.                          *)
LEMMA CopiedBytesAre ==
    ASSUME SlabInv, ~gone, NEW i \in SlotIdx
    PROVE  /\ CopiedBytes(i) = version_bytes[i]
           /\ objects[i] = IF IsAlive(bitmap, i) THEN 1 ELSE 0
<1>0. 0 \in 0 .. MaxVersion /\ MaxVersion \in 0 .. MaxVersion
  BY ConstantFacts
<1>1. CASE IsAlive(bitmap, i)
  <2>1. /\ life[i] \in 0 .. MaxVersion /\ objects[i] = 1
        /\ version_bytes[i] = AliveBytes(life[i])
    BY <1>1, AliveSlot
  <2>2. WithVersion(0, Version(version_bytes[i])) = life[i]
    BY <1>0, <2>1, BytesAre
  <2> QED
    BY <1>1, <2>1, <2>2, BytesAre DEF CopiedBytes
<1>2. CASE ~IsAlive(bitmap, i)
  <2>1. objects[i] = 0 /\ version_bytes[i] \in 0 .. MaxVersion
    <3>1. life[i] \in 0 .. MaxVersion + 1 /\ SlotAgrees(i) /\ MaxVersion \in Nat
      BY ConstantFacts DEF SlabInv, SlabTyped
    <3> QED
      BY <1>2, <3>1 DEF SlotAgrees
  <2>2. WithVersion(0, Version(version_bytes[i])) = version_bytes[i]
    BY <1>0, <2>1, BytesAre
  <2> QED
    BY <1>2, <2>1, <2>2 DEF CopiedBytes
<1> QED
  BY <1>1, <1>2

(* Each slot copied keeps it, and so does a constructor that throws.       *)
LEMMA CopySlotKeeps == CloneInv /\ CopySlot => CloneInv'
<1> SUFFICES ASSUME CloneInv, CopySlot PROVE CloneInv'
  OBVIOUS
<1>1. PICK n \in Nat : n = next_slot /\ n < SlotsPerSlab /\ n \in SlotIdx
  BY ConstantFacts DEF CloneInv, CopySlot, SlotIdx
<1>2. /\ pc = "copying" /\ next_slot' = n + 1 /\ UNCHANGED <<vars, pc>>
      /\ ~gone /\ SlabInv /\ copy \in CopyRecord
  BY <1>1 DEF CopySlot, CloneInv
<1>3. PICK b \in Nat, o \in Int, c \in Values \union Link :
          /\ b = CopiedBytes(n) /\ c = storage[n]
          /\ o = IF IsAlive(bitmap, n) THEN 1 ELSE 0
          /\ b = version_bytes[n] /\ o = objects[n]
  BY <1>1, <1>2, CopiedBytesAre DEF SlabInv, SlabTyped
<1>4. copy' = [copy EXCEPT !.version_bytes[n] = b, !.storage[n] = c, !.objects[n] = o]
  BY <1>1, <1>3 DEF CopySlot
<1>5. /\ copy' \in CopyRecord /\ copy'.bitmap = copy.bitmap
      /\ copy'.dead_count = copy.dead_count
      /\ copy'.version_bytes = [copy.version_bytes EXCEPT ![n] = b]
      /\ copy'.storage = [copy.storage EXCEPT ![n] = c]
      /\ copy'.objects = [copy.objects EXCEPT ![n] = o]
  BY <1>1, <1>2, <1>4 DEF CopyRecord
<1>6. SlabInv' /\ ~gone' /\ dead_count' = dead_count /\ storage' = storage
      /\ version_bytes' = version_bytes /\ objects' = objects
  BY <1>2, SlabStep DEF vars
<1>7. ASSUME NEW i \in SlotIdx
      PROVE  /\ i < n + 1 => SlotCopied(i)'
             /\ i >= n + 1 => copy'.objects[i] = 0
  <2>1. CASE i = n
    BY <1>1, <1>2, <1>3, <1>5, <1>6, <2>1 DEF SlotCopied, CopyRecord
  <2>2. CASE i # n
    <3>1. /\ copy'.objects[i] = copy.objects[i] /\ copy'.storage[i] = copy.storage[i]
          /\ copy'.version_bytes[i] = copy.version_bytes[i]
      BY <1>2, <1>5, <2>2 DEF CopyRecord
    <3>2. i \in Nat
      BY DEF SlotIdx
    <3>3. i < n => SlotCopied(i)
      BY <1>1, <1>2 DEF CloneInv
    <3>4. i >= n => copy.objects[i] = 0
      BY <1>1, <1>2 DEF CloneInv
    <3>5. SlotCopied(i) => SlotCopied(i)'
      BY <1>6, <3>1 DEF SlotCopied
    <3> QED
      BY <2>2, <3>1, <3>2, <3>3, <3>4, <3>5
  <2> QED
    BY <2>1, <2>2
<1>8. n + 1 \in 0 .. SlotsPerSlab
  BY <1>1, ConstantFacts
<1>9. /\ \A i \in SlotIdx : i < next_slot' => SlotCopied(i)'
      /\ \A i \in SlotIdx : i >= next_slot' => copy'.objects[i] = 0
  BY <1>2, <1>7
<1>10. /\ copy'.bitmap \in [ByteIdx -> [BitIdx -> FreshBits]]
       /\ copy'.dead_count = dead_count' /\ pc' = "copying"
  BY <1>2, <1>5, <1>6 DEF CloneInv
<1> QED
  BY <1>2, <1>5, <1>6, <1>8, <1>9, <1>10 DEF CloneInv

(* A value's copy constructor throws, or the last slot is copied.          *)
LEMMA EndsOfCopying ==
    ASSUME CloneInv, CopyThrows \/ CopyBitmap
    PROVE  CloneInv'
<1>1. pc = "copying" /\ UNCHANGED <<vars, next_slot>> /\ SlabInv /\ ~gone
  BY DEF CopyThrows, CopyBitmap, CloneInv
<1>2. SlabInv' /\ ~gone' /\ UNCHANGED <<dead_count, storage, version_bytes, objects, bitmap>>
  BY <1>1, SlabStep DEF vars
<1>3. CASE CopyThrows
  <2>1. pc' = "unwinding" /\ copy' = copy
    BY <1>3 DEF CopyThrows
  <2> QED
    BY <1>1, <1>2, <2>1 DEF CloneInv, SlotCopied
<1>4. CASE CopyBitmap
  <2>1. pc' = "done" /\ copy' = [copy EXCEPT !.bitmap = bitmap] /\ next_slot = SlotsPerSlab
    BY <1>4 DEF CopyBitmap
  <2>2. bitmap \in Bitmaps /\ copy \in CopyRecord
    BY <1>1 DEF CloneInv, SlabInv, SlabTyped
  <2>3. /\ copy' \in CopyRecord /\ copy'.bitmap = bitmap
        /\ copy'.dead_count = copy.dead_count /\ copy'.objects = copy.objects
        /\ copy'.version_bytes = copy.version_bytes /\ copy'.storage = copy.storage
    BY <2>1, <2>2 DEF CopyRecord
  <2> QED
    BY <1>1, <1>2, <2>1, <2>3 DEF CloneInv, SlotCopied
<1> QED
  BY <1>3, <1>4

(* The catch block destroys what was copied and no more.                   *)
LEMMA DestroyCopiedKeeps == CloneInv /\ DestroyCopied => CloneInv'
<1> SUFFICES ASSUME CloneInv, DestroyCopied PROVE CloneInv'
  OBVIOUS
<1>1. /\ pc = "unwinding" /\ pc' = "finalizing" /\ UNCHANGED <<vars, next_slot>>
      /\ SlabInv /\ ~gone /\ copy \in CopyRecord
  BY DEF DestroyCopied, CloneInv
<1>2. SlabInv' /\ ~gone' /\ dead_count' = dead_count
  BY <1>1, SlabStep DEF vars
<1>3. PICK o, b :
          /\ o = [i \in SlotIdx |->
                     IF i \in Constructed /\ IsAlive(bitmap, i)
                     THEN copy.objects[i] - 1 ELSE copy.objects[i]]
          /\ b = [i \in SlotIdx |->
                     IF i \in Constructed /\ IsAlive(bitmap, i)
                     THEN SetFree(copy.version_bytes[i]) ELSE copy.version_bytes[i]]
          /\ copy' = [copy EXCEPT !.objects = o, !.version_bytes = b]
  BY DEF DestroyCopied
<1>4. ASSUME NEW i \in SlotIdx PROVE o[i] = 0 /\ b[i] \in Nat
  <2>1. i \in Nat /\ next_slot \in Nat /\ copy.version_bytes[i] \in Nat
    BY <1>1, ConstantFacts DEF CloneInv, SlotIdx, CopyRecord
  <2>2. CASE i < next_slot
    <3>1. SlotCopied(i) /\ i \in Constructed
      BY <1>1, <2>2 DEF CloneInv, Constructed
    <3>2. CASE IsAlive(bitmap, i)
      <4>1. /\ life[i] \in 0 .. MaxVersion /\ objects[i] = 1
            /\ version_bytes[i] = AliveBytes(life[i])
        BY <1>1, <3>2, AliveSlot
      <4>2. SetFree(copy.version_bytes[i]) \in Nat /\ copy.objects[i] = 1
        BY <3>1, <4>1, BytesAre DEF SlotCopied
      <4> QED
        BY <1>3, <3>1, <3>2, <4>2
    <3>3. CASE ~IsAlive(bitmap, i)
      BY <1>1, <1>3, <2>1, <3>1, <3>3, CopiedBytesAre DEF SlotCopied
    <3> QED
      BY <3>2, <3>3
  <2>3. CASE i >= next_slot
    <3>1. copy.objects[i] = 0 /\ i \notin Constructed
      BY <1>1, <2>1, <2>3 DEF CloneInv, Constructed
    <3> QED
      BY <1>3, <2>1, <3>1
  <2> QED
    BY <2>1, <2>2, <2>3
<1>5. o \in [SlotIdx -> Int] /\ b \in [SlotIdx -> Nat]
  BY <1>3, <1>4
<1>6. /\ copy' \in CopyRecord /\ copy'.bitmap = copy.bitmap
      /\ copy'.dead_count = copy.dead_count /\ copy'.objects = o
  BY <1>1, <1>3, <1>5 DEF CopyRecord
<1> QED
  BY <1>1, <1>2, <1>4, <1>6 DEF CloneInv

(* ~Slab of the copy, which believes the copy's bitmap.                    *)
LEMMA FinalizeCopyKeeps == CloneInv /\ FinalizeCopy => CloneInv'
<1> SUFFICES ASSUME CloneInv, FinalizeCopy PROVE CloneInv'
  OBVIOUS
<1>1. /\ pc = "finalizing" /\ pc' = "thrown" /\ UNCHANGED <<vars, next_slot>>
      /\ SlabInv /\ ~gone /\ copy \in CopyRecord
  BY DEF FinalizeCopy, CloneInv
<1>2. SlabInv' /\ ~gone' /\ dead_count' = dead_count
  BY <1>1, SlabStep DEF vars
<1>3. PICK o : /\ o = [i \in SlotIdx |-> copy.objects[i] - Bit(copy.bitmap, i)]
               /\ copy' = [copy EXCEPT !.objects = o]
  BY DEF FinalizeCopy
<1>4. ASSUME NEW i \in SlotIdx PROVE o[i] \in Int
  <2>1. copy.objects[i] = 0
    BY <1>1 DEF CloneInv
  <2>2. Bit(copy.bitmap, i) \in FreshBits
    BY <1>1, BitPlace DEF CloneInv, Bit
  <2> QED
    BY <1>3, <2>1, <2>2, FreshAssumption
<1>5. o \in [SlotIdx -> Int]
  BY <1>3, <1>4
<1>6. /\ copy' \in CopyRecord /\ copy'.dead_count = copy.dead_count
      /\ copy'.objects = o
  BY <1>1, <1>3, <1>5 DEF CopyRecord
<1> QED
  BY <1>1, <1>2, <1>4, <1>6 DEF CloneInv

(* Every step keeps it.                                                    *)
LEMMA CloneStep == CloneInv /\ [CloneNext]_cloneVars => CloneInv'
<1> SUFFICES ASSUME CloneInv, [CloneNext]_cloneVars PROVE CloneInv'
  OBVIOUS
<1>1. CASE pc = "idle" /\ Next /\ UNCHANGED <<pc, next_slot, copy>>
  <2>1. SlabInv'
    BY <1>1, SlabStep DEF CloneInv
  <2>2. pc' = "idle" /\ next_slot' = next_slot /\ copy' = copy
        /\ next_slot \in 0 .. SlotsPerSlab /\ copy \in CopyRecord
    BY <1>1 DEF CloneInv
  <2> QED
    BY <2>1, <2>2 DEF CloneInv
<1>2. CASE UNCHANGED cloneVars
  <2>1. UNCHANGED vars /\ SlabInv /\ pc' = pc /\ next_slot' = next_slot /\ copy' = copy
    BY <1>2 DEF cloneVars, CloneInv
  <2>2. SlabInv' /\ UNCHANGED <<gone, dead_count, storage, version_bytes, objects, bitmap>>
    BY <2>1, SlabStep DEF vars
  <2> QED
    BY <2>1, <2>2 DEF CloneInv, SlotCopied
<1> QED
  BY <1>1, <1>2, BeginKeeps, CopySlotKeeps, EndsOfCopying, DestroyCopiedKeeps,
     FinalizeCopyKeeps DEF CloneNext

(* It holds in every state.                                                *)
LEMMA CloneHolds == CloneSpec => []CloneInv
BY CloneStarts, CloneStep, PTL DEF CloneSpec

(* Where the loop has ended, it says the two slabs are equal.              *)
LEMMA CloneMeans ==
    ASSUME CloneInv, pc = "done"
    PROVE  CloneIsEqual
<1>1. /\ SlabInv /\ copy \in CopyRecord /\ ~gone /\ copy.bitmap = bitmap
      /\ copy.dead_count = dead_count
      /\ \A i \in SlotIdx : SlotCopied(i)
  BY ConstantFacts DEF CloneInv, SlotIdx
<1>2. /\ copy.version_bytes = version_bytes /\ copy.storage = storage
      /\ copy.objects = objects
  BY <1>1 DEF CopyRecord, SlabInv, SlabTyped, SlotCopied
<1>3. ASSUME NEW i \in SlotIdx, NEW v \in 0 .. MaxVersion
      PROVE  Copy!IsValid(v, i) <=> IsValid(v, i)
  BY <1>1, <1>2 DEF Copy!IsValid, IsValid, Copy!HasAliveBit, HasAliveBit,
     Copy!MakeAliveVersion, MakeAliveVersion, Copy!Version, Version,
     Copy!IsAlive, IsAlive, Copy!Bit, Bit
<1>4. LookupFindsTheLife /\ ObjectsBalance /\ AssertsHold
  BY <1>1, LookupMeans, BalanceMeans, AssertsMean
<1>5. Copy!SlotIdx = SlotIdx
  BY DEF Copy!SlotIdx, SlotIdx
<1>6. Copy!LookupFindsTheLife
  BY <1>2, <1>3, <1>4, <1>5 DEF Copy!LookupFindsTheLife, LookupFindsTheLife
<1>7. Copy!ObjectsBalance
  BY <1>1, <1>2, <1>4, <1>5 DEF Copy!ObjectsBalance, ObjectsBalance,
     Copy!IsAlive, IsAlive, Copy!Bit, Bit
<1>8. Copy!AssertsHold
  BY <1>1, <1>2, <1>4, <1>5 DEF Copy!AssertsHold, AssertsHold,
     Copy!IsAlive, IsAlive, Copy!Bit, Bit, Copy!IsAliveSlot, IsAliveSlot,
     Copy!IsFree, IsFree, Copy!HasAliveBit, HasAliveBit, Copy!AliveIn, AliveIn,
     Copy!CanBeRecycled, CanBeRecycled, Copy!AreAllDead, AreAllDead,
     Copy!ByteIdx, ByteIdx, Copy!BitIdx, BitIdx, Copy!NumBytes, NumBytes
<1> QED
  BY <1>1, <1>2, <1>3, <1>6, <1>7, <1>8 DEF CloneIsEqual

(* A finished clone serves the same lookups with the same values, whatever *)
(* its memory held before.                                                 *)
THEOREM ClonesAreEqual == CloneSpec => []CloneIsEqual
<1>1. CloneInv => CloneIsEqual
  <2>1. pc # "done" => CloneIsEqual
    BY DEF CloneIsEqual
  <2> QED
    BY <2>1, CloneMeans
<1> QED
  BY <1>1, CloneHolds, PTL

(* Whichever value a clone throws at, and whatever its memory held before, *)
(* the catch block destroys each value it copied, once, and no other.      *)
THEOREM ThrowingCloneDestroysOnce == CloneSpec => []CopiedDestroyedOnce
<1>1. CloneInv => CopiedDestroyedOnce
  BY DEF CloneInv, CopiedDestroyedOnce
<1> QED
  BY <1>1, CloneHolds, PTL

(* Cloning leaves the original alone: all that was proved of a slab holds  *)
(* of one that is cloned.                                                  *)
THEOREM CloningIsConst == CloneSpec => Spec
<1>1. CloneInit => Init
  BY DEF CloneInit
<1>2. [CloneNext]_cloneVars => [Next]_vars
  BY DEF CloneNext, cloneVars, vars, Begin, CopySlot, CopyThrows, CopyBitmap,
         DestroyCopied, FinalizeCopy
<1> QED
  BY <1>1, <1>2, PTL DEF CloneSpec, Spec
=============================================================================
