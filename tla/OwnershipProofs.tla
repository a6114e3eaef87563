-------------------------- MODULE OwnershipProofs --------------------------
(***************************************************************************)
(* Proofs about Ownership, for any number of maps, any index width and any *)
(* mix of slab sizes: no copy, move, swap, reset, destruction or exception *)
(* leaks a slab, frees one twice or leaves one in two maps, the data       *)
(* members that describe the slabs stay with them, and maps behave as      *)
(* independent values.                                                     *)
(***************************************************************************)
EXTENDS Ownership, FiniteSetTheorems, SequenceTheorems, FunctionTheorems,
        WellFoundedInduction, TLAPS

-----------------------------------------------------------------------------
(* The inductive invariant.                                                *)

SlotRecord == [ver : 0 .. MaxVersion, val : Values \union {Free}, next : Nat]

MapRecord ==
    [slabs : Seq(Ids \union {Null}), policy : 1 .. MaxSlots,
     per : 1 .. MaxSlots, head : Nat, size : Int, dead : Int, created : Nat,
     base : Nat]

IsSlab(s) ==
    s \in [per : 1 .. MaxSlots, dead : Nat, slot : [0 .. s.per - 1 -> SlotRecord]]

IsHeap(h) == h = [id \in DOMAIN h |-> h[id]] /\ \A id \in DOMAIN h : IsSlab(h[id])

TypeInv ==
    /\ Live \subseteq Maps \union {Temp} /\ map \in [Live -> MapRecord]
    /\ DOMAIN heap \subseteq Ids /\ IsHeap(heap)

(* The policy's layout is the map's, and each index range handed out has   *)
(* its place in the vector.                                                *)
Fits(r) ==
    /\ r.policy = r.per /\ MaxSlots % r.per = 0
    /\ Len(r.slabs) * r.per = r.base /\ r.base <= MaxSlots

(* Two vectors hold equal slabs, or none, at position n.                   *)
AlikeAt(r, g, q, h, n) ==
    /\ q.slabs[n] = Null <=> r.slabs[n] = Null
    /\ q.slabs[n] # Null => h[q.slabs[n]] = g[r.slabs[n]]

(* Of a copy in progress the members are complete, the slabs so far equal. *)
CopyInv ==
    busy # <<>> =>
        /\ busy = <<Target, busy[2], busy[3]>>
        /\ Target \in Live /\ busy[2] \in Live /\ Target # busy[2]
        /\ busy[3] = "construct" => Target \in Maps
        /\ busy[3] # "construct" =>
               /\ Target = Temp /\ busy[3] \in Live \intersect Maps
               /\ busy[3] # busy[2]
        /\ map[Target] = [map[busy[2]] EXCEPT !.slabs = map[Target].slabs]
        /\ Copied <= Len(Source)
        /\ \A n \in 1 .. Copied :
               AlikeAt(map[busy[2]], heap, map[Target], heap, n)

(* The slabs H are held once each, by the maps of mp.                      *)
Own(mp, H) ==
    /\ \A m \in DOMAIN mp : \A n \in DOMAIN mp[m].slabs :
           mp[m].slabs[n] \in H \union {Null}
    /\ \A a, b \in DOMAIN mp :
       \A x \in DOMAIN mp[a].slabs, y \in DOMAIN mp[b].slabs :
           mp[a].slabs[x] = mp[b].slabs[y] /\ mp[a].slabs[x] # Null
               => a = b /\ x = y
    /\ \A id \in H : \E m \in DOMAIN mp : \E n \in DOMAIN mp[m].slabs :
           mp[m].slabs[n] = id

(* The slots of a map, by index.                                           *)
Reach(r) == {i \in Index : SlabAt(r, i) # Null}
View(r, h) == [i \in Reach(r) |-> h[SlabAt(r, i)].slot[i % r.policy]]
Part(r, n) == {i \in Index : SlabIdx(r, i) = n - 1}

(* L is the free list that starts at head.                                 *)
Listed(V, L, head) ==
    /\ L \subseteq DOMAIN V /\ \A i \in L : V[i].val = Free
    /\ head \in L \union {End}
    /\ \A i \in L : V[i].next \in L \union {End}
    /\ \A i \in L : V[i].next = head => head = End
    /\ \A i, j \in L : V[i].next = V[j].next /\ V[i].next # End => i = j

(* Neither alive nor on the free list.                                     *)
Lost(V, L, P) == {i \in P : V[i].val = Free /\ i \notin L}
Alive(V) == {i \in DOMAIN V : V[i].val # Free}

(* The live slots of V2 are those of V, each as it was.                    *)
SameAlive(V, V2) ==
    Alive(V2) = Alive(V) /\ \A j \in Alive(V) : V2[j] = V[j]

(* They are those of V, each as it was, and one more.                      *)
OneMoreAlive(V, V2) ==
    \E i \in DOMAIN V2 \ Alive(V) :
        /\ Alive(V2) = Alive(V) \union {i}
        /\ \A j \in Alive(V) : V2[j] = V[j]

Sound(r, h, L) ==
    /\ Fits(r)
    /\ \A n \in DOMAIN r.slabs : r.slabs[n] # Null =>
           /\ r.slabs[n] \in DOMAIN h /\ h[r.slabs[n]].per = r.per
           /\ h[r.slabs[n]].dead = Cardinality(Lost(View(r, h), L, Part(r, n)))
    /\ r.size = Cardinality(Alive(View(r, h)))
    /\ Listed(View(r, h), L, r.head)

AllFit == \A m \in Live : Complete(m) => Fits(map[m])

OwnInv == TypeInv /\ CopyInv /\ Own(map, DOMAIN heap) /\ AllFit /\ gone = {}

MapsSound ==
    \A m \in Live : Complete(m) => \E L \in SUBSET Index : Sound(map[m], heap, L)
-----------------------------------------------------------------------------
(* Positions and indices.                                                  *)

(* Quotient and remainder.                                                 *)
LEMMA DivMod ==
    ASSUME NEW p \in Nat \ {0}, NEW i \in Nat
    PROVE  /\ i \div p \in Nat /\ i % p \in 0 .. p - 1
           /\ i = p * (i \div p) + (i % p)
OBVIOUS

(* Quotient and remainder of a number given by them.                       *)
LEMMA DivUnique ==
    ASSUME NEW n \in Nat \ {0}, NEW q \in Int, NEW r \in 0 .. n - 1
    PROVE  (n * q + r) \div n = q /\ (n * q + r) % n = r
OBVIOUS

(* Multiplying by a slab size is a ring operation that keeps the order.    *)
LEMMA Multiples ==
    ASSUME NEW p \in Nat, NEW n \in Nat
    PROVE  /\ (n + 1) * p = n * p + p /\ p * (n + 1) = p * n + p
           /\ n * p = p * n /\ n * p \in Nat
           /\ \A q \in Nat : p # 0 => (p * n < p * q <=> n < q)
           /\ \A q \in Nat : n <= q => p * n <= p * q
<1>1. ASSUME NEW q \in Nat, n <= q PROVE p * n <= p * q
  BY <1>1
<1>2. ASSUME NEW q \in Nat, p # 0, n < q PROVE p * n < p * q
  <2>1. p * (n + 1) <= p * q
    BY <1>2
  <2> QED
    BY <1>2, <2>1
<1>3. ASSUME NEW q \in Nat, p # 0, p * n < p * q PROVE n < q
  BY <1>3
<1> QED
  BY <1>1, <1>2, <1>3

(* What the assumptions say of the sizes and of the marks Null, Free and   *)
(* End.                                                                    *)
LEMMA SizeFacts ==
    /\ MaxSlots \in Nat \ {0} /\ MaxVersion \in Nat \ {0} /\ MaxCreated \in Nat
    /\ End = MaxSlots /\ Null \notin Ids /\ Free \notin Values
    /\ \A i \in Index : i \in Nat /\ i < MaxSlots /\ i # End
BY OwnershipAssumption DEF End, Null, Index

(* The members of a map's record.                                          *)
LEMMA RecordIs ==
    ASSUME NEW q \in MapRecord
    PROVE  /\ q.per \in Nat /\ q.per # 0 /\ q.head \in Nat /\ q.base \in Nat
           /\ q.created \in Nat /\ q.size \in Int
           /\ q.size - 1 \in Int /\ q.size + 1 \in Int
           /\ q.dead + 1 \in Int /\ q.created + 1 \in Nat
BY SizeFacts DEF MapRecord

(* Writing one data member of a map keeps its type.                        *)
LEMMA Members ==
    ASSUME NEW q \in MapRecord
    PROVE  /\ \A x \in Seq(Ids \union {Null}) : [q EXCEPT !.slabs = x] \in MapRecord
           /\ \A x \in Nat : /\ [q EXCEPT !.head = x] \in MapRecord
                             /\ [q EXCEPT !.created = x] \in MapRecord
                             /\ [q EXCEPT !.base = x] \in MapRecord
           /\ \A x \in Int : /\ [q EXCEPT !.size = x] \in MapRecord
                             /\ [q EXCEPT !.dead = x] \in MapRecord
<1>1. \A x \in Seq(Ids \union {Null}) : [q EXCEPT !.slabs = x] \in MapRecord
  BY DEF MapRecord
<1>2. \A x \in Nat : [q EXCEPT !.head = x] \in MapRecord
  BY DEF MapRecord
<1>3. \A x \in Nat : [q EXCEPT !.created = x] \in MapRecord
  BY DEF MapRecord
<1>4. \A x \in Nat : [q EXCEPT !.base = x] \in MapRecord
  BY DEF MapRecord
<1>5. \A x \in Int : [q EXCEPT !.size = x] \in MapRecord
  BY DEF MapRecord
<1>6. \A x \in Int : [q EXCEPT !.dead = x] \in MapRecord
  BY DEF MapRecord
<1> QED
  BY <1>1, <1>2, <1>3, <1>4, <1>5, <1>6

(* Writing one value of a slab leaves the rest of it.                      *)
LEMMA WriteValue ==
    ASSUME NEW s, IsSlab(s), NEW j, NEW v
    PROVE  [s EXCEPT !.slot[j].val = v]
               = [per |-> s.per, dead |-> s.dead,
                  slot |-> [s.slot EXCEPT ![j] = [s.slot[j] EXCEPT !.val = v]]]
<1>1. PICK x : x = [s.slot EXCEPT ![j] = [s.slot[j] EXCEPT !.val = v]]
  OBVIOUS
<1>2. [s EXCEPT !.slot = x] = [per |-> s.per, dead |-> s.dead, slot |-> x]
  BY DEF IsSlab
<1>3. [s EXCEPT !.slot[j].val = v] = [s EXCEPT !.slot = x]
  BY <1>1
<1> QED
  BY <1>1, <1>2, <1>3

(* A vector of slabs, and its elements.                                    *)
LEMMA Positions ==
    ASSUME NEW r \in MapRecord
    PROVE  /\ r.slabs \in Seq(Ids \union {Null}) /\ Len(r.slabs) \in Nat
           /\ DOMAIN r.slabs = 1 .. Len(r.slabs)
           /\ \A n \in DOMAIN r.slabs : r.slabs[n] \in Ids \union {Null}
<1>1. r.slabs \in Seq(Ids \union {Null})
  BY DEF MapRecord
<1> QED
  BY <1>1, LenProperties, ElementOfSeq

(* Which slab position serves an index, and which indices a position.      *)
LEMMA Where ==
    ASSUME NEW r \in MapRecord, r.policy = r.per, NEW i \in Index
    PROVE  /\ SlabIdx(r, i) \in Nat /\ i % r.policy \in 0 .. r.per - 1
           /\ i = r.per * SlabIdx(r, i) + (i % r.policy)
           /\ SlabAt(r, i) # Null =>
                  /\ SlabIdx(r, i) + 1 \in DOMAIN r.slabs
                  /\ SlabAt(r, i) = r.slabs[SlabIdx(r, i) + 1]
           /\ SlabIdx(r, i) + 1 \in DOMAIN r.slabs =>
                  SlabAt(r, i) = r.slabs[SlabIdx(r, i) + 1]
           /\ i \in Part(r, SlabIdx(r, i) + 1)
<1>1. r.per \in Nat \ {0} /\ i \in Nat
  BY SizeFacts DEF MapRecord
<1>2. i \div r.per \in Nat /\ i % r.per \in 0 .. r.per - 1
      /\ i = r.per * (i \div r.per) + (i % r.per)
  BY ONLY <1>1, DivMod
<1>3. Len(r.slabs) \in Nat /\ DOMAIN r.slabs = 1 .. Len(r.slabs)
  BY Positions
<1> QED
  BY <1>2, <1>3 DEF SlabIdx, SlabAt, Part

(* Overwriting the element just appended is appending the other one.       *)
LEMMA LastReplaced ==
    ASSUME NEW S, NEW q \in Seq(S), NEW a \in S, NEW b \in S
    PROVE  [Append(q, a) EXCEPT ![Len(q) + 1] = b] = Append(q, b)
<1>1. PICK n \in Nat : n = Len(q)
  BY LenProperties
<1>0. Append(q, a) \in Seq(S) /\ Append(q, b) \in Seq(S)
  OBVIOUS
<1>2. PICK w \in Seq(S) : w = Append(q, a)
  BY <1>0
<1>3. Len(w) = n + 1 /\ \A x \in 1 .. n : w[x] = q[x]
  BY <1>1, <1>2
<1>4. PICK u \in Seq(S) : u = Append(q, b)
  BY <1>0
<1>5. Len(u) = n + 1 /\ u[n + 1] = b /\ \A x \in 1 .. n : u[x] = q[x]
  BY <1>1, <1>4
<1> DEFINE s == [w EXCEPT ![n + 1] = b]
<1>6. n + 1 \in 1 .. Len(w)
  BY <1>3
<1>7. /\ s \in Seq(S) /\ Len(s) = Len(w)
      /\ \A x \in 1 .. Len(w) : s[x] = IF x = n + 1 THEN b ELSE w[x]
  BY ONLY <1>6, w \in Seq(S), b \in S, ExceptSeq
<1> HIDE DEF s
<1>8. \A x \in 1 .. Len(s) : s[x] = u[x]
  <2>1. \A x \in 1 .. n + 1 : x = n + 1 \/ x \in 1 .. n
    OBVIOUS
  <2> QED
    BY <1>3, <1>5, <1>7, <2>1
<1>9. s = u
  BY <1>3, <1>5, <1>7, <1>8, SeqEqual
<1> QED
  BY <1>1, <1>2, <1>4, <1>9 DEF s

(* While an identifier is unused, Fresh is one that no slab in the heap    *)
(* has.                                                                    *)
LEMMA FreshFacts ==
    ASSUME Ids \ DOMAIN heap # {}
    PROVE  Fresh \in Ids /\ Fresh \notin DOMAIN heap /\ Fresh # Null
<1>1. Fresh \in Ids /\ Fresh \notin DOMAIN heap
  BY DEF Fresh
<1> QED
  BY <1>1, SizeFacts

(* Room is made for exactly one slab, at the end of the vector.            *)
LEMMA GrownIs ==
    ASSUME NEW r \in MapRecord, Fits(r), CanAllocate(r)
    PROVE  /\ Grown(r) = [r EXCEPT !.slabs = Append(r.slabs, Fresh),
                                   !.head = r.base, !.base = r.base + r.per]
           /\ Grown(r) \in MapRecord /\ Fits(Grown(r))
           /\ SlabIdx(r, r.base) = Len(r.slabs)
           /\ r.base + r.per <= MaxSlots
<1>1. /\ r.per \in Nat \ {0} /\ r.policy = r.per /\ r.base \in Nat
      /\ r.base < MaxSlots /\ MaxSlots % r.per = 0 /\ MaxSlots \in Nat \ {0}
  BY SizeFacts DEF MapRecord, Fits, CanAllocate
<1>2. PICK n \in Nat : n = Len(r.slabs) /\ DOMAIN r.slabs = 1 .. n
                       /\ r.base = r.per * n
  BY <1>1, Positions DEF Fits
<1>3. SlabIdx(r, r.base) = n
  <2>1. n \in Int /\ 0 \in 0 .. r.per - 1
    BY <1>1
  <2>2. (r.per * n + 0) \div r.per = n
    BY ONLY <1>1, <2>1, DivUnique
  <2>3. r.per * n + 0 = r.base
    BY <1>1, <1>2
  <2> QED
    BY <1>1, <2>2, <2>3 DEF SlabIdx
<1>4. r.base + r.per <= MaxSlots
  <2>1. PICK q \in Nat : MaxSlots = r.per * q
    <3>1. r.per \in Nat \ {0} /\ MaxSlots \in Nat
      BY <1>1
    <3>2. MaxSlots \div r.per \in Nat
          /\ MaxSlots = r.per * (MaxSlots \div r.per) + (MaxSlots % r.per)
      BY ONLY <3>1, DivMod
    <3>3. MaxSlots = r.per * (MaxSlots \div r.per)
      BY <1>1, <3>1, <3>2
    <3> QED
      BY <3>2, <3>3
  <2>2. r.per \in Nat /\ r.per # 0 /\ r.per * n < r.per * q
    BY <1>1, <1>2, <2>1
  <2>3. n < q
    BY ONLY <2>2, Multiples
  <2>4. r.per * (n + 1) <= r.per * q /\ r.per * (n + 1) = r.per * n + r.per
    <3>1. n + 1 \in Nat /\ n + 1 <= q
      BY <2>3
    <3> QED
      BY ONLY <2>2, <3>1, Multiples
  <2> QED
    BY <1>2, <2>1, <2>4
<1>5. r.slabs \in Seq(Ids \union {Null}) /\ Fresh \in Ids
  BY Positions, FreshFacts DEF CanAllocate
<1>6. Roomy(r) = Append(r.slabs, Null)
  <2>1. Roomy(r) = r.slabs \o [x \in 1 .. 1 |-> Null]
    <3>1. SlabIdx(r, r.base) + 1 - Len(r.slabs) = 1
      <4>1. n + 1 - n = 1
        OBVIOUS
      <4> QED
        BY <1>2, <1>3, <4>1
    <3> QED
      BY <3>1 DEF Roomy
  <2>2. [x \in 1 .. 1 |-> Null] = <<Null>>
    OBVIOUS
  <2> QED
    BY <1>5, <2>1, <2>2
<1>7. [Roomy(r) EXCEPT ![n + 1] = Fresh] = Append(r.slabs, Fresh)
  <2>1. PICK S : S = Ids \union {Null}
    OBVIOUS
  <2>2. PICK q \in Seq(S), a \in S, b \in S : q = r.slabs /\ a = Null /\ b = Fresh
    BY <1>5, <2>1
  <2>3. [Append(q, a) EXCEPT ![Len(q) + 1] = b] = Append(q, b)
    BY ONLY q \in Seq(S), a \in S, b \in S, LastReplaced
  <2> QED
    BY <1>2, <1>6, <2>2, <2>3
<1>8. Grown(r) = [r EXCEPT !.slabs = Append(r.slabs, Fresh),
                           !.head = r.base, !.base = r.base + r.per]
  BY <1>2, <1>3, <1>7 DEF Grown
<1>9. Append(r.slabs, Fresh) \in Seq(Ids \union {Null})
      /\ Len(Append(r.slabs, Fresh)) = n + 1
  BY <1>2, <1>5
<1>10. Grown(r) \in MapRecord
  <2>1. r.base + r.per \in Nat
    BY <1>1
  <2>2. r \in MapRecord
    OBVIOUS
  <2> QED
    BY ONLY <1>1, <1>8, <1>9, <2>1, <2>2 DEF MapRecord
<1>11. (n + 1) * r.per = r.base + r.per
  <2>1. r.per \in Nat /\ r.per # 0
    BY <1>1
  <2>2. (n + 1) * r.per = n * r.per + r.per /\ n * r.per = r.per * n
    BY ONLY <2>1, Multiples
  <2> QED
    BY <1>2, <2>2
<1>12. Fits(Grown(r))
  BY <1>1, <1>4, <1>8, <1>9, <1>11 DEF Fits, MapRecord
<1> QED
  BY <1>2, <1>3, <1>4, <1>8, <1>10, <1>12
-----------------------------------------------------------------------------
(* Who holds the slabs.                                                    *)

(* A map owns the slabs its slots_ names.                                  *)
LEMMA OwnedIs ==
    \A r : Owned(r) = {r.slabs[n] : n \in DOMAIN r.slabs} \ {Null}
BY DEF Owned, Range

(* Complete, or about to be.                                               *)
Whole(m) == Complete(m) \/ Copied = Len(Source)

(* A map without slabs, ready for use.                                     *)
Blank(r) == r.slabs = <<>> /\ r.head = End /\ r.size = 0 /\ Fits(r)

(* Where a call only hands maps around: the maps of D take over those that *)
(* f names, each from another one, the others come to hold nothing, and    *)
(* the slabs of the maps nobody took over are freed.                       *)
Handed(D, f, freed) ==
    /\ D \subseteq Live' /\ Live' \subseteq Maps \union {Temp}
    /\ f \in [D -> Live] /\ \A x, y \in D : f[x] = f[y] => x = y
    /\ map' \in [Live' -> MapRecord]
    /\ \A m \in D : Whole(f[m]) /\ map'[m] = map[f[m]]
    /\ \A m \in Live' \ D :
           map'[m].slabs = <<>> /\ (Complete(m)' => Blank(map'[m]))
    /\ \A id : id \in freed <=>
           \E m \in Live : (\A x \in D : f[x] # m) /\ id \in Owned(map[m])
    /\ heap' = Without(heap, freed) /\ gone' = Dangling(map', freed)

(* Such a call leaves every slab with one owner, and frees what was left.  *)
LEMMA HandedOwns ==
    ASSUME TypeInv, Own(map, DOMAIN heap), NEW D, NEW f, NEW freed,
           Handed(D, f, freed)
    PROVE  /\ TypeInv' /\ Own(map, DOMAIN heap)'
           /\ gone = {} => gone' = {}
           /\ \A id \in DOMAIN heap' : id \in DOMAIN heap /\ heap'[id] = heap[id]
<1>1. DOMAIN heap' = DOMAIN heap \ freed
      /\ \A id \in DOMAIN heap' : id \in DOMAIN heap /\ heap'[id] = heap[id]
  BY DEF Handed, Without
<1>2. IsHeap(heap')
  BY <1>1 DEF Handed, Without, TypeInv, IsHeap
<1>3. TypeInv'
  BY <1>1, <1>2 DEF TypeInv, Handed, IsHeap
<1>4. Null \notin DOMAIN heap
  BY SizeFacts DEF TypeInv
<1>5. \A m \in Live' \ D : DOMAIN map'[m].slabs = {}
  BY DEF Handed
<1>6. \A m \in D : f[m] \in Live /\ map'[m] = map[f[m]]
  BY DEF Handed
<1>7. ASSUME NEW m \in Live', NEW n \in DOMAIN map'[m].slabs, map'[m].slabs[n] # Null
      PROVE  /\ m \in D /\ n \in DOMAIN map[f[m]].slabs
             /\ map'[m].slabs[n] = map[f[m]].slabs[n]
             /\ map'[m].slabs[n] \in DOMAIN heap'
  <2>1. m \in D /\ n \in DOMAIN map[f[m]].slabs
        /\ map'[m].slabs[n] = map[f[m]].slabs[n]
    BY <1>5, <1>6
  <2>2. map[f[m]].slabs[n] \in DOMAIN heap
    BY <1>6, <1>7, <2>1 DEF Own, Live
  <2>3. ASSUME map[f[m]].slabs[n] \in freed PROVE FALSE
    <3>1. PICK x \in Live : (\A y \in D : f[y] # x)
                            /\ map[f[m]].slabs[n] \in Owned(map[x])
      BY <2>3 DEF Handed
    <3>2. PICK y \in DOMAIN map[x].slabs : map[x].slabs[y] = map[f[m]].slabs[n]
      BY <3>1, OwnedIs
    <3>3. x = f[m]
      BY <1>6, <1>7, <2>1, <3>2 DEF Own, Live
    <3> QED
      BY <2>1, <3>1, <3>3
  <2> QED
    BY <1>1, <2>1, <2>2, <2>3
<1>8. Own(map, DOMAIN heap)'
  <2>1. ASSUME NEW m \in Live', NEW n \in DOMAIN map'[m].slabs
        PROVE  map'[m].slabs[n] \in DOMAIN heap' \union {Null}
    BY <1>7
  <2>2. ASSUME NEW a \in Live', NEW b \in Live', NEW x \in DOMAIN map'[a].slabs,
               NEW y \in DOMAIN map'[b].slabs, map'[a].slabs[x] = map'[b].slabs[y],
               map'[a].slabs[x] # Null
        PROVE  a = b /\ x = y
    <3>1. /\ a \in D /\ x \in DOMAIN map[f[a]].slabs
          /\ map'[a].slabs[x] = map[f[a]].slabs[x]
          /\ b \in D /\ y \in DOMAIN map[f[b]].slabs
          /\ map'[b].slabs[y] = map[f[b]].slabs[y]
      BY <1>7, <2>2
    <3>2. PICK c \in Live, d \in Live : c = f[a] /\ d = f[b]
      BY <1>6, <3>1
    <3>3. x \in DOMAIN map[c].slabs /\ y \in DOMAIN map[d].slabs
          /\ map[c].slabs[x] = map[d].slabs[y] /\ map[c].slabs[x] # Null
      BY <2>2, <3>1, <3>2
    <3>4. c = d /\ x = y
      BY <3>3 DEF Own, Live
    <3> QED
      BY <3>1, <3>2, <3>4 DEF Handed
  <2>3. ASSUME NEW id \in DOMAIN heap'
        PROVE  \E m \in Live' : \E n \in DOMAIN map'[m].slabs : map'[m].slabs[n] = id
    <3>1a. PICK m \in Live : \E n \in DOMAIN map[m].slabs : map[m].slabs[n] = id
      BY <1>1 DEF Own, Live
    <3>1. PICK n \in DOMAIN map[m].slabs : map[m].slabs[n] = id
      BY <3>1a
    <3>2. id \in Owned(map[m]) /\ id \notin freed
      BY <1>1, <1>4, <3>1, OwnedIs
    <3>3. PICK x \in D : f[x] = m
      BY <3>2 DEF Handed
    <3> QED
      BY <1>6, <3>1, <3>3 DEF Handed
  <2> QED
    BY <2>1, <2>2, <2>3 DEF Own, Live
<1>9. \A m \in Live' : Owned(map'[m]) \intersect freed = {}
  <2>1. ASSUME NEW m \in Live', NEW id \in Owned(map'[m]) PROVE id \notin freed
    <3>1. PICK n \in DOMAIN map'[m].slabs : map'[m].slabs[n] = id /\ id # Null
      BY OwnedIs
    <3> QED
      BY <1>1, <1>7, <3>1
  <2> QED
    BY <2>1
<1>10. gone = {} => gone' = {}
  BY <1>9 DEF Handed, Dangling, Live
<1> QED
  BY <1>1, <1>3, <1>8, <1>10

(* One map's vector gets one element more, a slab nobody held or a hole.   *)
LEMMA AppendOwns ==
    ASSUME NEW mp, NEW mp2, NEW H, NEW H2, Own(mp, H), Null \notin H,
           NEW t \in DOMAIN mp, NEW id, id \notin H, NEW S, id \in S,
           mp[t].slabs \in Seq(S), DOMAIN mp2 = DOMAIN mp,
           \A m \in DOMAIN mp : m # t => mp2[m].slabs = mp[m].slabs,
           mp2[t].slabs = Append(mp[t].slabs, id),
           H2 = IF id = Null THEN H ELSE H \union {id}
    PROVE  Own(mp2, H2)
<1> DEFINE k == Len(mp[t].slabs)
           s == mp[t].slabs
           q == Append(s, id)
<1>1. k \in Nat /\ DOMAIN s = 1 .. k
  BY LenProperties
<1>2. DOMAIN q = 1 .. k + 1 /\ q[k + 1] = id
      /\ \A n \in 1 .. k : q[n] = s[n]
  <2>1. q \in Seq(S) /\ Len(q) = k + 1 /\ q[k + 1] = id
        /\ \A n \in 1 .. k : q[n] = s[n]
    BY AppendProperties
  <2> QED
    BY <2>1, LenProperties
<1>3. mp2[t].slabs = q
  OBVIOUS
<1> HIDE DEF k, s, q
<1>4. ASSUME NEW n \in DOMAIN q
      PROVE  \/ n = k + 1 /\ q[n] = id
             \/ n \in DOMAIN s /\ q[n] = s[n]
  BY <1>1, <1>2
<1>5. ASSUME NEW n \in DOMAIN s PROVE n \in DOMAIN q /\ q[n] = s[n] /\ n # k + 1
  BY <1>1, <1>2
<1>6. s = mp[t].slabs
  BY DEF s
<1>7. ASSUME NEW m \in DOMAIN mp, NEW n \in DOMAIN mp2[m].slabs
      PROVE  \/ m = t /\ n = k + 1 /\ mp2[m].slabs[n] = id
             \/ n \in DOMAIN mp[m].slabs /\ mp2[m].slabs[n] = mp[m].slabs[n]
                /\ mp2[m].slabs[n] \in H \union {Null}
                /\ (m = t => n # k + 1)
  BY <1>3, <1>4, <1>5, <1>6 DEF Own
<1>8. ASSUME NEW m \in DOMAIN mp, NEW n \in DOMAIN mp2[m].slabs
      PROVE  mp2[m].slabs[n] \in H2 \union {Null}
  BY <1>7
<1>9. ASSUME NEW a \in DOMAIN mp, NEW b \in DOMAIN mp,
             NEW x \in DOMAIN mp2[a].slabs, NEW y \in DOMAIN mp2[b].slabs,
             mp2[a].slabs[x] = mp2[b].slabs[y], mp2[a].slabs[x] # Null
      PROVE  a = b /\ x = y
  <2>1. CASE a = t /\ x = k + 1 /\ mp2[a].slabs[x] = id
    BY <1>7, <1>9, <2>1
  <2>2. CASE b = t /\ y = k + 1 /\ mp2[b].slabs[y] = id
    BY <1>7, <1>9, <2>2
  <2>3. CASE /\ x \in DOMAIN mp[a].slabs /\ mp2[a].slabs[x] = mp[a].slabs[x]
             /\ y \in DOMAIN mp[b].slabs /\ mp2[b].slabs[y] = mp[b].slabs[y]
    <3>1. /\ x \in DOMAIN mp[a].slabs /\ y \in DOMAIN mp[b].slabs
          /\ mp[a].slabs[x] = mp[b].slabs[y] /\ mp[a].slabs[x] # Null
      BY <1>9, <2>3
    <3>2. \A c, d \in DOMAIN mp :
          \A z \in DOMAIN mp[c].slabs, w \in DOMAIN mp[d].slabs :
              mp[c].slabs[z] = mp[d].slabs[w] /\ mp[c].slabs[z] # Null
                  => c = d /\ z = w
      BY DEF Own
    <3> QED
      BY <3>1, <3>2
  <2> QED
    BY <1>7, <2>1, <2>2, <2>3
<1>10. ASSUME NEW z \in H2
       PROVE  \E m \in DOMAIN mp : \E n \in DOMAIN mp2[m].slabs : mp2[m].slabs[n] = z
  <2>1. CASE z \in H
    <3>1a. PICK m \in DOMAIN mp : \E n \in DOMAIN mp[m].slabs : mp[m].slabs[n] = z
      BY <2>1 DEF Own
    <3>1. PICK n \in DOMAIN mp[m].slabs : mp[m].slabs[n] = z
      BY <3>1a
    <3> QED
      BY <1>3, <1>5, <1>6, <3>1
  <2>2. CASE z = id
    <3>1. k + 1 \in DOMAIN q
      BY <1>1, <1>2
    <3> QED
      BY <1>2, <1>3, <2>2, <3>1
  <2> QED
    BY <2>1, <2>2
<1> QED
  BY <1>8, <1>9, <1>10 DEF Own

(* One slab is let go of, and freed.                                       *)
LEMMA DropOwns ==
    ASSUME NEW mp, NEW mp2, NEW H, Own(mp, H), Null \notin H,
           NEW t \in DOMAIN mp, DOMAIN mp2 = DOMAIN mp,
           \A m \in DOMAIN mp : m # t => mp2[m].slabs = mp[m].slabs,
           NEW n \in DOMAIN mp[t].slabs, mp[t].slabs[n] # Null,
           mp2[t].slabs = [mp[t].slabs EXCEPT ![n] = Null]
    PROVE  Own(mp2, H \ {mp[t].slabs[n]})
<1> DEFINE id == mp[t].slabs[n]
<1>1. ASSUME NEW m \in DOMAIN mp
      PROVE  /\ DOMAIN mp2[m].slabs = DOMAIN mp[m].slabs
             /\ \A x \in DOMAIN mp[m].slabs :
                   mp2[m].slabs[x] = IF m = t /\ x = n THEN Null ELSE mp[m].slabs[x]
  OBVIOUS
<1>2. ASSUME NEW m \in DOMAIN mp, NEW x \in DOMAIN mp2[m].slabs
      PROVE  mp2[m].slabs[x] \in (H \ {id}) \union {Null}
  BY <1>1 DEF Own
<1>3. ASSUME NEW a \in DOMAIN mp, NEW b \in DOMAIN mp,
             NEW x \in DOMAIN mp2[a].slabs, NEW y \in DOMAIN mp2[b].slabs,
             mp2[a].slabs[x] = mp2[b].slabs[y], mp2[a].slabs[x] # Null
      PROVE  a = b /\ x = y
  BY <1>1, <1>3 DEF Own
<1>4. ASSUME NEW z \in H \ {id}
      PROVE  \E m \in DOMAIN mp : \E x \in DOMAIN mp2[m].slabs : mp2[m].slabs[x] = z
  <2>1a. PICK m \in DOMAIN mp : \E x \in DOMAIN mp[m].slabs : mp[m].slabs[x] = z
    BY <1>4 DEF Own
  <2>1. PICK x \in DOMAIN mp[m].slabs : mp[m].slabs[x] = z
    BY <2>1a
  <2> QED
    BY <1>1, <1>4, <2>1
<1> QED
  BY <1>2, <1>3, <1>4 DEF Own

(* What Own says as the client sees it.                                    *)
LEMMA OwnMeans ==
    ASSUME TypeInv, Own(map, DOMAIN heap), gone = {},
           \A m \in Live : Len(map[m].slabs) <= MaxSlots
    PROVE  OneOwner
<1>1. ASSUME NEW m \in Live
      PROVE  Len(map[m].slabs) \in Nat /\ DOMAIN map[m].slabs = 1 .. Len(map[m].slabs)
  BY Positions DEF TypeInv
<1>2. UNION {Owned(map[m]) : m \in Live} = DOMAIN heap
  <2>1. ASSUME NEW m \in Live, NEW id \in Owned(map[m]) PROVE id \in DOMAIN heap
    BY OwnedIs DEF Own, Live
  <2>2. ASSUME NEW id \in DOMAIN heap
        PROVE  \E m \in Live : id \in Owned(map[m])
    <3>1a. PICK m \in Live : \E n \in DOMAIN map[m].slabs : map[m].slabs[n] = id
      BY DEF Own, Live
    <3>1. PICK n \in DOMAIN map[m].slabs : map[m].slabs[n] = id
      BY <3>1a
    <3>2. id # Null
      BY SizeFacts DEF TypeInv
    <3> QED
      BY <3>1, <3>2, OwnedIs
  <2> QED
    BY <2>1, <2>2
<1>3. ASSUME NEW id \in DOMAIN heap PROVE Cardinality(Places(id)) = 1
  <2>1a. PICK m \in Live : \E n \in DOMAIN map[m].slabs : map[m].slabs[n] = id
    BY DEF Own, Live
  <2>1. PICK n \in DOMAIN map[m].slabs : map[m].slabs[n] = id
    BY <2>1a
  <2>2. id # Null
    BY SizeFacts DEF TypeInv
  <2>3. <<m, n>> \in Places(id)
    BY <1>1, <2>1, SizeFacts DEF Places
  <2>4. ASSUME NEW p \in Places(id) PROVE p = <<m, n>>
    <3>1. p[1] \in Live /\ p[2] \in DOMAIN map[p[1]].slabs
          /\ map[p[1]].slabs[p[2]] = id /\ p = <<p[1], p[2]>>
      BY <1>1 DEF Places
    <3> QED
      BY <2>1, <2>2, <3>1 DEF Own, Live
  <2>5. Places(id) = {<<m, n>>}
    BY <2>3, <2>4
  <2> QED
    BY <2>5, FS_Singleton
<1> QED
  BY <1>2, <1>3 DEF OneOwner
-----------------------------------------------------------------------------
(* The calls that hand maps around.                                        *)

(* A new map and a map moved from are typed and blank.                     *)
LEMMA BlankMaps ==
    /\ \A per \in SlabSizes : Empty(per) \in MapRecord /\ Blank(Empty(per))
    /\ \A r \in MapRecord :
           /\ MovedFrom(r) \in MapRecord /\ MovedFrom(r).slabs = <<>>
           /\ Fits(r) => Blank(MovedFrom(r))
<1>1. \A S : <<>> \in Seq(S) /\ Len(<<>>) = 0
  OBVIOUS
<1>2. ASSUME NEW per \in SlabSizes
      PROVE  Empty(per) \in MapRecord /\ Blank(Empty(per))
  <2>1. per \in 1 .. MaxSlots /\ MaxSlots % per = 0
    BY OwnershipAssumption
  <2>2. Empty(per) \in MapRecord
    BY <1>1, <2>1, SizeFacts DEF Empty, MapRecord
  <2>3. 0 * per = 0
    BY <2>1
  <2> QED
    BY <1>1, <2>1, <2>2, <2>3, SizeFacts DEF Empty, Blank, Fits
<1>3. ASSUME NEW r \in MapRecord
      PROVE  /\ MovedFrom(r) \in MapRecord /\ MovedFrom(r).slabs = <<>>
             /\ Fits(r) => Blank(MovedFrom(r))
  <2>1. /\ MovedFrom(r).slabs = <<>>
        /\ MovedFrom(r).head = End /\ MovedFrom(r).size = 0
        /\ MovedFrom(r).base = 0 /\ MovedFrom(r).per = r.per
        /\ MovedFrom(r).policy = r.policy
    BY DEF MovedFrom, MapRecord
  <2>3. MovedFrom(r) \in MapRecord
    <3>1. <<>> \in Seq(Ids \union {Null}) /\ 0 \in Nat /\ 0 \in Int /\ End \in Nat
      BY SizeFacts
    <3> QED
      BY <3>1, Members DEF MovedFrom
  <2>2. 0 * r.per = 0
    BY DEF MapRecord
  <2> QED
    BY <1>1, <2>1, <2>2, <2>3, SizeFacts DEF Blank, Fits
<1> QED
  BY <1>2, <1>3

(* A complete copy has the layout of its source.                           *)
LEMMA WholeFits ==
    ASSUME OwnInv, NEW m \in Live, Whole(m)
    PROVE  Fits(map[m])
<1>1. CASE Complete(m)
  BY <1>1 DEF OwnInv, AllFit
<1>2. CASE ~Complete(m)
  <2>1. busy # <<>> /\ m = Target /\ Copied = Len(Source)
    BY <1>2 DEF Complete, Whole
  <2>2. /\ busy[2] \in Live /\ Target # busy[2]
        /\ map[m] = [map[busy[2]] EXCEPT !.slabs = map[m].slabs]
    BY <2>1 DEF OwnInv, CopyInv
  <2>3. Fits(map[busy[2]])
    BY <2>2 DEF OwnInv, AllFit, Complete
  <2>4. Len(map[m].slabs) = Len(map[busy[2]].slabs)
    BY <2>1 DEF Copied, Source
  <2>5. map[m] \in MapRecord /\ map[busy[2]] \in MapRecord
    BY <2>2 DEF OwnInv, TypeInv
  <2>6. /\ map[m].policy = map[busy[2]].policy /\ map[m].per = map[busy[2]].per
        /\ map[m].base = map[busy[2]].base
    BY <2>2, <2>5 DEF MapRecord
  <2> QED
    BY <2>3, <2>4, <2>6 DEF Fits
<1> QED
  BY <1>1, <1>2

(* Freeing no slab changes no slab.                                        *)
LEMMA NothingFreed ==
    ASSUME OwnInv
    PROVE  heap = Without(heap, {}) /\ \A maps : gone = Dangling(maps, {})
BY DEF OwnInv, TypeInv, IsHeap, Without, Dangling

(* A new map owns nothing, so nothing moves.                               *)
LEMMA CreateHands ==
    ASSUME OwnInv, NEW m \in Maps, NEW per \in SlabSizes, Create(m, per)
    PROVE  \E D, f, freed : Handed(D, f, freed)
<1> DEFINE f == [x \in Live |-> x]
<1>1. /\ Live' = Live \union {m} /\ map'[m] = Empty(per)
      /\ \A x \in Live : map'[x] = map[x]
      /\ map' = [x \in Live' |-> map'[x]]
  BY DEF Create, With, Live
<1>2. map' \in [Live' -> MapRecord]
  BY <1>1, BlankMaps DEF OwnInv, TypeInv
<1>3. Handed(Live, f, {})
  BY <1>1, <1>2, BlankMaps, NothingFreed
     DEF Handed, Create, Whole, Complete, OwnInv, TypeInv, Blank
<1> QED
  BY <1>3

(* A destructor frees what its map owned.                                  *)
LEMMA DestroyHands ==
    ASSUME OwnInv, NEW m \in Live, Destroy(m)
    PROVE  \E D, f, freed : Handed(D, f, freed)
<1> DEFINE f == [x \in Live \ {m} |-> x]
<1>1. /\ Live' = Live \ {m}
      /\ \A x \in Live \ {m} : map'[x] = map[x]
      /\ map' = [x \in Live' |-> map'[x]]
  BY DEF Destroy, Discard, Without, Live
<1>2. map' \in [Live' -> MapRecord]
  BY <1>1 DEF OwnInv, TypeInv
<1>3. Handed(Live \ {m}, f, Owned(map[m]))
  BY <1>1, <1>2 DEF Handed, Destroy, Discard, Whole, Complete, OwnInv, TypeInv
<1> QED
  BY <1>3

(* reset frees what its map owned and leaves the map alive with none.      *)
LEMMA ResetHands ==
    ASSUME OwnInv, NEW m \in Live, Reset(m)
    PROVE  \E D, f, freed : Handed(D, f, freed)
<1> DEFINE f == [x \in Live \ {m} |-> x]
<1>1. /\ Live' = Live /\ map'[m] = MovedFrom(map[m])
      /\ \A x \in Live \ {m} : map'[x] = map[x]
      /\ map' = [x \in Live' |-> map'[x]]
  BY DEF Reset, Discard, Live
<1>2. map' \in [Live' -> MapRecord]
  BY <1>1, BlankMaps DEF OwnInv, TypeInv
<1>3. Fits(map[m]) /\ map[m] \in MapRecord
  BY DEF OwnInv, AllFit, Complete, Reset, TypeInv
<1>4. Handed(Live \ {m}, f, Owned(map[m]))
  BY <1>1, <1>2, <1>3, BlankMaps
     DEF Handed, Reset, Discard, Whole, Complete, OwnInv, TypeInv
<1> QED
  BY <1>4

(* The members taken are all there are.                                    *)
LEMMA TakesAll == ASSUME OwnInv PROVE \A m \in Live : Taken(map[m]) = map[m]
BY DEF OwnInv, TypeInv, MapRecord, Taken

(* A copy in progress starts with a new, empty owner.                      *)
LEMMA BeginCopyHands ==
    ASSUME OwnInv, NEW t \in Maps \union {Temp}, NEW s \in Live, NEW why,
           BeginCopy(t, s, why)
    PROVE  \E D, f, freed : Handed(D, f, freed)
<1> DEFINE f == [x \in Live |-> x]
<1>1. /\ Live' = Live \union {t} /\ map'[t] = [map[s] EXCEPT !.slabs = <<>>]
      /\ \A x \in Live : map'[x] = map[x]
      /\ map' = [x \in Live' |-> map'[x]]
  BY TakesAll DEF BeginCopy, With, Live
<1>2. map'[t].slabs = <<>> /\ map'[t] \in MapRecord
  <2>1. map[s] \in MapRecord /\ <<>> \in Seq(Ids \union {Null})
    BY DEF OwnInv, TypeInv
  <2> QED
    BY <1>1, <2>1 DEF MapRecord
<1>3. map' \in [Live' -> MapRecord]
  BY <1>1, <1>2 DEF OwnInv, TypeInv
<1>4. ~Complete(t)'
  BY DEF Complete, Target, BeginCopy
<1>5. Handed(Live, f, {})
  BY <1>1, <1>2, <1>3, <1>4, NothingFreed
     DEF Handed, BeginCopy, Whole, Complete, OwnInv, TypeInv
<1> QED
  BY <1>5

(* A copy that throws frees the slabs of the copy in progress.             *)
LEMMA CopyThrowsHands ==
    ASSUME OwnInv, CopyThrows
    PROVE  \E D, f, freed : Handed(D, f, freed)
<1> DEFINE D == Live \ {Target}
           f == [x \in D |-> x]
<1>1. /\ Live' = D /\ Target \in Live
      /\ \A x \in D : map'[x] = map[x]
      /\ map' = [x \in Live' |-> map'[x]]
  BY DEF CopyThrows, Discard, Without, Live, OwnInv, CopyInv
<1>2. map' \in [Live' -> MapRecord]
  BY <1>1 DEF OwnInv, TypeInv
<1>3. Handed(D, f, Owned(map[Target]))
  BY <1>1, <1>2 DEF Handed, CopyThrows, Discard, Whole, Complete, OwnInv, TypeInv
<1> QED
  BY <1>3

(* A finished copy construction changes the phase of its owner only.       *)
LEMMA EndConstructHands ==
    ASSUME OwnInv, EndConstruct
    PROVE  \E D, f, freed : Handed(D, f, freed)
<1> DEFINE f == [x \in Live |-> x]
<1>1. Live' = Live /\ map' = map /\ heap' = heap /\ gone' = gone
  BY DEF EndConstruct, Live
<1>2. Handed(Live, f, {})
  BY <1>1, NothingFreed
     DEF Handed, EndConstruct, Whole, Complete, OwnInv, TypeInv
<1> QED
  BY <1>2

(* Copy and swap gives the temporary's slabs to the target and frees the   *)
(* target's.                                                               *)
LEMMA EndAssignHands ==
    ASSUME OwnInv, EndAssign
    PROVE  \E D, f, freed : Handed(D, f, freed)
<1> DEFINE t == busy[3]
           D == Live \ {Temp}
           f == [x \in D |-> IF x = t THEN Temp ELSE x]
<1>1. Target = Temp /\ Temp \in Live /\ t \in Live /\ t # Temp /\ busy # <<>>
      /\ Copied = Len(Source)
  BY OwnershipAssumption DEF EndAssign, OwnInv, CopyInv
<1>2. /\ Live' = D /\ map'[t] = map[Temp]
      /\ \A x \in D \ {t} : map'[x] = map[x]
      /\ map' = [x \in Live' |-> map'[x]]
  BY <1>1, TakesAll DEF EndAssign, Discard, Without, Swapped, Live
<1>3. map' \in [Live' -> MapRecord]
  BY <1>1, <1>2 DEF OwnInv, TypeInv
<1>4. Handed(D, f, Owned(map[t]))
  <2>1. \A x \in D : Whole(f[x])
    BY <1>1 DEF Whole, Complete
  <2>2. D \subseteq Live' /\ Live' \subseteq Maps \union {Temp} /\ f \in [D -> Live]
        /\ \A x, y \in D : f[x] = f[y] => x = y
    BY <1>1, <1>2 DEF OwnInv, TypeInv
  <2>3. /\ \A x \in D : map'[x] = map[f[x]]
        /\ \A x \in Live : (\A y \in D : f[y] # x) <=> x = t
    BY <1>1, <1>2
  <2>4. heap' = Without(heap, Owned(map[t])) /\ gone' = Dangling(map', Owned(map[t]))
    BY DEF EndAssign, Discard
  <2> QED
    BY <1>1, <1>2, <1>3, <2>1, <2>2, <2>3, <2>4 DEF Handed
<1> QED
  BY <1>4

(* swap exchanges what the two maps own, also when they are one map.       *)
LEMMA SwapHands ==
    ASSUME OwnInv, NEW m \in Live, NEW n \in Live, Swap(m, n)
    PROVE  \E D, f, freed : Handed(D, f, freed)
<1> DEFINE f == [x \in Live |-> IF x = m THEN n ELSE IF x = n THEN m ELSE x]
<1>1. /\ Live' = Live /\ map'[m] = map[n] /\ map'[n] = map[m]
      /\ \A x \in Live \ {m, n} : map'[x] = map[x]
      /\ map' = [x \in Live' |-> map'[x]]
  BY TakesAll DEF Swap, Swapped, Live
<1>2. map' \in [Live' -> MapRecord]
  BY <1>1 DEF OwnInv, TypeInv
<1>3. Handed(Live, f, {})
  <2>1. /\ f \in [Live -> Live] /\ \A x, y \in Live : f[x] = f[y] => x = y
        /\ \A x \in Live : \E y \in Live : f[y] = x
    BY DEF Swap
  <2>2. \A x \in Live : map'[x] = map[f[x]] /\ Whole(f[x])
    BY <1>1 DEF Whole, Complete, Swap
  <2> QED
    BY <1>1, <1>2, <2>1, <2>2, NothingFreed DEF Handed, Swap, OwnInv, TypeInv
<1> QED
  BY <1>3

(* A move construction gives the source's slabs to the target.             *)
LEMMA MoveConstructHands ==
    ASSUME OwnInv, NEW t \in Maps, NEW s \in Live, MoveConstruct(t, s)
    PROVE  \E D, f, freed : Handed(D, f, freed)
<1> DEFINE D == (Live \ {s}) \union {t}
           f == [x \in D |-> IF x = t THEN s ELSE x]
<1>1. /\ Live' = Live \union {t} /\ t \notin Live
      /\ map'[t] = map[s] /\ map'[s] = MovedFrom(map[s])
      /\ \A x \in Live \ {s} : map'[x] = map[x]
      /\ map' = [x \in Live' |-> map'[x]]
  BY TakesAll DEF MoveConstruct, With, Live
<1>2. map' \in [Live' -> MapRecord]
  BY <1>1, BlankMaps DEF OwnInv, TypeInv
<1>3. Fits(map[s]) /\ map[s] \in MapRecord
  BY DEF OwnInv, AllFit, Complete, MoveConstruct, TypeInv
<1>4. Handed(D, f, {})
  <2>1. /\ f \in [D -> Live] /\ \A x, y \in D : f[x] = f[y] => x = y
        /\ \A x \in Live : \E y \in D : f[y] = x
        /\ Live' \ D = {s}
    BY <1>1
  <2>2. \A x \in D : map'[x] = map[f[x]] /\ Whole(f[x])
    BY <1>1 DEF Whole, Complete, MoveConstruct
  <2> QED
    <3>1. D \subseteq Live' /\ Live' \subseteq Maps \union {Temp}
      BY <1>1 DEF OwnInv, TypeInv
    <3>2. map'[s].slabs = <<>> /\ Blank(map'[s])
      BY <1>1, <1>3, BlankMaps DEF Blank
    <3>3. heap' = Without(heap, {}) /\ gone' = Dangling(map', {})
      BY NothingFreed DEF MoveConstruct
    <3> HIDE DEF D, f
    <3> QED
      BY <1>2, <2>1, <2>2, <3>1, <3>2, <3>3 DEF Handed
<1> QED
  BY <1>4

(* A move assignment frees the target's slabs and gives it the source's,   *)
(* also when they are one map.                                             *)
LEMMA MoveAssignHands ==
    ASSUME OwnInv, NEW t \in Live, NEW s \in Live, MoveAssign(t, s)
    PROVE  \E D, f, freed : Handed(D, f, freed)
<1> DEFINE D == Live \ {s}
           f == [x \in D |-> IF x = t THEN s ELSE x]
<1>1. /\ Live' = Live /\ t # s
      /\ map'[t] = map[s] /\ map'[s] = MovedFrom(map[s])
      /\ \A x \in Live \ {s, t} : map'[x] = map[x]
      /\ map' = [x \in Live' |-> map'[x]]
  BY TakesAll DEF MoveAssign, Discard, Live
<1>2. map' \in [Live' -> MapRecord]
  BY <1>1, BlankMaps DEF OwnInv, TypeInv
<1>3. Fits(map[s]) /\ map[s] \in MapRecord
  BY DEF OwnInv, AllFit, Complete, MoveAssign, TypeInv
<1>4. Handed(D, f, Owned(map[t]))
  <2>1. /\ f \in [D -> Live] /\ \A x, y \in D : f[x] = f[y] => x = y
        /\ \A x \in Live : (\A y \in D : f[y] # x) <=> x = t
        /\ Live' \ D = {s}
    BY <1>1
  <2>2. \A x \in D : map'[x] = map[f[x]] /\ Whole(f[x])
    BY <1>1 DEF Whole, Complete, MoveAssign
  <2> QED
    BY <1>1, <1>2, <1>3, <2>1, <2>2, BlankMaps
       DEF Handed, MoveAssign, Discard, OwnInv, TypeInv
<1> QED
  BY <1>4

(* Every map handed over has its layout, and so has every blank one.       *)
LEMMA HandedFits ==
    ASSUME OwnInv, NEW D, NEW f, NEW freed, Handed(D, f, freed)
    PROVE  AllFit'
<1>1. ASSUME NEW m \in Live', Complete(m)' PROVE Fits(map'[m])
  <2>1. CASE m \in D
    <3>1. f[m] \in Live /\ Whole(f[m]) /\ map'[m] = map[f[m]]
      BY <2>1 DEF Handed
    <3> QED
      BY <3>1, WholeFits
  <2>2. CASE m \notin D
    BY <1>1, <2>2 DEF Handed, Blank
  <2> QED
    BY <2>1, <2>2
<1>2. \A m \in Live' : Complete(m)' => Fits(map'[m])
  BY <1>1
<1> QED
  BY <1>2 DEF AllFit

(* Slabs handed from one owner to another keep the invariant, if the copy  *)
(* in progress does.                                                       *)
LEMMA HandsOver ==
    ASSUME OwnInv, NEW D, NEW f, NEW freed, Handed(D, f, freed), CopyInv'
    PROVE  OwnInv'
BY HandedFits, HandedOwns DEF OwnInv

(* With no copy in progress there is nothing to say of one.                *)
LEMMA NoCopy == busy' = <<>> => CopyInv'
BY DEF CopyInv

(* A copy starts with the members of its source and no slab.               *)
LEMMA CopyBegins ==
    ASSUME OwnInv, NEW t \in Maps \union {Temp}, NEW s \in Live, NEW why,
           BeginCopy(t, s, why), t # s, why = "construct" => t \in Maps,
           why # "construct" => t = Temp /\ why \in Live \intersect Maps /\ why # s
    PROVE  CopyInv'
<1>1. /\ Live' = Live \union {t} /\ map'[t] = [map[s] EXCEPT !.slabs = <<>>]
      /\ map'[s] = map[s] /\ busy' = <<t, s, why>>
  BY TakesAll DEF BeginCopy, With, Live
<1>2. map[s] \in MapRecord
  BY DEF OwnInv, TypeInv
<1>3. map'[t] = [map'[s] EXCEPT !.slabs = map'[t].slabs] /\ map'[t].slabs = <<>>
  BY <1>1, <1>2 DEF MapRecord
<1>4. Target' = t /\ busy'[2] = s /\ busy'[3] = why
  BY <1>1 DEF Target
<1>5. Copied' = 0 /\ Source' = map[s].slabs /\ Len(map[s].slabs) \in Nat
  BY <1>1, <1>2, <1>3, <1>4, Positions DEF Copied, Source
<1> QED
  BY <1>1, <1>3, <1>4, <1>5 DEF CopyInv

-----------------------------------------------------------------------------
(* The calls that change what a map holds.                                 *)

(* A slab a map names is on the heap, at the position that serves i.       *)
LEMMA InHeap ==
    ASSUME OwnInv, NEW m \in Live, NEW i \in Nat, SlabAt(map[m], i) # Null
    PROVE  /\ SlabAt(map[m], i) \in DOMAIN heap
           /\ SlabIdx(map[m], i) + 1 \in DOMAIN map[m].slabs
           /\ SlabAt(map[m], i) = map[m].slabs[SlabIdx(map[m], i) + 1]
           /\ i % map[m].policy \in 0 .. map[m].policy - 1
<1>1. map[m] \in MapRecord /\ map[m].policy \in Nat \ {0}
  BY SizeFacts DEF OwnInv, TypeInv, MapRecord
<1>2. SlabIdx(map[m], i) \in Nat /\ i % map[m].policy \in 0 .. map[m].policy - 1
  BY <1>1, DivMod DEF SlabIdx
<1>3. Len(map[m].slabs) \in Nat /\ DOMAIN map[m].slabs = 1 .. Len(map[m].slabs)
  BY <1>1, Positions
<1>4. /\ SlabIdx(map[m], i) + 1 \in DOMAIN map[m].slabs
      /\ SlabAt(map[m], i) = map[m].slabs[SlabIdx(map[m], i) + 1]
  BY <1>2, <1>3 DEF SlabAt
<1> QED
  BY <1>2, <1>4 DEF OwnInv, Own, Live

(* h2 is h with slot j of slab id replaced by x, and d slots of it dead.   *)
EditedAt(h, h2, id, j, x, d) ==
    /\ DOMAIN h2 = DOMAIN h /\ IsHeap(h2)
    /\ \A k \in DOMAIN h \ {id} : h2[k] = h[k]
    /\ h2[id].per = h[id].per /\ h2[id].dead = d
    /\ h2[id].slot = [h[id].slot EXCEPT ![j] = x]

(* One slot of one slab written is the edit EditedAt describes.            *)
LEMMA Edits ==
    ASSUME NEW h, IsHeap(h), NEW id \in DOMAIN h, NEW j \in 0 .. h[id].per - 1,
           NEW x \in SlotRecord, NEW d \in Nat, NEW h2,
           h2 = [h EXCEPT ![id] = [per |-> h[id].per, dead |-> d,
                                   slot |-> [h[id].slot EXCEPT ![j] = x]]]
    PROVE  EditedAt(h, h2, id, j, x, d)
<1>1. IsSlab(h[id])
  BY DEF IsHeap
<1>2. IsSlab([per |-> h[id].per, dead |-> d,
              slot |-> [h[id].slot EXCEPT ![j] = x]])
  BY <1>1 DEF IsSlab
<1>3. IsHeap(h2)
  BY <1>2 DEF IsHeap
<1> QED
  BY <1>3 DEF EditedAt

(* Popping the head of the free list writes one value.                     *)
Popped(r, h) ==
    [r EXCEPT !.head = h[SlabAt(r, r.head)].slot[r.head % r.policy].next,
              !.size = @ + 1, !.created = @ + 1]

(* A construction in an existing slab edits the slot at the head of the    *)
(* free list, and the map's record with it.                                *)
LEMMA ConstructEdits ==
    ASSUME NEW h, IsHeap(h), NEW r \in MapRecord, NEW m \in Live, NEW v \in Values,
           Construct(m, r, h, v), SlabAt(r, r.head) \in DOMAIN h
    PROVE  /\ EditedAt(h, heap', SlabAt(r, r.head), r.head % r.policy,
                  [h[SlabAt(r, r.head)].slot[r.head % r.policy] EXCEPT !.val = v],
                  h[SlabAt(r, r.head)].dead)
           /\ r.head % r.policy \in 0 .. h[SlabAt(r, r.head)].per - 1
           /\ map' = [map EXCEPT ![m] = Popped(r, h)]
           /\ Popped(r, h) \in MapRecord /\ Popped(r, h).slabs = r.slabs
           /\ Fits(r) => Fits(Popped(r, h))
<1> DEFINE id == SlabAt(r, r.head)
           j == r.head % r.policy
           x == [h[id].slot[j] EXCEPT !.val = v]
<1>1. j \in Nat
  <2>1. PICK w \in Nat \ {0}, y \in Nat : w = r.policy /\ y = r.head
    BY SizeFacts DEF MapRecord
  <2>2. y % w \in 0 .. w - 1
    BY DivMod
  <2> QED
    BY <2>1, <2>2
<1>2. IsSlab(h[id]) /\ j < h[id].per
  BY DEF IsHeap, Construct
<1>3. j \in 0 .. h[id].per - 1 /\ h[id].slot[j] \in SlotRecord /\ h[id].dead \in Nat
  BY <1>1, <1>2 DEF IsSlab
<1>4. x \in SlotRecord
  BY <1>3 DEF SlotRecord
<1>5. heap' = [h EXCEPT ![id] = [per |-> h[id].per, dead |-> h[id].dead,
                                 slot |-> [h[id].slot EXCEPT ![j] = x]]]
  <2>1. heap' = [h EXCEPT ![id].slot[j].val = v]
    BY DEF Construct
  <2>2. [h[id] EXCEPT !.slot[j].val = v]
            = [per |-> h[id].per, dead |-> h[id].dead,
               slot |-> [h[id].slot EXCEPT ![j] = x]]
    BY <1>2, WriteValue
  <2> QED
    BY <2>1, <2>2
<1> HIDE DEF x
<1>6. EditedAt(h, heap', id, j, x, h[id].dead)
  BY <1>3, <1>4, <1>5, Edits
<1>7. Popped(r, h) \in MapRecord /\ Popped(r, h).slabs = r.slabs
      /\ Popped(r, h).policy = r.policy /\ Popped(r, h).per = r.per
      /\ Popped(r, h).base = r.base
  <2>1. h[id].slot[j].next \in Nat /\ r.size + 1 \in Int /\ r.created + 1 \in Nat
    BY <1>3, RecordIs DEF SlotRecord
  <2>2. Popped(r, h) \in MapRecord
    BY <2>1, Members DEF Popped
  <2> QED
    BY <2>2 DEF Popped, MapRecord
<1>8. map' = [map EXCEPT ![m] = Popped(r, h)]
  BY DEF Construct, Popped
<1> QED
  BY <1>3, <1>6, <1>7, <1>8 DEF Fits, x

(* erase writes one slot, unless it deletes the slab.                      *)
LEMMA EraseEdits ==
    ASSUME OwnInv, NEW m \in Live, NEW k \in Key, Finds(m, k)
    PROVE  LET id == SlabAt(map[m], k.index)
               j == k.index % map[m].policy
           IN
           /\ id \in DOMAIN heap /\ j \in 0 .. heap[id].per - 1
           /\ EraseReuses(m, k) =>
                  EditedAt(heap, heap', id, j, [ver |-> k.version + 1,
                      val |-> Free, next |-> map[m].head], heap[id].dead)
           /\ heap' = [heap EXCEPT ![id].dead = @ + 1, ![id].slot[j].val = Free] =>
                  EditedAt(heap, heap', id, j, [heap[id].slot[j] EXCEPT !.val = Free],
                           heap[id].dead + 1)
<1> DEFINE id == SlabAt(map[m], k.index)
           j == k.index % map[m].policy
<1>1. k.index \in Nat /\ k.version \in 0 .. MaxVersion
  BY SizeFacts DEF Key
<1>2. id \in DOMAIN heap /\ j \in Nat /\ j < heap[id].per
  <2>1. id # Null /\ j < heap[id].per
    BY DEF Finds, HasSlot
  <2>2. /\ id \in DOMAIN heap /\ j \in 0 .. map[m].policy - 1
    BY <1>1, <2>1, InHeap
  <2> QED
    BY <2>1, <2>2
<1>3. IsHeap(heap) /\ IsSlab(heap[id])
  BY <1>2 DEF OwnInv, TypeInv, IsHeap
<1>4. j \in 0 .. heap[id].per - 1 /\ heap[id].slot[j] \in SlotRecord /\ heap[id].dead \in Nat
  BY <1>2, <1>3 DEF IsSlab
<1> HIDE DEF j
<1>5. ASSUME EraseReuses(m, k)
      PROVE  EditedAt(heap, heap', id, j, [ver |-> k.version + 1,
                      val |-> Free, next |-> map[m].head], heap[id].dead)
  <2> DEFINE x == [ver |-> k.version + 1, val |-> Free, next |-> map[m].head]
  <2>1. map[m].head \in Nat /\ k.version < MaxVersion
    BY <1>5 DEF OwnInv, TypeInv, MapRecord, EraseReuses
  <2>2. x \in SlotRecord
    BY <1>1, <2>1, SizeFacts DEF SlotRecord
  <2>3. heap' = [heap EXCEPT ![id].slot[j] = x]
    BY <1>5 DEF EraseReuses, j
  <2> HIDE DEF x, id
  <2>4. [heap[id] EXCEPT !.slot[j] = x]
            = [per |-> heap[id].per, dead |-> heap[id].dead,
               slot |-> [heap[id].slot EXCEPT ![j] = x]]
    <3>1. PICK s, w : s = heap[id] /\ w = [s.slot EXCEPT ![j] = x]
      OBVIOUS
    <3>2. s = [per |-> s.per, dead |-> s.dead, slot |-> s.slot]
      BY <1>3, <3>1 DEF IsSlab
    <3>3. [s EXCEPT !.slot = w] = [per |-> s.per, dead |-> s.dead, slot |-> w]
      BY ONLY <3>2
    <3> QED
      BY <3>1, <3>3
  <2>5. heap' = [heap EXCEPT ![id] = [per |-> heap[id].per, dead |-> heap[id].dead,
                                      slot |-> [heap[id].slot EXCEPT ![j] = x]]]
    BY <2>3, <2>4
  <2>6. EditedAt(heap, heap', id, j, x, heap[id].dead)
    BY <1>2, <1>3, <1>4, <2>2, <2>5, Edits
  <2> QED
    BY <2>6 DEF x, id
<1>6. ASSUME heap' = [heap EXCEPT ![id].dead = @ + 1, ![id].slot[j].val = Free]
      PROVE  EditedAt(heap, heap', id, j, [heap[id].slot[j] EXCEPT !.val = Free],
                           heap[id].dead + 1)
  <2> DEFINE x == [heap[id].slot[j] EXCEPT !.val = Free]
  <2>2. x \in SlotRecord /\ heap[id].dead + 1 \in Nat
    BY <1>4 DEF SlotRecord
  <2>3. heap' = [heap EXCEPT ![id] = [per |-> heap[id].per, dead |-> heap[id].dead + 1,
                                      slot |-> [heap[id].slot EXCEPT ![j] = x]]]
    <3> HIDE DEF id
    <3>1. \A y : heap[id] = y => heap' = [heap EXCEPT ![id] =
              [y EXCEPT !.dead = y.dead + 1, !.slot[j].val = Free]]
      BY <1>2, <1>6
    <3>2. [heap[id] EXCEPT !.dead = heap[id].dead + 1, !.slot[j].val = Free]
            = [per |-> heap[id].per, dead |-> heap[id].dead + 1,
               slot |-> [heap[id].slot EXCEPT ![j] = x]]
      <4>1. PICK d \in Nat : d = heap[id].dead + 1
        BY <1>4
      <4>2. PICK y : y = [heap[id] EXCEPT !.dead = d]
        OBVIOUS
      <4>3. IsSlab(y) /\ y.per = heap[id].per /\ y.dead = d /\ y.slot = heap[id].slot
        BY <1>3, <4>2 DEF IsSlab
      <4>4. [y EXCEPT !.slot[j].val = Free]
                = [per |-> y.per, dead |-> y.dead,
                   slot |-> [y.slot EXCEPT ![j] = [y.slot[j] EXCEPT !.val = Free]]]
        BY <4>3, WriteValue
      <4> QED
        BY <4>1, <4>2, <4>3, <4>4
    <3> QED
      BY Zenon, <3>1, <3>2
  <2> HIDE DEF x, id
  <2>6. EditedAt(heap, heap', id, j, x, heap[id].dead + 1)
    BY <1>2, <1>3, <1>4, <2>2, <2>3, Edits
  <2> QED
    BY <2>6 DEF x, id
<1> QED
  BY Zenon, <1>2, <1>4, <1>5, <1>6 DEF j

(* A call that leaves every pointer where it is.                           *)
LEMMA EditKeeps ==
    ASSUME OwnInv, busy = <<>>, UNCHANGED <<busy, gone>>, NEW m \in Live,
           NEW q \in MapRecord, Fits(q), q.slabs = map[m].slabs,
           map' = [map EXCEPT ![m] = q], DOMAIN heap' = DOMAIN heap, IsHeap(heap')
    PROVE  OwnInv'
<1>1. Live' = Live /\ map'[m] = q /\ \A x \in Live \ {m} : map'[x] = map[x]
  BY DEF Live
<1>2. TypeInv'
  BY <1>1 DEF OwnInv, TypeInv
<1>3. \A x \in Live : map'[x].slabs = map[x].slabs
  BY <1>1
<1>4. Own(map, DOMAIN heap)'
  BY <1>1, <1>3 DEF OwnInv, Own, Live
<1>5. AllFit'
  BY <1>1 DEF OwnInv, AllFit, Complete
<1> QED
  BY <1>2, <1>4, <1>5, NoCopy DEF OwnInv

(* A call that gives one map one slab more.                                *)
LEMMA AppendKeeps ==
    ASSUME OwnInv, busy = <<>>, UNCHANGED <<busy, gone>>, NEW m \in Live,
           NEW q \in MapRecord, Fits(q), CanAllocate(map[m]),
           q.slabs = Append(map[m].slabs, Fresh),
           map' = [map EXCEPT ![m] = q],
           DOMAIN heap' = DOMAIN heap \union {Fresh}, IsHeap(heap')
    PROVE  OwnInv'
<1>1. Live' = Live /\ map'[m] = q /\ \A x \in Live \ {m} : map'[x] = map[x]
  BY DEF Live
<1>2. Fresh \in Ids /\ Fresh \notin DOMAIN heap /\ Fresh # Null
  BY FreshFacts DEF CanAllocate
<1>3. TypeInv'
  BY <1>1, <1>2 DEF OwnInv, TypeInv
<1>4. Null \notin DOMAIN heap
  BY SizeFacts DEF OwnInv, TypeInv
<1>5. Own(map, DOMAIN heap)'
  <2>1. PICK S : S = Ids \union {Null}
    OBVIOUS
  <2>2. map[m].slabs \in Seq(S) /\ Fresh \in S
    BY <1>2, <2>1, Positions DEF OwnInv, TypeInv
  <2>3. \A x \in DOMAIN map : x # m => map'[x].slabs = map[x].slabs
    BY <1>1 DEF Live
  <2>4. map'[m].slabs = Append(map[m].slabs, Fresh)
    BY <1>1
  <2>5. DOMAIN heap' = IF Fresh = Null THEN DOMAIN heap ELSE DOMAIN heap \union {Fresh}
    BY <1>2
  <2>6. m \in DOMAIN map /\ DOMAIN map' = DOMAIN map
    BY <1>1 DEF Live
  <2>7. Own(map, DOMAIN heap)
    BY DEF OwnInv
  <2>8. PICK H2 : H2 = DOMAIN heap'
    OBVIOUS
  <2>9. PICK fr : fr = Fresh
    OBVIOUS
  <2>10. Own(map', H2)
    BY ONLY <1>2, <1>4, <2>2, <2>3, <2>4, <2>5, <2>6, <2>7, <2>8, <2>9, AppendOwns
  <2> QED
    BY <2>8, <2>10
<1>6. AllFit'
  BY <1>1 DEF OwnInv, AllFit, Complete
<1> QED
  BY <1>3, <1>5, <1>6, NoCopy DEF OwnInv

(* A call that deletes one slab of a map.                                  *)
LEMMA DropKeeps ==
    ASSUME OwnInv, busy = <<>>, UNCHANGED <<busy, gone>>, NEW m \in Live,
           NEW q \in MapRecord, Fits(q),
           NEW n \in DOMAIN map[m].slabs, map[m].slabs[n] # Null,
           q.slabs = [map[m].slabs EXCEPT ![n] = Null],
           map' = [map EXCEPT ![m] = q],
           heap' = Without(heap, {map[m].slabs[n]})
    PROVE  OwnInv'
<1>1. Live' = Live /\ map'[m] = q /\ \A x \in Live \ {m} : map'[x] = map[x]
  BY DEF Live
<1>2. DOMAIN heap' = DOMAIN heap \ {map[m].slabs[n]}
  BY DEF Without
<1>3. TypeInv'
  BY <1>1, <1>2 DEF OwnInv, TypeInv, IsHeap, Without
<1>4. Null \notin DOMAIN heap
  BY SizeFacts DEF OwnInv, TypeInv
<1>5. Own(map, DOMAIN heap)'
  <2>1. \A x \in DOMAIN map : x # m => map'[x].slabs = map[x].slabs
    BY <1>1 DEF Live
  <2>2. map'[m].slabs = [map[m].slabs EXCEPT ![n] = Null]
    BY <1>1
  <2>3. m \in DOMAIN map /\ DOMAIN map' = DOMAIN map
    BY <1>1 DEF Live
  <2>4. Own(map, DOMAIN heap)
    BY DEF OwnInv
  <2>5. Own(map', DOMAIN heap \ {map[m].slabs[n]})
    BY ONLY <1>4, <2>1, <2>2, <2>3, <2>4, n \in DOMAIN map[m].slabs,
            map[m].slabs[n] # Null, DropOwns
  <2> QED
    BY <1>2, <2>5
<1>6. AllFit'
  BY <1>1 DEF OwnInv, AllFit, Complete
<1> QED
  BY <1>3, <1>5, <1>6, NoCopy DEF OwnInv

(* The heap with one new slab.                                             *)
LEMMA GrownHeapIs ==
    ASSUME OwnInv, NEW r \in MapRecord, CanAllocate(r)
    PROVE  LET h == GrownHeap(r) IN
           /\ DOMAIN h = DOMAIN heap \union {Fresh} /\ IsHeap(h)
           /\ \A id \in DOMAIN heap : h[id] = heap[id]
           /\ h[Fresh] = NewSlab(r.base, r.per, r.head)
<1> DEFINE sl == NewSlab(r.base, r.per, r.head)
<1>1. Fresh \in Ids /\ Fresh \notin DOMAIN heap
  BY FreshFacts DEF CanAllocate
<1>2. r.base \in Nat /\ r.per \in 1 .. MaxSlots /\ r.head \in Nat /\ MaxVersion \in Nat \ {0}
  BY SizeFacts DEF MapRecord
<1>3. IsSlab(sl)
  <2>1. ASSUME NEW j \in 0 .. r.per - 1
        PROVE  [ver |-> IF r.base = 0 /\ j = 0 THEN 1 ELSE 0, val |-> Free,
                next |-> IF j < r.per - 1 THEN r.base + j + 1 ELSE r.head] \in SlotRecord
    BY <1>2 DEF SlotRecord
  <2> QED
    BY <1>2, <2>1 DEF IsSlab, NewSlab
<1> HIDE DEF sl
<1>4. GrownHeap(r) = [z \in DOMAIN heap \union {Fresh} |-> IF z = Fresh THEN sl ELSE heap[z]]
  BY DEF GrownHeap, With, sl
<1>5. IsHeap(GrownHeap(r))
  BY <1>1, <1>3, <1>4 DEF IsHeap, OwnInv, TypeInv
<1> QED
  BY <1>1, <1>4, <1>5 DEF sl

(* reserve keeps the invariant: the new slab has a fresh identifier and    *)
(* one owner.                                                              *)
LEMMA ReserveKeeps ==
    ASSUME OwnInv, NEW m \in Live, Reserve(m)
    PROVE  OwnInv'
<1>1. /\ busy = <<>> /\ CanAllocate(map[m]) /\ map' = [map EXCEPT ![m] = Grown(map[m])]
      /\ heap' = GrownHeap(map[m]) /\ UNCHANGED <<busy, gone>>
  BY DEF Reserve
<1>2. map[m] \in MapRecord /\ Fits(map[m])
  BY <1>1 DEF OwnInv, TypeInv, AllFit, Complete
<1>3. /\ Grown(map[m]) \in MapRecord /\ Fits(Grown(map[m]))
      /\ Grown(map[m]).slabs = Append(map[m].slabs, Fresh)
  BY Zenon, <1>1, <1>2, GrownIs DEF MapRecord
<1>4. DOMAIN heap' = DOMAIN heap \union {Fresh} /\ IsHeap(heap')
  BY <1>1, <1>2, GrownHeapIs
<1> QED
  BY <1>1, <1>3, <1>4, AppendKeeps

(* The grown map starts its free list at the new range.                    *)
LEMMA GrownHead ==
    ASSUME OwnInv, NEW r \in MapRecord, Fits(r), CanAllocate(r)
    PROVE  /\ Grown(r).head = r.base /\ Grown(r).policy = r.per /\ Grown(r).per = r.per
           /\ SlabAt(Grown(r), r.base) = Fresh /\ r.base % r.per = 0
           /\ r.base \in Index /\ DOMAIN Grown(r).slabs = 1 .. Len(r.slabs) + 1
           /\ Grown(r).slabs[Len(r.slabs) + 1] = Fresh
           /\ \A n \in 1 .. Len(r.slabs) : Grown(r).slabs[n] = r.slabs[n]
<1>1. /\ Grown(r) = [r EXCEPT !.slabs = Append(r.slabs, Fresh),
                              !.head = r.base, !.base = r.base + r.per]
      /\ SlabIdx(r, r.base) = Len(r.slabs)
  BY Zenon, GrownIs
<1>2. r.policy = r.per /\ r.base = Len(r.slabs) * r.per
  BY DEF Fits
<1>3. /\ Grown(r).head = r.base /\ Grown(r).policy = r.per /\ Grown(r).per = r.per
      /\ Grown(r).slabs = Append(r.slabs, Fresh)
  BY <1>1, <1>2 DEF MapRecord
<1>4. PICK n \in Nat : n = Len(r.slabs)
  BY Positions
<1>5. Len(Append(r.slabs, Fresh)) = n + 1 /\ Append(r.slabs, Fresh)[n + 1] = Fresh
      /\ DOMAIN Append(r.slabs, Fresh) = 1 .. n + 1
      /\ \A x \in 1 .. n : Append(r.slabs, Fresh)[x] = r.slabs[x]
  <2>1. PICK S : S = Ids \union {Null}
    OBVIOUS
  <2>2. PICK q \in Seq(S), a \in S : q = r.slabs /\ a = Fresh
    BY <2>1, Positions, FreshFacts DEF CanAllocate
  <2>3. Append(q, a) \in Seq(S) /\ Len(Append(q, a)) = Len(q) + 1
        /\ Append(q, a)[Len(q) + 1] = a
        /\ \A x \in 1 .. Len(q) : Append(q, a)[x] = q[x]
    BY ONLY <2>2, AppendProperties
  <2>4. DOMAIN Append(q, a) = 1 .. Len(q) + 1
    BY ONLY <2>3, LenProperties
  <2> QED
    BY <1>4, <2>2, <2>3, <2>4
<1>6. r.base % r.per = 0 /\ r.base \in Nat /\ r.per \in Nat \ {0}
  <2>1. r.per \in Nat \ {0} /\ n \in Int /\ 0 \in 0 .. r.per - 1 /\ r.base \in Nat
    BY SizeFacts DEF MapRecord
  <2>2. (r.per * n + 0) % r.per = 0
    BY ONLY <2>1, DivUnique
  <2>3. r.per * n + 0 = r.base
    <3>1. n * r.per = r.per * n
      BY ONLY <2>1, <1>4, Multiples
    <3> QED
      BY <1>2, <1>4, <2>1, <3>1
  <2> QED
    BY <2>1, <2>2, <2>3
<1>7. SlabAt(Grown(r), r.base) = Fresh
  <2>1. SlabIdx(Grown(r), r.base) = n
    BY <1>1, <1>2, <1>3, <1>4 DEF SlabIdx
  <2> QED
    BY <1>3, <1>4, <1>5, <2>1 DEF SlabAt
<1> QED
  BY <1>3, <1>4, <1>5, <1>6, <1>7, SizeFacts DEF CanAllocate, Index

(* emplace keeps the invariant, with and without a new slab.               *)
LEMMA EmplaceKeeps ==
    ASSUME OwnInv, NEW m \in Live, NEW v \in Values, Emplace(m, v)
    PROVE  OwnInv'
<1>1. busy = <<>> /\ UNCHANGED <<busy, gone>>
  BY DEF Emplace
<1>2. map[m] \in MapRecord /\ Fits(map[m]) /\ IsHeap(heap)
  BY <1>1 DEF OwnInv, TypeInv, AllFit, Complete
<1>3. CASE /\ map[m].head = End /\ CanAllocate(map[m])
           /\ Construct(m, Grown(map[m]), GrownHeap(map[m]), v)
  <2> DEFINE r == Grown(map[m])
             h == GrownHeap(map[m])
  <2>1. r \in MapRecord /\ Fits(r) /\ r.slabs = Append(map[m].slabs, Fresh)
    BY Zenon, <1>2, <1>3, GrownIs DEF MapRecord
  <2>2. DOMAIN h = DOMAIN heap \union {Fresh} /\ IsHeap(h)
    BY <1>2, <1>3, GrownHeapIs
  <2>3. SlabAt(r, r.head) = Fresh
    BY <1>2, <1>3, GrownHead
  <2> HIDE DEF r, h
  <2>4. Construct(m, r, h, v)
    BY <1>3 DEF r, h
  <2>5. /\ EditedAt(h, heap', SlabAt(r, r.head), r.head % r.policy,
                  [h[SlabAt(r, r.head)].slot[r.head % r.policy] EXCEPT !.val = v],
                  h[SlabAt(r, r.head)].dead)
        /\ map' = [map EXCEPT ![m] = Popped(r, h)]
        /\ Popped(r, h) \in MapRecord /\ Popped(r, h).slabs = r.slabs
        /\ Fits(Popped(r, h))
    BY <2>1, <2>2, <2>3, <2>4, ConstructEdits
  <2>6. DOMAIN heap' = DOMAIN heap \union {Fresh} /\ IsHeap(heap')
    BY <2>2, <2>5 DEF EditedAt
  <2> QED
    BY <1>1, <1>3, <2>1, <2>5, <2>6, AppendKeeps
<1>4. CASE map[m].head # End /\ Construct(m, map[m], heap, v)
  <2>1. SlabAt(map[m], map[m].head) \in DOMAIN heap
    BY Zenon, <1>2, <1>4, InHeap DEF Construct, MapRecord
  <2>2. /\ EditedAt(heap, heap', SlabAt(map[m], map[m].head), map[m].head % map[m].policy,
                  [heap[SlabAt(map[m], map[m].head)].slot[map[m].head % map[m].policy]
                       EXCEPT !.val = v],
                  heap[SlabAt(map[m], map[m].head)].dead)
        /\ map' = [map EXCEPT ![m] = Popped(map[m], heap)]
        /\ Popped(map[m], heap) \in MapRecord
        /\ Popped(map[m], heap).slabs = map[m].slabs
        /\ Fits(Popped(map[m], heap))
    BY <1>2, <1>4, <2>1, ConstructEdits
  <2>3. DOMAIN heap' = DOMAIN heap /\ IsHeap(heap')
    BY Zenon, <2>2 DEF EditedAt
  <2> QED
    BY Zenon, <1>1, <2>2, <2>3, EditKeeps
<1> QED
  BY <1>3, <1>4 DEF Emplace

(* Erase of a slot that can be used again keeps the invariant.             *)
LEMMA EraseReusesKeeps ==
    ASSUME OwnInv, NEW m \in Live, NEW k \in Key, EraseReuses(m, k)
    PROVE  OwnInv'
<1>1. busy = <<>> /\ UNCHANGED <<busy, gone>> /\ Finds(m, k)
  BY DEF EraseReuses
<1>2. map[m] \in MapRecord /\ Fits(map[m])
  BY <1>1 DEF OwnInv, TypeInv, AllFit, Complete
<1> DEFINE q == [map[m] EXCEPT !.size = @ - 1, !.head = k.index]
<1>3. q \in MapRecord /\ q.slabs = map[m].slabs /\ Fits(q)
  <2>1. map[m].size - 1 \in Int /\ k.index \in Nat
    BY <1>2, RecordIs, SizeFacts DEF Key
  <2>2. q \in MapRecord
    BY <1>2, <2>1, Members
  <2>3. /\ q.slabs = map[m].slabs /\ q.policy = map[m].policy
        /\ q.per = map[m].per /\ q.base = map[m].base
    BY <1>2 DEF MapRecord
  <2> QED
    BY <1>2, <2>2, <2>3 DEF Fits
<1>4. map' = [map EXCEPT ![m] = q]
  BY DEF EraseReuses
<1>5. DOMAIN heap' = DOMAIN heap /\ IsHeap(heap')
  BY Zenon, <1>1, EraseEdits DEF EditedAt
<1> HIDE DEF q
<1> QED
  BY <1>1, <1>3, <1>4, <1>5, EditKeeps

(* Erase of a slot out of versions keeps the invariant; the slab it may    *)
(* release goes from its owner and from the heap together.                 *)
LEMMA EraseRetiresKeeps ==
    ASSUME OwnInv, NEW m \in Live, NEW k \in Key, EraseRetires(m, k)
    PROVE  OwnInv'
<1> DEFINE r == map[m]
           id == SlabAt(r, k.index)
           left == [r EXCEPT !.size = @ - 1, !.dead = @ + 1]
<1>1. busy = <<>> /\ UNCHANGED <<busy, gone>> /\ Finds(m, k)
  BY Zenon DEF EraseRetires
<1>2. r \in MapRecord /\ Fits(r)
  BY <1>1 DEF OwnInv, TypeInv, AllFit, Complete
<1>3. left \in MapRecord /\ left.slabs = r.slabs /\ Fits(left)
  <2>1. r.size - 1 \in Int /\ r.dead + 1 \in Int
    BY <1>2, RecordIs
  <2>2. left \in MapRecord
    BY <1>2, <2>1, Members
  <2>3. /\ left.slabs = r.slabs /\ left.policy = r.policy
        /\ left.per = r.per /\ left.base = r.base
    BY <1>2 DEF MapRecord
  <2> QED
    BY <1>2, <2>2, <2>3 DEF Fits
<1>4. CASE /\ heap' = [heap EXCEPT ![id].dead = @ + 1,
                           ![id].slot[k.index % r.policy].val = Free]
           /\ map' = [map EXCEPT ![m] = left]
  <2>1. DOMAIN heap' = DOMAIN heap /\ IsHeap(heap')
    BY Zenon, <1>1, <1>4, EraseEdits DEF EditedAt
  <2> HIDE DEF left
  <2> QED
    BY Zenon, <1>1, <1>3, <1>4, <2>1, EditKeeps
<1>5. CASE /\ heap' = Without(heap, {id})
           /\ map' = [map EXCEPT ![m] =
                 [left EXCEPT !.slabs[SlabIdx(r, k.index) + 1] = Null]]
  <2> DEFINE n == SlabIdx(r, k.index) + 1
             q == [left EXCEPT !.slabs[n] = Null]
  <2>1. n \in DOMAIN r.slabs /\ id = r.slabs[n] /\ id # Null
    BY <1>1, InHeap, SizeFacts DEF Finds, HasSlot, Key
  <2> HIDE DEF n
  <2>2. q.slabs = [r.slabs EXCEPT ![n] = Null]
        /\ q.per = left.per /\ q.policy = left.policy /\ q.base = left.base
    BY <1>3 DEF MapRecord
  <2>3. q.slabs \in Seq(Ids \union {Null}) /\ Len(q.slabs) = Len(r.slabs)
    <3>1. PICK S : S = Ids \union {Null}
      OBVIOUS
    <3>2. PICK w \in Seq(S) : w = r.slabs /\ n \in 1 .. Len(w) /\ Null \in S
      BY <1>2, <2>1, <3>1, Positions
    <3>3. [w EXCEPT ![n] = Null] \in Seq(S) /\ Len([w EXCEPT ![n] = Null]) = Len(w)
      BY ONLY <3>2, ExceptSeq
    <3> QED
      BY <2>2, <3>1, <3>2, <3>3
  <2>4. q \in MapRecord /\ Fits(q)
    <3>1. q = [left EXCEPT !.slabs = q.slabs]
      BY <1>3, <2>2 DEF MapRecord
    <3>2. q \in MapRecord
      BY <1>3, <2>3, <3>1 DEF MapRecord
    <3> QED
      BY <1>3, <2>2, <2>3, <3>2 DEF Fits
  <2>5. map' = [map EXCEPT ![m] = q]
    BY <1>5 DEF n
  <2> HIDE DEF q, left
  <2> QED
    <3>1. n \in DOMAIN map[m].slabs /\ map[m].slabs[n] = id /\ id # Null
      BY <2>1
    <3>2. left.slabs = map[m].slabs
      BY <1>3
    <3>3. heap' = Without(heap, {map[m].slabs[n]})
      BY <1>5, <3>1
    <3>4. q.slabs = [map[m].slabs EXCEPT ![n] = Null]
      BY <2>2
    <3>5. map[m].slabs[n] # Null
      BY <3>1
    <3> HIDE DEF id, r
    <3> QED
      BY ONLY OwnInv, m \in Live, <1>1, <2>4, <2>5, <3>1, <3>3, <3>4, <3>5,
         DropKeeps
<1> QED
  BY Zenon, <1>4, <1>5 DEF EraseRetires

(* The copy gets one position more: a hole, or a slab equal to the         *)
(* source's at that position.                                              *)
LEMMA CopySlabKeeps ==
    ASSUME OwnInv, CopySlab
    PROVE  OwnInv'
<1> DEFINE t == Target
           s == busy[2]
           k == Copied
           id == IF Source[k + 1] = Null THEN Null ELSE Fresh
           q == [map[t] EXCEPT !.slabs = Append(map[t].slabs, id)]
<1>1. /\ busy # <<>> /\ t \in Live /\ s \in Live /\ t # s
      /\ map[t] = [map[s] EXCEPT !.slabs = map[t].slabs] /\ k < Len(Source)
      /\ Source = map[s].slabs /\ k = Len(map[t].slabs)
      /\ \A n \in 1 .. k : AlikeAt(map[s], heap, map[t], heap, n)
      /\ UNCHANGED <<busy, gone>>
  BY DEF CopySlab, OwnInv, CopyInv, Copied, Source
<1>2. map[t] \in MapRecord /\ map[s] \in MapRecord
  BY <1>1 DEF OwnInv, TypeInv
<1>3. k \in Nat /\ Len(Source) \in Nat /\ k + 1 \in DOMAIN Source
      /\ Source[k + 1] \in DOMAIN heap \union {Null}
  <2>1. k \in Nat /\ Len(Source) \in Nat /\ DOMAIN Source = 1 .. Len(Source)
    BY <1>1, <1>2, Positions
  <2>2. k + 1 \in DOMAIN Source
    BY <1>1, <2>1
  <2> QED
    BY <1>1, <2>1, <2>2 DEF OwnInv, Own, Live
<1>4. Null \notin DOMAIN heap
  BY SizeFacts DEF OwnInv, TypeInv
<1>5. map' = [map EXCEPT ![t] = q]
  <2>1. CASE Source[k + 1] = Null
    BY <2>1 DEF CopySlab, CopyHole
  <2>2. CASE Source[k + 1] # Null
    BY <2>2 DEF CopySlab
  <2> QED
    BY <2>1, <2>2
<1>6. /\ id # Null => Fresh \in Ids /\ Fresh \notin DOMAIN heap /\ Fresh # Null
      /\ id \notin DOMAIN heap /\ id \in Ids \union {Null}
      /\ id = Null <=> Source[k + 1] = Null
  BY <1>4, FreshFacts DEF CopySlab
<1>7. /\ DOMAIN heap' = IF id = Null THEN DOMAIN heap ELSE DOMAIN heap \union {id}
      /\ \A x \in DOMAIN heap : heap'[x] = heap[x]
      /\ id # Null => heap'[id] = heap[Source[k + 1]]
      /\ IsHeap(heap')
  <2>1. CASE Source[k + 1] = Null
    <3>1. heap' = heap
      BY <2>1 DEF CopySlab
    <3> QED
      BY <2>1, <3>1 DEF OwnInv, TypeInv
  <2>2. CASE Source[k + 1] # Null
    <3>1. heap' = With(heap, Fresh, heap[Source[k + 1]])
      BY <2>2 DEF CopySlab
    <3>2. heap' = [z \in DOMAIN heap \union {id} |->
                      IF z = id THEN heap[Source[k + 1]] ELSE heap[z]]
      BY <2>2, <3>1 DEF With
    <3>3. IsSlab(heap[Source[k + 1]])
      BY <1>3, <2>2 DEF OwnInv, TypeInv, IsHeap
    <3> HIDE DEF id, k
    <3> QED
      BY <1>6, <2>2, <3>2, <3>3 DEF OwnInv, TypeInv, IsHeap
  <2> QED
    BY <2>1, <2>2
<1> HIDE DEF id, k
<1>8. Append(map[t].slabs, id) \in Seq(Ids \union {Null})
      /\ Len(Append(map[t].slabs, id)) = k + 1 /\ Append(map[t].slabs, id)[k + 1] = id
      /\ \A n \in 1 .. k : Append(map[t].slabs, id)[n] = map[t].slabs[n]
  <2>1. PICK S : S = Ids \union {Null}
    OBVIOUS
  <2>2. PICK w \in Seq(S), a \in S : w = map[t].slabs /\ a = id
    BY <1>2, <1>6, <2>1, Positions
  <2>3. Append(w, a) \in Seq(S) /\ Len(Append(w, a)) = Len(w) + 1
        /\ Append(w, a)[Len(w) + 1] = a
        /\ \A n \in 1 .. Len(w) : Append(w, a)[n] = w[n]
    BY ONLY <2>2, AppendProperties
  <2> QED
    BY <1>1, <2>1, <2>2, <2>3
<1>9. q \in MapRecord /\ q.slabs = Append(map[t].slabs, id)
  BY <1>2, <1>8 DEF MapRecord
<1>10. q = [map[s] EXCEPT !.slabs = q.slabs]
  BY <1>1, <1>2, <1>9 DEF MapRecord
<1> HIDE DEF q
<1>11. Live' = Live /\ map'[t] = q /\ \A x \in Live \ {t} : map'[x] = map[x]
  BY <1>1, <1>5 DEF Live
<1>12. TypeInv'
  BY <1>6, <1>7, <1>9, <1>5, <1>11 DEF OwnInv, TypeInv
<1>13. Own(map, DOMAIN heap)'
  <2>1. PICK S : S = Ids \union {Null}
    OBVIOUS
  <2>2. map[t].slabs \in Seq(S) /\ id \in S
    BY <1>2, <1>6, <2>1, Positions
  <2>3. \A x \in DOMAIN map : x # t => map'[x].slabs = map[x].slabs
    BY <1>11 DEF Live
  <2>4. map'[t].slabs = Append(map[t].slabs, id)
    BY <1>9, <1>11
  <2>5. t \in DOMAIN map /\ DOMAIN map' = DOMAIN map
    BY <1>1, <1>11 DEF Live
  <2>6. Own(map, DOMAIN heap)
    BY DEF OwnInv
  <2>7. PICK H2 : H2 = DOMAIN heap'
    OBVIOUS
  <2>8. H2 = IF id = Null THEN DOMAIN heap ELSE DOMAIN heap \union {id}
    BY <1>7, <2>7
  <2>9. PICK y : y = t
    OBVIOUS
  <2>10. Own(map', H2)
    BY ONLY <1>4, <1>6, <2>2, <2>3, <2>4, <2>5, <2>6, <2>8, <2>9, AppendOwns
  <2> QED
    BY <2>7, <2>10
<1>14. Target' = t /\ busy'[2] = s /\ Source' = Source /\ Copied' = k + 1 /\ busy' = busy
  BY <1>1, <1>8, <1>9, <1>11 DEF Target, Source, Copied
<1>15. AllFit'
  <2>1. ASSUME NEW m \in Live', Complete(m)' PROVE Fits(map'[m])
    <3>1. m \in Live /\ m # t
      BY <1>1, <1>11, <1>14, <2>1 DEF Complete
    <3>2. map'[m] = map[m] /\ Complete(m)
      BY <1>11, <3>1 DEF Complete
    <3> QED
      BY <3>1, <3>2 DEF OwnInv, AllFit
  <2>2. \A m \in Live' : Complete(m)' => Fits(map'[m])
    BY <2>1
  <2> QED
    BY <2>2 DEF AllFit
<1>16. \A n \in 1 .. k + 1 : AlikeAt(map'[s], heap', map'[t], heap', n)
  <2>0. map'[s] = map[s] /\ Source = map[s].slabs /\ map'[t].slabs = Append(map[t].slabs, id)
    BY <1>1, <1>9, <1>11
  <2>1. ASSUME NEW n \in 1 .. k PROVE AlikeAt(map'[s], heap', map'[t], heap', n)
    <3>1. AlikeAt(map[s], heap, map[t], heap, n) /\ map'[t].slabs[n] = map[t].slabs[n]
      BY <1>1, <1>8, <2>0
    <3>2. n \in DOMAIN map[s].slabs /\ n \in DOMAIN map[t].slabs
      BY <1>1, <1>2, <1>3, Positions
    <3>3. map[s].slabs[n] \in DOMAIN heap \union {Null}
          /\ map[t].slabs[n] \in DOMAIN heap \union {Null}
      BY <1>1, <3>2 DEF OwnInv, Own, Live
    <3> QED
      BY <1>7, <2>0, <3>1, <3>3 DEF AlikeAt
  <2>2. AlikeAt(map'[s], heap', map'[t], heap', k + 1)
    BY <1>3, <1>6, <1>7, <1>8, <2>0 DEF AlikeAt
  <2>3. \A n \in 1 .. k + 1 : n = k + 1 \/ n \in 1 .. k
    BY <1>3
  <2> QED
    BY <2>1, <2>2, <2>3
<1>17. CopyInv'
  <2>1. map'[s] = map[s]
    BY <1>1, <1>11
  <2>2. map'[t] = [map'[s] EXCEPT !.slabs = map'[t].slabs]
    BY <1>10, <1>11, <2>1
  <2>3. k + 1 <= Len(Source)
    BY <1>1, <1>3
  <2>4. /\ busy = <<t, busy[2], busy[3]>>
        /\ busy[3] = "construct" => t \in Maps
        /\ busy[3] # "construct" => t = Temp /\ busy[3] \in Live \intersect Maps
                                    /\ busy[3] # busy[2]
    BY <1>1 DEF OwnInv, CopyInv
  <2> QED
    BY <1>1, <1>11, <1>14, <1>16, <2>2, <2>3, <2>4 DEF CopyInv
<1> QED
  BY <1>1, <1>12, <1>13, <1>15, <1>17 DEF OwnInv

-----------------------------------------------------------------------------
(* Every slab has one owner.                                               *)

(* The calls that hand maps around, and what they do to a copy.            *)
HandsAround ==
    \/ \E m \in Maps, per \in SlabSizes : Create(m, per)
    \/ \E m \in Live : Reset(m) \/ Destroy(m)
    \/ \E t \in Maps, s \in Live :
           CopyConstruct(t, s) \/ CopyAssign(t, s) \/ MoveConstruct(t, s)
    \/ \E t, s \in Live : MoveAssign(t, s) \/ Swap(t, s)
    \/ CopyThrows \/ EndConstruct \/ EndAssign

(* Every call that moves whole maps hands their slabs around.              *)
LEMMA HandsAroundIs ==
    ASSUME OwnInv, HandsAround
    PROVE  (\E D, f, freed : Handed(D, f, freed)) /\ CopyInv'
<1>1. ASSUME NEW m \in Maps, NEW per \in SlabSizes, Create(m, per)
      PROVE  (\E D, f, freed : Handed(D, f, freed)) /\ CopyInv'
  BY <1>1, CreateHands, NoCopy DEF Create
<1>2. ASSUME NEW m \in Live, Reset(m)
      PROVE  (\E D, f, freed : Handed(D, f, freed)) /\ CopyInv'
  BY <1>2, ResetHands, NoCopy DEF Reset
<1>3. ASSUME NEW m \in Live, Destroy(m)
      PROVE  (\E D, f, freed : Handed(D, f, freed)) /\ CopyInv'
  BY <1>3, DestroyHands, NoCopy DEF Destroy
<1>4. ASSUME NEW t \in Maps, NEW s \in Live, CopyConstruct(t, s)
      PROVE  (\E D, f, freed : Handed(D, f, freed)) /\ CopyInv'
  BY <1>4, BeginCopyHands, CopyBegins DEF CopyConstruct
<1>5. ASSUME NEW t \in Maps, NEW s \in Live, CopyAssign(t, s)
      PROVE  (\E D, f, freed : Handed(D, f, freed)) /\ CopyInv'
  <2>1. t # s /\ t \in Live /\ BeginCopy(Temp, s, t) /\ Temp \notin Live
    BY <1>5 DEF CopyAssign, BeginCopy
  <2>2. t # "construct" /\ Temp # s
    BY <2>1, OwnershipAssumption
  <2> QED
    BY <2>1, <2>2, BeginCopyHands, CopyBegins
<1>6. ASSUME NEW t \in Maps, NEW s \in Live, MoveConstruct(t, s)
      PROVE  (\E D, f, freed : Handed(D, f, freed)) /\ CopyInv'
  BY <1>6, MoveConstructHands, NoCopy DEF MoveConstruct
<1>7. ASSUME NEW t \in Live, NEW s \in Live, MoveAssign(t, s)
      PROVE  (\E D, f, freed : Handed(D, f, freed)) /\ CopyInv'
  BY <1>7, MoveAssignHands, NoCopy DEF MoveAssign
<1>8. ASSUME NEW t \in Live, NEW s \in Live, Swap(t, s)
      PROVE  (\E D, f, freed : Handed(D, f, freed)) /\ CopyInv'
  BY <1>8, SwapHands, NoCopy DEF Swap
<1>9. ASSUME CopyThrows PROVE (\E D, f, freed : Handed(D, f, freed)) /\ CopyInv'
  BY <1>9, CopyThrowsHands, NoCopy DEF CopyThrows
<1>10. ASSUME EndConstruct PROVE (\E D, f, freed : Handed(D, f, freed)) /\ CopyInv'
  BY <1>10, EndConstructHands, NoCopy DEF EndConstruct
<1>11. ASSUME EndAssign PROVE (\E D, f, freed : Handed(D, f, freed)) /\ CopyInv'
  BY <1>11, EndAssignHands, NoCopy DEF EndAssign
<1> QED
  BY <1>1, <1>2, <1>3, <1>4, <1>5, <1>6, <1>7, <1>8, <1>9, <1>10, <1>11
     DEF HandsAround

(* Every call is one of these, an edit of one map, or a slab copied.       *)
LEMMA NextIs ==
    ASSUME Next
    PROVE  \/ HandsAround
           \/ \E m \in Live :
                  \/ Reserve(m) \/ \E v \in Values : Emplace(m, v)
                  \/ \E k \in Key : EraseReuses(m, k) \/ EraseRetires(m, k)
           \/ CopySlab
BY Zenon DEF Next, HandsAround

(* Every step keeps the invariant.                                         *)
LEMMA OwnStep == OwnInv /\ [Next]_vars => OwnInv'
<1> SUFFICES ASSUME OwnInv, [Next]_vars PROVE OwnInv'
  OBVIOUS
<1>1. CASE HandsAround
  BY <1>1, HandsAroundIs, HandsOver
<1>2. CASE CopySlab
  BY <1>2, CopySlabKeeps
<1>3. ASSUME NEW m \in Live, Reserve(m) PROVE OwnInv'
  BY <1>3, ReserveKeeps
<1>4. ASSUME NEW m \in Live, NEW v \in Values, Emplace(m, v) PROVE OwnInv'
  BY <1>4, EmplaceKeeps
<1>5. ASSUME NEW m \in Live, NEW k \in Key, EraseReuses(m, k) PROVE OwnInv'
  BY <1>5, EraseReusesKeeps
<1>6. ASSUME NEW m \in Live, NEW k \in Key, EraseRetires(m, k) PROVE OwnInv'
  BY <1>6, EraseRetiresKeeps
<1>7. CASE UNCHANGED vars
  BY <1>7 DEF vars, OwnInv, TypeInv, Live, IsHeap, CopyInv, Target, Copied,
              Source, AlikeAt, Own, AllFit, Complete
<1> QED
  BY <1>1, <1>2, <1>3, <1>4, <1>5, <1>6, <1>7, NextIs

(* It holds before the first map is made.                                  *)
LEMMA OwnInit == Init => OwnInv
<1> SUFFICES ASSUME Init PROVE OwnInv
  OBVIOUS
<1>1. Live = {} /\ DOMAIN heap = {} /\ busy = <<>> /\ gone = {}
  BY DEF Init, Live
<1>2. TypeInv
  BY <1>1 DEF Init, TypeInv, IsHeap, Live
<1> QED
  BY <1>1, <1>2 DEF OwnInv, CopyInv, Own, AllFit, Live

(* No map has more positions than index ranges.                            *)
LEMMA NoLonger ==
    ASSUME OwnInv, NEW m \in Live
    PROVE  Len(map[m].slabs) <= MaxSlots
<1>1. ASSUME NEW x \in Live, Fits(map[x]) PROVE Len(map[x].slabs) <= MaxSlots
  <2>1. map[x].per \in Nat \ {0} /\ Len(map[x].slabs) \in Nat
        /\ Len(map[x].slabs) * map[x].per <= MaxSlots
    <3>1. map[x] \in MapRecord
      BY DEF OwnInv, TypeInv
    <3>2. PICK q \in MapRecord : q = map[x]
      BY <3>1
    <3>3. q.per \in Nat \ {0} /\ q.base \in Nat /\ q.base <= MaxSlots
      BY <1>1, <3>2, RecordIs, SizeFacts DEF Fits, MapRecord
    <3>4. Len(q.slabs) * q.per = q.base /\ Len(q.slabs) \in Nat
      BY <1>1, <3>2, Positions DEF Fits
    <3> QED
      BY <3>2, <3>3, <3>4
  <2>2. \A p \in Nat \ {0}, n \in Nat : n <= n * p
    OBVIOUS
  <2> QED
    BY <2>1, <2>2, SizeFacts
<1>2. CASE Complete(m)
  BY <1>1, <1>2 DEF OwnInv, AllFit
<1>3. CASE ~Complete(m)
  <2>1. /\ busy # <<>> /\ m = Target /\ busy[2] \in Live /\ Target # busy[2]
        /\ Copied <= Len(Source)
    BY <1>3 DEF Complete, OwnInv, CopyInv
  <2>2. Len(map[busy[2]].slabs) <= MaxSlots
    BY <1>1, <2>1 DEF OwnInv, AllFit, Complete
  <2>3. Len(map[m].slabs) \in Nat /\ Len(map[busy[2]].slabs) \in Nat
    BY <2>1, Positions DEF OwnInv, TypeInv
  <2> QED
    BY <2>1, <2>2, <2>3, SizeFacts DEF Copied, Source
<1> QED
  BY <1>2, <1>3

(* It holds in every state.                                                *)
LEMMA OwnHolds == Spec => []OwnInv
<1>1. OwnInv /\ [Next]_vars => OwnInv'
  BY OwnStep
<1> QED
  BY OwnInit, <1>1, PTL DEF Spec

(* However the maps of one type are created, copied, moved, swapped, reset *)
(* and destroyed, and wherever a copy throws, every slab on the heap is    *)
(* held at exactly one position of one map, and no position names a slab   *)
(* that was freed.                                                         *)
THEOREM EverySlabHasOneOwner == Spec => []OneOwner
<1>1. OwnInv => OneOwner
  BY OwnMeans, NoLonger DEF OwnInv
<1> QED
  BY OwnHolds, <1>1, PTL

-----------------------------------------------------------------------------
(* The free list, one removal or insertion at a time.                      *)

(* Slot i, and no other, is written.                                       *)
Written(D, V, i, val, next, V2) ==
    /\ D \subseteq Index /\ i \in D /\ DOMAIN V = D /\ DOMAIN V2 = D
    /\ \A k \in D \ {i} : V2[k] = V[k]
    /\ V2[i].val = val /\ V2[i].next = next

(* emplace takes the head off the list.                                    *)
Pops(D, V, L, head, V2) ==
    /\ Listed(V2, L \ {head}, V[head].next)
    /\ Alive(V2) = Alive(V) \union {head} /\ head \in D \ Alive(V)
    /\ \A P \in SUBSET D : Lost(V2, L \ {head}, P) = Lost(V, L, P)

(* Taking the head off a free list leaves a list of the other slots.       *)
LEMMA ListPop ==
    ASSUME NEW D, NEW V, NEW L, NEW head, NEW v, NEW V2,
           Written(D, V, head, v, V[head].next, V2),
           Listed(V, L, head), head \in L, v \in Values
    PROVE  Pops(D, V, L, head, V2)
<1>1. head \in D /\ V[head].val = Free /\ L \subseteq D /\ v # Free
      /\ \A i \in L : i # End
  BY SizeFacts DEF Listed, Written
<1>2. Listed(V2, L \ {head}, V[head].next)
  BY <1>1 DEF Listed, Written
<1>3. Alive(V2) = Alive(V) \union {head} /\ head \in D \ Alive(V)
  BY <1>1 DEF Alive, Written
<1>4. \A P \in SUBSET D : Lost(V2, L \ {head}, P) = Lost(V, L, P)
  BY <1>1 DEF Lost, Written
<1> QED
  BY <1>2, <1>3, <1>4 DEF Pops

(* erase puts a slot that has versions left at the head of the list.       *)
Pushes(D, V, L, i, V2) ==
    /\ Listed(V2, L \union {i}, i)
    /\ Alive(V2) = Alive(V) \ {i}
    /\ \A P \in SUBSET D : Lost(V2, L \union {i}, P) = Lost(V, L, P)

(* Putting an erased slot in front of a free list leaves a list with it.   *)
LEMMA ListPush ==
    ASSUME NEW D, NEW V, NEW L, NEW head, NEW i, NEW V2,
           Written(D, V, i, Free, head, V2), Listed(V, L, head), i \in Alive(V)
    PROVE  Pushes(D, V, L, i, V2)
<1>1. i \in D /\ V[i].val # Free /\ i \notin L /\ i # End /\ L \subseteq D
  BY SizeFacts DEF Listed, Alive, Written
<1>2. Listed(V2, L \union {i}, i)
  BY <1>1 DEF Listed, Written
<1>3. Alive(V2) = Alive(V) \ {i}
  BY <1>1 DEF Alive, Written
<1>4. \A P \in SUBSET D : Lost(V2, L \union {i}, P) = Lost(V, L, P)
  BY <1>1 DEF Lost, Written
<1> QED
  BY <1>2, <1>3, <1>4 DEF Pushes

(* erase loses a slot that has none.                                       *)
Retires(D, V, L, head, i, V2) ==
    /\ Listed(V2, L, head)
    /\ Alive(V2) = Alive(V) \ {i}
    /\ \A P \in SUBSET D :
           /\ i \in P => Lost(V2, L, P) = Lost(V, L, P) \union {i}
           /\ i \notin P => Lost(V2, L, P) = Lost(V, L, P)
           /\ i \notin Lost(V, L, P)

(* A retired slot joins no list and breaks none.                           *)
LEMMA ListRetire ==
    ASSUME NEW D, NEW V, NEW L, NEW head, NEW i, NEW V2,
           Written(D, V, i, Free, V[i].next, V2), Listed(V, L, head), i \in Alive(V)
    PROVE  Retires(D, V, L, head, i, V2)
<1>1. i \in D /\ V[i].val # Free /\ i \notin L /\ i # End /\ L \subseteq D
  BY SizeFacts DEF Listed, Alive, Written
<1>2. Listed(V2, L, head)
  BY <1>1 DEF Listed, Written
<1>3. Alive(V2) = Alive(V) \ {i}
  BY <1>1 DEF Alive, Written
<1>4. ASSUME NEW P \in SUBSET D
      PROVE  /\ i \in P => Lost(V2, L, P) = Lost(V, L, P) \union {i}
             /\ i \notin P => Lost(V2, L, P) = Lost(V, L, P)
             /\ i \notin Lost(V, L, P)
  BY <1>1 DEF Lost, Written
<1> QED
  BY <1>2, <1>3, <1>4 DEF Retires

(* A new slab's slots come before the old list.                            *)
Longer(D, V, head, b, p, N, V2) ==
    /\ D \subseteq Index /\ DOMAIN V = D /\ b \in Nat /\ p \in Nat \ {0}
    /\ N = b .. b + p - 1 /\ N \subseteq Index /\ N \intersect D = {}
    /\ DOMAIN V2 = D \union N /\ \A i \in D : V2[i] = V[i]
    /\ \A i \in N : /\ V2[i].val = Free
                    /\ V2[i].next = IF i < b + p - 1 THEN i + 1 ELSE head

Grows(D, V, L, N, b, V2) ==
    /\ Listed(V2, L \union N, b) /\ Alive(V2) = Alive(V)
    /\ Lost(V2, L \union N, N) = {}
    /\ \A P \in SUBSET D : Lost(V2, L \union N, P) = Lost(V, L, P)

(* A new slab's slots, linked in order, lead to the list there was.        *)
LEMMA ListGrow ==
    ASSUME NEW D, NEW V, NEW L, NEW head, NEW b, NEW p, NEW N, NEW V2,
           Longer(D, V, head, b, p, N, V2), Listed(V, L, head)
    PROVE  Grows(D, V, L, N, b, V2)
<1>0. /\ D \subseteq Index /\ DOMAIN V = D /\ b \in Nat /\ p \in Nat \ {0}
      /\ N = b .. b + p - 1 /\ N \subseteq Index /\ N \intersect D = {}
      /\ DOMAIN V2 = D \union N /\ \A i \in D : V2[i] = V[i]
      /\ \A i \in N : /\ V2[i].val = Free
                      /\ V2[i].next = IF i < b + p - 1 THEN i + 1 ELSE head
  BY DEF Longer
<1>1. L \subseteq D /\ head \in L \union {End} /\ End \notin N /\ End \notin D /\ b \in N
  BY <1>0, SizeFacts DEF Listed
<1>2. ASSUME NEW i \in N PROVE V2[i].next \in N \union {head} /\ V2[i].next # b
  BY <1>0, <1>1
<1>3. ASSUME NEW i \in N, NEW j \in N, V2[i].next = V2[j].next, V2[i].next # End
      PROVE  i = j
  BY <1>0, <1>1, <1>3
<1>4. ASSUME NEW i \in L PROVE V2[i].next = V[i].next /\ V2[i].next \in L \union {End}
  BY <1>0, <1>1 DEF Listed
<1>5. ASSUME NEW i \in N, NEW j \in L, V2[i].next = V2[j].next PROVE V2[i].next = End
  BY <1>0, <1>1, <1>2, <1>4, <1>5 DEF Listed
<1>6. ASSUME NEW i \in L, NEW j \in L, V2[i].next = V2[j].next, V2[i].next # End
      PROVE  i = j
  BY <1>4, <1>6 DEF Listed
<1>7. Listed(V2, L \union N, b)
  <2>1. L \union N \subseteq DOMAIN V2 /\ \A i \in L \union N : V2[i].val = Free
    BY <1>0, <1>1 DEF Listed
  <2>2. \A i \in L \union N : V2[i].next \in (L \union N) \union {End} /\ V2[i].next # b
    BY <1>0, <1>1, <1>2, <1>4
  <2>3. \A i, j \in L \union N : V2[i].next = V2[j].next /\ V2[i].next # End => i = j
    BY <1>3, <1>5, <1>6
  <2> QED
    BY <1>1, <2>1, <2>2, <2>3 DEF Listed
<1>8. Alive(V2) = Alive(V)
  BY <1>0 DEF Alive
<1>9. Lost(V2, L \union N, N) = {}
      /\ \A P \in SUBSET D : Lost(V2, L \union N, P) = Lost(V, L, P)
  BY <1>0 DEF Lost
<1> QED
  BY <1>7, <1>8, <1>9 DEF Grows

-----------------------------------------------------------------------------
(* What a map holds, seen by index.                                        *)

(* Sets of slots are finite.                                               *)
LEMMA FinitePart ==
    ASSUME NEW S, S \subseteq Index
    PROVE  IsFiniteSet(S) /\ Cardinality(S) \in Nat
<1>1. IsFiniteSet(Index)
  BY SizeFacts, FS_Interval DEF Index
<1> QED
  BY <1>1, FS_Subset, FS_CardinalityType

(* The indices one position serves.                                        *)
LEMMA PartIs ==
    ASSUME NEW r \in MapRecord, r.policy = r.per, NEW n \in Nat
    PROVE  Part(r, n + 1) = (r.per * n .. r.per * n + r.per - 1) \intersect Index
<1>1. r.per \in Nat \ {0}
  BY SizeFacts DEF MapRecord
<1>2. PICK p \in Nat \ {0} : p = r.per
  BY <1>1
<1>3. PICK b \in Nat : b = p * n
  BY <1>2, Multiples
<1>4. ASSUME NEW i \in Index, i \div p = n PROVE i \in b .. b + p - 1
  <2>1. i \in Nat
    BY SizeFacts
  <2>2. i % p \in 0 .. p - 1 /\ i = p * (i \div p) + (i % p)
    BY ONLY <1>2, <2>1, DivMod
  <2>3. PICK c \in 0 .. p - 1 : c = i % p
    BY <2>2
  <2>4. i = b + c
    BY <1>3, <1>4, <2>2, <2>3
  <2> QED
    BY <2>3, <2>4
<1>5. ASSUME NEW i \in Index, i \in b .. b + p - 1 PROVE i \div p = n
  <2>1. i \in Nat
    BY SizeFacts
  <2>2. PICK c \in 0 .. p - 1 : i = b + c
    <3>1. i - b \in 0 .. p - 1 /\ i = b + (i - b)
      BY <1>2, <1>3, <1>5, <2>1
    <3> QED
      BY <3>1
  <2>3. n \in Int
    OBVIOUS
  <2>4. (p * n + c) \div p = n
    BY ONLY <1>2, <2>2, <2>3, DivUnique
  <2> QED
    BY <1>3, <2>2, <2>4
<1>6. n + 1 - 1 = n
  OBVIOUS
<1>7. \A i \in Index : i \in Part(r, n + 1) <=> i \div p = n
  BY <1>2, <1>6 DEF Part, SlabIdx
<1>8. Part(r, n + 1) \subseteq Index
  BY DEF Part
<1> QED
  BY <1>2, <1>3, <1>4, <1>5, <1>7, <1>8

(* Seen through its slabs, a sound map has a slot record at each index it  *)
(* reaches, and each of its slabs has the size the map says.               *)
LEMMA ViewTyped ==
    ASSUME NEW r \in MapRecord, NEW h, IsHeap(h), NEW L, Sound(r, h, L)
    PROVE  /\ View(r, h) \in [Reach(r) -> SlotRecord] /\ Reach(r) \subseteq Index
           /\ \A n \in DOMAIN r.slabs : r.slabs[n] # Null => Part(r, n) \subseteq Reach(r)
           /\ \A i \in Reach(r) : /\ SlabAt(r, i) \in DOMAIN h
                                  /\ h[SlabAt(r, i)].per = r.per
<1>1. r.policy = r.per
  BY DEF Sound, Fits
<1>2. ASSUME NEW i \in Reach(r)
      PROVE  /\ SlabAt(r, i) \in DOMAIN h /\ h[SlabAt(r, i)].per = r.per
             /\ h[SlabAt(r, i)].slot[i % r.policy] \in SlotRecord
  <2>1. i \in Index /\ SlabAt(r, i) # Null
    BY DEF Reach
  <2>2. /\ SlabIdx(r, i) + 1 \in DOMAIN r.slabs
        /\ SlabAt(r, i) = r.slabs[SlabIdx(r, i) + 1] /\ i % r.policy \in 0 .. r.per - 1
    BY <1>1, <2>1, Where
  <2>3. SlabAt(r, i) \in DOMAIN h /\ h[SlabAt(r, i)].per = r.per
    BY <2>1, <2>2 DEF Sound
  <2>4. IsSlab(h[SlabAt(r, i)])
    BY <2>3 DEF IsHeap
  <2> QED
    BY <2>2, <2>3, <2>4 DEF IsSlab
<1>3. View(r, h) \in [Reach(r) -> SlotRecord]
  BY <1>2 DEF View
<1>4. ASSUME NEW n \in DOMAIN r.slabs, r.slabs[n] # Null, NEW i \in Part(r, n)
      PROVE  i \in Reach(r)
  <2>1. i \in Index /\ SlabIdx(r, i) = n - 1
    BY DEF Part
  <2>2. n \in Nat
    BY Positions
  <2>3. n - 1 + 1 = n
    BY <2>2
  <2>4. SlabIdx(r, i) + 1 \in DOMAIN r.slabs => SlabAt(r, i) = r.slabs[SlabIdx(r, i) + 1]
    BY <1>1, <2>1, Where
  <2> QED
    BY <1>4, <2>1, <2>3, <2>4 DEF Reach
<1> QED
  BY <1>2, <1>3, <1>4 DEF Reach

(* A map whose slabs equal those of a sound one, position by position, is  *)
(* as sound.                                                               *)
LEMMA SameSound ==
    ASSUME NEW r \in MapRecord, NEW g, NEW q \in MapRecord, NEW h, NEW L,
           Sound(r, g, L), q = [r EXCEPT !.slabs = q.slabs],
           Len(q.slabs) = Len(r.slabs),
           \A n \in DOMAIN r.slabs : AlikeAt(r, g, q, h, n),
           \A n \in DOMAIN q.slabs : q.slabs[n] # Null => q.slabs[n] \in DOMAIN h
    PROVE  Sound(q, h, L) /\ View(q, h) = View(r, g)
<1>1. /\ q.policy = r.policy /\ q.per = r.per /\ q.base = r.base
      /\ q.head = r.head /\ q.size = r.size /\ r.policy = r.per
  BY DEF MapRecord, Sound, Fits
<1>2. DOMAIN q.slabs = DOMAIN r.slabs
  BY Positions
<1>3. Fits(q)
  BY <1>1 DEF Sound, Fits
<1>4. ASSUME NEW i \in Index
      PROVE  /\ SlabAt(q, i) = Null <=> SlabAt(r, i) = Null
             /\ SlabAt(q, i) # Null => h[SlabAt(q, i)] = g[SlabAt(r, i)]
  <2>1. SlabIdx(q, i) = SlabIdx(r, i)
    BY <1>1 DEF SlabIdx
  <2>2. CASE SlabIdx(r, i) < Len(r.slabs)
    <3>1. SlabIdx(r, i) + 1 \in DOMAIN r.slabs
      BY <1>1, <2>2, Where, Positions
    <3> QED
      BY <2>1, <2>2, <3>1 DEF SlabAt, AlikeAt
  <2>3. CASE ~(SlabIdx(r, i) < Len(r.slabs))
    BY <2>1, <2>3 DEF SlabAt
  <2> QED
    BY <2>2, <2>3
<1>5. Reach(q) = Reach(r)
  BY <1>4 DEF Reach
<1>6. View(q, h) = View(r, g)
  BY <1>1, <1>4, <1>5 DEF View, Reach
<1>7. \A n : Part(q, n) = Part(r, n)
  BY <1>1 DEF Part, SlabIdx
<1>8. ASSUME NEW n \in DOMAIN q.slabs, q.slabs[n] # Null
      PROVE  /\ q.slabs[n] \in DOMAIN h /\ h[q.slabs[n]].per = q.per
             /\ h[q.slabs[n]].dead = Cardinality(Lost(View(q, h), L, Part(q, n)))
  BY <1>1, <1>2, <1>6, <1>7, <1>8 DEF AlikeAt, Sound
<1> QED
  BY <1>1, <1>3, <1>6, <1>8 DEF Sound

(* A blank map's free list is empty.                                       *)
LEMMA BlankSound ==
    ASSUME NEW r \in MapRecord, Blank(r), NEW h
    PROVE  Sound(r, h, {})
<1>1. r.slabs = <<>> /\ Fits(r) /\ r.head = End /\ r.size = 0 /\ DOMAIN r.slabs = {}
  BY DEF Blank
<1>2. Reach(r) = {}
  <2>1. ASSUME NEW i \in Index PROVE SlabAt(r, i) = Null
    BY <1>1, Where DEF Fits
  <2> QED
    BY <2>1 DEF Reach
<1>3. DOMAIN View(r, h) = {} /\ Alive(View(r, h)) = {}
  BY <1>2 DEF View, Alive
<1> QED
  BY <1>1, <1>3, FS_EmptySet DEF Sound, Listed

(* No two positions of the map hold one slab.                              *)
Distinct(r) ==
    \A x, y \in DOMAIN r.slabs :
        r.slabs[x] = r.slabs[y] /\ r.slabs[x] # Null => x = y

(* Slot i of map r is written x, in a slab with d slots dead, and the      *)
(* members of the map, now q, and the free list, now L2, follow.           *)
Follows(r, h, L, i, x, d, h2, q, L2) ==
    LET V == View(r, h)
        V2 == [V EXCEPT ![i] = x]
    IN
    /\ r \in MapRecord /\ IsHeap(h) /\ Sound(r, h, L) /\ Distinct(r)
    /\ i \in Reach(r) /\ x \in SlotRecord /\ d \in Nat
    /\ EditedAt(h, h2, SlabAt(r, i), i % r.policy, x, d)
    /\ q \in MapRecord /\ q.slabs = r.slabs /\ q.policy = r.policy
    /\ q.per = r.per /\ q.base = r.base
    /\ Listed(V2, L2, q.head) /\ q.size = Cardinality(Alive(V2))
    /\ \A P \in SUBSET Reach(r) : i \notin P => Lost(V2, L2, P) = Lost(V, L, P)
    /\ d = Cardinality(Lost(V2, L2, Part(r, SlabIdx(r, i) + 1)))

(* An edit that follows one of the three ways a slot changes keeps the map *)
(* it belongs to sound.                                                    *)
LEMMA EditSound ==
    ASSUME NEW r, NEW h, NEW L, NEW i, NEW x, NEW d, NEW h2, NEW q, NEW L2,
           Follows(r, h, L, i, x, d, h2, q, L2)
    PROVE  Sound(q, h2, L2) /\ View(q, h2) = [View(r, h) EXCEPT ![i] = x]
<1> DEFINE id == SlabAt(r, i)
<1>a. PICK V, V2 : V = View(r, h) /\ V2 = [V EXCEPT ![i] = x]
  OBVIOUS
<1>b. /\ r \in MapRecord /\ IsHeap(h) /\ Sound(r, h, L) /\ Distinct(r)
      /\ i \in Reach(r) /\ x \in SlotRecord /\ d \in Nat
      /\ EditedAt(h, h2, SlabAt(r, i), i % r.policy, x, d)
      /\ q \in MapRecord /\ q.slabs = r.slabs /\ q.policy = r.policy
      /\ q.per = r.per /\ q.base = r.base
      /\ Listed(V2, L2, q.head) /\ q.size = Cardinality(Alive(V2))
      /\ \A P \in SUBSET Reach(r) : i \notin P => Lost(V2, L2, P) = Lost(V, L, P)
      /\ d = Cardinality(Lost(V2, L2, Part(r, SlabIdx(r, i) + 1)))
  BY <1>a DEF Follows
<1>1. r.policy = r.per /\ i \in Index /\ id # Null
  BY <1>a, <1>b DEF Sound, Fits, Reach
<1>2. /\ V \in [Reach(r) -> SlotRecord] /\ id \in DOMAIN h /\ h[id].per = r.per
      /\ \A n \in DOMAIN r.slabs : r.slabs[n] # Null => Part(r, n) \subseteq Reach(r)
  BY <1>a, <1>b, ViewTyped
<1>3. /\ DOMAIN h2 = DOMAIN h /\ \A k \in DOMAIN h \ {id} : h2[k] = h[k]
      /\ h2[id].per = h[id].per /\ h2[id].dead = d
      /\ h2[id].slot = [h[id].slot EXCEPT ![i % r.policy] = x]
  BY <1>a, <1>b DEF EditedAt
<1>4. IsSlab(h[id])
  BY <1>a, <1>b, <1>2 DEF IsHeap
<1>5. \A k : SlabIdx(q, k) = SlabIdx(r, k) /\ SlabAt(q, k) = SlabAt(r, k)
  BY <1>a, <1>b DEF SlabIdx, SlabAt
<1>6. Reach(q) = Reach(r) /\ \A n : Part(q, n) = Part(r, n)
  BY <1>a, <1>b, <1>5 DEF Reach, Part
<1>7. /\ SlabIdx(r, i) \in Nat /\ i % r.policy \in 0 .. r.per - 1
      /\ i = r.per * SlabIdx(r, i) + (i % r.policy)
      /\ SlabIdx(r, i) + 1 \in DOMAIN r.slabs /\ id = r.slabs[SlabIdx(r, i) + 1]
  BY <1>a, <1>b, <1>1, Where
<1>8. ASSUME NEW k \in Reach(r)
      PROVE  h2[SlabAt(r, k)].slot[k % r.policy] = V2[k]
  <2>1. k \in Index /\ SlabAt(r, k) \in DOMAIN h
        /\ V[k] = h[SlabAt(r, k)].slot[k % r.policy]
    BY Zenon, <1>a, <1>b, ViewTyped DEF Reach, View
  <2>2. CASE k = i
    BY <1>a, <1>b, <1>2, <1>3, <1>4, <1>7, <2>2 DEF IsSlab
  <2>3. CASE k # i /\ SlabAt(r, k) # id
    BY <1>a, <1>b, <1>2, <1>3, <2>1, <2>3
  <2>4. CASE k # i /\ SlabAt(r, k) = id
    <3>1. /\ k % r.policy \in 0 .. r.per - 1
          /\ k = r.per * SlabIdx(r, k) + (k % r.policy)
          /\ SlabIdx(r, k) \in Nat
          /\ SlabIdx(r, k) + 1 \in DOMAIN r.slabs /\ id = r.slabs[SlabIdx(r, k) + 1]
      BY <1>a, <1>b, <1>1, <2>1, <2>4, Where
    <3>2. SlabIdx(r, k) + 1 = SlabIdx(r, i) + 1
      BY <1>a, <1>b, <1>1, <1>7, <3>1 DEF Distinct
    <3>3. SlabIdx(r, k) = SlabIdx(r, i)
      BY <1>a, <1>b, <1>7, <3>1, <3>2
    <3>4. k % r.policy # i % r.policy
      BY <1>a, <1>b, <1>7, <2>4, <3>1, <3>3
    <3>5. h2[id].slot[k % r.policy] = h[id].slot[k % r.policy]
      BY <1>a, <1>b, <1>2, <1>3, <1>4, <3>1, <3>4 DEF IsSlab
    <3>6. V2[k] = V[k]
      BY <1>a, <1>b, <1>2, <2>4
    <3> QED
      BY <1>a, <1>b, <2>1, <2>4, <3>5, <3>6
  <2> QED
    BY <1>a, <1>b, <2>2, <2>3, <2>4
<1>9. View(q, h2) = V2
  <2>1. View(q, h2) = [k \in Reach(r) |-> h2[SlabAt(r, k)].slot[k % r.policy]]
    BY Zenon, <1>a, <1>b, <1>5, <1>6 DEF View
  <2>2. V2 = [k \in Reach(r) |-> V2[k]]
    BY <1>a, <1>b, <1>2
  <2> QED
    BY Zenon, <1>a, <1>b, <1>8, <2>1, <2>2
<1>10. ASSUME NEW n \in DOMAIN q.slabs, q.slabs[n] # Null
      PROVE  /\ q.slabs[n] \in DOMAIN h2 /\ h2[q.slabs[n]].per = q.per
             /\ h2[q.slabs[n]].dead = Cardinality(Lost(V2, L2, Part(r, n)))
  <2>1. /\ r.slabs[n] \in DOMAIN h /\ h[r.slabs[n]].per = r.per
        /\ h[r.slabs[n]].dead = Cardinality(Lost(V, L, Part(r, n)))
    BY <1>a, <1>b, <1>10 DEF Sound
  <2>2. CASE r.slabs[n] = id
    <3>1. n = SlabIdx(r, i) + 1
      BY <1>a, <1>b, <1>1, <1>7, <2>2 DEF Distinct
    <3> QED
      BY <1>a, <1>b, <1>2, <1>3, <2>2, <3>1
  <2>3. CASE r.slabs[n] # id
    <3>1. i \notin Part(r, n)
      <4>1. SUFFICES ASSUME i \in Part(r, n) PROVE FALSE
        OBVIOUS
      <4>2. SlabIdx(r, i) = n - 1 /\ n \in Nat
        BY <1>a, <1>b, <4>1, Positions DEF Part
      <4> QED
        BY <1>a, <1>b, <1>7, <2>3, <4>2
    <3>2. Part(r, n) \in SUBSET Reach(r)
      BY <1>a, <1>b, <1>2, <1>10
    <3> QED
      BY Zenon, <1>a, <1>b, <1>3, <2>1, <2>3, <3>1, <3>2
  <2> QED
    BY <1>a, <1>b, <2>2, <2>3
<1>11. Fits(q)
  BY <1>a, <1>b DEF Sound, Fits
<1> QED
  BY <1>a, <1>b, <1>6, <1>9, <1>10, <1>11 DEF Sound

(* The live slots of a view can be counted.                                *)
LEMMA AliveFinite ==
    ASSUME NEW D, D \subseteq Index, NEW V \in [D -> SlotRecord]
    PROVE  IsFiniteSet(Alive(V)) /\ Cardinality(Alive(V)) \in Nat
<1>1. Alive(V) \subseteq Index
  BY DEF Alive
<1> QED
  BY <1>1, FinitePart

(* emplace, on a map whose list is not empty.                              *)
LEMMA ConstructSound ==
    ASSUME NEW h, IsHeap(h), NEW r \in MapRecord, NEW L, Sound(r, h, L), Distinct(r),
           NEW m \in Live, NEW v \in Values, Construct(m, r, h, v), r.head # End
    PROVE  /\ Sound(Popped(r, h), heap', L \ {r.head})
           /\ OneMoreAlive(View(r, h), View(Popped(r, h), heap'))
<1>0. PICK i, V, D : i = r.head /\ V = View(r, h) /\ D = Reach(r)
  OBVIOUS
<1>1. /\ V \in [D -> SlotRecord] /\ D \subseteq Index
      /\ \A n \in DOMAIN r.slabs : r.slabs[n] # Null => Part(r, n) \subseteq D
      /\ \A k \in D : SlabAt(r, k) \in DOMAIN h
  BY <1>0, ViewTyped
<1>2. Listed(V, L, i) /\ i \in L /\ i \in D
  BY <1>0, <1>1 DEF Sound, Listed
<1>3. SlabAt(r, i) \in DOMAIN h /\ V[i] = h[SlabAt(r, i)].slot[i % r.policy]
      /\ V[i] \in SlotRecord
  BY <1>0, <1>1, <1>2 DEF View
<1>4. PICK x : x = [V[i] EXCEPT !.val = v]
  OBVIOUS
<1>5. PICK d \in Nat : d = h[SlabAt(r, i)].dead
  BY <1>3 DEF IsHeap, IsSlab
<1>6. PICK q \in MapRecord : q = Popped(r, h)
  BY <1>0, <1>3, ConstructEdits
<1>7. EditedAt(h, heap', SlabAt(r, i), i % r.policy, x, d) /\ q.slabs = r.slabs
  <2>1. /\ EditedAt(h, heap', SlabAt(r, r.head), r.head % r.policy,
                  [h[SlabAt(r, r.head)].slot[r.head % r.policy] EXCEPT !.val = v],
                  h[SlabAt(r, r.head)].dead)
        /\ Popped(r, h).slabs = r.slabs
    BY <1>0, <1>3, ConstructEdits
  <2> QED
    BY <1>0, <1>3, <1>4, <1>5, <1>6, <2>1
<1>8. /\ q.policy = r.policy /\ q.per = r.per /\ q.base = r.base
      /\ q.head = V[i].next /\ q.size = r.size + 1
  BY <1>0, <1>3, <1>6 DEF Popped, MapRecord
<1>9. PICK V2 : V2 = [V EXCEPT ![i] = x]
  OBVIOUS
<1>10. /\ Listed(V2, L \ {i}, q.head)
       /\ Alive(V2) = Alive(V) \union {i} /\ i \notin Alive(V)
       /\ \A P \in SUBSET D : Lost(V2, L \ {i}, P) = Lost(V, L, P)
  <2>1. Written(D, V, i, v, V[i].next, V2)
    BY <1>1, <1>2, <1>3, <1>4, <1>9 DEF Written, SlotRecord
  <2>2. Pops(D, V, L, i, V2)
    BY <1>2, <2>1, ListPop
  <2> QED
    BY <1>8, <2>2 DEF Pops
<1>11. q.size = Cardinality(Alive(V2))
  <2>1. IsFiniteSet(Alive(V)) /\ Cardinality(Alive(V)) \in Nat /\ r.size = Cardinality(Alive(V))
    BY <1>0, <1>1, AliveFinite DEF Sound
  <2>2. PICK A : A = Alive(V)
    OBVIOUS
  <2>3. Cardinality(A \union {i}) = Cardinality(A) + 1
    BY <1>10, <2>1, <2>2, FS_AddElement
  <2> QED
    BY <1>8, <1>10, <2>1, <2>2, <2>3
<1>12. d = Cardinality(Lost(V2, L \ {i}, Part(r, SlabIdx(r, i) + 1)))
  <2>1. r.policy = r.per /\ i \in Index /\ SlabAt(r, i) # Null
    BY <1>0, <1>2 DEF Sound, Fits, Reach
  <2>2. SlabIdx(r, i) + 1 \in DOMAIN r.slabs /\ SlabAt(r, i) = r.slabs[SlabIdx(r, i) + 1]
    BY <2>1, Where
  <2>3. d = Cardinality(Lost(V, L, Part(r, SlabIdx(r, i) + 1)))
    BY <1>0, <1>5, <2>1, <2>2 DEF Sound
  <2> QED
    BY <1>1, <1>10, <2>1, <2>2, <2>3
<1>13. x \in SlotRecord
  BY <1>3, <1>4 DEF SlotRecord
<1>14. PICK L2 : L2 = L \ {i}
  OBVIOUS
<1>15. \A P \in SUBSET Reach(r) : i \notin P => Lost(V2, L2, P) = Lost(V, L, P)
  BY <1>0, <1>10, <1>14
<1>16. Sound(q, heap', L2) /\ View(q, heap') = V2
  <2>1. Follows(r, h, L, i, x, d, heap', q, L2)
    BY <1>0, <1>2, <1>7, <1>8, <1>9, <1>10, <1>11, <1>12, <1>13, <1>14, <1>15 DEF Follows
  <2> QED
    BY <1>0, <1>9, <2>1, EditSound
<1>17. OneMoreAlive(V, V2)
  <2>1. \A j \in Alive(V) : V2[j] = V[j]
    BY <1>1, <1>9, <1>10 DEF Alive
  <2>2. i \in DOMAIN V2 \ Alive(V)
    BY <1>1, <1>2, <1>9, <1>10
  <2> QED
    BY <1>10, <2>1, <2>2 DEF OneMoreAlive
<1> QED
  BY <1>0, <1>6, <1>14, <1>16, <1>17

(* What erase is called on.                                                *)
Found(r, i, L, V, D) ==
    /\ r \in MapRecord /\ Sound(r, heap, L) /\ Distinct(r)
    /\ V \in [D -> SlotRecord] /\ D \subseteq Index /\ Listed(V, L, r.head)
    /\ i \in Alive(V) /\ i \in D /\ i \in Part(r, SlabIdx(r, i) + 1)
    /\ V[i] = heap[SlabAt(r, i)].slot[i % r.policy]
    /\ SlabIdx(r, i) + 1 \in DOMAIN r.slabs
    /\ SlabAt(r, i) = r.slabs[SlabIdx(r, i) + 1]
    /\ SlabAt(r, i) # Null /\ heap[SlabAt(r, i)].dead \in Nat
    /\ Part(r, SlabIdx(r, i) + 1) \subseteq D
    /\ heap[SlabAt(r, i)].dead =
           Cardinality(Lost(V, L, Part(r, SlabIdx(r, i) + 1)))
    /\ IsFiniteSet(Alive(V)) /\ r.size = Cardinality(Alive(V)) /\ r.size \in Nat

(* A key that finds its element in a sound map names a live slot there.    *)
LEMMA FoundIs ==
    ASSUME OwnInv, NEW m \in Live, NEW k \in Key, Finds(m, k), NEW L,
           Sound(map[m], heap, L), Distinct(map[m])
    PROVE  Found(map[m], k.index, L, View(map[m], heap), Reach(map[m]))
<1>0. PICK r, i, V, D : r = map[m] /\ i = k.index /\ V = View(r, heap) /\ D = Reach(r)
  OBVIOUS
<1>1. r \in MapRecord /\ IsHeap(heap) /\ r.policy = r.per /\ Sound(r, heap, L)
  BY <1>0 DEF OwnInv, TypeInv, Sound, Fits
<1>2. /\ V \in [D -> SlotRecord] /\ D \subseteq Index
      /\ \A n \in DOMAIN r.slabs : r.slabs[n] # Null => Part(r, n) \subseteq D
  BY <1>0, <1>1, ViewTyped
<1>3. i \in Index /\ i \in Nat
  BY <1>0, SizeFacts DEF Key
<1>4. SlabAt(r, i) # Null /\ i \in D
  BY <1>0, <1>3 DEF Finds, HasSlot, Reach
<1>5. V[i] = heap[SlabAt(r, i)].slot[i % r.policy]
  BY <1>0, <1>4 DEF View
<1>6. i \in Alive(V)
  BY <1>0, <1>2, <1>4, <1>5 DEF Alive, Finds, Slot
<1>7. /\ SlabIdx(r, i) + 1 \in DOMAIN r.slabs /\ SlabAt(r, i) \in DOMAIN heap
      /\ SlabAt(r, i) = r.slabs[SlabIdx(r, i) + 1]
  BY <1>0, <1>3, <1>4, InHeap
<1>8. i \in Part(r, SlabIdx(r, i) + 1)
  BY <1>1, <1>3, Where
<1>9. /\ Part(r, SlabIdx(r, i) + 1) \subseteq D
      /\ heap[SlabAt(r, i)].dead = Cardinality(Lost(V, L, Part(r, SlabIdx(r, i) + 1)))
  BY <1>0, <1>1, <1>2, <1>4, <1>7 DEF Sound
<1>10. heap[SlabAt(r, i)].dead \in Nat
  BY <1>1, <1>7 DEF IsHeap, IsSlab
<1>11. IsFiniteSet(Alive(V)) /\ r.size = Cardinality(Alive(V)) /\ r.size \in Nat
       /\ Listed(V, L, r.head) /\ Distinct(r)
  BY <1>0, <1>1, <1>2, AliveFinite DEF Sound
<1>12. Found(r, i, L, V, D)
  BY <1>1, <1>2, <1>4, <1>5, <1>6, <1>7, <1>8, <1>9, <1>10, <1>11 DEF Found
<1> QED
  BY <1>0, <1>12

(* Erase that puts the slot on the free list keeps its map sound.          *)
LEMMA ReuseSound ==
    ASSUME OwnInv, NEW m \in Live, NEW k \in Key, EraseReuses(m, k), NEW L,
           Sound(map[m], heap, L), Distinct(map[m]),
           NEW q \in MapRecord, q = [map[m] EXCEPT !.size = @ - 1, !.head = k.index]
    PROVE  /\ Sound(q, heap', L \union {k.index})
           /\ OneMoreAlive(View(q, heap'), View(map[m], heap))
<1>0. PICK r, i, V, D : r = map[m] /\ i = k.index /\ V = View(r, heap) /\ D = Reach(r)
  OBVIOUS
<1>1. Finds(m, k) /\ k.version < MaxVersion
  BY DEF EraseReuses
<1>2. Found(r, i, L, V, D) /\ IsHeap(heap)
  BY <1>0, <1>1, FoundIs DEF OwnInv, TypeInv
<1>3. PICK x : x = [ver |-> k.version + 1, val |-> Free, next |-> r.head]
  OBVIOUS
<1>3a. PICK d \in Nat : d = heap[SlabAt(r, i)].dead
  BY <1>2 DEF Found
<1>4. EditedAt(heap, heap', SlabAt(r, i), i % r.policy, x, d)
  <2>1. EditedAt(heap, heap', SlabAt(map[m], k.index), k.index % map[m].policy,
                 [ver |-> k.version + 1, val |-> Free, next |-> map[m].head],
                 heap[SlabAt(map[m], k.index)].dead)
    BY Zenon, <1>1, EraseEdits
  <2> QED
    BY <1>0, <1>3, <1>3a, <2>1
<1>5. /\ q.policy = r.policy /\ q.per = r.per /\ q.base = r.base /\ q.slabs = r.slabs
      /\ q.head = i
  BY <1>0, <1>2 DEF MapRecord, Found
<1>6. q.size = r.size - 1
  BY <1>0, <1>2 DEF MapRecord, Found
<1>7. x \in SlotRecord
  <2>1. r.head \in Nat /\ k.version + 1 \in 0 .. MaxVersion
    <3>1. r.head \in Nat
      BY <1>2 DEF Found, MapRecord
    <3> QED
      BY <1>1, <3>1, SizeFacts DEF Key
  <2> QED
    BY <1>3, <2>1 DEF SlotRecord
<1>8. PICK V2, L2 : V2 = [V EXCEPT ![i] = x] /\ L2 = L \union {i}
  OBVIOUS
<1>9. /\ Listed(V2, L2, q.head)
      /\ Alive(V2) = Alive(V) \ {i}
      /\ \A P \in SUBSET D : Lost(V2, L2, P) = Lost(V, L, P)
  <2>1. D \subseteq Index /\ V \in [D -> SlotRecord] /\ i \in D
        /\ Listed(V, L, r.head) /\ i \in Alive(V)
    BY <1>2 DEF Found
  <2>2. Written(D, V, i, Free, r.head, V2)
    BY <1>3, <1>8, <2>1 DEF Written
  <2>3. Pushes(D, V, L, i, V2)
    BY <2>1, <2>2, ListPush
  <2> QED
    BY <1>5, <1>8, <2>3 DEF Pushes
<1>10. q.size = Cardinality(Alive(V2))
  <2>1. /\ IsFiniteSet(Alive(V)) /\ r.size = Cardinality(Alive(V))
        /\ i \in Alive(V) /\ Alive(V2) = Alive(V) \ {i}
    BY <1>2, <1>9 DEF Found
  <2> QED
    BY Zenon, <1>6, <2>1, FS_RemoveElement
<1>11. d = Cardinality(Lost(V2, L2, Part(r, SlabIdx(r, i) + 1)))
  BY <1>2, <1>3a, <1>9 DEF Found
<1>12. \A P \in SUBSET Reach(r) : i \notin P => Lost(V2, L2, P) = Lost(V, L, P)
  BY <1>0, <1>9
<1>13. Follows(r, heap, L, i, x, d, heap', q, L2)
  BY Zenon, <1>0, <1>2, <1>4, <1>5, <1>7, <1>8, <1>9, <1>10, <1>11, <1>12 DEF Follows, Found
<1>14. Sound(q, heap', L2) /\ View(q, heap') = V2
  BY <1>0, <1>8, <1>13, EditSound
<1>15. OneMoreAlive(V2, V)
  <2>1. V \in [D -> SlotRecord] /\ i \in D /\ i \in Alive(V)
    BY <1>2 DEF Found
  <2>2. \A j \in Alive(V2) : V[j] = V2[j]
    BY <1>8, <1>9, <2>1 DEF Alive
  <2> QED
    BY <1>9, <2>1, <2>2 DEF OneMoreAlive
<1> QED
  BY <1>0, <1>8, <1>14, <1>15

(* Erase that retires the slot keeps its map sound, its slab still there.  *)
LEMMA RetireSound ==
    ASSUME OwnInv, NEW m \in Live, NEW k \in Key, Finds(m, k), NEW L,
           Sound(map[m], heap, L), Distinct(map[m]),
           heap' = [heap EXCEPT ![SlabAt(map[m], k.index)].dead = @ + 1,
                    ![SlabAt(map[m], k.index)].slot[k.index % map[m].policy].val = Free],
           NEW q \in MapRecord, q = [map[m] EXCEPT !.size = @ - 1, !.dead = @ + 1]
    PROVE  Sound(q, heap', L) /\ OneMoreAlive(View(q, heap'), View(map[m], heap))
<1>0. PICK r, i, V, D : r = map[m] /\ i = k.index /\ V = View(r, heap) /\ D = Reach(r)
  BY Zenon
<1>2. Found(r, i, L, V, D) /\ IsHeap(heap)
  BY <1>0, FoundIs DEF OwnInv, TypeInv
<1>3. PICK x : x = [V[i] EXCEPT !.val = Free]
  BY Zenon
<1>3a. PICK d \in Nat : d = heap[SlabAt(r, i)].dead + 1
  <2>1. heap[SlabAt(r, i)].dead \in Nat
    BY Zenon, <1>2 DEF Found
  <2>2. heap[SlabAt(r, i)].dead + 1 \in Nat
    BY ONLY <2>1
  <2> QED
    BY Zenon, <2>2
<1>4. EditedAt(heap, heap', SlabAt(r, i), i % r.policy, x, d)
  <2>1. EditedAt(heap, heap', SlabAt(map[m], k.index), k.index % map[m].policy,
                 [heap[SlabAt(map[m], k.index)].slot[k.index % map[m].policy]
                      EXCEPT !.val = Free],
                 heap[SlabAt(map[m], k.index)].dead + 1)
    BY Zenon, EraseEdits
  <2>2. V[i] = heap[SlabAt(r, i)].slot[i % r.policy]
    BY Zenon, <1>2 DEF Found
  <2> QED
    BY Zenon, <1>0, <1>3, <1>3a, <2>1, <2>2
<1>5. /\ q.policy = r.policy /\ q.per = r.per /\ q.base = r.base /\ q.slabs = r.slabs
      /\ q.head = r.head
  BY Zenon, <1>0, <1>2 DEF MapRecord, Found
<1>6. q.size = r.size - 1
  BY Zenon, <1>0, <1>2 DEF MapRecord, Found
<1>7. x \in SlotRecord
  BY Zenon, <1>2, <1>3 DEF SlotRecord, Found
<1>8. PICK V2 : V2 = [V EXCEPT ![i] = x]
  BY Zenon
<1>9. /\ Listed(V2, L, q.head)
      /\ Alive(V2) = Alive(V) \ {i}
      /\ \A P \in SUBSET D :
             /\ i \in P => Lost(V2, L, P) = Lost(V, L, P) \union {i}
             /\ i \notin P => Lost(V2, L, P) = Lost(V, L, P)
             /\ i \notin Lost(V, L, P)
  <2>1. D \subseteq Index /\ V \in [D -> SlotRecord] /\ i \in D
        /\ Listed(V, L, r.head) /\ i \in Alive(V)
    BY Zenon, <1>2 DEF Found
  <2>2. Written(D, V, i, Free, V[i].next, V2)
    BY Zenon, <1>3, <1>8, <2>1 DEF Written, SlotRecord
  <2>3. Retires(D, V, L, r.head, i, V2)
    BY Zenon, <2>1, <2>2, ListRetire
  <2> QED
    BY Zenon, <1>5, <2>3 DEF Retires
<1>10. q.size = Cardinality(Alive(V2))
  <2>1. /\ IsFiniteSet(Alive(V)) /\ r.size = Cardinality(Alive(V)) /\ i \in Alive(V)
        /\ Alive(V2) = Alive(V) \ {i}
    BY Zenon, <1>2, <1>9 DEF Found
  <2> QED
    BY Zenon, <1>6, <2>1, FS_RemoveElement
<1>11. d = Cardinality(Lost(V2, L, Part(r, SlabIdx(r, i) + 1)))
  <2>1. PICK P \in SUBSET D : P = Part(r, SlabIdx(r, i) + 1) /\ i \in P
    BY Zenon, <1>2 DEF Found
  <2>2. IsFiniteSet(Lost(V, L, P))
    <3>1. Lost(V, L, P) \subseteq Index
      BY Zenon, <1>2 DEF Lost, Found
    <3> QED
      BY Zenon, <3>1, FinitePart
  <2>3. Lost(V2, L, P) = Lost(V, L, P) \union {i} /\ i \notin Lost(V, L, P)
    BY Zenon, <1>9, <2>1
  <2>4. d = Cardinality(Lost(V, L, P)) + 1
    BY Zenon, <1>2, <1>3a, <2>1 DEF Found
  <2> QED
    <3>1. PICK A : A = Lost(V, L, P)
      BY Zenon
    <3>2. Cardinality(A \union {i}) = Cardinality(A) + 1
      BY <2>2, <2>3, <3>1, FS_AddElement
    <3> QED
      BY Zenon, <2>1, <2>3, <2>4, <3>1, <3>2
<1>12. \A P \in SUBSET Reach(r) : i \notin P => Lost(V2, L, P) = Lost(V, L, P)
  BY Zenon, <1>0, <1>9
<1>13. Follows(r, heap, L, i, x, d, heap', q, L)
  BY Zenon, <1>0, <1>2, <1>4, <1>5, <1>7, <1>8, <1>9, <1>10, <1>11, <1>12 DEF Follows, Found
<1>14. Sound(q, heap', L) /\ View(q, heap') = V2
  <2>1. Sound(q, heap', L) /\ View(q, heap') = [View(r, heap) EXCEPT ![i] = x]
    BY ONLY <1>13, EditSound
  <2> QED
    BY ONLY <1>0, <1>8, <2>1
<1>15. OneMoreAlive(V2, V)
  <2>1. V \in [D -> SlotRecord] /\ i \in D /\ i \in Alive(V)
    BY Zenon, <1>2 DEF Found
  <2>2. \A j \in Alive(V2) : V[j] = V2[j]
    BY ONLY <1>8, <1>9, <2>1 DEF Alive
  <2> QED
    BY ONLY <1>9, <2>1, <2>2 DEF OneMoreAlive
<1> QED
  BY Zenon, <1>0, <1>14, <1>15

(* Growing: the new range goes before the list.                            *)
LEMMA GrowSound ==
    ASSUME OwnInv, NEW m \in Live, CanAllocate(map[m]), NEW L, Sound(map[m], heap, L)
    PROVE  /\ Sound(Grown(map[m]), GrownHeap(map[m]),
                    L \union Part(map[m], Len(map[m].slabs) + 1))
           /\ SameAlive(View(map[m], heap), View(Grown(map[m]), GrownHeap(map[m])))
<1>0. PICK r, g, h, D, V, V2 :
          /\ r = map[m] /\ g = Grown(r) /\ h = GrownHeap(r)
          /\ D = Reach(r) /\ V = View(r, heap) /\ V2 = View(g, h)
  OBVIOUS
<1>1. /\ r \in MapRecord /\ IsHeap(heap) /\ Fits(r) /\ r.policy = r.per
      /\ Sound(r, heap, L) /\ CanAllocate(r)
  BY <1>0 DEF OwnInv, TypeInv, Sound, Fits
<1>2. PICK n \in Nat, p \in Nat \ {0}, b \in Nat :
          n = Len(r.slabs) /\ p = r.per /\ b = r.base
  BY <1>1, Positions, SizeFacts DEF MapRecord
<1>3. b = p * n /\ b + p <= MaxSlots /\ p * n = r.per * n
  <2>1. n * p = p * n
    BY Multiples
  <2>2. r.base + r.per <= MaxSlots
    BY Zenon, <1>1, GrownIs
  <2> QED
    BY <1>1, <1>2, <2>1, <2>2 DEF Fits
<1>4. PICK N : N = b .. b + p - 1
  OBVIOUS
<1>5. N \subseteq Index /\ Part(r, n + 1) = N
  <2>1. N \subseteq Index
    <3>1. b + p <= MaxSlots /\ MaxSlots \in Nat
      BY <1>3, SizeFacts
    <3>2. \A i \in b .. b + p - 1 : i \in 0 .. MaxSlots - 1
      BY ONLY <3>1, b \in Nat, p \in Nat
    <3> QED
      BY <1>4, <3>2 DEF Index
  <2>2. Part(r, n + 1) = (r.per * n .. r.per * n + r.per - 1) \intersect Index
    BY <1>1, PartIs
  <2> QED
    BY <1>2, <1>3, <1>4, <2>1, <2>2
<1>6. /\ g \in MapRecord /\ Fits(g) /\ g.policy = r.per /\ g.per = r.per /\ g.head = b
      /\ DOMAIN g.slabs = 1 .. n + 1 /\ g.slabs[n + 1] = Fresh
      /\ \A x \in 1 .. n : g.slabs[x] = r.slabs[x]
      /\ g.size = r.size
  <2>1. g \in MapRecord /\ Fits(g)
        /\ g = [r EXCEPT !.slabs = Append(r.slabs, Fresh), !.head = r.base,
                         !.base = r.base + r.per]
    BY Zenon, <1>0, <1>1, GrownIs
  <2>2. g.size = r.size
    BY <1>1, <2>1 DEF MapRecord
  <2> QED
    BY <1>0, <1>1, <1>2, <2>1, <2>2, GrownHead
<1>7. /\ DOMAIN h = DOMAIN heap \union {Fresh} /\ Fresh \notin DOMAIN heap /\ Fresh # Null
      /\ \A id \in DOMAIN heap : h[id] = heap[id]
      /\ h[Fresh] = NewSlab(b, p, r.head)
  BY <1>0, <1>1, <1>2, GrownHeapIs, FreshFacts DEF CanAllocate
<1>8. /\ V \in [D -> SlotRecord] /\ D \subseteq Index
      /\ \A x \in DOMAIN r.slabs : r.slabs[x] # Null => Part(r, x) \subseteq D
      /\ \A i \in D : SlabAt(r, i) \in DOMAIN heap
  BY <1>0, <1>1, ViewTyped
<1>9. \A i : SlabIdx(g, i) = SlabIdx(r, i)
  BY <1>1, <1>6 DEF SlabIdx
<1>10. \A x : Part(g, x) = Part(r, x)
  BY <1>9 DEF Part
<1>11. DOMAIN r.slabs = 1 .. n /\ DOMAIN g.slabs = 1 .. n + 1 /\ Len(g.slabs) = n + 1
  BY <1>1, <1>2, <1>6, Positions
<1>12. ASSUME NEW i \in Index
       PROVE  /\ i \in N => SlabAt(g, i) = Fresh /\ i \notin D /\ i % p = i - b
              /\ i \notin N => SlabAt(g, i) = SlabAt(r, i)
  <2>1. /\ SlabIdx(r, i) \in Nat /\ i % r.policy \in 0 .. r.per - 1
        /\ i = r.per * SlabIdx(r, i) + (i % r.policy)
        /\ i \in Part(r, SlabIdx(r, i) + 1)
    BY <1>1, Where
  <2>2. i \in N <=> SlabIdx(r, i) = n
    <3>1. i \in Part(r, n + 1) <=> SlabIdx(r, i) = n + 1 - 1
      BY DEF Part
    <3> QED
      BY <1>5, <3>1
  <2>3. CASE i \in N
    <3>1. SlabAt(g, i) = Fresh /\ SlabAt(r, i) = Null
      BY <1>2, <1>6, <1>9, <1>11, <2>2, <2>3 DEF SlabAt
    <3>2. i % p = i - b
      <4>1. PICK c \in 0 .. p - 1 : c = i % p
        BY <1>1, <1>2, <2>1
      <4>2. i = b + c
        BY <1>1, <1>2, <1>3, <2>1, <2>2, <2>3, <4>1
      <4> QED
        BY <4>1, <4>2
    <3> QED
      BY <1>0, <2>3, <3>1, <3>2 DEF Reach
  <2>4. CASE i \notin N
    <3>1. CASE SlabIdx(r, i) < n
      <4>1. SlabIdx(r, i) + 1 \in 1 .. n
        BY <2>1, <3>1
      <4> QED
        <5>1. SlabIdx(r, i) < Len(g.slabs) /\ SlabIdx(r, i) < Len(r.slabs)
          BY <1>2, <1>11, <2>1, <3>1
        <5>2. g.slabs[SlabIdx(r, i) + 1] = r.slabs[SlabIdx(r, i) + 1]
          BY <1>6, <4>1
        <5>3. SlabAt(g, i) = SlabAt(r, i)
          BY <1>9, <5>1, <5>2 DEF SlabAt
        <5> QED
          BY <2>4, <5>3
    <3>2. CASE SlabIdx(r, i) > n
      <4>1. ~(SlabIdx(r, i) < Len(g.slabs)) /\ ~(SlabIdx(r, i) < Len(r.slabs))
        BY <1>2, <1>11, <2>1, <3>2
      <4>2. SlabAt(g, i) = Null /\ SlabAt(r, i) = Null
        BY <1>9, <4>1 DEF SlabAt
      <4> QED
        BY <2>4, <4>2
    <3> QED
      BY <2>1, <2>2, <2>4, <3>1, <3>2
  <2> QED
    BY <2>3, <2>4
<1>13. DOMAIN V2 = D \union N /\ N \intersect D = {}
  <2>1. Reach(g) = D \union N
    BY <1>0, <1>5, <1>7, <1>12 DEF Reach
  <2> QED
    BY <1>0, <1>5, <1>12, <2>1 DEF View
<1>14. ASSUME NEW i \in D PROVE V2[i] = V[i]
  <2>1. i \in Index /\ i \notin N /\ SlabAt(g, i) = SlabAt(r, i) /\ SlabAt(r, i) \in DOMAIN heap
    BY <1>8, <1>12
  <2>2. i \in Reach(g)
    BY <1>0, <2>1 DEF Reach
  <2> QED
    BY <1>0, <1>1, <1>6, <1>7, <2>1, <2>2 DEF View
<1>15. ASSUME NEW i \in N
       PROVE  /\ V2[i].val = Free
              /\ V2[i].next = IF i < b + p - 1 THEN i + 1 ELSE r.head
  <2>1. i \in Index /\ SlabAt(g, i) = Fresh /\ i % p = i - b /\ i \in Int
    BY <1>5, <1>12, SizeFacts
  <2>2. PICK c \in 0 .. p - 1 : c = i - b /\ i = b + c
    BY <1>4, <2>1
  <2>3. i \in Reach(g)
    BY <1>7, <2>1 DEF Reach
  <2>4. V2[i] = h[Fresh].slot[c]
    BY <1>0, <1>2, <1>6, <2>1, <2>2, <2>3 DEF View
  <2>5. h[Fresh].slot[c].val = Free
        /\ h[Fresh].slot[c].next = IF c < p - 1 THEN b + c + 1 ELSE r.head
    BY <1>7, <2>2 DEF NewSlab
  <2> QED
    <3>1. c < p - 1 <=> i < b + p - 1
      BY <2>2
    <3>2. b + c + 1 = i + 1
      BY <2>2
    <3> QED
      BY <2>4, <2>5, <3>1, <3>2
<1>16. Longer(D, V, r.head, b, p, N, V2)
  BY <1>2, <1>4, <1>5, <1>8, <1>13, <1>14, <1>15 DEF Longer
<1>17. Listed(V, L, r.head)
  BY <1>0, <1>1 DEF Sound
<1>18. Grows(D, V, L, N, b, V2)
  BY <1>16, <1>17, ListGrow
<1>19. PICK L2 : L2 = L \union N
  OBVIOUS
<1>20. ASSUME NEW x \in DOMAIN g.slabs, g.slabs[x] # Null
       PROVE  /\ g.slabs[x] \in DOMAIN h /\ h[g.slabs[x]].per = g.per
              /\ h[g.slabs[x]].dead = Cardinality(Lost(V2, L2, Part(g, x)))
  <2>1. CASE x = n + 1
    <3>1. g.slabs[x] = Fresh /\ Part(g, x) = N
      BY <1>5, <1>6, <1>10, <2>1
    <3>2. Lost(V2, L2, N) = {}
      BY <1>18, <1>19 DEF Grows
    <3>3. h[Fresh].per = p /\ h[Fresh].dead = 0
      BY <1>7 DEF NewSlab
    <3> QED
      BY <1>2, <1>6, <1>7, <3>1, <3>2, <3>3, FS_EmptySet
  <2>2. CASE x # n + 1
    <3>1. x \in DOMAIN r.slabs /\ g.slabs[x] = r.slabs[x]
      BY <1>6, <1>11, <2>2
    <3>2. /\ r.slabs[x] \in DOMAIN heap /\ heap[r.slabs[x]].per = r.per
          /\ heap[r.slabs[x]].dead = Cardinality(Lost(V, L, Part(r, x)))
      BY <1>0, <1>1, <1>20, <3>1 DEF Sound
    <3>3. Lost(V2, L2, Part(r, x)) = Lost(V, L, Part(r, x))
      BY <1>8, <1>18, <1>19, <1>20, <3>1 DEF Grows
    <3> QED
      BY <1>6, <1>7, <1>10, <3>1, <3>2, <3>3
  <2> QED
    BY <2>1, <2>2
<1>21. g.size = Cardinality(Alive(V2)) /\ Listed(V2, L2, g.head)
  BY <1>0, <1>1, <1>6, <1>18, <1>19 DEF Grows, Sound
<1>22. Sound(g, h, L2)
  BY <1>0, <1>6, <1>20, <1>21 DEF Sound
<1>23. SameAlive(V, V2)
  <2>1. Alive(V2) = Alive(V)
    BY <1>8, <1>13, <1>14, <1>15 DEF Alive
  <2> QED
    BY <1>8, <1>14, <2>1 DEF SameAlive, Alive
<1> QED
  BY <1>0, <1>2, <1>5, <1>19, <1>22, <1>23

(* Deleting a slab: all of it but the slot just erased was lost.           *)
LEMMA DeleteSound ==
    ASSUME OwnInv, NEW m \in Live, NEW k \in Key, Finds(m, k), NEW L,
           Sound(map[m], heap, L), Distinct(map[m]), NEW id,
           id = SlabAt(map[m], k.index), heap[id].dead + 1 = heap[id].per,
           heap' = Without(heap, {id}), NEW n, n = SlabIdx(map[m], k.index) + 1,
           NEW q \in MapRecord, q.slabs = [map[m].slabs EXCEPT ![n] = Null],
           q.policy = map[m].policy, q.per = map[m].per, q.base = map[m].base,
           q.head = map[m].head, q.size = map[m].size - 1, Fits(q)
    PROVE  Sound(q, heap', L) /\ OneMoreAlive(View(q, heap'), View(map[m], heap))
<1>0. PICK r, i, V, D, P : /\ r = map[m] /\ i = k.index /\ V = View(r, heap)
                           /\ D = Reach(r) /\ P = Part(r, n)
  OBVIOUS
<1>1. Found(r, i, L, V, D)
  BY <1>0, FoundIs
<1>2. /\ r \in MapRecord /\ Sound(r, heap, L) /\ Distinct(r) /\ r.policy = r.per
      /\ V \in [D -> SlotRecord] /\ D \subseteq Index /\ Listed(V, L, r.head)
      /\ i \in Alive(V) /\ i \in P /\ i \in D /\ n \in DOMAIN r.slabs
      /\ id = r.slabs[n] /\ id # Null /\ P \subseteq D
      /\ heap[id].dead \in Nat /\ heap[id].dead = Cardinality(Lost(V, L, P))
      /\ IsFiniteSet(Alive(V)) /\ r.size = Cardinality(Alive(V))
  BY Zenon, <1>0, <1>1 DEF Found, Sound, Fits
<1>3. P = Lost(V, L, P) \union {i}
  <2>0. r.per \in Nat \ {0}
    <3>1. r \in MapRecord
      BY <1>2
    <3> QED
      BY ONLY <3>1, RecordIs
  <2>1. PICK p \in Nat \ {0} : p = r.per
    BY <2>0
  <2>2. PICK x \in Nat : n = x + 1
    <3>1. n \in Nat /\ n >= 1
      BY <1>2, Positions
    <3>2. n - 1 \in Nat /\ n = (n - 1) + 1
      BY <3>1
    <3> QED
      BY <3>2
  <2>3. PICK b \in Nat : b = p * x /\ b = r.per * x
    BY <2>1, Multiples
  <2>4. P \subseteq b .. b + p - 1
    <3>1. P = (r.per * x .. r.per * x + r.per - 1) \intersect Index
      BY <1>0, <1>2, <2>2, PartIs
    <3> QED
      BY <2>1, <2>3, <3>1
  <2>5. IsFiniteSet(b .. b + p - 1) /\ Cardinality(b .. b + p - 1) = p
    <3>1. b \in Int /\ b + p - 1 \in Int /\ b <= b + p - 1 /\ (b + p - 1) - b + 1 = p
      OBVIOUS
    <3> QED
      BY <3>1, FS_Interval
  <2>6. Lost(V, L, P) \subseteq P /\ i \notin Lost(V, L, P)
    BY <1>2 DEF Lost, Alive
  <2>7. PICK Q : Q = Lost(V, L, P) \union {i}
    OBVIOUS
  <2>8. Q \subseteq b .. b + p - 1 /\ Q \subseteq P
    BY <1>2, <2>4, <2>6, <2>7
  <2>9. Cardinality(Q) = p
    <3>1. IsFiniteSet(Lost(V, L, P))
      BY <2>4, <2>5, <2>6, FS_Subset
    <3>2. Cardinality(Q) = Cardinality(Lost(V, L, P)) + 1
      BY <2>6, <2>7, <3>1, FS_AddElement
    <3>3. heap[id].per = r.per
      BY <1>2 DEF Sound
    <3> QED
      BY <1>2, <2>1, <3>2, <3>3
  <2>10. Q = b .. b + p - 1
    BY <2>5, <2>8, <2>9, FS_Subset
  <2> QED
    BY <2>4, <2>7, <2>8, <2>10
<1>4. L \subseteq D \ P /\ \A y \in P \ {i} : V[y].val = Free
  BY <1>2, <1>3 DEF Lost, Listed, Alive
<1>5. DOMAIN q.slabs = DOMAIN r.slabs /\ q.slabs[n] = Null
      /\ \A x \in DOMAIN r.slabs \ {n} : q.slabs[x] = r.slabs[x]
  BY <1>0, <1>2
<1>6. /\ q.policy = r.policy /\ q.per = r.per /\ q.base = r.base
      /\ q.head = r.head /\ q.size = r.size - 1
      /\ \A y : SlabIdx(q, y) = SlabIdx(r, y)
  BY <1>0 DEF SlabIdx
<1>7. \A x : Part(q, x) = Part(r, x)
  BY <1>6 DEF Part
<1>8. Len(q.slabs) = Len(r.slabs) /\ Len(r.slabs) \in Nat /\ n \in Nat
      /\ DOMAIN r.slabs = 1 .. Len(r.slabs)
  BY <1>2, <1>5, Positions
<1>9. ASSUME NEW y \in Index
      PROVE  SlabAt(q, y) = IF y \in P THEN Null ELSE SlabAt(r, y)
  <2>1. y \in P <=> SlabIdx(r, y) = n - 1
    BY <1>0 DEF Part
  <2>2. SlabIdx(r, y) \in Nat
    BY <1>2, Where
  <2>3. CASE y \in P
    BY <1>5, <1>6, <1>8, <2>1, <2>2, <2>3 DEF SlabAt
  <2>4. CASE y \notin P
    <3>1. CASE SlabIdx(r, y) < Len(r.slabs)
      <4>1. SlabIdx(r, y) + 1 \in DOMAIN r.slabs \ {n}
        BY <1>8, <2>1, <2>2, <2>4, <3>1
      <4> QED
        BY <1>5, <1>6, <1>8, <2>4, <3>1, <4>1 DEF SlabAt
    <3>2. CASE ~(SlabIdx(r, y) < Len(r.slabs))
      BY <1>6, <1>8, <2>4, <3>2 DEF SlabAt
    <3> QED
      BY <3>1, <3>2
  <2> QED
    BY <2>3, <2>4
<1>10. Reach(q) = D \ P
  BY <1>0, <1>9 DEF Reach
<1>11. DOMAIN heap' = DOMAIN heap \ {id} /\ \A x \in DOMAIN heap \ {id} : heap'[x] = heap[x]
  BY DEF Without
<1>12. ASSUME NEW x \in DOMAIN r.slabs, x # n, r.slabs[x] # Null
       PROVE  /\ r.slabs[x] \in DOMAIN heap \ {id}
              /\ Part(r, x) \in SUBSET (D \ P)
  <2>1. r.slabs[x] \in DOMAIN heap /\ r.slabs[x] # id
    BY <1>2, <1>12 DEF Sound, Distinct
  <2>2. Part(r, x) \subseteq D
    BY <1>0, <1>2, <1>12, ViewTyped DEF OwnInv, TypeInv
  <2>3. Part(r, x) \intersect P = {}
    <3>1. x \in Nat /\ n \in Nat
      BY <1>8
    <3>2. x - 1 # n - 1
      BY <1>12, <3>1
    <3> QED
      BY <1>0, <3>2 DEF Part
  <2> QED
    BY <2>1, <2>2, <2>3
<1>13. PICK V2 : V2 = View(q, heap')
  OBVIOUS
<1>14. DOMAIN V2 = D \ P
  BY <1>10, <1>13 DEF View
<1>15. ASSUME NEW y \in D \ P PROVE V2[y] = V[y]
  <2>1. y \in Index /\ SlabAt(q, y) = SlabAt(r, y) /\ SlabAt(r, y) # Null
    BY <1>0, <1>2, <1>9 DEF Reach
  <2>2. /\ SlabIdx(r, y) + 1 \in DOMAIN r.slabs
        /\ SlabAt(r, y) = r.slabs[SlabIdx(r, y) + 1] /\ SlabIdx(r, y) \in Nat
    BY <1>2, <2>1, Where
  <2>3. SlabIdx(r, y) + 1 # n
    <3>1. y \notin P
      OBVIOUS
    <3>2. SlabIdx(r, y) # n - 1
      BY <1>0, <2>1, <3>1 DEF Part
    <3> QED
      BY <1>8, <2>2, <3>2
  <2>4. SlabAt(r, y) \in DOMAIN heap \ {id}
    BY <1>12, <2>1, <2>2, <2>3
  <2>5. heap'[SlabAt(r, y)] = heap[SlabAt(r, y)]
    BY <1>11, <2>4
  <2>6. V2[y] = heap'[SlabAt(q, y)].slot[y % q.policy]
    BY <1>10, <1>13 DEF View
  <2>7. V[y] = heap[SlabAt(r, y)].slot[y % r.policy]
    BY <1>0 DEF View
  <2> QED
    BY <1>6, <2>1, <2>5, <2>6, <2>7
<1>16. Listed(V2, L, q.head)
  BY <1>2, <1>4, <1>6, <1>14, <1>15 DEF Listed
<1>17. Alive(V2) = Alive(V) \ {i}
  BY <1>2, <1>4, <1>14, <1>15 DEF Alive
<1>18. q.size = Cardinality(Alive(V2))
  <2>1. PICK A : A = Alive(V)
    OBVIOUS
  <2>2. IsFiniteSet(A) /\ i \in A /\ r.size = Cardinality(A)
    BY <1>2, <2>1
  <2>3. Cardinality(A \ {i}) = Cardinality(A) - 1
    BY <2>2, FS_RemoveElement
  <2> QED
    BY <1>6, <1>17, <2>1, <2>2, <2>3
<1>19. ASSUME NEW x \in DOMAIN q.slabs, q.slabs[x] # Null
       PROVE  /\ q.slabs[x] \in DOMAIN heap' /\ heap'[q.slabs[x]].per = q.per
              /\ heap'[q.slabs[x]].dead = Cardinality(Lost(V2, L, Part(q, x)))
  <2>1. x \in DOMAIN r.slabs /\ x # n /\ q.slabs[x] = r.slabs[x] /\ r.slabs[x] # Null
    BY <1>5, <1>19
  <2>2. r.slabs[x] \in DOMAIN heap \ {id} /\ Part(r, x) \in SUBSET (D \ P)
    BY <1>12, <2>1
  <2>3. /\ heap[r.slabs[x]].per = r.per
        /\ heap[r.slabs[x]].dead = Cardinality(Lost(V, L, Part(r, x)))
    BY <1>0, <1>2, <2>1 DEF Sound
  <2>4. Lost(V2, L, Part(r, x)) = Lost(V, L, Part(r, x))
    BY <1>15, <2>2 DEF Lost
  <2>5. PICK y : y = r.slabs[x]
    OBVIOUS
  <2>6. q.slabs[x] = y /\ y \in DOMAIN heap \ {id}
    BY <2>1, <2>2, <2>5
  <2>7. y \in DOMAIN heap' /\ heap'[y] = heap[y]
    BY <1>11, <2>6
  <2>8. Part(q, x) = Part(r, x)
    BY <1>7
  <2>9. heap[y].per = q.per
    BY <1>6, <2>3, <2>5
  <2>10. heap[y].dead = Cardinality(Lost(V2, L, Part(q, x)))
    BY <2>3, <2>4, <2>5, <2>8
  <2> QED
    BY ONLY <2>6, <2>7, <2>9, <2>10
<1>20. Sound(q, heap', L)
  BY <1>13, <1>16, <1>18, <1>19 DEF Sound
<1>21. OneMoreAlive(V2, V)
  <2>1. \A j \in Alive(V2) : V[j] = V2[j]
    BY <1>14, <1>15 DEF Alive
  <2> QED
    BY <1>2, <1>17, <2>1 DEF OneMoreAlive
<1> QED
  BY <1>0, <1>13, <1>20, <1>21

-----------------------------------------------------------------------------
(* The members of every complete map go with its slabs.                    *)

(* A map whose slabs stay as they are stays sound.                         *)
LEMMA StaysSound ==
    ASSUME NEW r \in MapRecord, NEW g, NEW h, NEW L, Sound(r, g, L),
           \A n \in DOMAIN r.slabs : r.slabs[n] # Null =>
               r.slabs[n] \in DOMAIN h /\ h[r.slabs[n]] = g[r.slabs[n]]
    PROVE  Sound(r, h, L) /\ View(r, h) = View(r, g)
<1>1. r = [r EXCEPT !.slabs = r.slabs]
  BY DEF MapRecord
<1>2. \A n \in DOMAIN r.slabs : AlikeAt(r, g, r, h, n)
  BY DEF AlikeAt
<1> QED
  BY <1>1, <1>2, SameSound

(* The free list of a map holds indices.                                   *)
LEMMA ListOfIndices ==
    ASSUME NEW r, NEW h, NEW L, Sound(r, h, L)
    PROVE  L \in SUBSET Index
BY Zenon DEF Sound, Listed, View, Reach

(* A finished copy is as sound as its source, and its slots equal those.   *)
LEMMA CopySound ==
    ASSUME OwnInv, MapsSound, busy # <<>>, Copied = Len(Source)
    PROVE  /\ \E L : Sound(map[Target], heap, L)
           /\ View(map[Target], heap) = View(map[busy[2]], heap)
<1>1. PICK m, s : m = Target /\ s = busy[2]
  OBVIOUS
<1>2. /\ m \in Live /\ s \in Live /\ m # s
      /\ map[m] = [map[s] EXCEPT !.slabs = map[m].slabs]
      /\ \A n \in 1 .. Copied : AlikeAt(map[s], heap, map[m], heap, n)
  BY <1>1 DEF OwnInv, CopyInv
<1>3. Len(map[m].slabs) = Len(map[s].slabs) /\ Copied = Len(map[s].slabs)
  BY <1>1 DEF Copied, Source
<1>4. map[m] \in MapRecord /\ map[s] \in MapRecord
  BY <1>2 DEF OwnInv, TypeInv
<1>5. PICK L : Sound(map[s], heap, L)
  BY <1>1, <1>2 DEF MapsSound, Complete
<1>6. \A n \in DOMAIN map[s].slabs : AlikeAt(map[s], heap, map[m], heap, n)
  BY <1>2, <1>3, <1>4, Positions
<1>7. \A n \in DOMAIN map[m].slabs :
          map[m].slabs[n] # Null => map[m].slabs[n] \in DOMAIN heap
  BY <1>2 DEF OwnInv, Own, Live
<1>8. Sound(map[m], heap, L) /\ View(map[m], heap) = View(map[s], heap)
  <2>1. PICK r \in MapRecord, q \in MapRecord : r = map[s] /\ q = map[m]
    BY <1>4
  <2>2. /\ Sound(r, heap, L) /\ q = [r EXCEPT !.slabs = q.slabs]
        /\ Len(q.slabs) = Len(r.slabs)
        /\ \A n \in DOMAIN r.slabs : AlikeAt(r, heap, q, heap, n)
        /\ \A n \in DOMAIN q.slabs : q.slabs[n] # Null => q.slabs[n] \in DOMAIN heap
    BY <1>2, <1>3, <1>5, <1>6, <1>7, <2>1
  <2>3. Sound(q, heap, L) /\ View(q, heap) = View(r, heap)
    BY ONLY <2>2, r \in MapRecord, q \in MapRecord, SameSound
  <2> QED
    BY <2>1, <2>3
<1> QED
  BY <1>1, <1>8

(* So every map that is whole is sound.                                    *)
LEMMA WholeSound ==
    ASSUME OwnInv, MapsSound, NEW m \in Live, Whole(m)
    PROVE  \E L : Sound(map[m], heap, L)
<1>1. CASE Complete(m)
  BY <1>1 DEF MapsSound
<1>2. CASE ~Complete(m)
  BY <1>2, CopySound DEF Complete, Whole
<1> QED
  BY <1>1, <1>2

(* Handing maps around leaves every complete map sound.                    *)
LEMMA HandedSound ==
    ASSUME OwnInv, MapsSound, NEW D, NEW f, NEW freed, Handed(D, f, freed)
    PROVE  MapsSound'
<1>1. /\ TypeInv' /\ Own(map, DOMAIN heap)'
      /\ \A id \in DOMAIN heap' : id \in DOMAIN heap /\ heap'[id] = heap[id]
  BY HandedOwns DEF OwnInv
<1>2. ASSUME NEW m \in Live', Complete(m)'
      PROVE  \E L \in SUBSET Index : Sound(map'[m], heap', L)
  <2>0. map'[m] \in MapRecord
    BY <1>1 DEF TypeInv
  <2>1. CASE m \in D
    <3>1. f[m] \in Live /\ Whole(f[m]) /\ map'[m] = map[f[m]]
      BY <2>1 DEF Handed
    <3>2. PICK L : Sound(map'[m], heap, L)
      BY <3>1, WholeSound
    <3>3. \A n \in DOMAIN map'[m].slabs : map'[m].slabs[n] # Null =>
              /\ map'[m].slabs[n] \in DOMAIN heap'
              /\ heap'[map'[m].slabs[n]] = heap[map'[m].slabs[n]]
      BY <1>1 DEF Own, Live
    <3> QED
      BY <2>0, <3>2, <3>3, StaysSound, ListOfIndices
  <2>2. CASE m \notin D
    <3>1. Blank(map'[m])
      BY <1>2, <2>2 DEF Handed
    <3> QED
      BY <2>0, <3>1, BlankSound
  <2> QED
    BY <2>1, <2>2
<1>3. \A m \in Live' : Complete(m)' => \E L \in SUBSET Index : Sound(map'[m], heap', L)
  BY <1>2
<1> QED
  BY <1>3 DEF MapsSound

(* A call that leaves map m with the members q, and writes no slab that    *)
(* another map had.                                                        *)
Alters(m, q) ==
    /\ busy = <<>> /\ map' = [map EXCEPT ![m] = q] /\ \E L : Sound(q, heap', L)
    /\ \A id \in DOMAIN heap : id \in DOMAIN heap' =>
           heap'[id] = heap[id] \/ \E n \in DOMAIN map[m].slabs : map[m].slabs[n] = id

(* The slabs of the other maps stay as they are.                           *)
LEMMA OthersStay ==
    ASSUME OwnInv, OwnInv', NEW m \in Live, NEW q, Alters(m, q),
           NEW x \in Live, x # m, NEW n \in DOMAIN map[x].slabs, map[x].slabs[n] # Null
    PROVE  /\ map[x].slabs[n] \in DOMAIN heap'
           /\ heap'[map[x].slabs[n]] = heap[map[x].slabs[n]]
<1>1. x \in Live' /\ map'[x] = map[x]
  BY DEF Live, Alters
<1>2. map[x].slabs[n] \in DOMAIN heap
  BY DEF OwnInv, Own, Live
<1>3. map[x].slabs[n] \in DOMAIN heap'
  BY <1>1 DEF OwnInv, Own, Live
<1>4. \A y \in DOMAIN map[m].slabs : map[m].slabs[y] # map[x].slabs[n]
  BY DEF OwnInv, Own, Live
<1> QED
  BY <1>2, <1>3, <1>4 DEF Alters

(* A call that edits one map, its own slabs and new ones leaves the others *)
(* as sound as they were.                                                  *)
LEMMA OneEdited ==
    ASSUME OwnInv, MapsSound, OwnInv', NEW m \in Live, NEW q, Alters(m, q)
    PROVE  MapsSound'
<1>1. Live' = Live /\ map'[m] = q /\ \A x \in Live \ {m} : map'[x] = map[x]
  BY DEF Live, Alters
<1>2. ASSUME NEW x \in Live, x # m
      PROVE  \E M \in SUBSET Index : Sound(map'[x], heap', M)
  <2>1. PICK M : Sound(map[x], heap, M)
    BY DEF MapsSound, Complete, Alters
  <2>2. map[x] \in MapRecord /\ map'[x] = map[x]
    BY <1>1, <1>2 DEF OwnInv, TypeInv
  <2>3. \A n \in DOMAIN map[x].slabs : map[x].slabs[n] # Null =>
            /\ map[x].slabs[n] \in DOMAIN heap'
            /\ heap'[map[x].slabs[n]] = heap[map[x].slabs[n]]
    BY <1>2, OthersStay
  <2>4. Sound(map[x], heap', M)
    BY <2>1, <2>2, <2>3, StaysSound
  <2> QED
    BY <2>2, <2>4, ListOfIndices
<1>3. \E M \in SUBSET Index : Sound(map'[m], heap', M)
  BY <1>1, ListOfIndices DEF Alters
<1>4. \A x \in Live' : \E M \in SUBSET Index : Sound(map'[x], heap', M)
  BY <1>1, <1>2, <1>3
<1> QED
  BY <1>4 DEF MapsSound

(* No map holds a slab twice.                                              *)
LEMMA EachDistinct ==
    ASSUME OwnInv, NEW m \in Live
    PROVE  Distinct(map[m])
BY DEF OwnInv, Own, Distinct, Live

(* reserve alters the map it grows, and none of its live slots.            *)
LEMMA ReserveAlters ==
    ASSUME OwnInv, MapsSound, NEW m \in Live, Reserve(m)
    PROVE  \E q : /\ Alters(m, q) /\ q.created = map[m].created
                  /\ SameAlive(View(map[m], heap), View(q, heap'))
<1>1. /\ busy = <<>> /\ CanAllocate(map[m]) /\ map' = [map EXCEPT ![m] = Grown(map[m])]
      /\ heap' = GrownHeap(map[m]) /\ map[m] \in MapRecord
  BY DEF Reserve, OwnInv, TypeInv
<1>2. PICK L : Sound(map[m], heap, L)
  BY <1>1 DEF MapsSound, Complete
<1>3. PICK M : M = L \union Part(map[m], Len(map[m].slabs) + 1)
  OBVIOUS
<1>4. /\ Sound(Grown(map[m]), heap', M)
      /\ SameAlive(View(map[m], heap), View(Grown(map[m]), heap'))
  BY <1>1, <1>2, <1>3, GrowSound
<1>5. \A id \in DOMAIN heap : heap'[id] = heap[id]
  BY <1>1, GrownHeapIs
<1>6. Alters(m, Grown(map[m]))
  BY <1>1, <1>4, <1>5 DEF Alters
<1>7. Grown(map[m]).created = map[m].created
  BY <1>1 DEF Grown, MapRecord
<1> QED
  BY <1>4, <1>6, <1>7

(* emplace alters one map, with a new slab or without: one slot more is    *)
(* alive in it.                                                            *)
LEMMA EmplaceAlters ==
    ASSUME OwnInv, MapsSound, NEW m \in Live, NEW v \in Values, Emplace(m, v)
    PROVE  \E q : /\ Alters(m, q) /\ q.created = map[m].created + 1
                  /\ OneMoreAlive(View(map[m], heap), View(q, heap'))
<1>1. busy = <<>>
  BY DEF Emplace
<1>2. map[m] \in MapRecord /\ IsHeap(heap) /\ Distinct(map[m]) /\ Fits(map[m])
  BY <1>1, EachDistinct DEF OwnInv, TypeInv, AllFit, Complete
<1>3. PICK L : Sound(map[m], heap, L)
  BY <1>1 DEF MapsSound, Complete
<1>4. CASE /\ map[m].head = End /\ CanAllocate(map[m])
           /\ Construct(m, Grown(map[m]), GrownHeap(map[m]), v)
  <2>1. PICK r, h : r = Grown(map[m]) /\ h = GrownHeap(map[m])
    OBVIOUS
  <2>2. /\ r \in MapRecord /\ IsHeap(h) /\ DOMAIN h = DOMAIN heap \union {Fresh}
        /\ \A id \in DOMAIN heap : h[id] = heap[id]
    BY Zenon, <1>2, <1>4, <2>1, GrownIs, GrownHeapIs
  <2>3. PICK n \in Nat : n = Len(map[m].slabs)
    BY <1>2, Positions
  <2>4. PICK M : M = L \union Part(map[m], n + 1)
    OBVIOUS
  <2>5. Sound(r, h, M) /\ SameAlive(View(map[m], heap), View(r, h))
    BY <1>3, <1>4, <2>1, <2>3, <2>4, GrowSound
  <2>6. /\ r.head = map[m].base /\ SlabAt(r, r.head) = Fresh
        /\ DOMAIN r.slabs = 1 .. n + 1 /\ r.slabs[n + 1] = Fresh
        /\ \A x \in 1 .. n : r.slabs[x] = map[m].slabs[x]
        /\ r.head \in Index
    BY <1>2, <1>4, <2>1, <2>3, GrownHead
  <2>7. Fresh \notin DOMAIN heap /\ r.head # End
    BY <1>4, <2>6, FreshFacts, SizeFacts DEF CanAllocate
  <2>8. Distinct(r)
    <3>1. DOMAIN map[m].slabs = 1 .. n
      BY <1>2, <2>3, Positions
    <3>2. \A x \in 1 .. n : r.slabs[x] # Fresh
      BY <2>6, <2>7, <3>1, FreshFacts, <1>4 DEF OwnInv, Own, Live, CanAllocate
    <3>3. \A x \in DOMAIN r.slabs : x = n + 1 \/ x \in 1 .. n
      BY <2>6
    <3> QED
      BY <1>2, <2>6, <3>1, <3>2, <3>3 DEF Distinct
  <2>9. Construct(m, r, h, v)
    BY <1>4, <2>1
  <2>10. /\ Sound(Popped(r, h), heap', M \ {r.head})
         /\ OneMoreAlive(View(r, h), View(Popped(r, h), heap'))
    BY <2>2, <2>5, <2>7, <2>8, <2>9, ConstructSound
  <2>11. /\ map' = [map EXCEPT ![m] = Popped(r, h)]
         /\ DOMAIN heap' = DOMAIN h
         /\ \A id \in DOMAIN h \ {Fresh} : heap'[id] = h[id]
    <3>1. SlabAt(r, r.head) \in DOMAIN h
      BY <2>2, <2>6
    <3>2. /\ EditedAt(h, heap', SlabAt(r, r.head), r.head % r.policy,
                  [h[SlabAt(r, r.head)].slot[r.head % r.policy] EXCEPT !.val = v],
                  h[SlabAt(r, r.head)].dead)
          /\ map' = [map EXCEPT ![m] = Popped(r, h)]
      BY <2>2, <2>9, <3>1, ConstructEdits
    <3> QED
      BY <2>6, <3>2 DEF EditedAt
  <2>12. \A id \in DOMAIN heap : heap'[id] = heap[id]
    BY <2>2, <2>7, <2>11
  <2>13. Alters(m, Popped(r, h))
    BY <1>1, <2>10, <2>11, <2>12 DEF Alters
  <2>14. Popped(r, h).created = map[m].created + 1
    <3>1. r.created = map[m].created
      BY <1>2, <2>1 DEF Grown, MapRecord
    <3> QED
      BY <2>2, <3>1 DEF Popped, MapRecord
  <2>15. OneMoreAlive(View(map[m], heap), View(Popped(r, h), heap'))
    <3>1. PICK V, V1, V2 : V = View(map[m], heap) /\ V1 = View(r, h)
                           /\ V2 = View(Popped(r, h), heap')
      OBVIOUS
    <3>2. SameAlive(V, V1) /\ OneMoreAlive(V1, V2)
      BY <2>5, <2>10, <3>1
    <3>3. OneMoreAlive(V, V2)
      BY <3>2 DEF SameAlive, OneMoreAlive
    <3> QED
      BY <3>1, <3>3
  <2> QED
    BY <2>13, <2>14, <2>15
<1>5. CASE map[m].head # End /\ Construct(m, map[m], heap, v)
  <2>1. PICK r, id : r = map[m] /\ id = SlabAt(r, r.head)
    OBVIOUS
  <2>2. /\ id \in DOMAIN heap
        /\ \E n \in DOMAIN r.slabs : r.slabs[n] = id
    <3>1. r.head \in Nat /\ SlabAt(r, r.head) # Null
      BY Zenon, <1>2, <1>5, <2>1 DEF Construct, MapRecord
    <3> QED
      BY <2>1, <3>1, InHeap
  <2>3. /\ Sound(Popped(r, heap), heap', L \ {r.head})
        /\ OneMoreAlive(View(r, heap), View(Popped(r, heap), heap'))
    BY <1>2, <1>3, <1>5, <2>1, ConstructSound
  <2>4. /\ map' = [map EXCEPT ![m] = Popped(r, heap)]
        /\ \A x \in DOMAIN heap \ {id} : heap'[x] = heap[x]
    <3>1. SlabAt(r, r.head) \in DOMAIN heap /\ r \in MapRecord
          /\ Construct(m, r, heap, v)
      BY <1>2, <1>5, <2>1, <2>2
    <3>2. /\ EditedAt(heap, heap', SlabAt(r, r.head), r.head % r.policy,
                  [heap[SlabAt(r, r.head)].slot[r.head % r.policy] EXCEPT !.val = v],
                  heap[SlabAt(r, r.head)].dead)
          /\ map' = [map EXCEPT ![m] = Popped(r, heap)]
      BY <1>2, <3>1, ConstructEdits
    <3> QED
      BY Zenon, <2>1, <3>2 DEF EditedAt
  <2>5. \A x \in DOMAIN heap : x \in DOMAIN heap' =>
            heap'[x] = heap[x] \/ \E n \in DOMAIN map[m].slabs : map[m].slabs[n] = x
    BY <2>1, <2>2, <2>4
  <2>6. Alters(m, Popped(r, heap))
    BY <1>1, <2>3, <2>4, <2>5 DEF Alters
  <2>7. Popped(r, heap).created = map[m].created + 1
    BY <1>2, <2>1 DEF Popped, MapRecord
  <2> QED
    BY <2>1, <2>3, <2>6, <2>7
<1> QED
  BY <1>4, <1>5 DEF Emplace

(* So does an erase whose slot is reused; one slot less is alive.          *)
LEMMA EraseReusesAlters ==
    ASSUME OwnInv, MapsSound, NEW m \in Live, NEW k \in Key, EraseReuses(m, k)
    PROVE  \E q : /\ Alters(m, q) /\ q.created = map[m].created
                  /\ OneMoreAlive(View(q, heap'), View(map[m], heap))
<1>1. busy = <<>> /\ Finds(m, k)
  BY DEF EraseReuses
<1>2. map[m] \in MapRecord /\ Distinct(map[m])
  BY <1>1, EachDistinct DEF OwnInv, TypeInv
<1>3. PICK L : Sound(map[m], heap, L)
  BY <1>1 DEF MapsSound, Complete
<1>4. PICK q : q = [map[m] EXCEPT !.size = @ - 1, !.head = k.index]
  OBVIOUS
<1>5. q \in MapRecord
  <2>1. map[m].size - 1 \in Int /\ k.index \in Nat
    BY <1>2, RecordIs, SizeFacts DEF Key
  <2> QED
    BY <1>2, <1>4, <2>1, Members
<1>6. /\ Sound(q, heap', L \union {k.index})
      /\ OneMoreAlive(View(q, heap'), View(map[m], heap))
  BY Zenon, <1>2, <1>3, <1>4, <1>5, ReuseSound
<1>7. PICK id : id = SlabAt(map[m], k.index)
  OBVIOUS
<1>8. \A x \in DOMAIN heap \ {id} : heap'[x] = heap[x]
  BY Zenon, <1>1, <1>7, EraseEdits DEF EditedAt
<1>9. \E n \in DOMAIN map[m].slabs : map[m].slabs[n] = id
  BY <1>1, <1>7, InHeap, SizeFacts DEF Finds, HasSlot, Key
<1>10. \A x \in DOMAIN heap : x \in DOMAIN heap' =>
           heap'[x] = heap[x] \/ \E n \in DOMAIN map[m].slabs : map[m].slabs[n] = x
  BY <1>8, <1>9
<1>11. map' = [map EXCEPT ![m] = q]
  BY <1>4 DEF EraseReuses
<1>12. q.created = map[m].created
  BY <1>2, <1>4 DEF MapRecord
<1>13. Alters(m, q)
  BY Zenon, <1>1, <1>6, <1>10, <1>11 DEF Alters
<1> QED
  BY <1>6, <1>12, <1>13

(* So does one whose slot is retired, and its slab with it when it was the *)
(* last one left.                                                          *)
LEMMA EraseRetiresAlters ==
    ASSUME OwnInv, OwnInv', MapsSound, NEW m \in Live, NEW k \in Key, EraseRetires(m, k)
    PROVE  \E q : /\ Alters(m, q) /\ q.created = map[m].created
                  /\ OneMoreAlive(View(q, heap'), View(map[m], heap))
<1>1. busy = <<>> /\ Finds(m, k)
  BY Zenon DEF EraseRetires
<1>2. PICK r, id, n : /\ r = map[m] /\ id = SlabAt(r, k.index)
                      /\ n = SlabIdx(r, k.index) + 1
  OBVIOUS
<1>3. r \in MapRecord /\ Distinct(r) /\ Fits(r)
  BY <1>1, <1>2, EachDistinct DEF OwnInv, TypeInv, AllFit, Complete
<1>4. PICK L : Sound(r, heap, L)
  BY <1>1, <1>2 DEF MapsSound, Complete
<1>5. PICK left : left = [r EXCEPT !.size = @ - 1, !.dead = @ + 1]
  OBVIOUS
<1>6. left \in MapRecord
  <2>1. r.size - 1 \in Int /\ r.dead + 1 \in Int
    BY <1>3 DEF MapRecord
  <2> QED
    BY <1>3, <1>5, <2>1, Members
<1>7. n \in DOMAIN r.slabs /\ r.slabs[n] = id /\ id \in DOMAIN heap
  BY <1>1, <1>2, InHeap, SizeFacts DEF Finds, HasSlot, Key
<1>8. CASE /\ heap' = [heap EXCEPT ![id].dead = @ + 1,
                           ![id].slot[k.index % r.policy].val = Free]
           /\ map' = [map EXCEPT ![m] = left]
  <2>1. Sound(left, heap', L) /\ OneMoreAlive(View(left, heap'), View(map[m], heap))
    BY Zenon, <1>1, <1>2, <1>3, <1>4, <1>5, <1>6, <1>8, RetireSound
  <2>2. \A x \in DOMAIN heap \ {id} : heap'[x] = heap[x]
    BY Zenon, <1>1, <1>2, <1>8, EraseEdits DEF EditedAt
  <2>3. \A x \in DOMAIN heap : x \in DOMAIN heap' =>
           heap'[x] = heap[x] \/ \E y \in DOMAIN map[m].slabs : map[m].slabs[y] = x
    BY <1>2, <1>7, <2>2
  <2>4. left.created = map[m].created
    BY <1>2, <1>3, <1>5 DEF MapRecord
  <2>5. Alters(m, left)
    BY Zenon, <1>1, <1>8, <2>1, <2>3 DEF Alters
  <2> QED
    BY Zenon, <2>1, <2>4, <2>5
<1>9. CASE /\ heap[id].dead + 1 = heap[id].per
           /\ heap' = Without(heap, {id})
           /\ map' = [map EXCEPT ![m] = [left EXCEPT !.slabs[n] = Null]]
  <2>1. PICK q : q = [left EXCEPT !.slabs[n] = Null]
    OBVIOUS
  <2>2. map' = [map EXCEPT ![m] = q]
    BY <1>9, <2>1
  <2>3. q \in MapRecord /\ Fits(q)
    <3>1. map'[m] = q /\ m \in Live' /\ busy' = <<>>
      BY Zenon, <1>1, <2>2 DEF Live, EraseRetires
    <3> QED
      BY <3>1 DEF OwnInv, TypeInv, AllFit, Complete
  <2>4. /\ q.slabs = [r.slabs EXCEPT ![n] = Null] /\ q.policy = r.policy
        /\ q.per = r.per /\ q.base = r.base /\ q.head = r.head
        /\ q.size = r.size - 1 /\ q.created = r.created
    BY <1>3, <1>5, <2>1 DEF MapRecord
  <2>5. Sound(q, heap', L) /\ OneMoreAlive(View(q, heap'), View(map[m], heap))
    <3>1. /\ Sound(map[m], heap, L) /\ Distinct(map[m]) /\ Finds(m, k)
          /\ id = SlabAt(map[m], k.index) /\ n = SlabIdx(map[m], k.index) + 1
      BY <1>1, <1>2, <1>3, <1>4
    <3>2. heap[id].dead + 1 = heap[id].per /\ heap' = Without(heap, {id})
      BY <1>9
    <3>3. /\ q.slabs = [map[m].slabs EXCEPT ![n] = Null]
          /\ q.policy = map[m].policy /\ q.per = map[m].per
          /\ q.base = map[m].base /\ q.head = map[m].head
          /\ q.size = map[m].size - 1
      BY <1>2, <2>4
    <3> QED
      BY ONLY Zenon, OwnInv, m \in Live, k \in Key, <2>3, <3>1, <3>2, <3>3,
         DeleteSound
  <2>6. \A x \in DOMAIN heap : x \in DOMAIN heap' => heap'[x] = heap[x]
    BY <1>9 DEF Without
  <2>7. Alters(m, q)
    BY <1>1, <2>2, <2>5, <2>6 DEF Alters
  <2> QED
    BY <1>2, <2>4, <2>5, <2>7
<1> QED
  BY Zenon, <1>2, <1>5, <1>8, <1>9 DEF EraseRetires

(* Copying a slab adds one to the heap, or none.                           *)
LEMMA CopySlabAdds ==
    ASSUME CopySlab
    PROVE  \A id \in DOMAIN heap : id \in DOMAIN heap' /\ heap'[id] = heap[id]
<1>1. CASE Source[Copied + 1] = Null
  BY <1>1 DEF CopySlab
<1>2. CASE Source[Copied + 1] # Null
  <2>1. Ids \ DOMAIN heap # {} /\ heap' = With(heap, Fresh, heap[Source[Copied + 1]])
    BY <1>2 DEF CopySlab
  <2>2. Fresh \notin DOMAIN heap
    BY <2>1, FreshFacts
  <2> QED
    BY <2>1, <2>2 DEF With
<1> QED
  BY <1>1, <1>2

(* Copying a slab leaves the complete maps alone.                          *)
LEMMA CopySlabSound ==
    ASSUME OwnInv, OwnInv', MapsSound, CopySlab
    PROVE  MapsSound'
<1>1. busy # <<>> /\ busy' = busy /\ Target \in Live
  BY DEF CopySlab, OwnInv, CopyInv
<1>2. Live' = Live /\ Target' = Target /\ \A x \in Live \ {Target} : map'[x] = map[x]
  BY <1>1 DEF CopySlab, Live, Target
<1>3. \A id \in DOMAIN heap : id \in DOMAIN heap' /\ heap'[id] = heap[id]
  BY CopySlabAdds
<1>4. ASSUME NEW x \in Live', Complete(x)'
      PROVE  \E L \in SUBSET Index : Sound(map'[x], heap', L)
  <2>1. x \in Live /\ x # Target /\ map'[x] = map[x] /\ Complete(x)
    BY <1>1, <1>2, <1>4 DEF Complete
  <2>2. PICK L : Sound(map[x], heap, L)
    BY <2>1 DEF MapsSound
  <2>3. map[x] \in MapRecord
    BY <2>1 DEF OwnInv, TypeInv
  <2>4. \A n \in DOMAIN map[x].slabs :
            map[x].slabs[n] # Null => map[x].slabs[n] \in DOMAIN heap
    BY <2>1 DEF OwnInv, Own, Live
  <2>5. Sound(map[x], heap', L)
    BY <1>3, <2>2, <2>3, <2>4, StaysSound
  <2> QED
    BY <2>1, <2>5, ListOfIndices
<1>5. \A x \in Live' : Complete(x)' => \E L \in SUBSET Index : Sound(map'[x], heap', L)
  BY <1>4
<1> QED
  BY <1>5 DEF MapsSound

(* Every step keeps every map sound.                                       *)
LEMMA SoundStep == OwnInv /\ MapsSound /\ [Next]_vars => MapsSound'
<1> SUFFICES ASSUME OwnInv, MapsSound, [Next]_vars PROVE MapsSound'
  OBVIOUS
<1>0. OwnInv'
  BY OwnStep
<1>1. CASE HandsAround
  <2>1. PICK D, f, freed : Handed(D, f, freed)
    BY <1>1, HandsAroundIs
  <2> QED
    BY <2>1, HandedSound
<1>2. CASE CopySlab
  BY <1>0, <1>2, CopySlabSound
<1>3. ASSUME NEW m \in Live, Reserve(m) PROVE MapsSound'
  BY <1>0, <1>3, ReserveAlters, OneEdited
<1>4. ASSUME NEW m \in Live, NEW v \in Values, Emplace(m, v) PROVE MapsSound'
  BY <1>0, <1>4, EmplaceAlters, OneEdited
<1>5. ASSUME NEW m \in Live, NEW k \in Key, EraseReuses(m, k) PROVE MapsSound'
  BY <1>0, <1>5, EraseReusesAlters, OneEdited
<1>6. ASSUME NEW m \in Live, NEW k \in Key, EraseRetires(m, k) PROVE MapsSound'
  BY <1>0, <1>6, EraseRetiresAlters, OneEdited
<1>7. CASE UNCHANGED vars
  <2>1. map' = map /\ heap' = heap /\ busy' = busy
    BY <1>7 DEF vars
  <2>2. Live' = Live /\ \A m : Complete(m)' <=> Complete(m)
    BY <2>1 DEF Live, Complete, Target
  <2>3. \A m \in Live' : Complete(m)' =>
            \E L \in SUBSET Index : Sound(map'[m], heap', L)
    BY <2>1, <2>2 DEF MapsSound
  <2> QED
    BY <2>3 DEF MapsSound
<1> QED
  BY <1>1, <1>2, <1>3, <1>4, <1>5, <1>6, <1>7, NextIs

(* A sound map's members say of its slabs what is so.                      *)
LEMMA SoundMeans ==
    ASSUME OwnInv, MapsSound
    PROVE  MembersFollowSlabs
<1> SUFFICES ASSUME NEW m \in Live, Complete(m)
             PROVE  /\ map[m].size = Cardinality({i \in Reached(m) :
                                         Slot(map[m], i).val # Free})
                    /\ map[m].head # End => /\ HasSlot(map[m], map[m].head)
                                            /\ Slot(map[m], map[m].head).val = Free
                    /\ Len(map[m].slabs) * map[m].per = map[m].base
                    /\ \A id \in Owned(map[m]) : heap[id].per = map[m].per
  BY DEF MembersFollowSlabs
<1>1. PICK r, V : r = map[m] /\ V = View(r, heap)
  OBVIOUS
<1>2. PICK L : Sound(r, heap, L)
  BY <1>1 DEF MapsSound
<1>3. r \in MapRecord /\ IsHeap(heap) /\ r.policy = r.per
  BY <1>1, <1>2 DEF OwnInv, TypeInv, Sound, Fits
<1>4. ASSUME NEW i \in Index
      PROVE  HasSlot(r, i) <=> SlabAt(r, i) # Null
  <2>1. i % r.policy \in 0 .. r.per - 1
    BY <1>3, Where
  <2>2. SlabAt(r, i) # Null => heap[SlabAt(r, i)].per = r.per
    BY <1>2, <1>3, ViewTyped DEF Reach
  <2>3. r.per \in Nat
    BY <1>3 DEF MapRecord
  <2>4. i % r.policy < r.per
    BY <2>1, <2>3
  <2> QED
    BY <2>2, <2>4 DEF HasSlot
<1>5. /\ Reached(m) = Reach(r) /\ DOMAIN V = Reach(r)
      /\ \A i \in Reach(r) : V[i] = Slot(r, i)
  BY <1>1, <1>4 DEF Reached, Reach, View, Slot
<1>6. Alive(V) = {i \in Reached(m) : Slot(r, i).val # Free}
  BY <1>5 DEF Alive
<1>7. Listed(V, L, r.head) /\ r.size = Cardinality(Alive(V)) /\ Fits(r)
  BY <1>1, <1>2 DEF Sound
<1>8. ASSUME r.head # End
      PROVE  HasSlot(r, r.head) /\ Slot(r, r.head).val = Free
  <2>1. r.head \in DOMAIN V /\ V[r.head].val = Free
    BY <1>7, <1>8 DEF Listed
  <2> QED
    BY <1>4, <1>5, <2>1 DEF Reach
<1>9. ASSUME NEW id \in Owned(r) PROVE heap[id].per = r.per
  BY <1>2, OwnedIs DEF Sound
<1> QED
  BY <1>1, <1>6, <1>7, <1>8, <1>9 DEF Fits

(* Wherever the slabs of a map go, by copy, move, swap or assignment, the  *)
(* members that describe them go too: in every complete map size counts    *)
(* the elements, the free list starts in a free slot of the map, each      *)
(* index range handed out has its place in the vector, and every slab has  *)
(* the size the map computes with.                                         *)
THEOREM MembersGoWithSlabs == Spec => []MembersFollowSlabs
<1>1. Init => MapsSound
  BY DEF Init, MapsSound, Live
<1>2. OwnInv /\ MapsSound /\ [Next]_vars => MapsSound'
  BY SoundStep
<1>3. OwnInv /\ MapsSound => MembersFollowSlabs
  BY SoundMeans
<1> QED
  BY OwnHolds, <1>1, <1>2, <1>3, PTL DEF Spec

-----------------------------------------------------------------------------
(* The maps behave as values.                                              *)

(* The keys and elements seen through the slots V.                         *)
Seen(V) == {k \in Key : k.index \in Alive(V) /\ V[k.index].ver = k.version}
ElementsOf(V) == [k \in Seen(V) |-> V[k.index].val]

(* e2 has an element that e does not.                                      *)
OneMore(e, e2) ==
    \E k \in DOMAIN e2 \ DOMAIN e : e = [x \in DOMAIN e2 \ {k} |-> e2[x]]

(* The value of a map with the members r and the slabs of h.               *)
Holes(r) == [n \in DOMAIN r.slabs |-> r.slabs[n] # Null]
Value(r, h) ==
    [elements |-> ElementsOf(View(r, h)), created |-> r.created,
     layout |-> <<r.per, r.size, r.dead, r.base, r.head, Holes(r)>>]

Done == {x \in Live : Complete(x)}
Val == [m \in {x \in Live : Complete(x)} |-> ValueOf(m)]

(* The keys that find their element, by the map's members.                 *)
Found1(r, h, k) ==
    /\ SlabAt(r, k.index) # Null /\ k.index % r.policy < h[SlabAt(r, k.index)].per
    /\ h[SlabAt(r, k.index)].slot[k.index % r.policy].ver = k.version
    /\ h[SlabAt(r, k.index)].slot[k.index % r.policy].val # Free
ElementsIn(r, h) ==
    [k \in {x \in Key : Found1(r, h, x)} |->
        h[SlabAt(r, k.index)].slot[k.index % r.policy].val]

(* The same live slots hold the same elements.                             *)
LEMMA SameElements ==
    ASSUME NEW V, NEW V2, SameAlive(V, V2)
    PROVE  ElementsOf(V2) = ElementsOf(V)
<1>1. Seen(V2) = Seen(V) /\ \A k \in Seen(V) : V2[k.index].val = V[k.index].val
  BY DEF SameAlive, Seen
<1> QED
  BY <1>1 DEF ElementsOf

(* One live slot more holds one element more.                              *)
LEMMA OneMoreElement ==
    ASSUME NEW D, D \subseteq Index, NEW V, NEW V2 \in [D -> SlotRecord],
           OneMoreAlive(V, V2)
    PROVE  OneMore(ElementsOf(V), ElementsOf(V2))
<1>1. PICK i \in D : /\ i \notin Alive(V) /\ Alive(V2) = Alive(V) \union {i}
                     /\ \A j \in Alive(V) : V2[j] = V[j]
  BY DEF OneMoreAlive
<1>2. PICK k : k = [index |-> i, version |-> V2[i].ver]
  OBVIOUS
<1>3. k \in Key /\ k.index = i /\ k.version = V2[i].ver
  BY <1>2 DEF Key, SlotRecord
<1>4. k \in Seen(V2) /\ k \notin Seen(V)
  BY <1>1, <1>3 DEF Seen
<1>5. ASSUME NEW x \in Key, x.index = i, V2[i].ver = x.version PROVE x = k
  BY <1>2, <1>5 DEF Key
<1>6. Seen(V) = Seen(V2) \ {k}
  BY <1>1, <1>3, <1>5 DEF Seen
<1>7. \A x \in Seen(V) : V2[x.index].val = V[x.index].val
  BY <1>1 DEF Seen
<1>8. DOMAIN ElementsOf(V2) = Seen(V2) /\ DOMAIN ElementsOf(V) = Seen(V)
  BY DEF ElementsOf
<1>9. \A x \in Seen(V2) : ElementsOf(V2)[x] = V2[x.index].val
  BY DEF ElementsOf
<1>10. ElementsOf(V) = [x \in Seen(V2) \ {k} |-> ElementsOf(V2)[x]]
  BY <1>6, <1>7, <1>9 DEF ElementsOf
<1> QED
  BY <1>4, <1>8, <1>10 DEF OneMore

(* A map's members find what its slots hold.                               *)
LEMMA ElementsAre ==
    ASSUME NEW r \in MapRecord, NEW h, IsHeap(h), NEW L, Sound(r, h, L)
    PROVE  ElementsIn(r, h) = ElementsOf(View(r, h))
<1>1. PICK V : V = View(r, h)
  OBVIOUS
<1>2. r.policy = r.per /\ r.per \in Nat
  BY DEF Sound, Fits, MapRecord
<1>3. ASSUME NEW k \in Key
      PROVE  /\ Found1(r, h, k) <=> k \in Seen(V)
             /\ k \in Seen(V) =>
                    V[k.index].val = h[SlabAt(r, k.index)].slot[k.index % r.policy].val
  <2>1. PICK i \in Index : i = k.index
    BY DEF Key
  <2>2. i % r.policy \in 0 .. r.per - 1
    BY <1>2, Where
  <2>3. SlabAt(r, i) # Null => h[SlabAt(r, i)].per = r.per
    BY ViewTyped DEF Reach
  <2>4. i % r.policy < r.per
    BY <1>2, <2>2
  <2>5. i \in DOMAIN V <=> SlabAt(r, i) # Null
    BY <1>1 DEF View, Reach
  <2>6. i \in DOMAIN V => V[i] = h[SlabAt(r, i)].slot[i % r.policy]
    BY <1>1 DEF View
  <2> QED
    BY <2>1, <2>3, <2>4, <2>5, <2>6 DEF Found1, Seen, Alive
<1>4. {x \in Key : Found1(r, h, x)} = Seen(V)
  BY <1>3 DEF Seen
<1>5. \A k \in Seen(V) :
          V[k.index].val = h[SlabAt(r, k.index)].slot[k.index % r.policy].val
  BY <1>3 DEF Seen
<1>6. ElementsIn(r, h) = ElementsOf(V)
  BY <1>4, <1>5 DEF ElementsIn, ElementsOf
<1> QED
  BY <1>1, <1>6

(* The values the maps stand for.                                          *)
LEMMA ValIs ==
    ASSUME OwnInv, MapsSound
    PROVE  Val = [m \in Done |-> Value(map[m], heap)]
<1>1. ASSUME NEW m \in Done PROVE ValueOf(m) = Value(map[m], heap)
  <2>1. map[m] \in MapRecord /\ IsHeap(heap)
    BY DEF Done, OwnInv, TypeInv
  <2>2. PICK L : Sound(map[m], heap, L)
    BY DEF Done, MapsSound
  <2>3. Elements(m) = ElementsIn(map[m], heap)
    BY DEF Elements, ElementsIn, Finds, Found1, HasSlot, Slot
  <2>4. Elements(m) = ElementsOf(View(map[m], heap))
    BY <2>1, <2>2, <2>3, ElementsAre
  <2> QED
    BY <2>4 DEF ValueOf, Value, Holes
<1> QED
  BY <1>1 DEF Val, Done

(* The same in the next state.                                             *)
LEMMA ValIsNext ==
    ASSUME OwnInv', MapsSound'
    PROVE  Val' = [m \in Done' |-> Value(map'[m], heap')]
<1>1. ASSUME NEW m \in Done' PROVE ValueOf(m)' = Value(map'[m], heap')
  <2>1. map'[m] \in MapRecord /\ IsHeap(heap')
    BY DEF Done, OwnInv, TypeInv
  <2>2. PICK L : Sound(map'[m], heap', L)
    BY DEF Done, MapsSound
  <2>3. Elements(m)' = ElementsIn(map'[m], heap')
    BY DEF Elements, ElementsIn, Finds, Found1, HasSlot, Slot
  <2>4. Elements(m)' = ElementsOf(View(map'[m], heap'))
    BY <2>1, <2>2, <2>3, ElementsAre
  <2> QED
    BY <2>4 DEF ValueOf, Value, Holes
<1> QED
  BY <1>1 DEF Val, Done

(* The calls that edit one map change its value and no other.              *)
LEMMA EditValues ==
    ASSUME OwnInv, OwnInv', MapsSound, MapsSound', NEW m \in Live, NEW q,
           Alters(m, q), busy' = busy
    PROVE  /\ m \in DOMAIN Val /\ DOMAIN Val' = DOMAIN Val
           /\ \A x \in DOMAIN Val \ {m} : Val'[x] = Val[x]
           /\ Val[m] = Value(map[m], heap) /\ Val'[m] = Value(q, heap')
<1>1. /\ Live' = Live /\ map'[m] = q /\ \A x \in Live \ {m} : map'[x] = map[x]
      /\ Done = Live /\ Done' = Live'
  BY DEF Live, Alters, Done, Complete
<1>2. /\ Val = [x \in Live |-> Value(map[x], heap)]
      /\ Val' = [x \in Live |-> Value(map'[x], heap')]
  BY <1>1, ValIs, ValIsNext
<1>3. ASSUME NEW x \in Live, x # m
      PROVE  Value(map'[x], heap') = Value(map[x], heap)
  <2>1. PICK r \in MapRecord : r = map[x] /\ map'[x] = r
    BY <1>1, <1>3 DEF OwnInv, TypeInv
  <2>2. PICK L : Sound(r, heap, L)
    BY <1>1, <2>1 DEF MapsSound, Done
  <2>3. \A n \in DOMAIN r.slabs : r.slabs[n] # Null =>
            r.slabs[n] \in DOMAIN heap' /\ heap'[r.slabs[n]] = heap[r.slabs[n]]
    BY <1>3, <2>1, OthersStay
  <2>4. View(r, heap') = View(r, heap)
    BY ONLY <2>2, <2>3, r \in MapRecord, StaysSound
  <2> QED
    BY <2>1, <2>4 DEF Value
<1> QED
  BY <1>1, <1>2, <1>3

(* emplace puts one element more into its map.                             *)
LEMMA EmplacePuts ==
    ASSUME OwnInv, OwnInv', MapsSound, MapsSound', NEW m \in Live,
           NEW v \in Values, Emplace(m, v)
    PROVE  m \in DOMAIN Val /\ Plain!Put(m)
<1>1. PICK q : /\ Alters(m, q) /\ q.created = map[m].created + 1
               /\ OneMoreAlive(View(map[m], heap), View(q, heap'))
  BY EmplaceAlters
<1>2. busy' = busy
  BY DEF Emplace
<1>3. /\ m \in DOMAIN Val /\ DOMAIN Val' = DOMAIN Val
      /\ \A x \in DOMAIN Val \ {m} : Val'[x] = Val[x]
      /\ Val[m] = Value(map[m], heap) /\ Val'[m] = Value(q, heap')
  BY <1>1, <1>2, EditValues
<1>4. View(q, heap') \in [Reach(q) -> SlotRecord] /\ Reach(q) \subseteq Index
  <2>1. q = map'[m] /\ m \in Live'
    BY <1>1 DEF Alters, Live
  <2>2. q \in MapRecord /\ IsHeap(heap')
    BY <2>1 DEF OwnInv, TypeInv
  <2> QED
    BY <1>1, <2>2, ViewTyped DEF Alters
<1>5. PICK e, e2 : e = Val[m].elements /\ e2 = Val'[m].elements
  OBVIOUS
<1>6. OneMore(e, e2)
  <2>1. PICK V, V2, D : V = View(map[m], heap) /\ V2 = View(q, heap') /\ D = Reach(q)
    OBVIOUS
  <2>2. e = ElementsOf(V) /\ e2 = ElementsOf(V2)
    BY <1>3, <1>5, <2>1 DEF Value
  <2>3. D \subseteq Index /\ V2 \in [D -> SlotRecord] /\ OneMoreAlive(V, V2)
    BY <1>1, <1>4, <2>1
  <2> QED
    BY ONLY <2>2, <2>3, OneMoreElement
<1>7. Val'[m].created = Val[m].created + 1
  BY <1>1, <1>3 DEF Value
<1> QED
  BY <1>3, <1>5, <1>6, <1>7 DEF OneMore, Plain!Put, Plain!Same, Plain!Sole, Val

(* erase takes one element out of its map, whether the slot is used again  *)
(* or not.                                                                 *)
LEMMA EraseTakes ==
    ASSUME OwnInv, OwnInv', MapsSound, MapsSound', NEW m \in Live,
           NEW k \in Key, EraseReuses(m, k) \/ EraseRetires(m, k)
    PROVE  m \in DOMAIN Val /\ Plain!Take(m)
<1>1. PICK q : /\ Alters(m, q) /\ q.created = map[m].created
               /\ OneMoreAlive(View(q, heap'), View(map[m], heap))
  BY EraseReusesAlters, EraseRetiresAlters
<1>2. busy' = busy
  BY DEF EraseReuses, EraseRetires
<1>3. /\ m \in DOMAIN Val /\ DOMAIN Val' = DOMAIN Val
      /\ \A x \in DOMAIN Val \ {m} : Val'[x] = Val[x]
      /\ Val[m] = Value(map[m], heap) /\ Val'[m] = Value(q, heap')
  BY <1>1, <1>2, EditValues
<1>4. /\ View(map[m], heap) \in [Reach(map[m]) -> SlotRecord]
      /\ Reach(map[m]) \subseteq Index
  <2>1. map[m] \in MapRecord /\ IsHeap(heap) /\ Complete(m)
    BY <1>1 DEF OwnInv, TypeInv, Alters, Complete
  <2>2. PICK L : Sound(map[m], heap, L)
    BY <2>1 DEF MapsSound
  <2> QED
    BY <2>1, <2>2, ViewTyped
<1>5. PICK e, e2 : e = Val[m].elements /\ e2 = Val'[m].elements
  OBVIOUS
<1>6. OneMore(e2, e)
  <2>1. PICK V, V2, D : /\ V = View(map[m], heap) /\ V2 = View(q, heap')
                        /\ D = Reach(map[m])
    OBVIOUS
  <2>2. e = ElementsOf(V) /\ e2 = ElementsOf(V2)
    BY <1>3, <1>5, <2>1 DEF Value
  <2>3. D \subseteq Index /\ V \in [D -> SlotRecord] /\ OneMoreAlive(V2, V)
    BY <1>1, <1>4, <2>1
  <2> QED
    BY ONLY <2>2, <2>3, OneMoreElement
<1>7. Val'[m].created = Val[m].created
  BY <1>1, <1>3 DEF Value
<1> QED
  BY <1>3, <1>5, <1>6, <1>7 
     DEF OneMore, Plain!Take, Plain!Same, Plain!Sole, Val

(* reserve makes room, and touches no element.                             *)
LEMMA ReserveGrows ==
    ASSUME OwnInv, OwnInv', MapsSound, MapsSound', NEW m \in Live, Reserve(m)
    PROVE  m \in DOMAIN Val /\ Plain!Grow(m)
<1>1. PICK q : /\ Alters(m, q) /\ q.created = map[m].created
               /\ SameAlive(View(map[m], heap), View(q, heap'))
  BY ReserveAlters
<1>2. busy' = busy
  BY DEF Reserve
<1>3. /\ m \in DOMAIN Val /\ DOMAIN Val' = DOMAIN Val
      /\ \A x \in DOMAIN Val \ {m} : Val'[x] = Val[x]
      /\ Val[m] = Value(map[m], heap) /\ Val'[m] = Value(q, heap')
  BY <1>1, <1>2, EditValues
<1>4. ElementsOf(View(q, heap')) = ElementsOf(View(map[m], heap))
  BY <1>1, SameElements
<1>5. Val'[m].created = Val[m].created /\ Val'[m].elements = Val[m].elements
  BY <1>1, <1>3, <1>4 DEF Value
<1> QED
  BY <1>3, <1>5 DEF Plain!Grow, Plain!Same, Plain!Sole, Val

(* Where whole maps are handed around, no slab of theirs is written.       *)
LEMMA HandedValues ==
    ASSUME OwnInv, OwnInv', MapsSound, MapsSound', HandsAround
    PROVE  Val' = [m \in Done' |-> Value(map'[m], heap)]
<1>1. \A id \in DOMAIN heap' : id \in DOMAIN heap /\ heap'[id] = heap[id]
  <2>1. PICK D, f, freed : Handed(D, f, freed)
    BY HandsAroundIs
  <2> QED
    BY <2>1, HandedOwns DEF OwnInv
<1>2. ASSUME NEW m \in Done'
      PROVE  Value(map'[m], heap') = Value(map'[m], heap)
  <2>1. PICK r \in MapRecord : r = map'[m] /\ m \in Live'
    BY DEF Done, OwnInv, TypeInv
  <2>2. PICK L : Sound(r, heap', L)
    BY <2>1 DEF MapsSound, Done
  <2>3. \A n \in DOMAIN r.slabs : r.slabs[n] # Null =>
            r.slabs[n] \in DOMAIN heap /\ heap[r.slabs[n]] = heap'[r.slabs[n]]
    BY <1>1, <2>1 DEF OwnInv, Own, Live
  <2>4. View(r, heap) = View(r, heap')
    BY ONLY <2>2, <2>3, r \in MapRecord, StaysSound
  <2> QED
    BY <2>1, <2>4 DEF Value
<1> QED
  BY <1>2, ValIsNext

(* The value of a map without slabs.                                       *)
LEMMA BlankValue ==
    ASSUME NEW r \in MapRecord, r.slabs = <<>>, NEW h
    PROVE  Value(r, h) = [elements |-> <<>>, created |-> r.created,
                          layout |-> <<r.per, r.size, r.dead, r.base, r.head, <<>>>>]
<1>1. Reach(r) = {}
  <2>1. \A i \in Index : SlabAt(r, i) = Null
    <3>1. r.policy \in Nat \ {0} /\ Len(<<>>) = 0
      BY SizeFacts DEF MapRecord
    <3>2. \A i \in Index : i \div r.policy \in Nat
      BY <3>1, DivMod, SizeFacts
    <3> QED
      BY <3>1, <3>2 DEF SlabAt, SlabIdx
  <2> QED
    BY <2>1 DEF Reach
<1>2. Seen(View(r, h)) = {}
  BY <1>1 DEF View, Alive, Seen
<1>3. ElementsOf(View(r, h)) = <<>>
  BY <1>2 DEF ElementsOf
<1>4. Holes(r) = <<>>
  BY DEF Holes
<1> QED
  BY <1>3, <1>4 DEF Value

(* What a map is moved from or reset to is its value, cleared; a new map's *)
(* value is clear.                                                         *)
LEMMA ClearedValue ==
    /\ \A g, h : \A r \in MapRecord : Value(MovedFrom(r), h) = Cleared(Value(r, g))
    /\ \A h : \A per \in SlabSizes : Value(Empty(per), h) = Cleared(Value(Empty(per), h))
<1>1. ASSUME NEW r \in MapRecord, NEW g, NEW h
      PROVE  Value(MovedFrom(r), h) = Cleared(Value(r, g))
  <2>1. PICK q \in MapRecord : q = MovedFrom(r) /\ q.slabs = <<>>
    BY BlankMaps
  <2>2. /\ q.per = r.per /\ q.size = 0 /\ q.dead = 0 /\ q.base = 0 /\ q.head = End
        /\ q.created = 0
    BY <2>1 DEF MovedFrom, MapRecord
  <2>3. Value(q, h) = [elements |-> <<>>, created |-> 0,
                       layout |-> <<r.per, 0, 0, 0, End, <<>>>>]
    BY <2>1, <2>2, BlankValue
  <2>4. Value(r, g).layout[1] = r.per
    BY DEF Value
  <2> QED
    BY <2>1, <2>3, <2>4 DEF Cleared
<1>2. ASSUME NEW per \in SlabSizes, NEW h
      PROVE  Value(Empty(per), h) = Cleared(Value(Empty(per), h))
  <2>1. PICK q \in MapRecord : q = Empty(per)
    BY BlankMaps
  <2>2. /\ q.per = per /\ q.size = 0 /\ q.dead = 0 /\ q.base = 0 /\ q.head = End
        /\ q.created = 0 /\ q.slabs = <<>>
    BY <2>1 DEF Empty
  <2>3. Value(q, h) = [elements |-> <<>>, created |-> 0,
                       layout |-> <<per, 0, 0, 0, End, <<>>>>]
    BY <2>1, <2>2, BlankValue
  <2>4. Value(q, h).layout[1] = per
    BY <2>3
  <2> QED
    BY <2>1, <2>3, <2>4 DEF Cleared
<1> QED
  BY <1>1, <1>2

(* A finished copy has the value of its source.                            *)
LEMMA CopyValue ==
    ASSUME OwnInv, MapsSound, busy # <<>>, Copied = Len(Source)
    PROVE  Value(map[Target], heap) = Value(map[busy[2]], heap)
<1>1. PICK q, r : q = map[Target] /\ r = map[busy[2]]
  OBVIOUS
<1>2. q \in MapRecord /\ r \in MapRecord
  BY <1>1 DEF OwnInv, CopyInv, TypeInv
<1>3. /\ q = [r EXCEPT !.slabs = q.slabs]
      /\ \A n \in 1 .. Len(q.slabs) : q.slabs[n] = Null <=> r.slabs[n] = Null
      /\ Len(q.slabs) = Len(r.slabs)
  BY <1>1 DEF OwnInv, CopyInv, AlikeAt, Copied, Source
<1>4. /\ q.per = r.per /\ q.size = r.size /\ q.dead = r.dead /\ q.base = r.base
      /\ q.head = r.head /\ q.created = r.created
  BY <1>2, <1>3 DEF MapRecord
<1>5. DOMAIN q.slabs = 1 .. Len(q.slabs) /\ DOMAIN r.slabs = 1 .. Len(r.slabs)
  BY <1>2, Positions
<1>6. Holes(q) = Holes(r)
  BY <1>3, <1>5 DEF Holes
<1>7. View(q, heap) = View(r, heap)
  BY <1>1, CopySound
<1> QED
  BY <1>1, <1>4, <1>6, <1>7 DEF Value

(* The copy that copy assignment makes lives as long as the assignment.    *)
TempOnly == Temp \in Live => busy # <<>> /\ Target = Temp

(* What the steps below start from.                                        *)
Ready == OwnInv /\ MapsSound /\ TempOnly

(* The values before and after a call that hands maps around.              *)
LEMMA HandedVal ==
    ASSUME Ready, OwnInv', MapsSound', HandsAround
    PROVE  /\ Val = [m \in Done |-> Value(map[m], heap)]
           /\ Val' = [m \in Done' |-> Value(map'[m], heap)]
           /\ \A m \in Live : map[m] \in MapRecord
           /\ busy = <<>> => Done = Live /\ Live \subseteq Maps
           /\ busy' = <<>> => Done' = Live'
<1>1. Val = [m \in Done |-> Value(map[m], heap)]
  BY ValIs DEF Ready
<1>2. Val' = [m \in Done' |-> Value(map'[m], heap)]
  BY HandedValues DEF Ready
<1>3. busy = <<>> => Done = Live /\ Live \subseteq Maps
  BY DEF Done, Complete, Ready, TempOnly, OwnInv, TypeInv
<1>4. busy' = <<>> => Done' = Live'
  BY DEF Done, Complete
<1> QED
  BY <1>1, <1>2, <1>3, <1>4 DEF Ready, OwnInv, TypeInv

(* A new map's value comes into being, clear.                              *)
LEMMA CreateMakes ==
    ASSUME Ready, OwnInv', MapsSound', NEW m \in Maps, NEW per \in SlabSizes,
           Create(m, per)
    PROVE  Plain!Make(m)
<1>1. HandsAround
  BY DEF HandsAround
<1>2. busy = <<>> /\ busy' = <<>> /\ m \notin Live
  BY DEF Create
<1>3. Live' = Live \union {m} /\ map'[m] = Empty(per) /\ \A x \in Live : map'[x] = map[x]
  BY <1>2 DEF Create, With, Live
<1>4. /\ Val = [x \in Live |-> Value(map[x], heap)]
      /\ Val' = [x \in Live \union {m} |-> Value(map'[x], heap)]
  BY <1>1, <1>2, <1>3, HandedVal
<1>5. Val'[m] = Cleared(Val'[m])
  BY <1>3, <1>4, ClearedValue
<1> QED
  BY <1>2, <1>3, <1>4, <1>5 DEF Plain!Make, Plain!Sole, Val

(* reset clears a map's value.                                             *)
LEMMA ResetEmpties ==
    ASSUME Ready, OwnInv', MapsSound', NEW m \in Live, Reset(m)
    PROVE  m \in DOMAIN Val /\ Plain!Empty(m)
<1>1. HandsAround
  BY DEF HandsAround
<1>2. busy = <<>> /\ busy' = <<>>
  BY DEF Reset
<1>3. /\ Live' = Live /\ map'[m] = MovedFrom(map[m])
      /\ \A x \in Live \ {m} : map'[x] = map[x]
  BY DEF Reset, Discard, Live
<1>4. /\ Val = [x \in Live |-> Value(map[x], heap)]
      /\ Val' = [x \in Live |-> Value(map'[x], heap)]
      /\ map[m] \in MapRecord
  BY <1>1, <1>2, <1>3, HandedVal
<1>5. Val'[m] = Cleared(Val[m])
  BY <1>3, <1>4, ClearedValue
<1>6. Val' = [Val EXCEPT ![m] = Cleared(Val[m])]
  BY <1>3, <1>4, <1>5
<1> QED
  BY <1>4, <1>6 DEF Plain!Empty, Val

(* Destruction drops a map's value.                                        *)
LEMMA DestroyDrops ==
    ASSUME Ready, OwnInv', MapsSound', NEW m \in Live, Destroy(m)
    PROVE  m \in DOMAIN Val /\ Plain!Drop(m)
<1>1. HandsAround
  BY DEF HandsAround
<1>2. busy = <<>> /\ busy' = <<>>
  BY DEF Destroy
<1>3. Live' = Live \ {m} /\ \A x \in Live \ {m} : map'[x] = map[x]
  BY DEF Destroy, Discard, Without, Live
<1>4. /\ Val = [x \in Live |-> Value(map[x], heap)]
      /\ Val' = [x \in Live \ {m} |-> Value(map'[x], heap)]
  BY <1>1, <1>2, <1>3, HandedVal
<1> QED
  BY <1>3, <1>4 DEF Plain!Drop, Plain!Sole, Val

(* A copy that begins is no value yet.                                     *)
LEMMA CopyBeginsUnseen ==
    ASSUME Ready, OwnInv', MapsSound', NEW t \in Maps, NEW s \in Live,
           CopyConstruct(t, s) \/ CopyAssign(t, s)
    PROVE  Val' = Val
<1>1. HandsAround
  BY DEF HandsAround
<1>2. PICK u, why : BeginCopy(u, s, why)
  BY DEF CopyConstruct, CopyAssign
<1>3. /\ busy = <<>> /\ u \notin Live /\ Live' = Live \union {u} /\ Target' = u
      /\ busy' # <<>> /\ \A x \in Live : map'[x] = map[x]
  BY <1>2 DEF BeginCopy, With, Live, Target
<1>4. Done' = Live
  BY <1>3 DEF Done, Complete
<1>5. /\ Val = [x \in Live |-> Value(map[x], heap)]
      /\ Val' = [x \in Live |-> Value(map'[x], heap)]
  BY <1>1, <1>3, <1>4, HandedVal
<1> QED
  BY <1>3, <1>5

(* A copy that throws never was one.                                       *)
LEMMA CopyThrowsUnseen ==
    ASSUME Ready, OwnInv', MapsSound', CopyThrows
    PROVE  Val' = Val
<1>1. HandsAround
  BY DEF HandsAround
<1>2. /\ busy # <<>> /\ busy' = <<>> /\ Live' = Live \ {Target}
      /\ \A x \in Live \ {Target} : map'[x] = map[x]
  BY DEF CopyThrows, Discard, Without, Live
<1>3. Done = Live \ {Target}
  BY <1>2 DEF Done, Complete
<1>4. /\ Val = [x \in Live \ {Target} |-> Value(map[x], heap)]
      /\ Val' = [x \in Live \ {Target} |-> Value(map'[x], heap)]
  BY <1>1, <1>2, <1>3, HandedVal
<1> QED
  BY <1>2, <1>4

(* A slab copied changes no value.                                         *)
LEMMA CopySlabUnseen ==
    ASSUME Ready, OwnInv', MapsSound', CopySlab
    PROVE  Val' = Val
<1>1. busy # <<>> /\ busy' = busy /\ Target \in Live
  BY DEF CopySlab, Ready, OwnInv, CopyInv
<1>2. Live' = Live /\ Target' = Target /\ \A x \in Live \ {Target} : map'[x] = map[x]
  BY <1>1 DEF CopySlab, Live, Target
<1>3. Done = Live \ {Target} /\ Done' = Live \ {Target}
  BY <1>1, <1>2 DEF Done, Complete
<1>4. ASSUME NEW x \in Done PROVE Value(map'[x], heap') = Value(map[x], heap)
  <2>1. PICK r \in MapRecord : r = map[x] /\ map'[x] = r /\ x \in Live
    BY <1>2, <1>3 DEF Ready, OwnInv, TypeInv
  <2>2. PICK L : Sound(r, heap, L)
    BY <2>1 DEF Ready, MapsSound, Done
  <2>3. \A n \in DOMAIN r.slabs : r.slabs[n] # Null =>
            r.slabs[n] \in DOMAIN heap' /\ heap'[r.slabs[n]] = heap[r.slabs[n]]
    BY <2>1, CopySlabAdds DEF Ready, OwnInv, Own, Live
  <2>4. View(r, heap') = View(r, heap)
    BY ONLY <2>2, <2>3, r \in MapRecord, StaysSound
  <2> QED
    BY <2>1, <2>4 DEF Value
<1> QED
  BY <1>3, <1>4, ValIs, ValIsNext DEF Ready

(* A finished copy construction gives the new map its source's value.      *)
LEMMA EndConstructCopies ==
    ASSUME Ready, OwnInv', MapsSound', EndConstruct
    PROVE  \E t \in Maps, s \in DOMAIN Val : Plain!Copy(t, s)
<1>1. HandsAround
  BY DEF HandsAround
<1>2. PICK t, s : t = Target /\ s = busy[2]
  OBVIOUS
<1>3. /\ busy # <<>> /\ busy' = <<>> /\ map' = map /\ Live' = Live
      /\ t \in Live \intersect Maps /\ s \in Live /\ t # s
  BY <1>2 DEF EndConstruct, Live, Ready, OwnInv, CopyInv
<1>4. Done = Live \ {t} /\ Done' = Live
  BY <1>2, <1>3 DEF Done, Complete
<1>5. /\ Val = [x \in Live \ {t} |-> Value(map[x], heap)]
      /\ Val' = [x \in Live |-> Value(map[x], heap)]
  BY <1>1, <1>3, <1>4, HandedVal
<1>6. Value(map[t], heap) = Value(map[s], heap)
  BY <1>2, CopyValue DEF EndConstruct, Ready
<1>7. Plain!Copy(t, s)
  BY <1>3, <1>5, <1>6 DEF Plain!Copy, Plain!Sole, Val
<1> QED
  BY <1>3, <1>5, <1>7

(* A finished copy assignment gives the target its source's value.         *)
LEMMA EndAssignCopies ==
    ASSUME Ready, OwnInv', MapsSound', EndAssign
    PROVE  \E t \in Maps, s \in DOMAIN Val : Plain!Copy(t, s)
<1>1. HandsAround
  BY DEF HandsAround
<1>2. PICK t, s : t = busy[3] /\ s = busy[2]
  OBVIOUS
<1>3. /\ busy # <<>> /\ busy' = <<>> /\ Target = Temp
      /\ t \in Live \intersect Maps /\ s \in Live /\ t # s /\ Temp \in Live /\ s # Temp
      /\ t # Temp
  BY <1>2, OwnershipAssumption DEF EndAssign, Ready, OwnInv, CopyInv
<1>4. /\ Live' = Live \ {Temp} /\ map'[t] = map[Temp]
      /\ \A x \in Live \ {Temp, t} : map'[x] = map[x]
  BY <1>2, <1>3, TakesAll DEF Ready, EndAssign, Discard, Without, Swapped, Live
<1>5. Done = Live \ {Temp} /\ Done' = Live \ {Temp}
  BY <1>3, <1>4 DEF Done, Complete
<1>6. /\ Val = [x \in Live \ {Temp} |-> Value(map[x], heap)]
      /\ Val' = [x \in Live \ {Temp} |-> Value(map'[x], heap)]
  BY <1>1, <1>5, HandedVal
<1>7. Value(map[Temp], heap) = Value(map[s], heap)
  BY <1>2, <1>3, CopyValue DEF EndAssign, Ready
<1>8. Plain!Copy(t, s)
  BY <1>3, <1>4, <1>6, <1>7 DEF Plain!Copy, Plain!Sole, Val
<1> QED
  BY <1>3, <1>6, <1>8

(* swap exchanges two values.                                              *)
LEMMA SwapSwaps ==
    ASSUME Ready, OwnInv', MapsSound', NEW t \in Live, NEW s \in Live, Swap(t, s)
    PROVE  t \in DOMAIN Val /\ s \in DOMAIN Val /\ Plain!Swap(t, s)
<1>1. HandsAround
  BY DEF HandsAround
<1>2. /\ busy = <<>> /\ busy' = <<>> /\ t # s /\ Live' = Live
      /\ map'[t] = map[s] /\ map'[s] = map[t]
      /\ \A x \in Live \ {t, s} : map'[x] = map[x]
  BY TakesAll DEF Ready, Swap, Swapped, Live
<1>3. /\ Val = [x \in Live |-> Value(map[x], heap)]
      /\ Val' = [x \in Live |-> Value(map'[x], heap)]
  BY <1>1, <1>2, HandedVal
<1>4. Val' = [Val EXCEPT ![t] = Val[s], ![s] = Val[t]]
  BY <1>2, <1>3
<1> QED
  BY <1>3, <1>4 DEF Plain!Swap, Val

(* A move takes its source's value along and leaves it clear.              *)
LEMMA MoveMoves ==
    ASSUME Ready, OwnInv', MapsSound', NEW t \in Maps, NEW s \in Live,
           MoveConstruct(t, s) \/ (t \in Live /\ MoveAssign(t, s))
    PROVE  t # s /\ s \in DOMAIN Val /\ Plain!Move(t, s)
<1>1. HandsAround
  BY DEF HandsAround
<1>2. /\ busy = <<>> /\ busy' = <<>> /\ t # s /\ Live' = Live \union {t}
      /\ map'[t] = map[s] /\ map'[s] = MovedFrom(map[s])
      /\ \A x \in Live \ {t, s} : map'[x] = map[x]
  <2>1. CASE MoveConstruct(t, s)
    BY <2>1, TakesAll DEF Ready, MoveConstruct, With, Live
  <2>2. CASE t \in Live /\ MoveAssign(t, s)
    BY <2>2, TakesAll DEF Ready, MoveAssign, Discard, Live
  <2> QED
    BY <2>1, <2>2
<1>3. /\ Val = [x \in Live |-> Value(map[x], heap)]
      /\ Val' = [x \in Live \union {t} |-> Value(map'[x], heap)]
      /\ map[s] \in MapRecord
  BY <1>1, <1>2, HandedVal
<1>4. Val'[s] = Cleared(Val[s])
  BY <1>2, <1>3, ClearedValue
<1>5. Val'[t] = Val[s] /\ \A x \in Live \ {t, s} : Val'[x] = Val[x]
  BY <1>2, <1>3
<1> QED
  BY <1>2, <1>3, <1>4, <1>5 DEF Plain!Move, Val

(* No call but copy assignment makes the temporary, and none leaves it.    *)
LEMMA TempStep == OwnInv /\ TempOnly /\ [Next]_vars => TempOnly'
<1> SUFFICES ASSUME OwnInv, TempOnly, [Next]_vars, Temp \in Live'
             PROVE  busy' # <<>> /\ Target' = Temp
  BY DEF TempOnly
<1>1. Temp \notin Maps
  BY OwnershipAssumption
<1>2. CASE \E m \in Maps, per \in SlabSizes : Create(m, per)
  BY <1>1, <1>2 DEF Create, With, Live, TempOnly
<1>3. ASSUME NEW m \in Live, Reset(m) \/ Destroy(m) PROVE FALSE
  BY <1>3 DEF Reset, Destroy, Discard, Without, Live, TempOnly
<1>4. ASSUME NEW t \in Maps, NEW s \in Live, CopyConstruct(t, s) PROVE FALSE
  BY <1>1, <1>4 DEF CopyConstruct, BeginCopy, With, Live, TempOnly
<1>5. ASSUME NEW t \in Maps, NEW s \in Live, CopyAssign(t, s)
      PROVE  busy' # <<>> /\ Target' = Temp
  BY <1>5 DEF CopyAssign, BeginCopy, Target
<1>6. ASSUME NEW t \in Maps, NEW s \in Live, MoveConstruct(t, s) PROVE FALSE
  BY <1>1, <1>6 DEF MoveConstruct, With, Live, TempOnly
<1>7. ASSUME NEW t \in Live, NEW s \in Live, MoveAssign(t, s) \/ Swap(t, s) PROVE FALSE
  BY <1>7 DEF MoveAssign, Swap, Swapped, Discard, Live, TempOnly
<1>8. CASE CopyThrows
  BY <1>8 DEF CopyThrows, Discard, Without, Live, TempOnly
<1>9. CASE EndConstruct
  <2>1. Temp \in Live /\ Target \in Maps
    BY <1>9 DEF EndConstruct, OwnInv, CopyInv, Live
  <2> QED
    BY <1>1, <2>1 DEF TempOnly
<1>10. CASE EndAssign
  BY <1>10 DEF EndAssign, Discard, Without, Swapped, Live
<1>11. CASE CopySlab
  <2>1. busy # <<>> /\ busy' = busy /\ Live' = Live
    BY <1>11 DEF CopySlab, Live
  <2> QED
    BY <2>1 DEF TempOnly, Target
<1>12. ASSUME NEW m \in Live,
              \/ Reserve(m) \/ \E v \in Values : Emplace(m, v)
              \/ \E k \in Key : EraseReuses(m, k) \/ EraseRetires(m, k)
       PROVE  FALSE
  <2>1. busy = <<>> /\ Live' = Live
    BY <1>12 DEF Reserve, Emplace, Construct, EraseReuses, EraseRetires, Live
  <2> QED
    BY <2>1 DEF TempOnly
<1>13. CASE UNCHANGED vars
  BY <1>13 DEF vars, TempOnly, Live, Target
<1> QED
  BY <1>2, <1>3, <1>4, <1>5, <1>6, <1>7, <1>8, <1>9, <1>10, <1>11, <1>12, <1>13, NextIs
     DEF HandsAround

(* Every call is one step of the plain values, or none.                    *)
LEMMA PlainStep ==
    ASSUME Ready, OwnInv', MapsSound', [Next]_vars
    PROVE  [Plain!Next]_Val
<1> SUFFICES ASSUME Val' # Val PROVE Plain!Next
  OBVIOUS
<1>1. ASSUME NEW m \in Maps, NEW per \in SlabSizes, Create(m, per) PROVE Plain!Next
  BY <1>1, CreateMakes DEF Plain!Next
<1>2. ASSUME NEW m \in Live, Reset(m) PROVE Plain!Next
  BY <1>2, ResetEmpties DEF Plain!Next, Val
<1>3. ASSUME NEW m \in Live, Destroy(m) PROVE Plain!Next
  BY <1>3, DestroyDrops DEF Plain!Next, Val
<1>4. ASSUME NEW t \in Maps, NEW s \in Live, CopyConstruct(t, s) \/ CopyAssign(t, s)
      PROVE  Plain!Next
  BY <1>4, CopyBeginsUnseen
<1>5. ASSUME NEW t \in Maps, NEW s \in Live, MoveConstruct(t, s) PROVE Plain!Next
  BY <1>5, MoveMoves DEF Plain!Next, Val
<1>6. ASSUME NEW t \in Live, NEW s \in Live, MoveAssign(t, s) PROVE Plain!Next
  <2>1. t \in Maps
    BY <1>6 DEF MoveAssign, Ready, TempOnly, OwnInv, TypeInv
  <2> QED
    BY <1>6, <2>1, MoveMoves DEF Plain!Next, Val
<1>7. ASSUME NEW t \in Live, NEW s \in Live, Swap(t, s) PROVE Plain!Next
  BY <1>7, SwapSwaps DEF Plain!Next, Val
<1>8. CASE CopyThrows
  BY <1>8, CopyThrowsUnseen
<1>9. CASE EndConstruct
  BY <1>9, EndConstructCopies DEF Plain!Next, Val
<1>10. CASE EndAssign
  BY <1>10, EndAssignCopies DEF Plain!Next, Val
<1>11. CASE CopySlab
  BY <1>11, CopySlabUnseen
<1>12. ASSUME NEW m \in Live, Reserve(m) PROVE Plain!Next
  BY <1>12, ReserveGrows DEF Plain!Next, Val, Ready
<1>13. ASSUME NEW m \in Live, NEW v \in Values, Emplace(m, v) PROVE Plain!Next
  BY <1>13, EmplacePuts DEF Plain!Next, Val, Ready
<1>14. ASSUME NEW m \in Live, NEW k \in Key, EraseReuses(m, k) \/ EraseRetires(m, k)
       PROVE  Plain!Next
  BY <1>14, EraseTakes DEF Plain!Next, Val, Ready
<1>15. CASE UNCHANGED vars
  <2>1. map' = map /\ heap' = heap /\ busy' = busy
    BY <1>15 DEF vars
  <2>2. Done' = Done
    BY <2>1 DEF Done, Live, Complete, Target
  <2>3. Val' = Val
    BY <2>1, <2>2, ValIs, ValIsNext DEF Ready
  <2> QED
    BY <2>3
<1> QED
  BY <1>1, <1>2, <1>3, <1>4, <1>5, <1>6, <1>7, <1>8, <1>9, <1>10, <1>11, <1>12,
     <1>13, <1>14, <1>15 DEF Next

(* The maps behave as values, whatever their slab sizes: every call        *)
(* changes only the map it is made on, a finished copy has its source's    *)
(* elements, counters and layout, a copy that throws at any slab has not   *)
(* happened, and a map moved from is empty and can be used again.          *)
THEOREM MapsBehaveAsValues == Spec => MapsAreValues
<1>1. Init => MapsSound /\ TempOnly /\ Plain!Init
  BY DEF Init, MapsSound, TempOnly, Live, Plain!Init
<1>2. OwnInv /\ MapsSound /\ [Next]_vars => MapsSound'
  BY SoundStep
<1>3. Ready /\ OwnInv' /\ MapsSound' /\ [Next]_vars => [Plain!Next]_Val
  BY PlainStep
<1> QED
  BY OwnHolds, TempStep, <1>1, <1>2, <1>3, PTL
     DEF Spec, MapsAreValues, Plain!Spec, Ready, Val
=============================================================================
