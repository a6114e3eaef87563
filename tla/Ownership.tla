----------------------------- MODULE Ownership -----------------------------
(***************************************************************************)
(* Several maps of one type: construction, copy, move, swap, reset and     *)
(* destruction, with emplace and erase in between.  A map is its data      *)
(* members; its slabs live on the heap and are named by ids, the way       *)
(* unique_ptrs name them, so that a slab can be leaked, freed twice or     *)
(* reached from two maps.  multi_slab_storage_policy; a slab size of       *)
(* MaxSlots gives the single slab.                                         *)
(*                                                                         *)
(* Maps may differ in slab size.  A copy is made slab by slab and T's copy *)
(* constructor, or operator new, may throw at each; what one slab's clone  *)
(* does inside is module SlabClone.  Calls up to the first recycling.      *)
(***************************************************************************)
EXTENDS Integers, FiniteSets, SequencesExt

CONSTANTS
    MaxSlots,       \* 2^IndexBits
    MaxVersion,     \* version_type::mask
    SlabSizes,      \* slab sizes the client constructs maps with
    Maps,           \* the client's variables of the map type
    Temp,           \* the copy that copy assignment makes
    Values,
    Ids,            \* heap addresses, for TLC only
    MaxCreated      \* bound on objects created by one map, for TLC only

Free == "free"                  \* the content of a slot that is not alive

ASSUME OwnershipAssumption ==
    /\ MaxSlots \in Nat \ {0} /\ MaxVersion \in Nat \ {0} /\ MaxCreated \in Nat
    /\ SlabSizes \subseteq {n \in 1 .. MaxSlots : MaxSlots % n = 0}
    /\ Temp \notin Maps /\ "construct" \notin Maps
    /\ 0 \notin Ids
    /\ Free \notin Values

Index == 0 .. MaxSlots - 1
End == MaxSlots
Key == [index : Index, version : 0 .. MaxVersion]
Null == 0                       \* a null unique_ptr

VARIABLES
    map,    \* the data members of each constructed map
    heap,   \* the slabs allocated and not yet freed
    busy,   \* the copy in progress: <<>> or <<target, source, what for>>
    gone    \* history: slabs freed while some map still pointed at them

vars == <<map, heap, busy, gone>>

Live == DOMAIN map

-----------------------------------------------------------------------------
(* Data members.  slots_per_slab_ and the policy's log2 and mask are kept  *)
(* apart: nothing but the code makes them agree.                           *)

Empty(per) ==
    [slabs |-> <<>>, policy |-> per, per |-> per, head |-> End, size |-> 0,
     dead |-> 0, created |-> 0, base |-> 0]

(* A slip: the count of objects created stays.                             *)
MovedFromKeepsCreated(m) ==
    [m EXCEPT !.slabs = <<>>, !.head = End, !.size = 0, !.dead = 0, !.base = 0]

(* What one map's members are when another's are taken, one by one: the    *)
(* policy's vector and layout first, then the map's own.                   *)
Taken(r) ==
    [slabs |-> r.slabs, policy |-> r.policy, head |-> r.head, size |-> r.size,
     dead |-> r.dead, created |-> r.created, per |-> r.per, base |-> r.base]

(* A map whose members have been moved out of it, or which has been reset. *)
MovedFrom(m) ==
    [m EXCEPT !.slabs = <<>>, !.head = End, !.size = 0, !.dead = 0,
              !.created = 0, !.base = 0]

Owned(m) == Range(m.slabs) \ {Null}

SlabIdx(m, i) == i \div m.policy
SlabAt(m, i) ==
    IF SlabIdx(m, i) < Len(m.slabs) THEN m.slabs[SlabIdx(m, i) + 1] ELSE Null

(* The slot index i names, when a slab serves it.                          *)
HasSlot(m, i) == SlabAt(m, i) # Null /\ i % m.policy < heap[SlabAt(m, i)].per
Slot(m, i) == heap[SlabAt(m, i)].slot[i % m.policy]

Fresh == CHOOSE id \in Ids : id \notin DOMAIN heap

With(f, x, y) == [z \in DOMAIN f \union {x} |-> IF z = x THEN y ELSE f[z]]
Without(f, S) == [z \in DOMAIN f \ S |-> f[z]]

(* A slab a map still points at must not be freed.                         *)
Dangling(maps, freed) ==
    gone \union {id \in freed : \E m \in DOMAIN maps : id \in Owned(maps[m])}

-----------------------------------------------------------------------------
(* emplace and erase, on any map.                                          *)

NewSlab(base, per, next) ==
    [per |-> per, dead |-> 0,
     slot |-> [j \in 0 .. per - 1 |->
         [ver |-> IF base = 0 /\ j = 0 THEN 1 ELSE 0, val |-> Free,
          next |-> IF j < per - 1 THEN base + j + 1 ELSE next]]]

(* allocate_new_slab: the map with room for one more range, and its heap.  *)
CanAllocate(r) == r.base < MaxSlots /\ Ids \ DOMAIN heap # {}
Roomy(r) ==
    r.slabs \o [n \in 1 .. SlabIdx(r, r.base) + 1 - Len(r.slabs) |-> Null]
Grown(r) ==
    [r EXCEPT !.slabs = [Roomy(r) EXCEPT ![SlabIdx(r, r.base) + 1] = Fresh],
              !.head = r.base, !.base = r.base + r.per]
GrownHeap(r) == With(heap, Fresh, NewSlab(r.base, r.per, r.head))

Reserve(m) ==
    /\ busy = <<>> /\ CanAllocate(map[m])
    /\ map' = [map EXCEPT ![m] = Grown(@)]
    /\ heap' = GrownHeap(map[m])
    /\ UNCHANGED <<busy, gone>>

(* Pop the head of r's free list in heap h, and put v there.               *)
Construct(m, r, h, v) ==
    LET id == SlabAt(r, r.head)
        j == r.head % r.policy
    IN
    /\ id # Null /\ j < h[id].per
    /\ heap' = [h EXCEPT ![id].slot[j].val = v]
    /\ map' = [map EXCEPT ![m] = [r EXCEPT !.head = h[id].slot[j].next,
                                          !.size = @ + 1, !.created = @ + 1]]

Emplace(m, v) ==
    /\ busy = <<>> /\ map[m].created < MaxCreated
    /\ \/ /\ map[m].head = End /\ CanAllocate(map[m])
          /\ Construct(m, Grown(map[m]), GrownHeap(map[m]), v)
       \/ /\ map[m].head # End
          /\ Construct(m, map[m], heap, v)
    /\ UNCHANGED <<busy, gone>>

Finds(m, k) ==
    /\ HasSlot(map[m], k.index)
    /\ Slot(map[m], k.index).ver = k.version
    /\ Slot(map[m], k.index).val # Free

EraseReuses(m, k) ==
    LET id == SlabAt(map[m], k.index) IN
    /\ busy = <<>> /\ Finds(m, k) /\ k.version < MaxVersion
    /\ heap' = [heap EXCEPT ![id].slot[k.index % map[m].policy] =
           [ver |-> k.version + 1, val |-> Free, next |-> map[m].head]]
    /\ map' = [map EXCEPT ![m].size = @ - 1, ![m].head = k.index]
    /\ UNCHANGED <<busy, gone>>

(* The slot dies; if it is its slab's last and no index range is left, the *)
(* slab is deleted.                                                        *)
EraseRetires(m, k) ==
    LET r == map[m]
        id == SlabAt(r, k.index)
        left == [r EXCEPT !.size = @ - 1, !.dead = @ + 1]
    IN
    /\ busy = <<>> /\ Finds(m, k) /\ k.version = MaxVersion
    /\ \/ /\ heap[id].dead + 1 < heap[id].per
          /\ heap' = [heap EXCEPT ![id].dead = @ + 1,
                           ![id].slot[k.index % r.policy].val = Free]
          /\ map' = [map EXCEPT ![m] = left]
       \/ /\ heap[id].dead + 1 = heap[id].per
          /\ r.base + r.per > MaxSlots
          /\ heap' = Without(heap, {id})
          /\ map' = [map EXCEPT ![m] =
                 [left EXCEPT !.slabs[SlabIdx(r, k.index) + 1] = Null]]
    /\ UNCHANGED <<busy, gone>>

-----------------------------------------------------------------------------
(* Construction, destruction, reset.                                       *)

Create(m, per) ==
    /\ busy = <<>> /\ m \notin Live
    /\ map' = With(map, m, Empty(per))
    /\ UNCHANGED <<heap, busy, gone>>

(* A slip: the vector holds plain pointers, and frees nothing.             *)
DiscardPointers(m, maps) == map' = maps /\ UNCHANGED <<heap, gone>>

(* Every slab a map owns is freed with it.                                 *)
Discard(m, maps) ==
    /\ map' = maps
    /\ heap' = Without(heap, Owned(map[m]))
    /\ gone' = Dangling(maps, Owned(map[m]))

Destroy(m) ==
    /\ busy = <<>>
    /\ Discard(m, Without(map, {m}))
    /\ UNCHANGED busy

Reset(m) ==
    /\ busy = <<>>
    /\ Discard(m, [map EXCEPT ![m] = MovedFrom(@)])
    /\ UNCHANGED busy

-----------------------------------------------------------------------------
(* Copies.  The members are copied first, the slabs after them, one by     *)
(* one; when one cannot be copied the new map's vector is unwound.         *)

BeginCopy(t, s, why) ==
    /\ busy = <<>> /\ t \notin Live
    /\ map' = With(map, t, [Taken(map[s]) EXCEPT !.slabs = <<>>])
    /\ busy' = <<t, s, why>>
    /\ UNCHANGED <<heap, gone>>

(* Self-assignment is caught, and changes nothing.                         *)
CopyConstruct(t, s) == t # s /\ BeginCopy(t, s, "construct")
CopyAssign(t, s) == t # s /\ t \in Live /\ BeginCopy(Temp, s, t)

Target == busy[1]
Copied == Len(map[Target].slabs)
Source == map[busy[2]].slabs

CopyHole == Append(map[Target].slabs, Null)

CopySlab ==
    /\ busy # <<>> /\ Copied < Len(Source)
    /\ IF Source[Copied + 1] = Null
       THEN /\ map' = [map EXCEPT ![Target].slabs = CopyHole]
            /\ UNCHANGED heap
       ELSE /\ Ids \ DOMAIN heap # {}
            /\ heap' = With(heap, Fresh, heap[Source[Copied + 1]])
            /\ map' = [map EXCEPT ![Target].slabs = Append(@, Fresh)]
    /\ UNCHANGED <<busy, gone>>

CopyThrows ==
    /\ busy # <<>> /\ Copied < Len(Source) /\ Source[Copied + 1] # Null
    /\ Discard(Target, Without(map, {Target}))
    /\ busy' = <<>>

EndConstruct ==
    /\ busy # <<>> /\ busy[3] = "construct" /\ Copied = Len(Source)
    /\ busy' = <<>>
    /\ UNCHANGED <<map, heap, gone>>

(* A slip: the policy's shift and mask are not swapped.                    *)
SwappedMembersOnly(m, n) ==
    [map EXCEPT ![m] = [Taken(map[n]) EXCEPT !.policy = map[m].policy],
                ![n] = [Taken(map[m]) EXCEPT !.policy = map[n].policy]]

(* swap: each member is exchanged with its like.                           *)
Swapped(m, n) == [map EXCEPT ![m] = Taken(map[n]), ![n] = Taken(map[m])]

(* copy assignment: swap with the complete copy, which is then destroyed.  *)
EndAssign ==
    /\ busy # <<>> /\ busy[3] # "construct" /\ Copied = Len(Source)
    /\ Discard(busy[3], Without(Swapped(busy[3], Temp), {Temp}))
    /\ busy' = <<>>

Swap(m, n) ==
    /\ busy = <<>> /\ m # n
    /\ map' = Swapped(m, n)
    /\ UNCHANGED <<heap, busy, gone>>

MoveConstruct(t, s) ==
    /\ busy = <<>> /\ t \notin Live
    /\ map' = With([map EXCEPT ![s] = MovedFrom(@)], t, Taken(map[s]))
    /\ UNCHANGED <<heap, busy, gone>>

(* The target's slabs are freed by the vector's move assignment.           *)
MoveAssign(t, s) ==
    /\ busy = <<>> /\ t # s
    /\ Discard(t, [map EXCEPT ![t] = Taken(map[s]), ![s] = MovedFrom(@)])
    /\ UNCHANGED busy

-----------------------------------------------------------------------------
Init == map = <<>> /\ heap = <<>> /\ busy = <<>> /\ gone = {}

Next ==
    \/ \E m \in Maps, per \in SlabSizes : Create(m, per)
    \/ \E m \in Live :
           \/ Reserve(m)
           \/ \E v \in Values : Emplace(m, v)
           \/ \E k \in Key : EraseReuses(m, k)
           \/ \E k \in Key : EraseRetires(m, k)
           \/ Reset(m)
           \/ Destroy(m)
    \/ \E t \in Maps, s \in Live :
           \/ CopyConstruct(t, s)
           \/ CopyAssign(t, s)
           \/ MoveConstruct(t, s)
    \/ \E t, s \in Live : MoveAssign(t, s) \/ Swap(t, s)
    \/ CopySlab
    \/ CopyThrows
    \/ EndConstruct
    \/ EndAssign

Spec == Init /\ [][Next]_vars

-----------------------------------------------------------------------------
(* Where a slab's pointer is held.                                         *)
Places(id) ==
    {p \in Live \X (1 .. MaxSlots) :
        p[2] <= Len(map[p[1]].slabs) /\ map[p[1]].slabs[p[2]] = id}

(* Every slab on the heap belongs to exactly one position of one map, and  *)
(* every map position names a slab on the heap: nothing leaks, dangles or  *)
(* is freed twice, whatever is copied, moved, swapped, thrown or dropped.  *)
OneOwner ==
    /\ gone = {}
    /\ UNION {Owned(map[m]) : m \in Live} = DOMAIN heap
    /\ \A id \in DOMAIN heap : Cardinality(Places(id)) = 1

(* The map members that describe the slabs go where the slabs go: in every *)
(* complete map, the counts agree with the slots, the free list leads to   *)
(* slots of this map only, and each index range handed out has a place.    *)
Complete(m) == busy = <<>> \/ m # Target
Reached(m) == {i \in Index : HasSlot(map[m], i)}
MembersFollowSlabs ==
    \A m \in Live : Complete(m) =>
        /\ map[m].size = Cardinality({i \in Reached(m) :
                             Slot(map[m], i).val # Free})
        /\ map[m].head # End => /\ HasSlot(map[m], map[m].head)
                                /\ Slot(map[m], map[m].head).val = Free
        /\ Len(map[m].slabs) * map[m].per = map[m].base
        /\ \A id \in Owned(map[m]) : heap[id].per = map[m].per

(* The maps behave as values (module MapValues): each call changes only    *)
(* the map it is made on; a finished copy equals its source in elements,   *)
(* counters and layout ("identical structure"), whatever slab sizes the    *)
(* two had; a copy that throws at any slab has not happened; a moved-from  *)
(* map is an empty map that can be used again.                             *)
Elements(m) ==
    [k \in {x \in Key : Finds(m, x)} |-> Slot(map[m], k.index).val]

ValueOf(m) ==
    [elements |-> Elements(m), created |-> map[m].created,
     layout |-> <<map[m].per, map[m].size, map[m].dead, map[m].base,
                  map[m].head, [n \in DOMAIN map[m].slabs |->
                                   map[m].slabs[n] # Null]>>]

Cleared(v) ==
    [elements |-> <<>>, created |-> 0,
     layout |-> <<v.layout[1], 0, 0, 0, End, <<>>>>]

Plain == INSTANCE MapValues WITH
    Names <- Maps, Clean <- Cleared,
    val <- [m \in {x \in Live : Complete(x)} |-> ValueOf(m)]

MapsAreValues == Plain!Spec
=============================================================================
