----------------------------- MODULE SlotMapInv -----------------------------
(***************************************************************************)
(* The inductive invariant behind the safety properties of SlotMap.  It    *)
(* is stated slot by slot, so that one step disturbs few of its parts.     *)
(***************************************************************************)
EXTENDS SlotMap

(* Slabs start at multiples of their size, below next_slab_base_index_.    *)
SlabsOnGrid ==
    /\ nextBase % SlotsPerSlab = 0
    /\ \A i \in Index : Present(i) => i < nextBase

(* The embedded alive bit, where there is one, repeats the bitmap's, and   *)
(* only slots of a slab are alive.                                         *)
AliveBitsMatch ==
    \A i \in Index :
        /\ aliveBit[i] <=> HasAliveBit /\ bitmap[i]
        /\ bitmap[i] => Present(i)

(* Keys were issued for allocated slots only; a slot's version never falls *)
(* below that of a key it issued; an alive slot's key was issued, that of  *)
(* a slot not alive only at the last version; the first slot never has     *)
(* version 0.                                                              *)
VersionsCover ==
    /\ \A k \in issued :
           /\ k.index < nextBase
           /\ Present(k.index) => k.version <= version[k.index]
    /\ \A i \in Index :
           bitmap[i] => KeyOf(i) \in issued /\ storage[i] \in Values
    /\ \A i \in Index :
           Present(i) /\ ~bitmap[i] /\ version[i] < MaxVersion
               => KeyOf(i) \notin issued
    /\ NullKey \notin issued
    /\ Present(0) => version[0] # 0

(* A slab's dead_count_ counts its dead slots, so that a slab is deleted   *)
(* only when no key and no free-list link leads into it.                   *)
DeadOf(s) == {i \in Slots(s) : Dead(i)}
DeadCounted ==
    /\ \A s \in slabs : deadCount[s] = Cardinality(DeadOf(s))
    /\ \A s \in SlabIndex \ slabs : deadCount[s] = 0

(* The slots of L are on the list that starts at head and follows links:   *)
(* they are linked among themselves, no two to the same slot and none to   *)
(* the head, so that popping the head leaves L \ {head} in the same shape. *)
ListShape(L, head, links) ==
    /\ head \in L \union {End}
    /\ \A i \in L : links[i] \in L \union {End}
    /\ \A i \in L : links[i] = head => head = End
    /\ \A i, j \in L : links[i] = links[j] /\ links[i] # End => i = j

Linked(L) == (\A i \in L : Unused(i)) /\ ListShape(L, freeHead, storage)

FreeListLinked == \E L \in SUBSET Index : Linked(L)

(* What holds of the slots whatever the free list has become.              *)
SlotsInv ==
    /\ SlabsOnGrid
    /\ AliveBitsMatch
    /\ VersionsCover
    /\ DeadCounted

KeyInv ==
    /\ SlabsOnGrid
    /\ AliveBitsMatch
    /\ VersionsCover
    /\ DeadCounted
    /\ FreeListLinked
=============================================================================
