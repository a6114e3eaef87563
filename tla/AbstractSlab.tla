---------------------------- MODULE AbstractSlab ----------------------------
(***************************************************************************)
(* What a slab promises its map: slots that each hold at most one element, *)
(* one life after another; the version handed out by emplace numbers the   *)
(* life; destroy says whether the slot has a life left; and a slab all of  *)
(* whose lives are spent can be made new.  Nothing is said of bits.        *)
(***************************************************************************)
EXTENDS Naturals

CONSTANTS Slot, Values, None, LastLife

VARIABLES
    content,    \* each slot's element, or None
    life,       \* the number of each slot's next or present life
    told        \* what the latest call returned

vars == <<content, life, told>>

Init ==
    /\ content = [i \in Slot |-> None]
    /\ life \in [Slot -> {0, 1}]
    /\ told = <<>>

Emplace(i, v) ==
    /\ content[i] = None /\ life[i] <= LastLife
    /\ content' = [content EXCEPT ![i] = v]
    /\ told' = <<"version", life[i]>>
    /\ UNCHANGED life

Destroy(i) ==
    /\ content[i] # None
    /\ content' = [content EXCEPT ![i] = None]
    /\ life' = [life EXCEPT ![i] = @ + 1]
    /\ told' = <<"reusable", life[i] < LastLife>>

(* All lives are spent; the slab serves another index range from life 0.   *)
Renew ==
    /\ \A i \in Slot : life[i] = LastLife + 1
    /\ life' = [i \in Slot |-> 0]
    /\ UNCHANGED <<content, told>>

Next ==
    \/ \E i \in Slot, v \in Values : Emplace(i, v)
    \/ \E i \in Slot : Destroy(i)
    \/ Renew

Spec == Init /\ [][Next]_vars
=============================================================================
