----------------------------- MODULE KeyedStore -----------------------------
(***************************************************************************)
(* What a slot map promises its clients: a store that makes up the key of  *)
(* each element, bounded in how many elements it holds at once, and that   *)
(* never hands out a key twice between two resets.  There are no slots     *)
(* here, no versions, no free list.                                        *)
(***************************************************************************)
EXTENDS Integers, FiniteSets

CONSTANTS
    Keys,       \* every key the store may make up
    Values,
    Capacity    \* elements held at once

VARIABLES
    contents,   \* the elements: a function from their keys to their values
    used        \* the keys handed out since the last reset

storeVars == <<contents, used>>

Live == DOMAIN contents

StoreInit == contents = [k \in {} |-> {}] /\ used = {}

(* emplace: the store picks a key it never used.                           *)
Insert(k, v) ==
    /\ k \notin used
    /\ Cardinality(Live) < Capacity
    /\ contents' = [x \in Live \union {k} |-> IF x = k THEN v ELSE contents[x]]
    /\ used' = used \union {k}

(* use: the client changes one element in place.                           *)
Assign(k, v) ==
    /\ k \in Live
    /\ contents' = [contents EXCEPT ![k] = v]
    /\ UNCHANGED used

(* erase, pop: one element goes, every other stays as it was.              *)
Delete(k) ==
    /\ k \in Live
    /\ contents' = [x \in Live \ {k} |-> contents[x]]
    /\ UNCHANGED used

(* clear: the elements go, their keys stay used.                           *)
DeleteAll == contents' = [k \in {} |-> {}] /\ UNCHANGED used

(* reset: as constructed.                                                  *)
Renew == StoreInit'

StoreNext ==
    \/ \E k \in Keys, v \in Values : Insert(k, v) \/ Assign(k, v)
    \/ \E k \in Keys : Delete(k)
    \/ DeleteAll
    \/ Renew

StoreSpec == StoreInit /\ [][StoreNext]_storeVars
=============================================================================
