----------------------------- MODULE MapValues -----------------------------
(***************************************************************************)
(* Maps as plain values, the way int variables are: each operation changes *)
(* the map it is called on and no other; a copy equals its source, a move  *)
(* leaves its source empty, a swap exchanges two; and a copy that throws   *)
(* has not happened.  Nothing is said of slabs, lists or pointers.         *)
(***************************************************************************)
EXTENDS Naturals

CONSTANTS Names, Clean(_)   \* Clean(v): the value v is left with when emptied

VARIABLE val    \* each existing map's value: elements, created, and layout

Sole(m) == \A n \in DOMAIN val \ {m} : val'[n] = val[n]
Same == DOMAIN val' = DOMAIN val

(* One element more, under a key that had none.                            *)
Put(m) ==
    /\ Same /\ Sole(m)
    /\ val'[m].created = val[m].created + 1
    /\ \E k \in DOMAIN val'[m].elements \ DOMAIN val[m].elements :
           val[m].elements =
               [x \in DOMAIN val'[m].elements \ {k} |-> val'[m].elements[x]]

(* One element less.                                                       *)
Take(m) ==
    /\ Same /\ Sole(m)
    /\ val'[m].created = val[m].created
    /\ \E k \in DOMAIN val[m].elements :
           val'[m].elements =
               [x \in DOMAIN val[m].elements \ {k} |-> val[m].elements[x]]

(* Room is made; no element is touched.                                    *)
Grow(m) ==
    /\ Same /\ Sole(m)
    /\ val'[m].created = val[m].created /\ val'[m].elements = val[m].elements

Empty(m) == val' = [val EXCEPT ![m] = Clean(@)]

Drop(m) == DOMAIN val' = DOMAIN val \ {m} /\ Sole(m)

(* A map comes into being, empty.                                          *)
Make(m) ==
    /\ m \notin DOMAIN val /\ DOMAIN val' = DOMAIN val \union {m} /\ Sole(m)
    /\ val'[m] = Clean(val'[m])

Copy(t, s) ==
    /\ DOMAIN val' = DOMAIN val \union {t} /\ Sole(t)
    /\ val'[t] = val[s]

Move(t, s) ==
    /\ DOMAIN val' = DOMAIN val \union {t}
    /\ \A n \in DOMAIN val \ {t, s} : val'[n] = val[n]
    /\ val'[t] = val[s] /\ val'[s] = Clean(val[s])

Swap(t, s) == val' = [val EXCEPT ![t] = val[s], ![s] = val[t]]

Init == DOMAIN val = {}

Next ==
    \/ \E m \in Names : Make(m)
    \/ \E m \in DOMAIN val : Put(m) \/ Take(m) \/ Grow(m) \/ Empty(m) \/ Drop(m)
    \/ \E t \in Names, s \in DOMAIN val : Copy(t, s)
    \/ \E t \in Names, s \in DOMAIN val : t # s /\ Move(t, s)
    \/ \E t, s \in DOMAIN val : Swap(t, s)

Spec == Init /\ [][Next]_val
=============================================================================
