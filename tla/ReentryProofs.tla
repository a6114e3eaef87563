--------------------------- MODULE ReentryProofs ---------------------------
(***************************************************************************)
(* Proofs about Reentry, for any sizes, any depth and any client whose     *)
(* use() callbacks, destructors that erase and pop run, and moves that pop *)
(* runs call the map back as Reentry lets them: size() counts the elements *)
(* whenever no clear() is running, and the calls, cut open and interleaved *)
(* as they are, implement the whole calls of SlotMap.                      *)
(*                                                                         *)
(* Constructors, and destructors that clear() runs, are left out of        *)
(* Nested: configurations NestedEmplace and NestedClear show why.          *)
(***************************************************************************)
EXTENDS Reentry, SlotMapProofs, SequenceTheorems

-----------------------------------------------------------------------------
(* The inductive invariant.                                                *)

(* What holds of the map at every moment, a clear() half way included.     *)
MapSound ==
    /\ TypeInv /\ KeyInv /\ Running
    /\ deadSlots = Cardinality(DeadSet)

Frames == [op : {"emplace", "erase", "pop", "clear", "use"}, slot : Index,
           ver : Version, next : Link, value : Link \union Values]

(* Only the innermost call can be an emplace or a clear.                   *)
CallersSound ==
    \A n \in 1 .. Len(frames) :
        frames[n].op \in {"emplace", "clear"} => n = Len(frames)

(* The calls that take one element out.                                    *)
Removing == {"erase", "pop"}

(* Frame n is taking out an alive element, which no other is.              *)
EraseSound(n) ==
    frames[n].op \in Removing =>
        /\ bitmap[frames[n].slot]
        /\ version[frames[n].slot] = frames[n].ver
        /\ \A m \in 1 .. Len(frames) :
               frames[m].op \in Removing /\ frames[m].slot = frames[n].slot => m = n

(* What emplace read before T's constructor ran is still so.               *)
EmplaceSound ==
    In("emplace") =>
        /\ HeadUsable /\ objectsCreated < MaxCreated
        /\ Top.slot = freeHead /\ Top.ver = version[freeHead]
        /\ Top.next \in LinksRead(storage[freeHead])
        /\ Top.value \in Values

(* The slots that clear() links again, and those that die of it below p.   *)
Back(b) == {i \in Index : Present(i) /\ b.version[i] < MaxVersion}
Died(b, p) ==
    {i \in Index : i < p /\ b.bitmap[i] /\ b.version[i] = MaxVersion}

(* clear(), begun in the state b, has gone through the slots below p, and  *)
(* its list so far starts at head.                                         *)
Progress(b, p, head) ==
    /\ \A i \in Index : i < p =>
           /\ version[i] = IF b.bitmap[i] /\ b.version[i] < MaxVersion
                           THEN b.version[i] + 1 ELSE b.version[i]
           /\ aliveBit[i] = (b.aliveBit[i] /\ ~b.bitmap[i])
           /\ bitmap[i] = FALSE
           /\ storage[i] = IF i \in Back(b)
                           THEN LastOf({j \in Back(b) : j < i})
                           ELSE b.storage[i]
           /\ i \in Back(b) => Unused(i)
    /\ \A i \in Index : ~(i < p) =>
           /\ version[i] = b.version[i] /\ aliveBit[i] = b.aliveBit[i]
           /\ bitmap[i] = b.bitmap[i] /\ storage[i] = b.storage[i]
    /\ head = LastOf({i \in Back(b) : i < p})
    /\ \A s \in SlabIndex :
           deadCount[s] = b.deadCount[s] + Cardinality(Died(b, p) \intersect Slots(s))
    /\ deadSlots = b.deadSlots + Cardinality(Died(b, p))
    /\ b.deadSlots \in Nat /\ \A s \in SlabIndex : b.deadCount[s] \in Nat

(* No other call is taking out an element while clear() runs.              *)
ClearSound ==
    In("clear") =>
        /\ bitmap[Top.slot]
        /\ \A n \in 1 .. Len(frames) : frames[n].op \notin Removing
        /\ \E b, p : b = before /\ p = Top.slot /\ Progress(b, p, freeHead)

FramesSound ==
    /\ frames \in Seq(Frames)
    /\ CallersSound
    /\ \A n \in 1 .. Len(frames) : EraseSound(n)
    /\ EmplaceSound

ReentryInv ==
    /\ MapSound /\ FramesSound /\ ClearSound
    /\ ~Clearing => size = Cardinality(AliveSlots)

-----------------------------------------------------------------------------
(* The last slot of a set.                                                 *)

(* It is the one that no other exceeds.                                    *)
LEMMA LastIs ==
    ASSUME NEW S \in SUBSET Index, NEW x \in S, \A y \in S : y <= x
    PROVE  LastOf(S) = x
<1>1. LastOf(S) \in S /\ x <= LastOf(S)
  BY LastOfIsLast
<1>2. LastOf(S) <= x
  BY <1>1
<1>3. x \in Index /\ LastOf(S) \in Index
  BY <1>1
<1>4. x \in Int /\ LastOf(S) \in Int
  BY ONLY <1>3, IndexIsInt
<1> QED
  BY <1>1, <1>2, <1>4

(* Slots before all of S do not matter to its last.                        *)
LEMMA LastOfJoin ==
    ASSUME NEW A \in SUBSET Index, NEW S \in SUBSET Index, S # {},
           \A a \in A, x \in S : a < x
    PROVE  LastOf(A \union S) = LastOf(S)
<1>1. LastOf(S) \in S /\ \A x \in S : x <= LastOf(S)
  BY LastOfIsLast
<1>2. ASSUME NEW a \in A PROVE a <= LastOf(S)
  <2>1. a < LastOf(S) /\ a \in Index /\ LastOf(S) \in Index
    BY <1>1
  <2> QED
    BY <2>1, IndexIsInt
<1>3. PICK x \in S : x = LastOf(S)
  BY <1>1
<1>4. A \union S \in SUBSET Index /\ x \in A \union S
        /\ \A y \in A \union S : y <= x
  BY <1>1, <1>2, <1>3
<1>5. LastOf(A \union S) = x
  BY ONLY <1>4, LastIs
<1> QED
  BY <1>3, <1>5

(* A nonempty set of slots has a first one.                                *)
LEMMA FirstExists ==
    ASSUME NEW S \in SUBSET Index, S # {}
    PROVE  \E i \in S : \A j \in S : i <= j
<1>1. S \in SUBSET Nat
  BY IndexIsInt
<1> QED
  BY <1>1, LeastNat

-----------------------------------------------------------------------------
(* A stretch of clear()'s loop.                                            *)

(* The elements it destroys from slot q on, before slot p, the slots it    *)
(* links again, and the slots that die.                                    *)
Gone(q, p) == {i \in Index : ~(i < q) /\ i < p /\ bitmap[i]}
Linking(q, p) ==
    {i \in Index : ~(i < q) /\ i < p /\ Present(i) /\ version[i] < MaxVersion}
Dies(q, p) == {i \in Gone(q, p) : version[i] = MaxVersion}

(* It goes from slot q up to slot p, the list so far starting at head.     *)
Passes(q, p, head) ==
    /\ version' = [i \in Index |->
           IF i \in Gone(q, p) /\ i \notin Dies(q, p)
           THEN version[i] + 1 ELSE version[i]]
    /\ aliveBit' = [i \in Index |-> aliveBit[i] /\ i \notin Gone(q, p)]
    /\ bitmap' = [i \in Index |-> bitmap[i] /\ i \notin Gone(q, p)]
    /\ storage' = [i \in Index |->
           IF i \notin Linking(q, p) THEN storage[i]
           ELSE IF LastOf({j \in Linking(q, p) : j < i}) = End THEN head
           ELSE LastOf({j \in Linking(q, p) : j < i})]
    /\ freeHead' = IF Linking(q, p) = {} THEN head ELSE LastOf(Linking(q, p))
    /\ deadCount' = [s \in SlabIndex |->
           deadCount[s] + Cardinality(Dies(q, p) \intersect Slots(s))]
    /\ deadSlots' = deadSlots + Cardinality(Dies(q, p))
    /\ UNCHANGED <<slabs, objectsCreated, nextBase, issued>>

(* What becomes of the call.                                               *)
Stops(p) ==
    IF p = End
    THEN /\ size' = 0 /\ status' = "returned" /\ before' = <<>>
         /\ IF In("clear") THEN Pop ELSE UNCHANGED frames
    ELSE /\ UNCHANGED <<size, status>>
         /\ IF In("clear")
            THEN /\ frames' = [frames EXCEPT ![Len(frames)].slot = p]
                 /\ UNCHANGED before
            ELSE /\ Push(Frame("clear", p, 0, End, storage[p]))
                 /\ before' = Fields

(* The loop stops at the next alive slot, or at the end.                   *)
LEMMA SweepPasses ==
    ASSUME NEW c, NEW from, NEW head, NEW q \in Nat, Sweep(c, from, head),
           \/ c = {} /\ from = q
           \/ c = {q} /\ from = q + 1 /\ q \in Index /\ bitmap[q]
    PROVE  \E p \in Index \union {End} :
               /\ Passes(q, p, head) /\ Stops(p)
               /\ p \in Index => bitmap[p] /\ q <= p /\ p \notin c
<1> DEFINE ahead == {i \in Index : i >= from /\ bitmap[i]}
           stop == IF ahead = {} THEN End
                   ELSE CHOOSE i \in ahead : \A j \in ahead : i <= j
           L == LinkedBack(c \union {i \in Index : i >= from /\ i < stop})
           prev(i) == LastOf({j \in L : j < i})
           dying == {i \in c : version[i] = MaxVersion}
<1>1. /\ version' = [i \in Index |->
             IF i \in c /\ i \notin dying THEN version[i] + 1 ELSE version[i]]
      /\ aliveBit' = [i \in Index |-> aliveBit[i] /\ i \notin c]
      /\ bitmap' = [i \in Index |-> bitmap[i] /\ i \notin c]
      /\ storage' = [i \in Index |->
             IF i \notin L THEN storage[i]
             ELSE IF prev(i) = End THEN head ELSE prev(i)]
      /\ freeHead' = IF L = {} THEN head ELSE LastOf(L)
      /\ deadCount' = [s \in SlabIndex |->
             deadCount[s] + Cardinality(dying \intersect Slots(s))]
      /\ deadSlots' = deadSlots + Cardinality(dying)
      /\ UNCHANGED <<slabs, objectsCreated, nextBase, issued>>
  BY DEF Sweep
<1>2. Stops(stop)
  BY DEF Sweep, Stops
<1>3. /\ from \in Nat /\ q <= from /\ ahead \in SUBSET Index
      /\ \A i \in Index : i \in ahead <=> i >= from /\ bitmap[i]
  OBVIOUS
<1>4. PICK p : p = stop
  OBVIOUS
<1>5. /\ p \in Index \union {End}
      /\ p \in Index => bitmap[p] /\ p >= from
      /\ \A i \in Index : i >= from /\ i < p => ~bitmap[i]
  <2>1. CASE ahead = {}
    <3>1. p = End
      BY <1>4, <2>1
    <3> HIDE DEF ahead
    <3> QED
      BY <1>3, <2>1, <3>1, IndexIsInt
  <2>2. CASE ahead # {}
    <3>1. \E i \in ahead : \A j \in ahead : i <= j
      <4> HIDE DEF ahead
      <4> QED
        BY <1>3, <2>2, FirstExists
    <3>2. p \in ahead /\ \A j \in ahead : p <= j
      BY <1>4, <2>2, <3>1
    <3> HIDE DEF ahead
    <3>3. ASSUME NEW i \in Index, i >= from, i < p PROVE ~bitmap[i]
      <4>1. i \in Int /\ p \in Int
        BY <1>3, <3>2, IndexIsInt
      <4> QED
        BY <1>3, <3>2, <3>3, <4>1
    <3> QED
      BY <1>3, <3>2, <3>3
  <2> QED
    BY <2>1, <2>2
<1>6. \A i \in Index : (i \in c \/ (i >= from /\ i < p)) <=> ~(i < q) /\ i < p
  <2>1. End \in Nat /\ \A i \in Index : i < End
    BY SizeAssumption DEF End, Index
  <2>2. p \in Nat /\ \A i \in Index : i \in Nat
    BY <1>5, <2>1, IndexIsInt
  <2>3. CASE c = {}
    BY <1>3, <2>2, <2>3
  <2>4. CASE c = {q} /\ from = q + 1 /\ q \in Index
    <3>1. q < p
      BY <1>5, <2>1, <2>2, <2>4
    <3> QED
      BY <2>2, <2>4, <3>1
  <2> QED
    BY <2>3, <2>4
<1>7. c = Gone(q, p)
  <2>1. \A i \in c : i \in Index /\ bitmap[i]
    OBVIOUS
  <2>2. \A i \in Index : i \in c <=> i \in Gone(q, p)
    BY <1>5, <1>6, <2>1 DEF Gone
  <2> QED
    BY <2>1, <2>2 DEF Gone
<1>8. L = Linking(q, p)
  <2>1. L = LinkedBack(c \union {i \in Index : i >= from /\ i < p})
    BY <1>4
  <2>2. \A i \in c : i \in Index
    OBVIOUS
  <2> HIDE DEF L
  <2> QED
    BY <1>6, <2>1, <2>2 DEF LinkedBack, Linking
<1>9. dying = Dies(q, p)
  BY <1>7 DEF Dies
<1>10. Passes(q, p, head)
  <2> HIDE DEF L, dying
  <2> QED
    BY <1>1, <1>7, <1>8, <1>9 DEF Passes
<1>11. p \in Index => bitmap[p] /\ q <= p /\ p \notin c
  <2>1. p \in Index => p \in Nat
    BY IndexIsInt
  <2> QED
    BY <1>3, <1>5, <2>1
<1> QED
  BY <1>2, <1>4, <1>5, <1>10, <1>11

(* What it does to each slot.                                              *)
LEMMA PassesEach ==
    ASSUME TypeInv, KeyInv, NEW q \in Nat, NEW p, NEW head, Passes(q, p, head)
    PROVE  /\ \A j \in Index :
                 /\ bitmap'[j] <=> bitmap[j] /\ j \notin Gone(q, p)
                 /\ aliveBit'[j] <=> aliveBit[j] /\ j \notin Gone(q, p)
                 /\ version'[j] = IF j \in Gone(q, p) /\ version[j] < MaxVersion
                                  THEN version[j] + 1 ELSE version[j]
                 /\ j \notin Linking(q, p) => storage'[j] = storage[j]
                 /\ Present(j)' <=> Present(j)
                 /\ version[j] \in Nat /\ version[j] <= MaxVersion
                 /\ version'[j] \in Nat /\ version[j] <= version'[j]
                 /\ version'[j] <= MaxVersion
           /\ Gone(q, p) \subseteq Index /\ Linking(q, p) \in SUBSET Index
           /\ UNCHANGED <<slabs, nextBase, issued>> /\ MaxVersion \in Nat
<1>1. MaxVersion \in Nat /\ \A j \in Index : version[j] \in 0 .. MaxVersion
  BY SizeAssumption DEF Version, TypeInv, TypeOK
<1>2. /\ Gone(q, p) \subseteq Index /\ Linking(q, p) \in SUBSET Index
      /\ UNCHANGED <<slabs, nextBase, issued>>
  BY DEF Gone, Linking, Passes
<1>3. ASSUME NEW j \in Index
      PROVE  /\ bitmap'[j] <=> bitmap[j] /\ j \notin Gone(q, p)
             /\ aliveBit'[j] <=> aliveBit[j] /\ j \notin Gone(q, p)
             /\ version'[j] = IF j \in Gone(q, p) /\ j \notin Dies(q, p)
                              THEN version[j] + 1 ELSE version[j]
             /\ j \notin Linking(q, p) => storage'[j] = storage[j]
  BY DEF Passes
<1>4. ASSUME NEW j \in Index
      PROVE  /\ version'[j] = IF j \in Gone(q, p) /\ version[j] < MaxVersion
                              THEN version[j] + 1 ELSE version[j]
             /\ version[j] \in Nat /\ version[j] <= MaxVersion
  <2>1. version[j] \in Nat /\ version[j] <= MaxVersion
    BY <1>1
  <2>2. j \in Gone(q, p) => (j \in Dies(q, p) <=> ~(version[j] < MaxVersion))
    BY <1>1, <2>1 DEF Dies
  <2> QED
    BY <1>3, <2>1, <2>2
<1>5. ASSUME NEW j \in Index
      PROVE  /\ version'[j] \in Nat /\ version[j] <= version'[j]
             /\ version'[j] <= MaxVersion
  <2>1. PICK x \in Nat : x = version[j] /\ x <= MaxVersion
    BY <1>4
  <2>2. version'[j] = x \/ (version'[j] = x + 1 /\ x < MaxVersion)
    BY <1>4, <2>1
  <2> QED
    BY <1>1, <2>1, <2>2
<1>6. \A j : Present(j)' <=> Present(j)
  BY <1>2 DEF Present
<1> QED
  BY <1>1, <1>2, <1>3, <1>4, <1>5, <1>6

(* The slots that die are those it destroys at their last version.         *)
LEMMA PassesDead ==
    ASSUME TypeInv, KeyInv, NEW q \in Nat, NEW p, NEW head, Passes(q, p, head)
    PROVE  /\ \A j \in Index : Dead(j)' <=> Dead(j) \/ j \in Dies(q, p)
           /\ \A j \in Dies(q, p) : j \in Index /\ ~Dead(j)
<1>1. ASSUME NEW j \in Dies(q, p)
      PROVE  j \in Index /\ bitmap[j] /\ version[j] = MaxVersion
  BY DEF Dies, Gone
<1>2. ASSUME NEW j \in Index PROVE Dead(j)' <=> Dead(j) \/ j \in Dies(q, p)
  <2> DEFINE last == [index |-> j, version |-> MaxVersion]
  <2>1. Dead(j)' <=> ~bitmap'[j] /\ last \in issued
    BY PassesEach DEF Dead
  <2>2. Dead(j) <=> ~bitmap[j] /\ last \in issued
    BY DEF Dead
  <2>3. bitmap'[j] <=> bitmap[j] /\ j \notin Gone(q, p)
    BY PassesEach
  <2>4. CASE j \in Gone(q, p)
    <3>1. bitmap[j] /\ Present(j) /\ KeyOf(j) \in issued
      BY <2>4 DEF Gone, KeyInv, AliveBitsMatch, VersionsCover
    <3>2. last \in issued => MaxVersion <= version[j]
      BY <3>1 DEF KeyInv, VersionsCover
    <3>3. version[j] \in Nat /\ version[j] <= MaxVersion /\ MaxVersion \in Nat
      BY PassesEach
    <3>4. version[j] = MaxVersion => last \in issued
      BY <3>1 DEF KeyOf
    <3>5. j \in Dies(q, p) <=> version[j] = MaxVersion
      BY <2>4 DEF Dies
    <3>6. last \in issued <=> version[j] = MaxVersion
      BY <3>2, <3>3, <3>4
    <3> QED
      BY <2>1, <2>2, <2>3, <2>4, <3>1, <3>5, <3>6
  <2>5. CASE j \notin Gone(q, p)
    <3>1. j \notin Dies(q, p)
      BY <2>5 DEF Dies
    <3> QED
      BY <2>1, <2>2, <2>3, <2>5, <3>1
  <2> QED
    BY <2>4, <2>5
<1> QED
  BY <1>1, <1>2 DEF Dead

(* The types of the variables stay.                                        *)
LEMMA PassesType ==
    ASSUME TypeInv, KeyInv, NEW q \in Nat, NEW p, NEW head \in Link,
           Passes(q, p, head), Stops(p), Running
    PROVE  TypeInv' /\ Running'
<1>1. \A j \in Index : version'[j] \in Version
  BY PassesEach DEF Version
<1>2. version' \in [Index -> Version] /\ aliveBit' \in [Index -> BOOLEAN]
        /\ bitmap' \in [Index -> BOOLEAN]
  BY <1>1 DEF Passes
<1>3. \A S \in SUBSET Index : LastOf(S) \in Link
  BY LastOfType DEF Link
<1>4. Linking(q, p) \in SUBSET Index
  BY DEF Linking
<1>5. freeHead' \in Link
  BY <1>3, <1>4 DEF Passes
<1>6. storage' \in [Index -> Link \union Values]
  <2>1. ASSUME NEW j \in Index
        PROVE  (IF j \notin Linking(q, p) THEN storage[j]
                ELSE IF LastOf({x \in Linking(q, p) : x < j}) = End THEN head
                ELSE LastOf({x \in Linking(q, p) : x < j})) \in Link \union Values
    <3>1. storage[j] \in Link \union Values
      BY DEF TypeInv, TypeOK
    <3>2. {x \in Linking(q, p) : x < j} \in SUBSET Index
      BY <1>4
    <3> QED
      BY <1>3, <3>1, <3>2
  <2> QED
    BY <2>1 DEF Passes
<1>7. Dies(q, p) \in SUBSET Index
  BY DEF Dies, Gone
<1>8. deadSlots' \in Nat
  BY <1>7, IndexSubsetsFinite DEF Passes, TypeInv, TypeOK
<1>9. deadCount' \in [SlabIndex -> Nat]
  <2>1. ASSUME NEW s \in SlabIndex
        PROVE  deadCount[s] + Cardinality(Dies(q, p) \intersect Slots(s)) \in Nat
    <3>1. Dies(q, p) \intersect Slots(s) \in SUBSET Index
      BY <1>7
    <3> QED
      BY <3>1, IndexSubsetsFinite DEF TypeInv, TypeOK
  <2> QED
    BY <2>1 DEF Passes
<1>10. size' \in Int /\ status' \in {"returned", "threw", "aborted"} /\ Running'
  BY DEF Stops, TypeInv, TypeOK, Running
<1>11. UNCHANGED <<slabs, objectsCreated, nextBase, issued>>
  BY DEF Passes
<1> QED
  BY <1>2, <1>5, <1>6, <1>8, <1>9, <1>10, <1>11 DEF TypeInv, TypeOK, OnGrid

(* The counts of dead slots stay exact.                                    *)
LEMMA PassesCounts ==
    ASSUME TypeInv, KeyInv, NEW q \in Nat, NEW p, NEW head, Passes(q, p, head)
    PROVE  /\ DeadCounted'
           /\ deadSlots = Cardinality(DeadSet) => deadSlots' = Cardinality(DeadSet')
<1> DEFINE D == Dies(q, p)
<1>1. /\ \A j \in Index : Dead(j)' <=> Dead(j) \/ j \in D
      /\ \A j \in D : j \in Index /\ ~Dead(j)
  BY PassesDead
<1> HIDE DEF D
<1>2. ASSUME NEW S \in SUBSET Index, NEW T \in SUBSET Index, S \intersect T = {}
      PROVE  Cardinality(S \union T) = Cardinality(S) + Cardinality(T)
  <2>1. Cardinality(S \intersect T) = 0
    BY <1>2, FS_EmptySet
  <2>2. Cardinality(S \union T) = Cardinality(S) + Cardinality(T)
                                    - Cardinality(S \intersect T)
    BY IndexSubsetsFinite, FS_Union
  <2> QED
    BY <2>1, <2>2, IndexSubsetsFinite
<1>3. ASSUME deadSlots = Cardinality(DeadSet)
      PROVE  deadSlots' = Cardinality(DeadSet')
  <2>1. DeadSet' = DeadSet \union D /\ DeadSet \intersect D = {}
    BY <1>1 DEF DeadSet
  <2>2. DeadSet \in SUBSET Index /\ D \in SUBSET Index
    BY <1>1 DEF DeadSet
  <2>3. deadSlots' = deadSlots + Cardinality(D)
    BY DEF Passes, D
  <2> QED
    BY <1>2, <1>3, <2>1, <2>2, <2>3
<1>4. ASSUME NEW s \in SlabIndex
      PROVE  /\ DeadOf(s)' = DeadOf(s) \union (D \intersect Slots(s))
             /\ DeadOf(s) \intersect (D \intersect Slots(s)) = {}
             /\ DeadOf(s) \in SUBSET Index /\ D \intersect Slots(s) \in SUBSET Index
  BY <1>1 DEF DeadOf, Slots
<1>5. \A s \in SlabIndex :
          deadCount'[s] = deadCount[s] + Cardinality(D \intersect Slots(s))
  BY DEF Passes, D
<1>6. slabs' = slabs /\ slabs \subseteq SlabIndex
  BY DEF Passes, TypeInv, TypeOK
<1>7. ASSUME NEW s \in slabs PROVE deadCount'[s] = Cardinality(DeadOf(s)')
  <2>1. s \in SlabIndex /\ deadCount[s] = Cardinality(DeadOf(s))
    BY <1>6 DEF KeyInv, DeadCounted
  <2> QED
    BY <1>2, <1>4, <1>5, <2>1
<1>8. ASSUME NEW s \in SlabIndex \ slabs PROVE deadCount'[s] = 0
  <2>1. D \intersect Slots(s) = {}
    BY DEF D, Dies, Gone, Slots, KeyInv, AliveBitsMatch, Present
  <2>2. deadCount[s] = 0
    BY DEF KeyInv, DeadCounted
  <2> QED
    BY <1>5, <2>1, <2>2, FS_EmptySet
<1> QED
  BY <1>3, <1>6, <1>7, <1>8 DEF DeadCounted

(* So do the rest of what holds of the slots.                              *)
LEMMA PassesSlots ==
    ASSUME TypeInv, KeyInv, NEW q \in Nat, NEW p, NEW head, Passes(q, p, head)
    PROVE  SlotsInv'
<1>1. DeadCounted'
  BY PassesCounts
<1>2. SlabsOnGrid'
  BY PassesEach DEF KeyInv, SlabsOnGrid
<1>3. AliveBitsMatch'
  BY PassesEach DEF KeyInv, AliveBitsMatch
<1>4. \A k \in issued : k.index \in Index /\ k.version \in Nat
  BY SizeAssumption DEF TypeInv, TypeOK, Key, Version
<1>5. ASSUME NEW k \in issued'
      PROVE  /\ k.index < nextBase'
             /\ Present(k.index)' => k.version <= version'[k.index]
  <2>1. k \in issued /\ k.index \in Index /\ k.version \in Nat
    BY <1>4, PassesEach
  <2>2. k.index < nextBase /\ (Present(k.index) => k.version <= version[k.index])
    BY <2>1 DEF KeyInv, VersionsCover
  <2>3. /\ version[k.index] \in Nat /\ version'[k.index] \in Nat
        /\ version[k.index] <= version'[k.index]
        /\ Present(k.index)' <=> Present(k.index)
    BY <2>1, PassesEach
  <2>4. nextBase' = nextBase
    BY PassesEach
  <2> QED
    BY <2>1, <2>2, <2>3, <2>4
<1>6. ASSUME NEW j \in Index, bitmap'[j]
      PROVE  KeyOf(j)' \in issued' /\ storage'[j] \in Values
  <2>1. bitmap[j] /\ j \notin Gone(q, p)
    BY <1>6, PassesEach
  <2>2. j \notin Linking(q, p)
    BY <2>1 DEF Gone, Linking
  <2>3. version'[j] = version[j] /\ storage'[j] = storage[j] /\ issued' = issued
    BY <2>1, <2>2, PassesEach
  <2>4. KeyOf(j) \in issued /\ storage[j] \in Values
    BY <2>1 DEF KeyInv, VersionsCover
  <2> QED
    BY <2>3, <2>4 DEF KeyOf
<1>7. ASSUME NEW j \in Index, Present(j)', ~bitmap'[j], version'[j] < MaxVersion
      PROVE  KeyOf(j)' \notin issued'
  <2>1. Present(j) /\ issued' = issued /\ version[j] \in Nat /\ MaxVersion \in Nat
    BY <1>7, PassesEach
  <2>2. CASE j \in Gone(q, p)
    <3>1. version[j] < MaxVersion /\ version'[j] = version[j] + 1
      BY <1>7, <2>1, <2>2, PassesEach
    <3>2. KeyOf(j)' = [index |-> j, version |-> version[j] + 1]
      BY <3>1 DEF KeyOf
    <3>3. ASSUME [index |-> j, version |-> version[j] + 1] \in issued PROVE FALSE
      <4>1. version[j] + 1 <= version[j]
        BY <2>1, <3>3 DEF KeyInv, VersionsCover
      <4> QED
        BY <2>1, <4>1
    <3> QED
      BY <2>1, <3>2, <3>3
  <2>3. CASE j \notin Gone(q, p)
    <3>1. version'[j] = version[j] /\ ~bitmap[j]
      BY <1>7, <2>3, PassesEach
    <3>2. KeyOf(j) \notin issued
      BY <1>7, <2>1, <3>1 DEF KeyInv, VersionsCover
    <3> QED
      BY <2>1, <3>1, <3>2 DEF KeyOf
  <2> QED
    BY <2>2, <2>3
<1>8. Present(0)' => version'[0] # 0
  <2>1. 0 \in Index
    BY SizeAssumption DEF Index
  <2>2. /\ version[0] \in Nat /\ version'[0] \in Nat
        /\ version[0] <= version'[0] /\ (Present(0)' <=> Present(0))
    BY <2>1, PassesEach
  <2> QED
    BY <2>2 DEF KeyInv, VersionsCover
<1>9. NullKey \notin issued'
  BY PassesEach DEF KeyInv, VersionsCover
<1>10. VersionsCover'
  BY <1>5, <1>6, <1>7, <1>8, <1>9 DEF VersionsCover
<1> QED
  BY <1>1, <1>2, <1>3, <1>10 DEF SlotsInv

(* The slots it links again can be constructed in.                         *)
LEMMA PassesFrees ==
    ASSUME TypeInv, KeyInv, NEW q \in Nat, NEW p, NEW head, Passes(q, p, head),
           NEW j \in Linking(q, p)
    PROVE  Unused(j)'
<1>1. /\ j \in Index /\ Present(j) /\ version[j] < MaxVersion
      /\ ~(j < q) /\ j < p
  BY DEF Linking
<1>2. /\ Present(j)' /\ issued' = issued /\ version[j] \in Nat
      /\ bitmap'[j] <=> bitmap[j] /\ j \notin Gone(q, p)
      /\ version'[j] = IF j \in Gone(q, p) THEN version[j] + 1 ELSE version[j]
  BY <1>1, PassesEach
<1>3. j \in Gone(q, p) <=> bitmap[j]
  BY <1>1 DEF Gone
<1>4. CASE bitmap[j]
  <2>1. KeyOf(j)' = [index |-> j, version |-> version[j] + 1]
    BY <1>2, <1>3, <1>4 DEF KeyOf
  <2>2. ASSUME [index |-> j, version |-> version[j] + 1] \in issued PROVE FALSE
    <3>1. version[j] + 1 <= version[j]
      BY <1>1, <2>2 DEF KeyInv, VersionsCover
    <3> QED
      BY <1>2, <3>1
  <2> QED
    BY <1>2, <1>3, <1>4, <2>1, <2>2 DEF Unused
<1>5. CASE ~bitmap[j]
  <2>1. KeyOf(j)' = KeyOf(j)
    BY <1>2, <1>3, <1>5 DEF KeyOf
  <2>2. KeyOf(j) \notin issued
    BY <1>1, <1>5 DEF KeyInv, VersionsCover
  <2> QED
    BY <1>2, <1>5, <2>1, <2>2 DEF Unused
<1> QED
  BY <1>4, <1>5

(* The members of S below x.                                               *)
Under(S, x) == {j \in S : j < x}

(* Links made before slot q and links made from it on form one chain.      *)
LEMMA PassesLast ==
    ASSUME NEW B \in SUBSET Index, NEW L \in SUBSET Index, NEW q \in Nat, NEW x,
           NEW head, head = LastOf(Under(B, q)),
           \A j \in Index : j < x =>
               (j \in B <=> j \in L \/ (j \in B /\ j < q)),
           \A j \in L : ~(j < q), \A j \in Index : j < q => j < x
    PROVE  LastOf(Under(B, x)) =
               IF LastOf(Under(L, x)) = End THEN head ELSE LastOf(Under(L, x))
<1> DEFINE A == Under(B, q)
           S == Under(L, x)
<1>1. A \in SUBSET Index /\ S \in SUBSET Index /\ Under(B, x) = A \union S
  BY DEF Under
<1>2. \A a \in A, y \in S : a < y
  <2> SUFFICES ASSUME NEW a \in A, NEW y \in S PROVE a < y
    OBVIOUS
  <2>1. a \in Nat /\ y \in Nat /\ a < q /\ ~(y < q)
    BY <1>1, IndexIsInt DEF Under
  <2> QED
    BY <2>1
<1>3. CASE S = {}
  <2>1. LastOf(S) = End /\ Under(B, x) = A
    BY <1>1, <1>3 DEF LastOf
  <2> QED
    BY <2>1
<1>4. CASE S # {}
  <2>1. LastOf(A \union S) = LastOf(S)
    <3> HIDE DEF A, S
    <3> QED
      BY <1>1, <1>2, <1>4, LastOfJoin
  <2>2. LastOf(S) # End
    <3> HIDE DEF A, S
    <3>1. LastOf(S) \in Index
      BY <1>1, <1>4, LastOfIsLast
    <3> QED
      BY <3>1, IndexIsInt
  <2> QED
    BY <1>1, <2>1, <2>2
<1> QED
  BY <1>3, <1>4

(* What clear() has done when it began in b: a stretch more.               *)
LEMMA PassesProgress ==
    ASSUME TypeInv, KeyInv, NEW q \in Nat, NEW p \in Index \union {End}, q <= p,
           NEW head, Passes(q, p, head), NEW b, Progress(b, q, head)
    PROVE  Progress(b, p, freeHead)'
<1> DEFINE L == Linking(q, p)
<1>1. p \in Nat /\ \A j \in Index : j \in Nat
  BY IndexIsInt, SizeAssumption DEF End
<1>2. PICK B \in SUBSET Index : B = Back(b)
  BY DEF Back
<1>3. Back(b)' = B
  BY <1>2, PassesEach DEF Back
<1>4. \A j \in Index : j \in B <=> Present(j) /\ b.version[j] < MaxVersion
  BY <1>2 DEF Back
<1>5. \A j \in Index : ~(j < q) =>
          /\ version[j] = b.version[j] /\ aliveBit[j] = b.aliveBit[j]
          /\ bitmap[j] = b.bitmap[j] /\ storage[j] = b.storage[j]
  BY DEF Progress
<1>6. \A j \in Index : j \in L <=> j \in B /\ ~(j < q) /\ j < p
  BY <1>4, <1>5 DEF Linking
<1>7. head = LastOf(Under(B, q))
  BY <1>2 DEF Progress, Under
<1>8. L \in SUBSET Index /\ \A j \in L : ~(j < q)
  BY <1>6 DEF Linking
<1>9. ASSUME NEW x \in Nat, q <= x, x <= p
      PROVE  LastOf(Under(B, x)) =
                 IF LastOf(Under(L, x)) = End THEN head ELSE LastOf(Under(L, x))
  <2>1. \A j \in Index : j < x => (j \in B <=> j \in L \/ (j \in B /\ j < q))
    BY <1>1, <1>6, <1>9
  <2>2. \A j \in Index : j < q => j < x
    BY <1>1, <1>9
  <2> HIDE DEF L
  <2> QED
    BY ONLY <1>7, <1>8, <2>1, <2>2, q \in Nat, B \in SUBSET Index, PassesLast
<1>10. ASSUME NEW j \in Index, j < q
       PROVE  /\ version'[j] = version[j] /\ aliveBit'[j] = aliveBit[j]
              /\ bitmap'[j] = bitmap[j] /\ storage'[j] = storage[j]
              /\ Unused(j) => Unused(j)'
  <2>1. j \notin Gone(q, p) /\ j \notin Linking(q, p)
    BY <1>10 DEF Gone, Linking
  <2>2. aliveBit'[j] = aliveBit[j] /\ bitmap'[j] = bitmap[j]
    BY <2>1 DEF Passes, TypeInv, TypeOK
  <2>3. /\ version'[j] = version[j] /\ storage'[j] = storage[j]
        /\ (Present(j)' <=> Present(j)) /\ issued' = issued
    BY <2>1, PassesEach
  <2> QED
    BY <2>2, <2>3 DEF Unused, KeyOf
<1>11. ASSUME NEW j \in Index, j < q
       PROVE  /\ version'[j] = IF b.bitmap[j] /\ b.version[j] < MaxVersion
                               THEN b.version[j] + 1 ELSE b.version[j]
              /\ aliveBit'[j] = (b.aliveBit[j] /\ ~b.bitmap[j])
              /\ bitmap'[j] = FALSE
              /\ storage'[j] = IF j \in B THEN LastOf(Under(B, j))
                               ELSE b.storage[j]
              /\ j \in B => Unused(j)'
  <2>1. /\ version[j] = IF b.bitmap[j] /\ b.version[j] < MaxVersion
                        THEN b.version[j] + 1 ELSE b.version[j]
        /\ aliveBit[j] = (b.aliveBit[j] /\ ~b.bitmap[j])
        /\ bitmap[j] = FALSE
        /\ storage[j] = IF j \in B THEN LastOf(Under(B, j))
                        ELSE b.storage[j]
        /\ j \in B => Unused(j)
    BY <1>2, <1>11 DEF Progress, Under
  <2> QED
    BY <1>10, <1>11, <2>1
<1>12. ASSUME NEW j \in Index, ~(j < q), j < p
       PROVE  /\ version'[j] = IF b.bitmap[j] /\ b.version[j] < MaxVersion
                               THEN b.version[j] + 1 ELSE b.version[j]
              /\ aliveBit'[j] = (b.aliveBit[j] /\ ~b.bitmap[j])
              /\ bitmap'[j] = FALSE
              /\ storage'[j] = IF j \in B THEN LastOf(Under(B, j))
                               ELSE b.storage[j]
              /\ j \in B => Unused(j)'
  <2>1. j \in Gone(q, p) <=> bitmap[j]
    BY <1>12 DEF Gone
  <2>2. version'[j] = IF b.bitmap[j] /\ b.version[j] < MaxVersion
                      THEN b.version[j] + 1 ELSE b.version[j]
    BY <1>5, <1>12, <2>1, PassesEach
  <2>3. bitmap'[j] = (bitmap[j] /\ j \notin Gone(q, p))
          /\ aliveBit'[j] = (aliveBit[j] /\ j \notin Gone(q, p))
    BY DEF Passes
  <2>4. bitmap'[j] = FALSE /\ aliveBit'[j] = (b.aliveBit[j] /\ ~b.bitmap[j])
    BY <1>5, <1>12, <2>1, <2>3
  <2>5. CASE j \in L
    <3>1. storage'[j] = IF LastOf(Under(L, j)) = End THEN head
                        ELSE LastOf(Under(L, j))
      BY <2>5 DEF Passes, Under
    <3>2. q <= j /\ j <= p /\ j \in Nat
      BY <1>1, <1>12
    <3>3. storage'[j] = LastOf(Under(B, j))
      <4> HIDE DEF L
      <4> QED
        BY <1>9, <3>1, <3>2
    <3>4. j \in B /\ Unused(j)'
      BY <1>6, <2>5, PassesFrees
    <3> QED
      BY <2>2, <2>4, <3>3, <3>4
  <2>6. CASE j \notin L
    <3>1. j \notin B
      BY <1>6, <1>12, <2>6
    <3>2. storage'[j] = b.storage[j]
      BY <1>5, <1>12, <2>6, PassesEach
    <3> QED
      BY <2>2, <2>4, <3>1, <3>2
  <2> QED
    BY <2>5, <2>6
<1>13. ASSUME NEW j \in Index, ~(j < p)
       PROVE  /\ version'[j] = b.version[j] /\ aliveBit'[j] = b.aliveBit[j]
              /\ bitmap'[j] = b.bitmap[j] /\ storage'[j] = b.storage[j]
  <2>1. ~(j < q)
    BY <1>1, <1>13
  <2>2. j \notin Gone(q, p) /\ j \notin Linking(q, p)
    BY <1>13 DEF Gone, Linking
  <2>3. aliveBit'[j] = aliveBit[j] /\ bitmap'[j] = bitmap[j]
    BY <2>2 DEF Passes, TypeInv, TypeOK
  <2>4. version'[j] = version[j] /\ storage'[j] = storage[j]
    BY <2>2, PassesEach
  <2> QED
    BY <1>5, <2>1, <2>3, <2>4
<1>14. freeHead' = LastOf(Under(B, p))
  <2>1. Under(L, p) = L
    BY <1>6, <1>8 DEF Under
  <2>2. LastOf(Under(B, p)) = IF LastOf(L) = End THEN head ELSE LastOf(L)
    <3>1. p <= p
      BY <1>1
    <3> HIDE DEF L
    <3> QED
      BY <1>1, <1>9, <2>1, <3>1
  <2>3. LastOf(L) = End <=> L = {}
    <3>1. L = {} => LastOf(L) = End
      BY DEF LastOf
    <3>2. L # {} => LastOf(L) \in Index
      <4> HIDE DEF L
      <4> QED
        BY <1>8, LastOfIsLast
    <3> HIDE DEF L
    <3> QED
      BY <3>1, <3>2, IndexIsInt
  <2> QED
    BY <2>2, <2>3 DEF Passes
<1>15. /\ Died(b, p) = Died(b, q) \union Dies(q, p)
       /\ Died(b, q) \intersect Dies(q, p) = {}
       /\ Died(b, q) \in SUBSET Index /\ Dies(q, p) \in SUBSET Index
  <2>1. \A j \in Index :
            j \in Dies(q, p) <=> ~(j < q) /\ j < p /\ b.bitmap[j]
                                 /\ b.version[j] = MaxVersion
    BY <1>5 DEF Dies, Gone
  <2>2. Died(b, q) \in SUBSET Index /\ Dies(q, p) \in SUBSET Index
          /\ Died(b, p) \in SUBSET Index
    BY DEF Died, Dies, Gone
  <2>3. \A j \in Index : j < q => j < p
    BY <1>1
  <2>4. \A j \in Index : /\ j \in Died(b, p) <=> j \in Died(b, q) \/ j \in Dies(q, p)
                         /\ ~(j \in Died(b, q) /\ j \in Dies(q, p))
    BY <2>1, <2>3 DEF Died
  <2> QED
    BY <2>2, <2>4
<1>16. ASSUME NEW S \in SUBSET Index, NEW T \in SUBSET Index, S \intersect T = {}
       PROVE  /\ Cardinality(S \union T) = Cardinality(S) + Cardinality(T)
              /\ Cardinality(S) \in Nat /\ Cardinality(T) \in Nat
  <2>1. Cardinality(S \intersect T) = 0
    BY <1>16, FS_EmptySet
  <2>2. Cardinality(S \union T) = Cardinality(S) + Cardinality(T)
                                    - Cardinality(S \intersect T)
    BY IndexSubsetsFinite, FS_Union
  <2> QED
    BY <2>1, <2>2, IndexSubsetsFinite
<1>17. b.deadSlots \in Nat /\ \A s \in SlabIndex : b.deadCount[s] \in Nat
  BY DEF Progress
<1>18. deadSlots' = b.deadSlots + Cardinality(Died(b, p))
  <2>1. /\ deadSlots' = deadSlots + Cardinality(Dies(q, p))
        /\ deadSlots = b.deadSlots + Cardinality(Died(b, q))
    BY DEF Passes, Progress
  <2> QED
    BY <1>15, <1>16, <1>17, <2>1
<1>19. ASSUME NEW s \in SlabIndex
       PROVE  deadCount'[s] = b.deadCount[s]
                                + Cardinality(Died(b, p) \intersect Slots(s))
  <2> DEFINE S == Died(b, q) \intersect Slots(s)
             T == Dies(q, p) \intersect Slots(s)
  <2>1. deadCount'[s] = deadCount[s] + Cardinality(T)
          /\ deadCount[s] = b.deadCount[s] + Cardinality(S)
    BY DEF Passes, Progress
  <2>2. /\ S \in SUBSET Index /\ T \in SUBSET Index /\ S \intersect T = {}
        /\ Died(b, p) \intersect Slots(s) = S \union T
    BY <1>15
  <2> HIDE DEF S, T
  <2>3. /\ Cardinality(S \union T) = Cardinality(S) + Cardinality(T)
        /\ Cardinality(S) \in Nat /\ Cardinality(T) \in Nat
    BY <1>16, <2>2
  <2>4. b.deadCount[s] \in Nat
    BY <1>17
  <2>5. Cardinality(Died(b, p) \intersect Slots(s))
            = Cardinality(S) + Cardinality(T)
    BY <2>2, <2>3
  <2> QED
    BY <2>1, <2>3, <2>4, <2>5
<1> QED
  BY <1>3, <1>11, <1>12, <1>13, <1>14, <1>17, <1>18, <1>19
     DEF Progress, Under

(* Its list so far is a sound free list.                                   *)
LEMMA ProgressLinks ==
    ASSUME NEW b, NEW p \in Nat, Progress(b, p, freeHead)'
    PROVE  FreeListLinked'
<1>1. PICK R \in SUBSET Index : R = {i \in Back(b)' : i < p}
  BY DEF Back
<1>2. freeHead' = LastOf(R) /\ \A i \in R : Unused(i)'
  BY <1>1 DEF Progress
<1>3. ASSUME NEW i \in R PROVE storage'[i] = LastOf({j \in R : j < i})
  <2>1. i \in Index /\ i < p /\ i \in Back(b)'
    BY <1>1
  <2>2. storage'[i] = LastOf({j \in Back(b)' : j < i})
    BY <2>1 DEF Progress
  <2>3. ASSUME NEW j \in Back(b)', j < i PROVE j < p
    <3>1. j \in Index
      BY <2>3 DEF Back
    <3> QED
      BY <2>1, <2>3, <3>1, IndexIsInt
  <2>4. {j \in Back(b)' : j < i} = {j \in R : j < i}
    BY <1>1, <2>3
  <2> QED
    BY <2>2, <2>4
<1>4. PICK links : links = storage'
  OBVIOUS
<1>5. \A i \in R : links[i] = LastOf({j \in R : j < i})
  BY <1>3, <1>4
<1>6. ListShape(R, LastOf(R), links)
  BY ONLY <1>5, R \in SUBSET Index, RebuiltShape
<1>7. ListShape(R, freeHead', storage')
  BY <1>2, <1>4, <1>6
<1>8. Linked(R)'
  BY <1>2, <1>7 DEF Linked
<1> QED
  BY <1>8 DEF FreeListLinked

(* As clear() begins, it has done nothing.                                 *)
LEMMA StartsProgress ==
    ASSUME TypeInv, NEW b, b = Fields
    PROVE  Progress(b, 0, End)
<1>1. \A i \in Index : ~(i < 0)
  BY SizeAssumption DEF Index
<1>2. Died(b, 0) = {} /\ {i \in Back(b) : i < 0} = {}
  BY <1>1 DEF Died, Back
<1>3. LastOf({}) = End /\ Cardinality({}) = 0
  BY FS_EmptySet DEF LastOf
<1>4. deadSlots \in Nat /\ \A s \in SlabIndex : deadCount[s] \in Nat
  BY DEF TypeInv, TypeOK
<1>5. /\ b.version = version /\ b.aliveBit = aliveBit /\ b.bitmap = bitmap
      /\ b.storage = storage /\ b.deadCount = deadCount
      /\ b.deadSlots = deadSlots
  BY DEF Fields
<1>6. End = LastOf({i \in Back(b) : i < 0})
  BY <1>2, <1>3
<1>7. /\ deadSlots = b.deadSlots + Cardinality(Died(b, 0))
      /\ \A s \in SlabIndex : deadCount[s] = b.deadCount[s]
             + Cardinality(Died(b, 0) \intersect Slots(s))
  BY <1>2, <1>3, <1>4, <1>5
<1> QED
  BY <1>1, <1>4, <1>5, <1>6, <1>7 DEF Progress

(* A stretch of the loop leaves the map sound.                             *)
LEMMA ClearKeepsMap ==
    ASSUME MapSound, NEW q \in Nat, NEW p \in Index \union {End}, q <= p,
           NEW head \in Link, NEW b, Progress(b, q, head),
           Passes(q, p, head), Stops(p)
    PROVE  /\ MapSound' /\ Progress(b, p, freeHead)'
           /\ p \in Index /\ bitmap[p] => bitmap'[p]
           /\ p = End => size' = Cardinality(AliveSlots')
<1>1. TypeInv /\ KeyInv /\ Running
  BY DEF MapSound
<1>2. Progress(b, p, freeHead)'
  BY <1>1, PassesProgress
<1>3. p \in Nat /\ End \in Nat /\ \A i \in Index : i \in Nat /\ i < End
  BY SizeAssumption, IndexIsInt DEF Index, End
<1>4. TypeInv' /\ Running'
  BY <1>1, PassesType
<1>5. SlotsInv' /\ FreeListLinked'
  BY <1>1, <1>2, <1>3, PassesSlots, ProgressLinks
<1>6. KeyInv'
  BY <1>5 DEF KeyInv, SlotsInv
<1>7. deadSlots' = Cardinality(DeadSet')
  BY <1>1, PassesCounts DEF MapSound
<1>8. p \in Index /\ bitmap[p] => bitmap'[p]
  BY <1>1, <1>3, PassesEach DEF Gone
<1>9. p = End => size' = Cardinality(AliveSlots')
  <2> SUFFICES ASSUME p = End PROVE size' = Cardinality(AliveSlots')
    OBVIOUS
  <2>1. \A i \in Index : bitmap'[i] = FALSE
    BY <1>2, <1>3 DEF Progress
  <2>2. AliveSlots' = {}
    BY <2>1 DEF AliveSlots
  <2> QED
    BY <2>2, FS_EmptySet DEF Stops
<1> QED
  BY <1>2, <1>4, <1>6, <1>7, <1>8, <1>9 DEF MapSound

(* So does a whole call of the map, which is none of its clears.           *)
LEMMA CallKeepsMap ==
    ASSUME PartialWrites = FALSE, MapSound, size = Cardinality(AliveSlots),
           [NextUntilRecycle]_vars, Running'
    PROVE  MapSound' /\ size' = Cardinality(AliveSlots')
<1>1. TypeInv /\ KeyInv /\ Counts
  BY DEF MapSound, Counts
<1>2. TypeInv' /\ KeyInv'
  BY <1>1, TypeStep, KeyInvStep DEF Next
<1>3. Counts'
  BY <1>1, CountsStep
<1> QED
  BY <1>2, <1>3 DEF MapSound, Counts
-----------------------------------------------------------------------------
(* The stack of calls.                                                     *)

(* A call is made.                                                         *)
LEMMA Pushed ==
    ASSUME frames \in Seq(Frames), NEW f \in Frames, frames' = Append(frames, f)
    PROVE  /\ Len(frames) \in Nat
           /\ frames' \in Seq(Frames) /\ Len(frames') = Len(frames) + 1
           /\ \A n \in 1 .. Len(frames) : frames'[n] = frames[n]
           /\ frames'[Len(frames) + 1] = f /\ Top' = f /\ frames' # <<>>
<1>1. Len(frames) \in Nat
  BY LenProperties
<1>2. /\ frames' \in Seq(Frames) /\ Len(frames') = Len(frames) + 1
      /\ \A n \in 1 .. Len(frames) : frames'[n] = frames[n]
      /\ frames'[Len(frames) + 1] = f /\ frames' # <<>>
  BY AppendProperties
<1>3. Top' = f
  BY <1>2 DEF Top
<1> QED
  BY <1>1, <1>2, <1>3

(* A call ends.                                                            *)
LEMMA Popped ==
    ASSUME frames \in Seq(Frames), frames # <<>>, Pop
    PROVE  /\ Len(frames) \in Nat \ {0}
           /\ frames' \in Seq(Frames) /\ Len(frames') = Len(frames) - 1
           /\ \A n \in 1 .. Len(frames') : frames'[n] = frames[n]
           /\ frames' # <<>> => Top' = frames[Len(frames')]
                                 /\ Len(frames') \in 1 .. Len(frames')
<1>1. Len(frames) \in Nat \ {0}
  BY EmptySeq
<1>2. PICK m : m = Len(frames)
  OBVIOUS
<1>3. \A n \in 1 .. m - 1 : frames[n] \in Frames
  <2>1. \A n \in 1 .. m - 1 : n \in 1 .. m
    BY <1>1, <1>2
  <2> QED
    BY <1>2, <2>1, ElementOfSeq
<1>4. frames' = SubSeq(frames, 1, m - 1)
  BY <1>2 DEF Pop
<1>5. m - 1 \in Int /\ m - 1 >= 0 /\ 1 \in Int
  BY <1>1, <1>2
<1>6. /\ frames' \in Seq(Frames)
      /\ Len(frames') = IF 1 <= m - 1 THEN m - 1 - 1 + 1 ELSE 0
      /\ \A n \in 1 .. m - 1 - 1 + 1 : frames'[n] = frames[1 + n - 1]
  BY ONLY <1>3, <1>4, <1>5, SubSeqProperties
<1>7. Len(frames') = m - 1
  BY <1>5, <1>6
<1>8. \A n \in 1 .. Len(frames') : frames'[n] = frames[n]
  <2>1. \A n \in 1 .. m - 1 : n \in 1 .. m - 1 - 1 + 1 /\ 1 + n - 1 = n
    BY <1>5
  <2> QED
    BY <1>6, <1>7, <2>1
<1>9. frames' # <<>> => Top' = frames[Len(frames')]
                        /\ Len(frames') \in 1 .. Len(frames')
  <2> SUFFICES ASSUME frames' # <<>>
               PROVE  Top' = frames[Len(frames')]
                      /\ Len(frames') \in 1 .. Len(frames')
    OBVIOUS
  <2>1. Len(frames') \in Nat \ {0}
    BY <1>6, EmptySeq
  <2> QED
    BY <1>8, <2>1 DEF Top
<1> QED
  BY <1>1, <1>2, <1>6, <1>7, <1>8, <1>9

(* A call goes on.                                                         *)
LEMMA Altered ==
    ASSUME frames \in Seq(Frames), frames # <<>>, NEW f \in Frames,
           frames' = [frames EXCEPT ![Len(frames)] = f]
    PROVE  /\ Len(frames) \in Nat \ {0}
           /\ frames' \in Seq(Frames) /\ Len(frames') = Len(frames)
           /\ \A n \in 1 .. Len(frames) :
                  frames'[n] = IF n = Len(frames) THEN f ELSE frames[n]
           /\ frames' # <<>> /\ Top' = f /\ Top \in Frames
<1>1. Len(frames) \in Nat \ {0}
  BY EmptySeq
<1>2. Len(frames) \in 1 .. Len(frames)
  BY <1>1
<1>3. Top \in Frames
  BY <1>2, ElementOfSeq DEF Top
<1>4. /\ frames' \in Seq(Frames) /\ Len(frames') = Len(frames)
      /\ \A n \in 1 .. Len(frames) :
             frames'[n] = IF n = Len(frames) THEN f ELSE frames[n]
  BY <1>2, ExceptSeq
<1>5. Top' = f
  BY <1>2, <1>4 DEF Top
<1>6. frames' # <<>>
  BY <1>1, <1>4, EmptySeq
<1> QED
  BY <1>1, <1>3, <1>4, <1>5, <1>6

(* The innermost call is one of them.                                      *)
LEMMA TopIsLast ==
    ASSUME frames \in Seq(Frames), frames # <<>>
    PROVE  /\ Len(frames) \in 1 .. Len(frames) /\ Top \in Frames
           /\ Top = frames[Len(frames)]
<1>1. Len(frames) \in Nat \ {0}
  BY EmptySeq
<1>2. Len(frames) \in 1 .. Len(frames)
  BY <1>1
<1> QED
  BY <1>2, ElementOfSeq DEF Top

(* Each is about a slot.                                                   *)
LEMMA FrameSlot ==
    ASSUME frames \in Seq(Frames), NEW n \in 1 .. Len(frames)
    PROVE  frames[n].slot \in Index
<1>1. frames[n] \in Frames
  BY ElementOfSeq
<1> QED
  BY <1>1 DEF Frames

(* No call in progress is an emplace or a clear.                           *)
Outer == \A n \in 1 .. Len(frames) : frames[n].op \in {"use", "erase", "pop"}

(* A clear() is in progress if and only if it is the innermost call.       *)
LEMMA ClearingOnTop ==
    ASSUME frames \in Seq(Frames), CallersSound
    PROVE  /\ Clearing <=> In("clear")
           /\ ~Clearing /\ ~In("emplace") => Outer
<1>1. DOMAIN frames = 1 .. Len(frames)
  BY LenProperties
<1>2. \A n \in 1 .. Len(frames) :
          frames[n].op \in {"emplace", "clear"} =>
              n = Len(frames) /\ Top = frames[n] /\ frames # <<>>
  <2> SUFFICES ASSUME NEW n \in 1 .. Len(frames),
                      frames[n].op \in {"emplace", "clear"}
               PROVE  n = Len(frames) /\ Top = frames[n] /\ frames # <<>>
    OBVIOUS
  <2>1. frames # <<>>
    BY EmptySeq
  <2> QED
    BY <2>1 DEF CallersSound, Top
<1>3. Clearing => In("clear")
  BY <1>1, <1>2 DEF Clearing, In
<1>4. In("clear") => Clearing
  BY <1>1, TopIsLast DEF Clearing, In
<1>5. ASSUME ~Clearing, ~In("emplace"), NEW n \in 1 .. Len(frames)
      PROVE  frames[n].op \in {"use", "erase", "pop"}
  <2>1. frames[n].op \in {"emplace", "erase", "pop", "clear", "use"}
    <3>1. frames[n] \in Frames
      BY ElementOfSeq
    <3> QED
      BY <3>1 DEF Frames
  <2>2. frames[n].op # "clear"
    BY <1>1, <1>5 DEF Clearing
  <2>3. frames[n].op # "emplace"
    BY <1>2, <1>5 DEF In
  <2> QED
    BY <2>1, <2>2, <2>3
<1> QED
  BY <1>3, <1>4, <1>5 DEF Outer

(* A call that the client may make finds no emplace or clear in progress.  *)
LEMMA CallersWait ==
    ASSUME frames \in Seq(Frames), CallersSound, MayCall,
           Nested \subseteq {"use", "erase", "pop"}
    PROVE  Outer /\ ~Clearing /\ ~In("clear") /\ ~In("emplace")
<1>1. ~In("clear") /\ ~In("emplace")
  BY DEF MayCall, In
<1> QED
  BY <1>1, ClearingOnTop

(* A step leaves alone the element that frame n is taking out.             *)
Spares(n) ==
    frames[n].op \in Removing =>
        /\ bitmap'[frames[n].slot]
        /\ version'[frames[n].slot] = version[frames[n].slot]

(* The call f takes out no element that another one does.                  *)
Alone(f) ==
    f.op \in Removing =>
        /\ bitmap'[f.slot] /\ version'[f.slot] = f.ver
        /\ \A n \in 1 .. Len(frames) :
               n # Len(frames') /\ frames[n].op \in Removing => frames[n].slot # f.slot

(* Callers stay as they are when a call is made.                           *)
LEMMA PushKeepsFrames ==
    ASSUME FramesSound, Outer, NEW f \in Frames, frames' = Append(frames, f),
           \A n \in 1 .. Len(frames) : Spares(n), Alone(f),
           f.op = "emplace" => EmplaceSound'
    PROVE  FramesSound'
<1>1. frames \in Seq(Frames)
  BY DEF FramesSound
<1>2. PICK m : m = Len(frames)
  OBVIOUS
<1>3. /\ m \in Nat /\ frames' \in Seq(Frames) /\ Len(frames') = m + 1
      /\ \A n \in 1 .. m : frames'[n] = frames[n]
      /\ frames'[m + 1] = f /\ Top' = f
  BY <1>1, <1>2, Pushed
<1>4. \A n \in 1 .. m + 1 : n \in 1 .. m \/ n = m + 1
  BY <1>3
<1>5. CallersSound'
  <2> SUFFICES ASSUME NEW n \in 1 .. m + 1,
                      frames'[n].op \in {"emplace", "clear"}
               PROVE  n = m + 1
    BY <1>3 DEF CallersSound
  <2>1. n \in 1 .. m => frames[n].op \in {"use", "erase", "pop"}
    BY <1>2 DEF Outer
  <2> QED
    BY <1>3, <1>4, <2>1
<1>6. ASSUME NEW n \in 1 .. m + 1 PROVE EraseSound(n)'
  <2> SUFFICES ASSUME frames'[n].op \in Removing
               PROVE  /\ bitmap'[frames'[n].slot]
                      /\ version'[frames'[n].slot] = frames'[n].ver
                      /\ \A o \in 1 .. m + 1 :
                             frames'[o].op \in Removing
                               /\ frames'[o].slot = frames'[n].slot => o = n
    BY <1>3 DEF EraseSound
  <2>1. CASE n \in 1 .. m
    <3>1. frames'[n] = frames[n] /\ EraseSound(n) /\ Spares(n)
      BY <1>2, <1>3, <2>1 DEF FramesSound
    <3>2. ASSUME f.op \in Removing PROVE f.slot # frames[n].slot
      <4>1. n # Len(frames')
        BY <1>3, <2>1
      <4> QED
        BY <1>2, <2>1, <3>1, <3>2, <4>1 DEF Alone
    <3> QED
      BY <1>2, <1>3, <1>4, <2>1, <3>1, <3>2 DEF EraseSound, Spares
  <2>2. CASE n = m + 1
    <3>1. \A o \in 1 .. m : o # m + 1
      BY <1>3
    <3> QED
      BY <1>2, <1>3, <1>4, <2>2, <3>1 DEF Alone
  <2> QED
    BY <1>4, <2>1, <2>2
<1>7. EmplaceSound'
  BY <1>3 DEF EmplaceSound, In
<1> QED
  BY <1>3, <1>5, <1>6, <1>7 DEF FramesSound

(* And when the innermost one ends: what is left waits for it.             *)
LEMMA PopKeepsFrames ==
    ASSUME FramesSound, frames # <<>>, Pop,
           \A n \in 1 .. Len(frames) : n # Len(frames) => Spares(n)
    PROVE  FramesSound' /\ Outer' /\ ~Clearing' /\ ~In("clear")'
<1>1. frames \in Seq(Frames)
  BY DEF FramesSound
<1>2. PICK m : m = Len(frames)
  OBVIOUS
<1>3. /\ m \in Nat \ {0} /\ frames' \in Seq(Frames) /\ Len(frames') = m - 1
      /\ \A n \in 1 .. m - 1 : frames'[n] = frames[n]
      /\ frames' # <<>> => Top' = frames[m - 1] /\ m - 1 \in 1 .. m - 1
  BY <1>1, <1>2, Popped
<1>4. \A n \in 1 .. m - 1 : n \in 1 .. m /\ n # m
  BY <1>3
<1>5. ASSUME NEW n \in 1 .. m - 1
      PROVE  frames'[n] = frames[n] /\ frames'[n].op \in {"use", "erase", "pop"}
  <2>1. frames[n] \in Frames
    BY <1>1, <1>2, <1>4, ElementOfSeq
  <2>2. frames[n].op \notin {"emplace", "clear"}
    BY <1>2, <1>4 DEF FramesSound, CallersSound
  <2> QED
    BY <1>3, <2>1, <2>2 DEF Frames
<1>6. Outer' /\ CallersSound'
  BY <1>3, <1>5 DEF Outer, CallersSound
<1>7. ASSUME NEW n \in 1 .. m - 1 PROVE EraseSound(n)'
  <2>1. EraseSound(n) /\ Spares(n)
    BY <1>2, <1>4 DEF FramesSound
  <2> QED
    BY <1>2, <1>3, <1>4, <2>1 DEF EraseSound, Spares
<1>8. ~In("clear")' /\ ~In("emplace")'
  <2>1. frames' # <<>> => Top'.op \in {"use", "erase", "pop"}
    BY <1>3, <1>5
  <2> QED
    BY <2>1 DEF In
<1>9. ~Clearing'
  <2>1. DOMAIN frames' = 1 .. m - 1
    BY <1>3, LenProperties
  <2> QED
    BY <1>5, <2>1 DEF Clearing
<1> QED
  BY <1>3, <1>6, <1>7, <1>8, <1>9 DEF FramesSound, EmplaceSound

(* And when it goes on.                                                    *)
LEMMA AlterKeepsFrames ==
    ASSUME FramesSound, frames # <<>>, NEW f \in Frames, f.op # "emplace",
           frames' = [frames EXCEPT ![Len(frames)] = f],
           \A n \in 1 .. Len(frames) : n # Len(frames) => Spares(n), Alone(f)
    PROVE  FramesSound'
<1>1. frames \in Seq(Frames)
  BY DEF FramesSound
<1>2. PICK m : m = Len(frames)
  OBVIOUS
<1>3. /\ m \in Nat \ {0} /\ frames' \in Seq(Frames) /\ Len(frames') = m
      /\ \A n \in 1 .. m : frames'[n] = IF n = m THEN f ELSE frames[n]
      /\ Top' = f
  BY <1>1, <1>2, Altered
<1>4. CallersSound'
  BY <1>2, <1>3 DEF FramesSound, CallersSound
<1>5. ASSUME NEW n \in 1 .. m PROVE EraseSound(n)'
  <2> SUFFICES ASSUME frames'[n].op \in Removing
               PROVE  /\ bitmap'[frames'[n].slot]
                      /\ version'[frames'[n].slot] = frames'[n].ver
                      /\ \A o \in 1 .. m :
                             frames'[o].op \in Removing
                               /\ frames'[o].slot = frames'[n].slot => o = n
    BY <1>3 DEF EraseSound
  <2>1. CASE n # m
    <3>1. frames'[n] = frames[n] /\ EraseSound(n) /\ Spares(n)
      BY <1>2, <1>3, <2>1 DEF FramesSound
    <3>2. ASSUME f.op \in Removing PROVE f.slot # frames[n].slot
      BY <1>2, <1>3, <2>1, <3>1, <3>2 DEF Alone
    <3> QED
      BY <1>2, <1>3, <2>1, <3>1, <3>2 DEF EraseSound, Spares
  <2>2. CASE n = m
    BY <1>2, <1>3, <2>2 DEF Alone
  <2> QED
    BY <2>1, <2>2
<1>6. EmplaceSound'
  BY <1>3 DEF EmplaceSound, In
<1> QED
  BY <1>3, <1>4, <1>5, <1>6 DEF FramesSound
-----------------------------------------------------------------------------
(* The calls of the map that the steps make.                               *)

(* emplace reads a sound slot, having added a slab as reserve() would.     *)
LEMMA StartEmplaceCalls ==
    ASSUME MapSound, FramesSound, NEW v \in Values, StartEmplace(v)
    PROVE  /\ [NextUntilRecycle]_vars /\ Running'
           /\ (\E to \in SlabEnds : Reserve(to)) \/ UNCHANGED vars
           /\ UNCHANGED <<bitmap, size, before>>
           /\ \A j \in Index : bitmap[j] => version'[j] = version[j]
           /\ HeadUsable' /\ objectsCreated' < MaxCreated
<1> DEFINE to == nextBase + SlotsPerSlab
<1>1. TypeInv /\ KeyInv /\ Running
  BY DEF MapSound
<1>2. objectsCreated' < MaxCreated
  <2>1. Len(frames) \in Nat /\ objectsCreated \in Nat /\ MaxCreated \in Nat
    BY <1>1, LenProperties, SizeAssumption DEF FramesSound, TypeInv, TypeOK
  <2> QED
    BY <2>1 DEF StartEmplace
<1>3. UNCHANGED <<aliveBit, bitmap, deadCount, size, deadSlots, objectsCreated,
                  issued, before>>
  BY DEF StartEmplace
<1>4. CASE /\ freeHead = End /\ CanAllocate /\ AddSlabs(to)
           /\ version' = GrownVersions(to) /\ storage' = GrownLinks(to)
           /\ freeHead' = nextBase /\ status' = "returned"
  <2>1. nextBase < MaxSlots
    BY <1>4 DEF CanAllocate
  <2>2. OnGrid(to) /\ to \in Int /\ nextBase < to /\ to - SlotsPerSlab = nextBase
        /\ nextBase \in Index /\ nextBase \in Grown(to)
    BY <1>1, <2>1, GridStep, SizeAssumption DEF TypeInv, OnGrid, Index, Grown
  <2>3. to \in SlabEnds
    BY <2>2, SizeAssumption, <1>1 DEF OnGrid, SlabEnds, TypeInv
  <2>4. Reserve(to)
    <3> HIDE DEF to
    <3> QED
      BY <1>1, <1>3, <1>4, <2>2 DEF Reserve
  <2>5. Running'
    BY <1>4 DEF Running
  <2>6. ASSUME NEW j \in Index, bitmap[j] PROVE version'[j] = version[j]
    <3>1. j < nextBase
      BY <1>1, <2>6 DEF KeyInv, SlabsOnGrid, AliveBitsMatch
    <3>2. j \notin Grown(to)
      BY <1>1, <3>1, IndexIsInt DEF Grown, TypeInv, OnGrid
    <3> QED
      BY <1>4, <3>2 DEF GrownVersions
  <2>7. HeadUsable'
    <3>1. SlabOf(nextBase) \in slabs'
      BY <1>4, <2>2 DEF AddSlabs
    <3>2. ~bitmap[nextBase]
      <4>1. ~(nextBase < nextBase)
        BY <2>2, IndexIsInt
      <4> QED
        BY <1>1, <2>2, <4>1 DEF KeyInv, SlabsOnGrid, AliveBitsMatch
    <3>3. freeHead' = nextBase /\ bitmap' = bitmap
      BY <1>3, <1>4
    <3> QED
      BY <2>2, <3>1, <3>2, <3>3 DEF HeadUsable, Present, SlabOf
  <2> QED
    BY <1>2, <1>3, <2>3, <2>4, <2>5, <2>6, <2>7 DEF NextUntilRecycle
<1>5. CASE HeadUsable /\ UNCHANGED <<slabs, nextBase, version, storage,
                                     freeHead, status>>
  <2>1. UNCHANGED vars
    BY <1>3, <1>5 DEF vars
  <2>2. HeadUsable' /\ Running'
    BY <1>1, <1>3, <1>5 DEF HeadUsable, Present, Running
  <2> QED
    BY <1>2, <1>3, <1>5, <2>1, <2>2
<1> QED
  BY <1>4, <1>5 DEF StartEmplace

(* What its frame holds.                                                   *)
LEMMA StartEmplaceFrame ==
    ASSUME MapSound, FramesSound, NEW v \in Values, StartEmplace(v), TypeInv',
           HeadUsable'
    PROVE  \E f \in Frames :
               /\ Push(f) /\ f.op = "emplace" /\ f.value = v
               /\ f.slot = freeHead' /\ f.ver = version'[freeHead']
               /\ f.next \in LinksRead(storage'[freeHead'])
<1>1. PICK next \in LinksRead(storage'[freeHead']) :
          Push(Frame("emplace", freeHead', version'[freeHead'], next, v))
  BY DEF StartEmplace
<1>2. PICK f : f = Frame("emplace", freeHead', version'[freeHead'], next, v)
  OBVIOUS
<1>3. freeHead' \in Index
  BY DEF HeadUsable
<1>4. version'[freeHead'] \in Version /\ next \in Link
  BY <1>3 DEF TypeInv, TypeOK, LinksRead
<1>5. f \in Frames
  BY <1>2, <1>3, <1>4 DEF Frame, Frames
<1> QED
  BY <1>1, <1>2, <1>5 DEF Frame

(* emplace ends as the call of SlotMap.                                    *)
LEMMA FinishEmplaceCalls ==
    ASSUME MapSound, FramesSound, FinishEmplace
    PROVE  TryEmplace(Top.value) /\ Top.value \in Values /\ Running'
<1>1. /\ HeadUsable /\ objectsCreated < MaxCreated
      /\ Top.slot = freeHead /\ Top.ver = version[freeHead]
      /\ Top.next \in LinksRead(storage[freeHead]) /\ Top.value \in Values
  BY DEF FinishEmplace, FramesSound, EmplaceSound
<1>2. /\ storage' = [storage EXCEPT ![freeHead] = Top.value]
      /\ version' = version
      /\ aliveBit' = [aliveBit EXCEPT ![freeHead] = HasAliveBit]
      /\ bitmap' = [bitmap EXCEPT ![freeHead] = TRUE]
      /\ freeHead' \in LinksRead(storage[freeHead])
      /\ size' = size + 1
      /\ objectsCreated' = objectsCreated + 1
      /\ issued' = issued \union {[index |-> freeHead, version |-> version[freeHead]]}
      /\ status' = "returned"
      /\ UNCHANGED <<slabs, nextBase, deadCount, deadSlots>>
  BY <1>1 DEF FinishEmplace
<1>3. Construct(freeHead, Top.value, version, storage)
  BY <1>2 DEF Construct
<1>4. Running /\ Running'
  BY <1>2 DEF MapSound, Running
<1> QED
  BY <1>1, <1>2, <1>3, <1>4 DEF TryEmplace

(* Or as one whose constructor throws.                                     *)
LEMMA FailEmplaceCalls ==
    ASSUME MapSound, FramesSound, FailEmplace
    PROVE  EmplaceThrows /\ Running'
<1>1. HeadUsable
  BY DEF FailEmplace, FramesSound, EmplaceSound
<1>2. Running /\ Running'
  BY DEF FailEmplace, MapSound, Running
<1>3. ConstructorThrows(freeHead, storage)
  BY DEF FailEmplace, ConstructorThrows
<1> QED
  BY <1>1, <1>2, <1>3 DEF FailEmplace, EmplaceThrows

(* An erase ends as the removal by a use() that asked for it.              *)
LEMMA FinishEraseCalls ==
    ASSUME MapSound, FramesSound, FinishErase
    PROVE  /\ [index |-> Top.slot, version |-> Top.ver] \in Key
           /\ UseErases([index |-> Top.slot, version |-> Top.ver])
           /\ Running'
<1>1. PICK k : k = [index |-> Top.slot, version |-> Top.ver]
  OBVIOUS
<1>2. Len(frames) \in 1 .. Len(frames) /\ Top \in Frames
        /\ Top = frames[Len(frames)]
  BY TopIsLast DEF FramesSound, FinishErase, In
<1>3. k \in Key /\ k.index = Top.slot /\ k.version = Top.ver
  BY <1>1, <1>2 DEF Frames, Key
<1>4. bitmap[k.index] /\ version[k.index] = k.version
  BY <1>2, <1>3 DEF FramesSound, EraseSound, Removing, FinishErase, In
<1>5. IsValid(k) /\ EraseFinds(k)
  BY <1>3, <1>4, KeyInvLookups DEF MapSound, LookupsAgree
<1>6. /\ Reuse(k.index) \/ Retire(k.index) \/ Release(k.index)
      /\ Removed /\ status' \in {"returned", "threw"}
  BY <1>3 DEF FinishErase
<1>7. Running /\ Running'
  BY <1>6 DEF MapSound, Running
<1>8. UseErases(k)
  BY <1>5, <1>6, <1>7 DEF UseErases
<1> QED
  BY <1>1, <1>3, <1>7, <1>8

(* A pop whose move throws ends as the pop of SlotMap that throws.         *)
LEMMA FailPopCalls ==
    ASSUME MapSound, FramesSound, FailPop
    PROVE  /\ [index |-> Top.slot, version |-> Top.ver] \in Key
           /\ PopThrows([index |-> Top.slot, version |-> Top.ver])
           /\ Running' /\ UNCHANGED <<bitmap, version>>
<1>1. Top \in Frames
  BY TopIsLast DEF FramesSound, FailPop, In
<1>2. [index |-> Top.slot, version |-> Top.ver] \in Key
  BY <1>1 DEF Frames, Key
<1>3. PopThrows([index |-> Top.slot, version |-> Top.ver])
  BY DEF FailPop
<1>4. Running' /\ UNCHANGED <<bitmap, version>>
  BY <1>3 DEF PopThrows, Running
<1> QED
  BY <1>2, <1>3, <1>4

(* reserve() leaves the elements alone.                                    *)
LEMMA ReserveSpares ==
    ASSUME TypeInv, KeyInv, NEW to, Reserve(to), NEW j \in Index, bitmap[j]
    PROVE  bitmap'[j] /\ version'[j] = version[j]
<1>1. j < nextBase
  BY DEF KeyInv, SlabsOnGrid, AliveBitsMatch
<1>2. j \notin Grown(to)
  BY <1>1, IndexIsInt DEF Grown, TypeInv, OnGrid
<1> QED
  BY <1>2 DEF Reserve, GrownVersions

(* A removal leaves the other elements alone.                              *)
LEMMA RemovalSpares ==
    ASSUME TypeInv, KeyInv, NEW i \in Index, bitmap[i],
           Reuse(i) \/ Retire(i) \/ Release(i),
           NEW j \in Index, j # i, bitmap[j]
    PROVE  bitmap'[j] /\ version'[j] = version[j]
<1>1. CASE Reuse(i) \/ Retire(i)
  BY <1>1 DEF Reuse, Retire, TypeInv, TypeOK
<1>2. CASE Release(i)
  <2>1. j \notin Slots(SlabOf(i))
    BY <1>2, KeyInvParts, OthersDied DEF Release, Dead
  <2> QED
    BY <1>2, <2>1 DEF Release, Blank, Slots, TypeInv, TypeOK
<1> QED
  BY <1>1, <1>2

-----------------------------------------------------------------------------
(* The invariant holds.                                                    *)

(* A new map has no call in progress.                                      *)
LEMMA ReentryInvInit == ASSUME ReentryInit PROVE ReentryInv
<1>1. TypeInv /\ KeyInv /\ Running
  BY TypeInit, BlankKeyInv DEF ReentryInit, Init, Running
<1>2. AliveSlots = {} /\ DeadSet = {}
  BY DEF ReentryInit, Init, AliveSlots, DeadSet, Dead
<1>3. MapSound /\ size = Cardinality(AliveSlots)
  BY <1>1, <1>2, FS_EmptySet DEF MapSound, ReentryInit, Init
<1>4. frames = <<>> /\ frames \in Seq(Frames) /\ Len(frames) = 0
  BY EmptySeq DEF ReentryInit
<1>5. FramesSound /\ ClearSound
  BY <1>4 DEF FramesSound, CallersSound, EmplaceSound, ClearSound, In
<1> QED
  BY <1>3, <1>5 DEF ReentryInv

(* Whether a clear() is in progress shows on top of the stack.             *)
LEMMA NoneClears ==
    ASSUME FramesSound', ~In("clear")'
    PROVE  ~Clearing'
<1>1. /\ frames' \in Seq(Frames)
      /\ \A n \in 1 .. Len(frames') :
             frames'[n].op \in {"emplace", "clear"} => n = Len(frames')
  BY DEF FramesSound, CallersSound
<1>2. DOMAIN frames' = 1 .. Len(frames') /\ Len(frames') \in Nat
  BY <1>1, LenProperties
<1>3. Len(frames') # 0 => frames' # <<>>
  BY EmptySeq
<1>4. ASSUME NEW n \in 1 .. Len(frames'), frames'[n].op = "clear" PROVE FALSE
  <2>1. n = Len(frames') /\ frames' # <<>>
    <3>1. n = Len(frames')
      BY <1>1, <1>4
    <3>2. Len(frames') # 0
      BY <1>2, <1>4
    <3> QED
      BY <1>3, <3>1, <3>2
  <2>2. Top' = frames'[n]
    BY <2>1 DEF Top
  <2> QED
    BY <1>4, <2>1, <2>2 DEF In
<1> QED
  BY <1>2, <1>4 DEF Clearing

(* It is kept by the steps that are whole calls or parts that change only  *)
(* the stack, when they leave no clear() in progress.                      *)
LEMMA ReentryInvKept ==
    ASSUME PartialWrites = FALSE, ReentryInv, ~Clearing,
           [NextUntilRecycle]_vars, Running',
           FramesSound', ~In("clear")'
    PROVE  ReentryInv' /\ ~Clearing'
<1>1. MapSound' /\ size' = Cardinality(AliveSlots')
  BY CallKeepsMap DEF ReentryInv
<1>2. ~Clearing'
  BY NoneClears
<1> QED
  BY <1>1, <1>2 DEF ReentryInv, ClearSound

(* No clear() runs inside an emplace, an erase, a pop or a use().          *)
LEMMA OnTopNotClearing ==
    ASSUME FramesSound,
           In("emplace") \/ In("erase") \/ In("pop") \/ In("use")
    PROVE  ~Clearing /\ frames \in Seq(Frames) /\ frames # <<>>
<1>1. ~In("clear")
  BY DEF In
<1> QED
  BY <1>1, ClearingOnTop DEF FramesSound, In

(* emplace up to T's constructor.                                          *)
LEMMA StartEmplaceStep ==
    ASSUME PartialWrites = FALSE, Nested \subseteq {"use", "erase", "pop"},
           ReentryInv, NEW v \in Values, StartEmplace(v)
    PROVE  ReentryInv' /\ ~Clearing /\ ~Clearing'
<1>1. MapSound /\ FramesSound /\ Outer /\ ~Clearing
  BY CallersWait DEF ReentryInv, FramesSound, StartEmplace
<1>2. /\ [NextUntilRecycle]_vars /\ Running' /\ bitmap' = bitmap
      /\ \A j \in Index : bitmap[j] => version'[j] = version[j]
      /\ HeadUsable' /\ objectsCreated' < MaxCreated
  BY <1>1, StartEmplaceCalls
<1>3. MapSound' /\ size' = Cardinality(AliveSlots')
  BY <1>1, <1>2, CallKeepsMap DEF ReentryInv
<1>4. PICK f \in Frames :
          /\ Push(f) /\ f.op = "emplace" /\ f.value = v
          /\ f.slot = freeHead' /\ f.ver = version'[freeHead']
          /\ f.next \in LinksRead(storage'[freeHead'])
  BY <1>1, <1>2, <1>3, StartEmplaceFrame DEF MapSound
<1>5. frames' = Append(frames, f) /\ Top' = f
  BY <1>1, <1>4, Pushed DEF Push, FramesSound
<1>6. EmplaceSound'
  BY <1>2, <1>4, <1>5 DEF EmplaceSound
<1>7. ASSUME NEW n \in 1 .. Len(frames) PROVE Spares(n)
  <2>1. frames[n].slot \in Index
    BY <1>1, FrameSlot DEF FramesSound
  <2>2. EraseSound(n)
    BY <1>1 DEF FramesSound
  <2> QED
    BY <1>2, <2>1, <2>2 DEF EraseSound, Spares
<1>8. FramesSound'
  <2>1. Alone(f)
    BY <1>4 DEF Alone, Removing
  <2> QED
    BY <1>1, <1>5, <1>6, <1>7, <2>1, PushKeepsFrames
<1>9. ~In("clear")'
  BY <1>4, <1>5 DEF In
<1> QED
  BY <1>1, <1>2, <1>8, <1>9, ReentryInvKept

(* emplace after it.                                                       *)
LEMMA FinishEmplaceStep ==
    ASSUME PartialWrites = FALSE, ReentryInv, FinishEmplace \/ FailEmplace
    PROVE  ReentryInv' /\ ~Clearing /\ ~Clearing'
<1>1. MapSound /\ FramesSound /\ ~Clearing /\ frames # <<>> /\ Pop
  BY OnTopNotClearing DEF ReentryInv, FinishEmplace, FailEmplace
<1>2. NextUntilRecycle /\ Running'
  BY <1>1, FinishEmplaceCalls, FailEmplaceCalls DEF NextUntilRecycle
<1>3. /\ version' = version /\ \A j \in Index : bitmap[j] => bitmap'[j]
  BY <1>1 DEF FinishEmplace, FailEmplace, MapSound, TypeInv, TypeOK
<1>4. ASSUME NEW n \in 1 .. Len(frames) PROVE Spares(n)
  <2>1. frames[n].slot \in Index
    BY <1>1, FrameSlot DEF FramesSound
  <2>2. EraseSound(n)
    BY <1>1 DEF FramesSound
  <2> QED
    BY <1>3, <2>1, <2>2 DEF EraseSound, Spares
<1>5. FramesSound' /\ ~In("clear")'
  BY <1>1, <1>4, PopKeepsFrames
<1> QED
  BY <1>1, <1>2, <1>5, ReentryInvKept

(* erase after ~T.                                                         *)
LEMMA FinishEraseStep ==
    ASSUME PartialWrites = FALSE, ReentryInv, FinishErase
    PROVE  ReentryInv' /\ ~Clearing /\ ~Clearing'
<1>1. MapSound /\ FramesSound /\ ~Clearing /\ frames # <<>> /\ Pop
      /\ frames \in Seq(Frames)
  BY OnTopNotClearing DEF ReentryInv, FinishErase
<1>2. NextUntilRecycle /\ Running'
  BY <1>1, FinishEraseCalls DEF NextUntilRecycle
<1>3. /\ Len(frames) \in 1 .. Len(frames) /\ Top = frames[Len(frames)]
      /\ Top.op = "erase"
  BY <1>1, TopIsLast DEF FinishErase, In
<1>4. PICK i : i = Top.slot
  OBVIOUS
<1>5. /\ i \in Index /\ bitmap[i] /\ (Reuse(i) \/ Retire(i) \/ Release(i))
      /\ \A n \in 1 .. Len(frames) :
             frames[n].op \in Removing /\ frames[n].slot = i => n = Len(frames)
  <2>1. Top \in Frames
    BY <1>1, TopIsLast
  <2>2. EraseSound(Len(frames))
    BY <1>1, <1>3 DEF FramesSound
  <2> QED
    BY <1>3, <1>4, <2>1, <2>2 DEF EraseSound, Removing, FinishErase, Frames
<1>6. ASSUME NEW n \in 1 .. Len(frames), n # Len(frames) PROVE Spares(n)
  <2>1. frames[n].slot \in Index
    BY <1>1, FrameSlot
  <2>2. EraseSound(n)
    BY <1>1 DEF FramesSound
  <2>3. ASSUME frames[n].op \in Removing
        PROVE  bitmap[frames[n].slot] /\ frames[n].slot # i
    BY <1>5, <1>6, <2>2, <2>3 DEF EraseSound
  <2> QED
    BY <1>1, <1>5, <2>1, <2>3, RemovalSpares DEF Spares, MapSound
<1>7. FramesSound' /\ ~In("clear")'
  BY <1>1, <1>6, PopKeepsFrames
<1> QED
  BY <1>1, <1>2, <1>7, ReentryInvKept

(* A step that only changes the stack.                                     *)
LEMMA StackStep ==
    ASSUME PartialWrites = FALSE, ReentryInv, ~Clearing, UNCHANGED vars,
           FramesSound', ~In("clear")'
    PROVE  ReentryInv' /\ ~Clearing'
<1>1. Running'
  BY DEF ReentryInv, MapSound, Running, vars
<1> QED
  BY <1>1, ReentryInvKept

(* It touches no element.                                                  *)
LEMMA StackSpares ==
    ASSUME FramesSound, UNCHANGED vars, NEW n \in 1 .. Len(frames)
    PROVE  Spares(n)
<1>1. EraseSound(n)
  BY DEF FramesSound
<1> QED
  BY <1>1 DEF EraseSound, Spares, vars

(* No call is taking out a slot that is not among Ending.                  *)
LEMMA NotEnding ==
    ASSUME frames \in Seq(Frames), NEW i, i \notin Ending,
           NEW n \in 1 .. Len(frames), frames[n].op \in {"erase", "pop", "clear"}
    PROVE  frames[n].slot # i
<1>1. DOMAIN frames = 1 .. Len(frames)
  BY LenProperties
<1> QED
  BY <1>1 DEF Ending

(* erase up to ~T, pop up to its move, and use() up to its callback.       *)
LEMMA StartStep ==
    ASSUME PartialWrites = FALSE, Nested \subseteq {"use", "erase", "pop"},
           ReentryInv, NEW k \in Key,
           StartErase(k) \/ StartPop(k) \/ StartUse(k)
    PROVE  ReentryInv' /\ ~Clearing /\ ~Clearing'
<1>1. MapSound /\ FramesSound /\ Outer /\ ~Clearing /\ frames \in Seq(Frames)
  BY CallersWait DEF ReentryInv, FramesSound, StartErase, StartPop, StartUse
<1>2. UNCHANGED vars /\ k.index \notin Ending
  BY DEF StartErase, StartPop, StartUse
<1>3. PICK f : /\ Push(f) /\ f.op \in {"erase", "pop", "use"}
               /\ f = Frame(f.op, k.index, k.version, End, storage[k.index])
               /\ f.op \in Removing => EraseFinds(k)
  BY DEF StartErase, StartPop, StartUse, Frame, Removing
<1>4. f \in Frames /\ f.slot = k.index /\ f.ver = k.version
  <2>1. storage[k.index] \in Link \union Values /\ End \in Link
    BY <1>1 DEF MapSound, TypeInv, TypeOK, Link, Key
  <2> QED
    BY <1>3, <2>1 DEF Frame, Frames, Key
<1>5. frames' = Append(frames, f) /\ Top' = f
  BY <1>1, <1>3, <1>4, Pushed DEF Push
<1>6. Alone(f)
  <2> SUFFICES ASSUME f.op \in Removing PROVE Alone(f)
    BY DEF Alone
  <2>1. bitmap'[f.slot] /\ version'[f.slot] = f.ver
    BY <1>2, <1>3, <1>4 DEF EraseFinds, vars
  <2>2. \A n \in 1 .. Len(frames) :
            frames[n].op \in Removing => frames[n].slot # f.slot
    BY <1>1, <1>2, <1>4, NotEnding DEF Removing
  <2> QED
    BY <2>1, <2>2 DEF Alone
<1>7. FramesSound'
  BY <1>1, <1>2, <1>3, <1>4, <1>5, <1>6, StackSpares, PushKeepsFrames
<1>8. ~In("clear")'
  BY <1>3, <1>5 DEF In
<1> QED
  BY <1>1, <1>2, <1>7, <1>8, StackStep

(* use() after its callback.                                               *)
LEMMA FinishUseStep ==
    ASSUME PartialWrites = FALSE, ReentryInv, FinishUse \/ FinishUseErasing
    PROVE  ReentryInv' /\ ~Clearing /\ ~Clearing'
<1>1. MapSound /\ FramesSound /\ ~Clearing /\ frames # <<>>
      /\ frames \in Seq(Frames) /\ In("use") /\ UNCHANGED vars
  BY OnTopNotClearing DEF ReentryInv, FinishUse, FinishUseErasing
<1>2. CASE Pop
  <2>1. FramesSound' /\ ~In("clear")'
    BY <1>1, <1>2, StackSpares, PopKeepsFrames
  <2> QED
    BY <1>1, <2>1, StackStep
<1>3. PICK k : k = [index |-> Top.slot, version |-> Top.ver]
  OBVIOUS
<1>4. CASE /\ EraseFinds(k) /\ k.index \notin Ending
           /\ frames' = [frames EXCEPT ![Len(frames)].op = "erase"]
  <2>1. PICK f : f = [Top EXCEPT !.op = "erase"]
    OBVIOUS
  <2>2. Top \in Frames /\ Top = frames[Len(frames)]
    BY <1>1, TopIsLast
  <2>3. f \in Frames /\ f.op = "erase" /\ f.slot = k.index /\ f.ver = k.version
    BY <1>3, <2>1, <2>2 DEF Frames
  <2>4. frames' = [frames EXCEPT ![Len(frames)] = f]
    BY <1>4, <2>1, <2>2
  <2>5. Alone(f)
    <3>1. bitmap'[f.slot] /\ version'[f.slot] = f.ver
      BY <1>1, <1>4, <2>3 DEF EraseFinds, vars
    <3>2. \A n \in 1 .. Len(frames) :
              frames[n].op \in Removing => frames[n].slot # f.slot
      BY <1>1, <1>4, <2>3, NotEnding DEF Removing
    <3> QED
      BY <3>1, <3>2 DEF Alone
  <2>6. FramesSound'
    BY <1>1, <2>3, <2>4, <2>5, StackSpares, AlterKeepsFrames
  <2>7. ~In("clear")'
    BY <1>1, <2>3, <2>4, Altered DEF In
  <2> QED
    BY <1>1, <2>6, <2>7, StackStep
<1> QED
  BY <1>2, <1>3, <1>4 DEF FinishUse, FinishUseErasing

(* pop after its move.                                                     *)
LEMMA PopStep ==
    ASSUME PartialWrites = FALSE, ReentryInv, PopMoves \/ FailPop
    PROVE  ReentryInv' /\ ~Clearing /\ ~Clearing'
<1>1. MapSound /\ FramesSound /\ ~Clearing /\ frames # <<>>
      /\ frames \in Seq(Frames) /\ In("pop")
  BY OnTopNotClearing DEF ReentryInv, PopMoves, FailPop
<1>2. CASE FailPop
  <2>1. Running' /\ UNCHANGED <<bitmap, version>>
    BY <1>1, <1>2, FailPopCalls
  <2>2. NextUntilRecycle
    BY <1>1, <1>2, FailPopCalls DEF NextUntilRecycle
  <2>3. ASSUME NEW n \in 1 .. Len(frames) PROVE Spares(n)
    <3>1. EraseSound(n)
      BY <1>1 DEF FramesSound
    <3> QED
      BY <2>1, <3>1 DEF EraseSound, Spares
  <2>4. FramesSound' /\ ~In("clear")'
    <3>1. Pop
      BY <1>2 DEF FailPop
    <3> QED
      BY <1>1, <2>3, <3>1, PopKeepsFrames
  <2> QED
    BY <1>1, <2>1, <2>2, <2>4, ReentryInvKept
<1>3. CASE PopMoves
  <2>1. UNCHANGED vars
    BY <1>3 DEF PopMoves
  <2>2. PICK f : f = [Top EXCEPT !.op = "erase"]
    OBVIOUS
  <2>3. /\ Top \in Frames /\ Top = frames[Len(frames)]
        /\ Len(frames) \in 1 .. Len(frames) /\ Top.op = "pop"
    BY <1>1, TopIsLast DEF In
  <2>4. f \in Frames /\ f.op = "erase" /\ f.slot = Top.slot /\ f.ver = Top.ver
    BY <2>2, <2>3 DEF Frames
  <2>5. frames' = [frames EXCEPT ![Len(frames)] = f]
    BY <1>3, <2>2, <2>3 DEF PopMoves
  <2>6. Len(frames') = Len(frames) /\ Top' = f
    BY <1>1, <2>4, <2>5, Altered
  <2>7. Alone(f)
    <3>1. EraseSound(Len(frames)) /\ Top.op \in Removing
      BY <1>1, <2>3 DEF FramesSound, Removing
    <3>2. bitmap'[f.slot] /\ version'[f.slot] = f.ver
      BY <2>1, <2>3, <2>4, <3>1 DEF EraseSound, vars
    <3>3. \A n \in 1 .. Len(frames) :
              frames[n].op \in Removing /\ frames[n].slot = f.slot
                  => n = Len(frames)
      BY <2>3, <2>4, <3>1 DEF EraseSound
    <3> QED
      BY <2>6, <3>2, <3>3 DEF Alone
  <2>8. FramesSound'
    BY <1>1, <2>1, <2>4, <2>5, <2>7, StackSpares, AlterKeepsFrames
  <2>9. ~In("clear")'
    BY <2>4, <2>6 DEF In
  <2> QED
    BY <1>1, <2>1, <2>8, <2>9, StackStep
<1> QED
  BY <1>2, <1>3

(* The stack stays sound when it stays as it is.                           *)
LEMMA SameKeepsFrames ==
    ASSUME FramesSound, Outer, frames' = frames,
           \A n \in 1 .. Len(frames) : Spares(n)
    PROVE  FramesSound' /\ ~In("clear")'
<1>1. frames \in Seq(Frames)
  BY DEF FramesSound
<1>2. ~In("emplace") /\ ~In("clear")
  BY <1>1, TopIsLast DEF Outer, In
<1>3. ~In("emplace")' /\ ~In("clear")'
  BY <1>2 DEF In, Top
<1>4. CallersSound'
  BY DEF FramesSound, CallersSound
<1>5. ASSUME NEW n \in 1 .. Len(frames) PROVE EraseSound(n)'
  <2>1. EraseSound(n) /\ Spares(n)
    BY DEF FramesSound
  <2> QED
    BY <2>1 DEF EraseSound, Spares
<1> QED
  BY <1>1, <1>3, <1>4, <1>5 DEF FramesSound, EmplaceSound

(* reserve() and reset(), called by the client or by its code.             *)
LEMMA WholeCallStep ==
    ASSUME PartialWrites = FALSE, Nested \subseteq {"use", "erase", "pop"},
           ReentryInv, (\E to \in SlabEnds : CallReserve(to)) \/ CallReset
    PROVE  ReentryInv' /\ ~Clearing /\ ~Clearing'
<1>1. MapSound /\ FramesSound /\ Outer /\ ~Clearing /\ frames \in Seq(Frames)
  BY CallersWait DEF ReentryInv, FramesSound, CallReserve, CallReset
<1>2. frames' = frames
  BY DEF CallReserve, CallReset
<1>3. ASSUME NEW to \in SlabEnds, CallReserve(to)
      PROVE  /\ NextUntilRecycle /\ Running'
             /\ \A n \in 1 .. Len(frames) : Spares(n)
  <2>1. Reserve(to)
    BY <1>3 DEF CallReserve
  <2>2. NextUntilRecycle /\ Running'
    BY <2>1 DEF NextUntilRecycle, Reserve, Running
  <2>3. ASSUME NEW n \in 1 .. Len(frames) PROVE Spares(n)
    <3>1. frames[n].slot \in Index /\ EraseSound(n)
      BY <1>1, FrameSlot DEF FramesSound
    <3> QED
      BY <1>1, <2>1, <3>1, ReserveSpares DEF EraseSound, Spares, MapSound
  <2> QED
    BY <2>2, <2>3
<1>4. ASSUME CallReset
      PROVE  /\ NextUntilRecycle /\ Running'
             /\ \A n \in 1 .. Len(frames) : Spares(n)
  <2>1. NextUntilRecycle /\ Running'
    BY <1>4 DEF CallReset, NextUntilRecycle, Reset, Running
  <2>2. \A n \in 1 .. Len(frames) : frames[n].op = "use"
    BY <1>1, <1>4, LenProperties DEF CallReset
  <2> QED
    BY <2>1, <2>2 DEF Spares, Removing
<1>5. NextUntilRecycle /\ Running' /\ \A n \in 1 .. Len(frames) : Spares(n)
  BY <1>3, <1>4
<1>6. FramesSound' /\ ~In("clear")'
  BY <1>1, <1>2, <1>5, SameKeepsFrames
<1> QED
  BY <1>1, <1>5, <1>6, ReentryInvKept

(* clear() from one destructor to the next, or to its end.                 *)
LEMMA SweepStep ==
    ASSUME ReentryInv, NEW q \in Nat, NEW p \in Index \union {End}, q <= p,
           NEW head \in Link, Passes(q, p, head), Stops(p),
           NEW b, Progress(b, q, head), p \in Index => bitmap[p],
           \A n \in 1 .. Len(frames) : frames[n].op \notin Removing,
           \/ In("clear") /\ before = b
           \/ Outer /\ ~Clearing /\ b = Fields
    PROVE  /\ ReentryInv'
           /\ p = End => ~Clearing'
           /\ p # End => Clearing' /\ before' = b
<1>1. MapSound /\ FramesSound /\ frames \in Seq(Frames)
  BY DEF ReentryInv, FramesSound
<1>2. /\ MapSound' /\ Progress(b, p, freeHead)'
      /\ p \in Index => bitmap'[p]
      /\ p = End => size' = Cardinality(AliveSlots')
  BY <1>1, ClearKeepsMap
<1>3. \A n \in 1 .. Len(frames) : Spares(n)
  BY DEF Spares
<1>4. p \in Index <=> p # End
  BY IndexIsInt
<1>5. In("clear") => Clearing
  BY <1>1, ClearingOnTop DEF FramesSound
<1>6. CASE p = End /\ In("clear")
  <2>1. Pop /\ frames # <<>>
    BY <1>6 DEF Stops, In
  <2>2. FramesSound' /\ ~In("clear")' /\ ~Clearing'
    BY <1>1, <1>3, <2>1, PopKeepsFrames
  <2> QED
    BY <1>2, <1>6, <2>2 DEF ReentryInv, ClearSound
<1>7. CASE p = End /\ ~In("clear")
  <2>1. frames' = frames
    BY <1>7 DEF Stops
  <2>2. ~In("clear")'
    BY <1>7, <2>1 DEF In, Top
  <2>3. ~In("emplace")
    BY <1>1, <1>7, TopIsLast DEF Outer, In
  <2>4. FramesSound'
    BY <1>1, <2>1, <2>3 DEF FramesSound, CallersSound, EmplaceSound,
       EraseSound, In, Top
  <2>5. ~Clearing'
    BY <2>2, <2>4, NoneClears
  <2> QED
    BY <1>2, <1>7, <2>2, <2>4, <2>5 DEF ReentryInv, ClearSound
<1>8. ASSUME p # End, NEW f \in Frames, f.op = "clear", f.slot = p,
             FramesSound', Top' = f, before' = b,
             \A n \in 1 .. Len(frames') : frames'[n].op \notin Removing,
             In("clear")'
      PROVE  ReentryInv' /\ Clearing'
  <2>1. Clearing'
    <3>1. (frames \in Seq(Frames) /\ CallersSound)'
      BY <1>8 DEF FramesSound
    <3>2. DOMAIN frames' = 1 .. Len(frames')
      BY <3>1, LenProperties
    <3>3. frames' # <<>> /\ Top'.op = "clear"
      BY <1>8 DEF In
    <3>4. Len(frames') \in 1 .. Len(frames')
      <4>1. Len(frames') \in Nat \ {0}
        BY <3>1, <3>3, EmptySeq
      <4> QED
        BY <4>1
    <3> QED
      BY <3>2, <3>3, <3>4 DEF Clearing, Top
  <2>2. ClearSound'
    BY <1>2, <1>4, <1>8 DEF ClearSound
  <2> QED
    BY <1>2, <1>8, <2>1, <2>2 DEF ReentryInv
<1>9. CASE p # End /\ In("clear")
  <2>1. Top \in Frames /\ Top = frames[Len(frames)] /\ frames # <<>>
        /\ Top.op = "clear"
    BY <1>1, <1>9, TopIsLast DEF In
  <2>2. PICK f : f = [Top EXCEPT !.slot = p]
    OBVIOUS
  <2>3. f \in Frames /\ f.op = "clear" /\ f.slot = p
    BY <1>4, <1>9, <2>1, <2>2 DEF Frames
  <2>4. frames' = [frames EXCEPT ![Len(frames)] = f] /\ before' = before
    BY <1>9, <2>1, <2>2 DEF Stops
  <2>5. /\ Len(frames') = Len(frames) /\ Top' = f /\ frames' # <<>>
        /\ \A n \in 1 .. Len(frames) :
               frames'[n] = IF n = Len(frames) THEN f ELSE frames[n]
    BY <1>1, <2>1, <2>3, <2>4, Altered
  <2>6. Alone(f)
    BY <2>3 DEF Alone, Removing
  <2>7. FramesSound'
    BY <1>1, <1>3, <2>1, <2>3, <2>4, <2>6, AlterKeepsFrames
  <2>8. \A n \in 1 .. Len(frames') : frames'[n].op \notin Removing
    BY <2>3, <2>5 DEF Removing
  <2>9. In("clear")'
    BY <2>3, <2>5 DEF In
  <2> QED
    BY <1>5, <1>8, <1>9, <2>3, <2>4, <2>5, <2>7, <2>8, <2>9
<1>10. CASE p # End /\ ~In("clear")
  <2>1. PICK f : f = Frame("clear", p, 0, End, storage[p])
    OBVIOUS
  <2>2. f \in Frames /\ f.op = "clear" /\ f.slot = p
    <3>1. storage[p] \in Link \union Values /\ End \in Link /\ 0 \in Version
      BY <1>1, <1>4, <1>10, SizeAssumption
         DEF MapSound, TypeInv, TypeOK, Link, Version
    <3> QED
      BY <1>4, <1>10, <2>1, <3>1 DEF Frame, Frames
  <2>3. frames' = Append(frames, f) /\ before' = Fields
    BY <1>10, <2>1 DEF Stops, Push
  <2>4. /\ Len(frames') = Len(frames) + 1 /\ Top' = f /\ frames' # <<>>
        /\ \A n \in 1 .. Len(frames) : frames'[n] = frames[n]
        /\ frames'[Len(frames) + 1] = f /\ Len(frames) \in Nat
    BY <1>1, <2>2, <2>3, Pushed
  <2>5. Alone(f)
    BY <2>2 DEF Alone, Removing
  <2>6. FramesSound'
    BY <1>1, <1>3, <1>10, <2>2, <2>3, <2>5, PushKeepsFrames
  <2>7. \A n \in 1 .. Len(frames') : frames'[n].op \notin Removing
    <3>1. \A n \in 1 .. Len(frames) + 1 : n \in 1 .. Len(frames)
                                             \/ n = Len(frames) + 1
      BY <2>4
    <3> QED
      BY <2>2, <2>4, <3>1 DEF Removing
  <2>8. In("clear")'
    BY <2>2, <2>4 DEF In
  <2> QED
    BY <1>8, <1>10, <2>2, <2>3, <2>4, <2>6, <2>7, <2>8
<1> QED
  BY <1>6, <1>7, <1>9, <1>10

(* A stretch of clear()'s loop from slot q up to slot p, in a clear() that *)
(* began in b.                                                             *)
Sweeps(q, p, head, b) ==
    /\ q <= p /\ Passes(q, p, head) /\ Stops(p) /\ Progress(b, q, head)
    /\ p \in Index => bitmap[p]
    /\ \A n \in 1 .. Len(frames) : frames[n].op \notin Removing

(* Where it starts.                                                        *)
LEMMA StartClearSweeps ==
    ASSUME Nested \subseteq {"use", "erase", "pop"}, ReentryInv, StartClear
    PROVE  \E b : \E p \in Index \union {End} :
               /\ Sweeps(0, p, End, b) /\ b = Fields
               /\ Outer /\ ~Clearing /\ ~In("clear")
<1>1. MapSound /\ FramesSound /\ frames \in Seq(Frames)
  BY DEF ReentryInv, FramesSound
<1>2. Outer /\ ~Clearing /\ ~In("clear")
  BY <1>1, CallersWait DEF FramesSound, StartClear
<1>3. \A n \in 1 .. Len(frames) : frames[n].op \notin Removing
  <2>1. DOMAIN frames = 1 .. Len(frames) /\ Ending = {}
    BY <1>1, LenProperties DEF StartClear
  <2> QED
    BY <2>1 DEF Ending, Removing
<1>4. PICK p \in Index \union {End} :
          /\ Passes(0, p, End) /\ Stops(p)
          /\ p \in Index => bitmap[p] /\ 0 <= p /\ p \notin {}
  <2>1. Sweep({}, 0, End)
    BY DEF StartClear
  <2> QED
    BY <2>1, SweepPasses
<1>5. PICK b : b = Fields
  OBVIOUS
<1>6. Progress(b, 0, End)
  BY <1>1, <1>5, StartsProgress DEF MapSound
<1>7. 0 <= p
  BY <1>4, SizeAssumption DEF End
<1>8. Sweeps(0, p, End, b)
  BY <1>3, <1>4, <1>6, <1>7 DEF Sweeps
<1> QED
  BY <1>2, <1>5, <1>8

(* And where it goes on after a destructor.                                *)
LEMMA ContinueClearSweeps ==
    ASSUME ReentryInv, ContinueClear
    PROVE  \E b : \E q \in Nat, p \in Index \union {End}, head \in Link :
               /\ Sweeps(q, p, head, b) /\ b = before /\ head = freeHead
               /\ In("clear") /\ Clearing
<1>1. MapSound /\ FramesSound /\ frames \in Seq(Frames) /\ In("clear")
  BY DEF ReentryInv, FramesSound, ContinueClear
<1>2. Clearing
  BY <1>1, ClearingOnTop DEF FramesSound
<1>3. PICK b, q : b = before /\ q = Top.slot /\ Progress(b, q, freeHead)
  BY <1>1 DEF ReentryInv, ClearSound
<1>4. /\ bitmap[q] /\ \A n \in 1 .. Len(frames) : frames[n].op \notin Removing
  BY <1>1, <1>3 DEF ReentryInv, ClearSound
<1>5. q \in Index
  <2>1. Top \in Frames
    BY <1>1, TopIsLast DEF In
  <2> QED
    BY <1>3, <2>1 DEF Frames
<1>6. PICK head \in Link : head = freeHead
  BY <1>1 DEF MapSound, TypeInv, TypeOK
<1>7. q \in Nat /\ Sweep({q}, q + 1, head)
  BY <1>3, <1>5, <1>6, IndexIsInt DEF ContinueClear
<1>8. PICK p \in Index \union {End} :
          /\ Passes(q, p, head) /\ Stops(p)
          /\ p \in Index => bitmap[p] /\ q <= p /\ p \notin {q}
  BY <1>4, <1>5, <1>7, SweepPasses
<1>9. q <= p
  BY <1>5, <1>8, SizeAssumption DEF Index, End
<1>10. Progress(b, q, head)
  BY <1>3, <1>6
<1> QED
  <2>1. Sweeps(q, p, head, b)
    BY <1>4, <1>8, <1>9, <1>10 DEF Sweeps
  <2> QED
    BY <1>1, <1>2, <1>3, <1>6, <1>7, <1>8, <2>1

(* A step that changes nothing keeps it, a clear() in progress or not.     *)
LEMMA ReentryInvStutters ==
    ASSUME PartialWrites = FALSE, ReentryInv, UNCHANGED reentryVars
    PROVE  ReentryInv'
<1>1. UNCHANGED vars /\ frames' = frames /\ before' = before
  BY DEF reentryVars
<1>2. MapSound'
  <2>1. TypeInv' /\ KeyInv'
    BY <1>1, TypeStep, KeyInvStep DEF ReentryInv, MapSound
  <2>2. DeadSet' = DeadSet /\ deadSlots' = deadSlots /\ status' = status
    BY <1>1 DEF DeadSet, Dead, vars
  <2> QED
    BY <2>1, <2>2 DEF ReentryInv, MapSound, Running
<1>3. FramesSound'
  <2>1. /\ (CallersSound' <=> CallersSound) /\ (EmplaceSound' <=> EmplaceSound)
        /\ \A n : EraseSound(n)' <=> EraseSound(n)
    BY <1>1 DEF CallersSound, EmplaceSound, EraseSound, HeadUsable, Present,
       SlabOf, In, Top, vars
  <2> QED
    BY <1>1, <2>1 DEF ReentryInv, FramesSound
<1>4. ClearSound'
  <2>1. ASSUME NEW b, NEW p, Progress(b, p, freeHead)
        PROVE  Progress(b, p, freeHead)'
    <3>1. Back(b)' = Back(b) /\ \A i : Unused(i)' <=> Unused(i)
      BY <1>1 DEF Back, Unused, Present, KeyOf, vars
    <3>2. PICK B : B = Back(b)
      OBVIOUS
    <3> QED
      BY <1>1, <2>1, <3>1, <3>2 DEF Progress, vars
  <2> QED
    BY <1>1, <2>1 DEF ReentryInv, ClearSound, In, Top, vars
<1>5. ~Clearing' => size' = Cardinality(AliveSlots')
  BY <1>1 DEF ReentryInv, Clearing, AliveSlots, vars
<1> QED
  BY <1>2, <1>3, <1>4, <1>5 DEF ReentryInv

(* Every step keeps it.                                                    *)
LEMMA ReentryInvStep ==
    ASSUME PartialWrites = FALSE, Nested \subseteq {"use", "erase", "pop"},
           ReentryInv, [ReentryNext]_reentryVars
    PROVE  ReentryInv'
<1>1. ASSUME NEW v \in Values, StartEmplace(v) PROVE ReentryInv'
  BY <1>1, StartEmplaceStep
<1>2. ASSUME NEW k \in Key, StartErase(k) \/ StartPop(k) \/ StartUse(k)
      PROVE  ReentryInv'
  BY <1>2, StartStep
<1>3. CASE FinishEmplace \/ FailEmplace
  BY <1>3, FinishEmplaceStep
<1>4. CASE FinishErase
  BY <1>4, FinishEraseStep
<1>5. CASE FinishUse \/ FinishUseErasing
  BY <1>5, FinishUseStep
<1>6. CASE StartClear
  <2>1. PICK b : \E p \in Index \union {End} :
            Sweeps(0, p, End, b) /\ b = Fields /\ Outer /\ ~Clearing
    BY <1>6, StartClearSweeps
  <2>2. PICK p \in Index \union {End} :
            Sweeps(0, p, End, b) /\ b = Fields /\ Outer /\ ~Clearing
    BY <2>1
  <2>3. End \in Link /\ 0 \in Nat
    BY DEF Link
  <2> QED
    BY <2>2, <2>3, SweepStep DEF Sweeps
<1>7. CASE ContinueClear
  <2>1. PICK b : \E q \in Nat, p \in Index \union {End}, head \in Link :
            Sweeps(q, p, head, b) /\ b = before /\ In("clear")
    BY <1>7, ContinueClearSweeps
  <2>2. PICK q \in Nat, p \in Index \union {End}, head \in Link :
            Sweeps(q, p, head, b) /\ b = before /\ In("clear")
    BY <2>1
  <2> QED
    BY <2>2, SweepStep DEF Sweeps
<1>8. CASE UNCHANGED reentryVars
  BY <1>8, ReentryInvStutters
<1>9. CASE PopMoves \/ FailPop
  BY <1>9, PopStep
<1>10. CASE (\E to \in SlabEnds : CallReserve(to)) \/ CallReset
  BY <1>10, WholeCallStep
<1> QED
  BY <1>1, <1>2, <1>3, <1>4, <1>5, <1>6, <1>7, <1>8, <1>9, <1>10
     DEF ReentryNext

(* size() counts the alive elements whenever no clear() is in progress,    *)
(* when use() callbacks, the destructors that erase and pop run and pop's  *)
(* move call the map as Reentry lets them: see its header.                 *)
THEOREM SizeCountsThroughReentry ==
    ASSUME PartialWrites = FALSE, Nested \subseteq {"use", "erase", "pop"}
    PROVE  ReentrySpec => []SizeCountsElements
<1>1. ReentryInit => ReentryInv
  BY ReentryInvInit
<1>2. ReentryInv /\ [ReentryNext]_reentryVars => ReentryInv'
  BY ReentryInvStep
<1>3. ReentryInv => SizeCountsElements
  BY DEF ReentryInv, SizeCountsElements, AliveSlots
<1> QED
  BY <1>1, <1>2, <1>3, PTL DEF ReentrySpec

-----------------------------------------------------------------------------
(* The calls act one at a time.                                            *)

(* Between clears, the map that the atomic calls see is the map.           *)
Reads ==
    /\ Whole(version, "version") = version
    /\ Whole(aliveBit, "aliveBit") = aliveBit
    /\ Whole(bitmap, "bitmap") = bitmap
    /\ Whole(storage, "storage") = storage
    /\ Whole(deadCount, "deadCount") = deadCount
    /\ Whole(freeHead, "freeHead") = freeHead
    /\ Whole(size, "size") = size
    /\ Whole(deadSlots, "deadSlots") = deadSlots

(* During one it is the map as clear() found it.                           *)
Hidden(b) ==
    /\ Whole(version, "version") = b.version
    /\ Whole(aliveBit, "aliveBit") = b.aliveBit
    /\ Whole(bitmap, "bitmap") = b.bitmap
    /\ Whole(storage, "storage") = b.storage
    /\ Whole(deadCount, "deadCount") = b.deadCount
    /\ Whole(freeHead, "freeHead") = b.freeHead
    /\ Whole(size, "size") = b.size
    /\ Whole(deadSlots, "deadSlots") = b.deadSlots

(* In a state and in the next.                                             *)
LEMMA WholeReads ==
    /\ ~Clearing => Reads
    /\ ~Clearing' => Reads'
    /\ \A b : ~Clearing /\ b = Fields => Hidden(b)
    /\ \A b : Clearing /\ b = before => Hidden(b)
    /\ \A b : Clearing' /\ b = before' => Hidden(b)'
<1>1. (~Clearing => Reads) /\ (~Clearing' => Reads')
  BY DEF Reads, Whole
<1>2. ASSUME NEW b, ~Clearing, b = Fields PROVE Hidden(b)
  BY <1>2 DEF Hidden, Whole, Fields
<1>3. ASSUME NEW b, Clearing, b = before PROVE Hidden(b)
  BY <1>3 DEF Hidden, Whole
<1>4. ASSUME NEW b, Clearing', b = before' PROVE Hidden(b)'
  BY <1>4 DEF Hidden, Whole
<1> QED
  BY <1>1, <1>2, <1>3, <1>4

(* The atomic calls work on the same slots.                                *)
LEMMA AtomicSlots ==
    /\ Atomic!Index = Index /\ Atomic!End = End /\ Atomic!Link = Link
    /\ Atomic!Key = Key /\ Atomic!SlabIndex = SlabIndex
    /\ Atomic!SlabEnds = SlabEnds
    /\ \A i : Atomic!SlabOf(i) = SlabOf(i) /\ (Atomic!Present(i) <=> Present(i))
    /\ \A s : Atomic!Slots(s) = Slots(s)
    /\ \A S : Atomic!LastOf(S) = LastOf(S)
    /\ \A x : Atomic!LinksRead(x) = LinksRead(x)
    /\ \A S : Atomic!Cardinality(S) = Cardinality(S)
<1>1. /\ Atomic!Index = Index /\ Atomic!End = End /\ Atomic!Link = Link
      /\ Atomic!Key = Key /\ Atomic!SlabIndex = SlabIndex
      /\ Atomic!SlabEnds = SlabEnds
  BY DEF Atomic!Index, Index, Atomic!End, End, Atomic!Wild, Wild, Atomic!Link,
     Link, Atomic!Version, Version, Atomic!Key, Key, Atomic!SlabIndex,
     SlabIndex, Atomic!SlabEnds, SlabEnds
<1>2. \A i : Atomic!SlabOf(i) = SlabOf(i) /\ (Atomic!Present(i) <=> Present(i))
  BY DEF Atomic!SlabOf, SlabOf, Atomic!Present, Present
<1>3. \A s : Atomic!Slots(s) = Slots(s)
  BY <1>1, <1>2 DEF Atomic!Slots, Slots
<1>4. \A S : Atomic!LastOf(S) = LastOf(S)
  BY <1>1 DEF Atomic!LastOf, LastOf
<1>5. \A x : Atomic!LinksRead(x) = LinksRead(x)
  BY <1>1 DEF Atomic!LinksRead, LinksRead
<1>6. \A S : Atomic!Cardinality(S) = Cardinality(S)
  BY DEF Atomic!Cardinality, Cardinality
<1> QED
  BY <1>1, <1>2, <1>3, <1>4, <1>5, <1>6

(* Between clears they are the calls of the map.                           *)
LEMMA AtomicReserve ==
    ASSUME Reads, Reads', NEW to, Reserve(to)
    PROVE  Atomic!Reserve(to)
<1>1. Atomic!GrownLinks(to) = GrownLinks(to)
        /\ Atomic!GrownVersions(to) = GrownVersions(to)
  BY AtomicSlots DEF Reads, Atomic!GrownLinks, GrownLinks,
     Atomic!GrownVersions, GrownVersions, Atomic!Grown, Grown
<1>2. Atomic!AddSlabs(to) /\ Atomic!CanAllocate /\ Atomic!Running
  BY AtomicSlots DEF Reserve, Atomic!AddSlabs, AddSlabs, Atomic!Grown, Grown,
     Atomic!CanAllocate, CanAllocate, Atomic!Running, Running
<1> QED
  BY <1>1, <1>2 DEF Reads, Reserve, Atomic!Reserve

(* Each of them, a construction                                            *)
LEMMA AtomicEmplace ==
    ASSUME Reads, Reads', NEW v, HeadUsable, UNCHANGED <<slabs, nextBase>>,
           Running, objectsCreated < MaxCreated,
           Construct(freeHead, v, version, storage)
    PROVE  Atomic!TryEmplace(v)
<1>1. Atomic!HeadUsable /\ Atomic!Running
  BY AtomicSlots DEF Reads, HeadUsable, Atomic!HeadUsable, Running, Atomic!Running
<1>2. Atomic!Construct(freeHead, v, version, storage)
  BY AtomicSlots DEF Reads, Construct, Atomic!Construct
<1> QED
  BY <1>1, <1>2 DEF Reads, Atomic!TryEmplace

(* one that throws,                                                        *)
LEMMA AtomicThrows ==
    ASSUME Reads, Reads', HeadUsable, ConstructorThrows(freeHead, storage),
           UNCHANGED <<slabs, nextBase, version, freeHead>>, Running
    PROVE  Atomic!EmplaceThrows
<1>1. Atomic!HeadUsable /\ Atomic!Running
  BY AtomicSlots DEF Reads, HeadUsable, Atomic!HeadUsable, Running, Atomic!Running
<1>2. Atomic!ConstructorThrows(freeHead, storage)
  BY DEF Reads, ConstructorThrows, Atomic!ConstructorThrows
<1> QED
  BY <1>1, <1>2 DEF Reads, Atomic!EmplaceThrows

(* a removal,                                                              *)
LEMMA AtomicErases ==
    ASSUME Reads, Reads', NEW k, UseErases(k)
    PROVE  Atomic!UseErases(k)
<1>1. Atomic!Running /\ Atomic!IsValid(k) /\ Atomic!EraseFinds(k)
  BY AtomicSlots DEF Reads, UseErases, Atomic!Running, Running,
     Atomic!IsValid, IsValid, Atomic!EraseFinds, EraseFinds
<1>2. Reuse(k.index) => Atomic!Reuse(k.index)
  BY DEF Reads, Reuse, Atomic!Reuse
<1>3. \A s : Atomic!Exhausted(s) <=> Exhausted(s)
  BY DEF Reads, Exhausted, Atomic!Exhausted
<1>4. Retire(k.index) => Atomic!Retire(k.index)
  BY <1>3, AtomicSlots DEF Reads, Retire, Atomic!Retire
<1>5. \A f, s, x : Atomic!Blank(f, s, x) = Blank(f, s, x)
  BY AtomicSlots DEF Atomic!Blank, Blank
<1>6. Atomic!BlankLink = BlankLink /\ (Atomic!NoRoom <=> NoRoom)
  BY DEF Atomic!BlankLink, BlankLink, Atomic!NoRoom, NoRoom
<1>7. Release(k.index) => Atomic!Release(k.index)
  BY <1>3, <1>5, <1>6, AtomicSlots DEF Reads, Release, Atomic!Release
<1>8. Atomic!Removed
  BY DEF Reads, UseErases, Removed, Atomic!Removed
<1> QED
  BY <1>1, <1>2, <1>4, <1>7, <1>8 DEF UseErases, Atomic!UseErases

(* a pop whose move throws,                                                *)
LEMMA AtomicPop ==
    ASSUME Reads, Reads', NEW k, PopThrows(k)
    PROVE  Atomic!PopThrows(k)
<1>1. Atomic!Running /\ Atomic!EraseFinds(k)
  BY AtomicSlots DEF Reads, PopThrows, Atomic!Running, Running,
     Atomic!EraseFinds, EraseFinds
<1> QED
  BY <1>1 DEF Reads, PopThrows, Atomic!PopThrows

(* and reset().                                                            *)
LEMMA AtomicReset ==
    ASSUME Reads, Reads', Reset
    PROVE  Atomic!Reset
<1>1. Atomic!Running /\ Atomic!BlankLink = BlankLink
  BY DEF Reset, Atomic!Running, Running, Atomic!BlankLink, BlankLink
<1> QED
  BY <1>1, AtomicSlots DEF Reads, Reset, Atomic!Reset

(* clear(), seen when it is complete, does what the atomic Clear does to   *)
(* the map it found.                                                       *)
LEMMA AtomicClear ==
    ASSUME TypeInv, TypeInv', Running, NEW b, Hidden(b), Reads',
           Progress(b, End, freeHead)',
           size' = 0, status' = "returned",
           UNCHANGED <<slabs, objectsCreated, nextBase, issued>>
    PROVE  Atomic!Clear
<1>1. \A i \in Index : i < End
  BY SizeAssumption DEF Index, End
<1>2. PICK B \in SUBSET Index : B = {i \in Index : Present(i) /\ b.version[i] < MaxVersion}
  OBVIOUS
<1>3. Back(b)' = B
  BY <1>2 DEF Back, Present
<1>4. Atomic!Relinked = B
  BY <1>2, AtomicSlots DEF Hidden, Atomic!Relinked
<1>5. ASSUME NEW i \in Index
      PROVE  /\ version'[i] = IF b.bitmap[i] /\ b.version[i] < MaxVersion
                              THEN b.version[i] + 1 ELSE b.version[i]
             /\ aliveBit'[i] = (b.aliveBit[i] /\ ~b.bitmap[i])
             /\ bitmap'[i] = FALSE
             /\ storage'[i] = IF i \in B THEN LastOf({j \in B : j < i})
                              ELSE b.storage[i]
  BY <1>1, <1>3 DEF Progress
<1>6. version' = [i \in Index |->
          IF b.bitmap[i] /\ b.version[i] < MaxVersion THEN b.version[i] + 1
          ELSE b.version[i]]
  BY <1>5 DEF TypeInv, TypeOK
<1>7. aliveBit' = [i \in Index |-> b.aliveBit[i] /\ ~b.bitmap[i]]
  BY <1>5 DEF TypeInv, TypeOK
<1>8. bitmap' = [i \in Index |-> FALSE]
  BY <1>5 DEF TypeInv, TypeOK
<1>9. storage' = [i \in Index |->
          IF i \in B THEN LastOf({j \in B : j < i}) ELSE b.storage[i]]
  <2>1. PICK f : f = [i \in Index |->
            IF i \in B THEN LastOf({j \in B : j < i}) ELSE b.storage[i]]
    OBVIOUS
  <2>2. \A i \in Index : storage'[i] = f[i]
    BY <1>5, <2>1
  <2>3. storage' \in [Index -> Link \union Values] /\ DOMAIN f = Index
    BY <2>1 DEF TypeInv, TypeOK
  <2>4. storage' = [i \in Index |-> storage'[i]] /\ f = [i \in Index |-> f[i]]
    BY <2>1, <2>3
  <2>5. storage' = f
    BY <2>2, <2>4
  <2> QED
    BY <2>1, <2>5
<1>10. freeHead' = LastOf(B)
  <2>1. {i \in Back(b)' : i < End} = B
    BY <1>1, <1>3
  <2> QED
    BY <2>1 DEF Progress
<1>11. Died(b, End) = {i \in Index : b.bitmap[i] /\ b.version[i] = MaxVersion}
  BY <1>1 DEF Died
<1>12. deadCount' = [s \in SlabIndex |->
           b.deadCount[s] + Cardinality(Atomic!Dying(s))]
  <2>1. ASSUME NEW s \in SlabIndex
        PROVE  deadCount'[s] = b.deadCount[s] + Cardinality(Atomic!Dying(s))
    <3>1. Atomic!Dying(s) = Died(b, End) \intersect Slots(s)
      BY <1>11, AtomicSlots DEF Hidden, Atomic!Dying, Slots
    <3> QED
      BY <3>1 DEF Progress
  <2> QED
    BY <2>1 DEF TypeInv, TypeOK
<1>13. deadSlots' = b.deadSlots + Cardinality(Atomic!AllDying)
  <2>1. Atomic!AllDying = Died(b, End)
    BY <1>11, AtomicSlots DEF Hidden, Atomic!AllDying
  <2> QED
    BY <2>1 DEF Progress
<1>14. Atomic!Running
  BY DEF Running, Atomic!Running
<1>15. Whole(version, "version")' = [i \in Atomic!Index |->
           IF Whole(bitmap, "bitmap")[i] /\ Whole(version, "version")[i] < MaxVersion
           THEN Whole(version, "version")[i] + 1 ELSE Whole(version, "version")[i]]
  BY <1>6, AtomicSlots DEF Hidden, Reads
<1>16. Whole(aliveBit, "aliveBit")' = [i \in Atomic!Index |->
           Whole(aliveBit, "aliveBit")[i] /\ ~Whole(bitmap, "bitmap")[i]]
  BY <1>7, AtomicSlots DEF Hidden, Reads
<1>17. Whole(storage, "storage")' = [i \in Atomic!Index |->
           IF i \in Atomic!Relinked
           THEN Atomic!LastOf({j \in Atomic!Relinked : j < i})
           ELSE Whole(storage, "storage")[i]]
  BY <1>4, <1>9, AtomicSlots DEF Hidden, Reads
<1>18. Whole(deadCount, "deadCount")' = [s \in Atomic!SlabIndex |->
           Whole(deadCount, "deadCount")[s]
               + Atomic!Cardinality(Atomic!Dying(s))]
  BY <1>12, AtomicSlots DEF Hidden, Reads
<1>19. /\ Whole(bitmap, "bitmap")' = [i \in Atomic!Index |-> FALSE]
       /\ Whole(freeHead, "freeHead")' = Atomic!LastOf(Atomic!Relinked)
       /\ Whole(deadSlots, "deadSlots")' = Whole(deadSlots, "deadSlots")
              + Atomic!Cardinality(Atomic!AllDying)
       /\ Whole(size, "size")' = 0
  BY <1>4, <1>8, <1>10, <1>13, AtomicSlots DEF Hidden, Reads
<1> QED
  BY <1>14, <1>15, <1>16, <1>17, <1>18, <1>19 DEF Atomic!Clear

(* A step of the cut-open calls, seen by the atomic ones.                  *)
AtomicStep == Atomic!NextUntilRecycle \/ UNCHANGED Atomic!vars

(* Nothing, when only the stack or a hidden clear() moves.                 *)
LEMMA AtomicStutters ==
    /\ Reads /\ Reads' /\ UNCHANGED vars => AtomicStep
    /\ \A b : Hidden(b) /\ Hidden(b)'
              /\ UNCHANGED <<slabs, objectsCreated, nextBase, issued, status>>
           => AtomicStep
<1>1. Reads /\ Reads' /\ UNCHANGED vars => AtomicStep
  BY DEF AtomicStep, Atomic!vars, vars, Reads
<1>2. \A b : Hidden(b) /\ Hidden(b)'
             /\ UNCHANGED <<slabs, objectsCreated, nextBase, issued, status>>
          => AtomicStep
  BY DEF AtomicStep, Atomic!vars, Hidden
<1> QED
  BY <1>1, <1>2

(* A stretch of clear(): hidden, or all of it at once.                     *)
LEMMA SweepAtomic ==
    ASSUME ReentryInv, NEW q \in Nat, NEW p \in Index \union {End},
           NEW head \in Link, NEW b, Sweeps(q, p, head, b),
           \/ In("clear") /\ before = b
           \/ Outer /\ ~Clearing /\ b = Fields
    PROVE  AtomicStep
<1>1. /\ ReentryInv'
      /\ p = End => ~Clearing'
      /\ p # End => Clearing' /\ before' = b
  BY SweepStep DEF Sweeps
<1>2. MapSound /\ MapSound' /\ frames \in Seq(Frames) /\ CallersSound
  BY <1>1 DEF ReentryInv, FramesSound
<1>3. Hidden(b)
  BY <1>2, ClearingOnTop, WholeReads
<1>4. Stops(p) /\ UNCHANGED <<slabs, objectsCreated, nextBase, issued>>
  BY DEF Sweeps, Passes
<1>5. CASE p = End
  <2>1. Progress(b, p, freeHead)'
    BY <1>2, ClearKeepsMap DEF Sweeps
  <2>2. size' = 0 /\ status' = "returned" /\ Reads'
    BY <1>1, <1>4, <1>5, WholeReads DEF Stops
  <2>3. TypeInv /\ TypeInv' /\ Running
    BY <1>2 DEF MapSound
  <2>4. Atomic!Clear
    BY <1>3, <1>4, <1>5, <2>1, <2>2, <2>3, AtomicClear
  <2> QED
    BY <2>4 DEF AtomicStep, Atomic!NextUntilRecycle
<1>6. CASE p # End
  <2>1. Hidden(b)'
    BY <1>1, <1>6, WholeReads
  <2>2. status' = status
    BY <1>4, <1>6 DEF Stops
  <2> QED
    BY <1>3, <1>4, <2>1, <2>2, AtomicStutters
<1> QED
  BY <1>5, <1>6

(* Every step is a call of SlotMap, whole, or changes nothing it reads.    *)
LEMMA ReentryStepAtomic ==
    ASSUME PartialWrites = FALSE, Nested \subseteq {"use", "erase", "pop"},
           ReentryInv, [ReentryNext]_reentryVars
    PROVE  AtomicStep
<1>1. MapSound /\ FramesSound /\ Running
  BY DEF ReentryInv, MapSound
<1>2. ASSUME NEW v \in Values, StartEmplace(v) PROVE AtomicStep
  <2>1. (\E to \in SlabEnds : Reserve(to)) \/ UNCHANGED vars
    BY <1>1, <1>2, StartEmplaceCalls
  <2>2. Reads /\ Reads'
    BY <1>2, StartEmplaceStep, WholeReads
  <2>3. ASSUME NEW to \in SlabEnds, Reserve(to) PROVE AtomicStep
    BY <2>2, <2>3, AtomicReserve, AtomicSlots
       DEF AtomicStep, Atomic!NextUntilRecycle
  <2> QED
    BY <2>1, <2>2, <2>3, AtomicStutters
<1>3. CASE FinishEmplace
  <2>1. Reads /\ Reads'
    BY <1>3, FinishEmplaceStep, WholeReads
  <2>2. PICK v : v = Top.value
    OBVIOUS
  <2>3. TryEmplace(v) /\ v \in Values /\ HeadUsable
    BY <1>1, <1>3, <2>2, FinishEmplaceCalls
       DEF FinishEmplace, FramesSound, EmplaceSound
  <2>4. freeHead # End
    BY <2>3, IndexIsInt DEF HeadUsable
  <2>5. /\ UNCHANGED <<slabs, nextBase>> /\ objectsCreated < MaxCreated
        /\ Construct(freeHead, v, version, storage)
    BY <2>3, <2>4 DEF TryEmplace
  <2>6. Atomic!TryEmplace(v)
    BY <1>1, <2>1, <2>3, <2>5, AtomicEmplace
  <2> QED
    BY <2>3, <2>6 DEF AtomicStep, Atomic!NextUntilRecycle
<1>4. CASE FailEmplace
  <2>1. Reads /\ Reads'
    BY <1>4, FinishEmplaceStep, WholeReads
  <2>2. HeadUsable /\ UNCHANGED <<slabs, nextBase, version, freeHead>>
        /\ ConstructorThrows(freeHead, storage)
    BY <1>1, <1>4 DEF FailEmplace, FramesSound, EmplaceSound, ConstructorThrows
  <2>3. Atomic!EmplaceThrows
    BY <1>1, <2>1, <2>2, AtomicThrows
  <2> QED
    BY <2>3 DEF AtomicStep, Atomic!NextUntilRecycle
<1>5. CASE FinishErase
  <2>1. Reads /\ Reads'
    BY <1>5, FinishEraseStep, WholeReads
  <2>2. PICK k : k = [index |-> Top.slot, version |-> Top.ver]
    OBVIOUS
  <2>3. k \in Key /\ UseErases(k)
    BY <1>1, <1>5, <2>2, FinishEraseCalls
  <2>4. Atomic!UseErases(k)
    BY <2>1, <2>3, AtomicErases
  <2> QED
    BY <2>3, <2>4, AtomicSlots DEF AtomicStep, Atomic!NextUntilRecycle
<1>6. ASSUME NEW k \in Key, StartErase(k) \/ StartPop(k) \/ StartUse(k)
      PROVE  AtomicStep
  <2>1. Reads /\ Reads'
    BY <1>6, StartStep, WholeReads
  <2> QED
    BY <1>6, <2>1, AtomicStutters DEF StartErase, StartPop, StartUse
<1>7. CASE FinishUse \/ FinishUseErasing
  <2>1. Reads /\ Reads'
    BY <1>7, FinishUseStep, WholeReads
  <2> QED
    BY <1>7, <2>1, AtomicStutters DEF FinishUse, FinishUseErasing
<1>8. CASE StartClear
  <2>1. PICK b : \E p \in Index \union {End} :
            Sweeps(0, p, End, b) /\ b = Fields /\ Outer /\ ~Clearing
    BY <1>8, StartClearSweeps
  <2>2. PICK p \in Index \union {End} :
            Sweeps(0, p, End, b) /\ b = Fields /\ Outer /\ ~Clearing
    BY <2>1
  <2>3. End \in Link /\ 0 \in Nat
    BY DEF Link
  <2> QED
    BY <2>2, <2>3, SweepAtomic
<1>9. CASE ContinueClear
  <2>1. PICK b : \E q \in Nat, p \in Index \union {End}, head \in Link :
            Sweeps(q, p, head, b) /\ b = before /\ In("clear")
    BY <1>9, ContinueClearSweeps
  <2>2. PICK q \in Nat, p \in Index \union {End}, head \in Link :
            Sweeps(q, p, head, b) /\ b = before /\ In("clear")
    BY <2>1
  <2> QED
    BY <2>2, SweepAtomic
<1>10. CASE UNCHANGED reentryVars
  <2>1. /\ UNCHANGED vars /\ before' = before /\ (Clearing' <=> Clearing)
    BY <1>10 DEF reentryVars, Clearing
  <2>2. CASE ~Clearing
    BY <2>1, <2>2, WholeReads, AtomicStutters
  <2>3. CASE Clearing
    <3>1. PICK b : b = before
      OBVIOUS
    <3>2. Hidden(b) /\ Hidden(b)'
      BY <2>1, <2>3, <3>1, WholeReads
    <3> QED
      BY <2>1, <3>2, AtomicStutters DEF vars
  <2> QED
    BY <2>2, <2>3
<1>11. CASE PopMoves
  <2>1. Reads /\ Reads'
    BY <1>11, PopStep, WholeReads
  <2> QED
    BY <1>11, <2>1, AtomicStutters DEF PopMoves
<1>12. CASE FailPop
  <2>1. Reads /\ Reads'
    BY <1>12, PopStep, WholeReads
  <2>2. PICK k : k = [index |-> Top.slot, version |-> Top.ver]
    OBVIOUS
  <2>3. k \in Key /\ PopThrows(k)
    BY <1>1, <1>12, <2>2, FailPopCalls
  <2>4. Atomic!PopThrows(k)
    BY <2>1, <2>3, AtomicPop
  <2> QED
    BY <2>3, <2>4, AtomicSlots DEF AtomicStep, Atomic!NextUntilRecycle
<1>13. CASE (\E to \in SlabEnds : CallReserve(to)) \/ CallReset
  <2>1. Reads /\ Reads'
    BY <1>13, WholeCallStep, WholeReads
  <2>2. ASSUME NEW to \in SlabEnds, CallReserve(to) PROVE AtomicStep
    BY <2>1, <2>2, AtomicReserve, AtomicSlots
       DEF CallReserve, AtomicStep, Atomic!NextUntilRecycle
  <2>3. CASE CallReset
    BY <2>1, <2>3, AtomicReset DEF CallReset, AtomicStep, Atomic!NextUntilRecycle
  <2> QED
    BY <1>13, <2>2, <2>3
<1> QED
  BY <1>2, <1>3, <1>4, <1>5, <1>6, <1>7, <1>8, <1>9, <1>10, <1>11, <1>12,
     <1>13 DEF ReentryNext

(* The calls, cut open where they run client code and interleaved as the   *)
(* client nests them, take effect one at a time, as SlotMap's calls do:    *)
(* what was proved of whole calls holds of them.                           *)
THEOREM CallsAreAtomic ==
    ASSUME PartialWrites = FALSE, Nested \subseteq {"use", "erase", "pop"}
    PROVE  ReentrySpec => CallsActAtomically
<1>1. ReentryInit => ReentryInv /\ Atomic!Init
  <2> SUFFICES ASSUME ReentryInit PROVE Atomic!Init
    BY ReentryInvInit
  <2>1. ~Clearing
    BY DEF ReentryInit, Clearing
  <2>2. Reads
    BY <2>1, WholeReads
  <2> QED
    BY <2>2, AtomicSlots DEF ReentryInit, Init, Reads, Atomic!Init,
       Atomic!BlankLink, BlankLink
<1>2. ReentryInv /\ [ReentryNext]_reentryVars => ReentryInv'
  BY ReentryInvStep
<1>3. ReentryInv /\ [ReentryNext]_reentryVars
        => [Atomic!NextUntilRecycle]_(Atomic!vars)
  BY ReentryStepAtomic DEF AtomicStep
<1> QED
  BY <1>1, <1>2, <1>3, PTL DEF ReentrySpec, CallsActAtomically,
     Atomic!SpecUntilRecycle
=============================================================================
