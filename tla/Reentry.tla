------------------------------ MODULE Reentry ------------------------------
(***************************************************************************)
(* The calls of SlotMap cut open where they run the client's code: T's     *)
(* constructor in emplace, T's destructor in erase, pop and clear, T's     *)
(* move constructor in pop, the callback of use.  Client code may call     *)
(* emplace, erase, pop, use, reserve, clear and reset of the same map;     *)
(* `frames` is the stack of calls in progress, innermost last.  The map    *)
(* has no other hold on the outer call than what that call keeps in local  *)
(* variables: these are the fields of its frame.                           *)
(*                                                                         *)
(* Calls up to the first recycling.  T's destructor and pop()'s move do    *)
(* not erase, pop or use the element they run for, nor clear or reset the  *)
(* map: `Ending` guards the first, StartClear and CallReset the second.    *)
(* The destructors that reset() runs call nothing.                         *)
(***************************************************************************)
EXTENDS SlotMap, Sequences

CONSTANTS
    Nested,     \* calls whose client code calls the map again
    MaxDepth    \* bound on calls in progress, for TLC only

ASSUME NestedAssumption ==
    /\ Nested \subseteq {"emplace", "erase", "pop", "clear", "use"}
    /\ MaxDepth \in Nat \ {0}

VARIABLES
    frames,     \* calls in progress
    before      \* history: the fields a running clear() changes, as it began

reentryVars == <<vars, frames, before>>

Frame(op, i, ver, next, v) ==
    [op |-> op, slot |-> i, ver |-> ver, next |-> next, value |-> v]

Push(f) == frames' = Append(frames, f)
Pop == frames' = SubSeq(frames, 1, Len(frames) - 1)
Top == frames[Len(frames)]
In(op) == frames # <<>> /\ Top.op = op

MayCall == frames # <<>> => Len(frames) < MaxDepth /\ Top.op \in Nested

(* Elements that a call in progress is taking out.                         *)
Ending == {frames[n].slot : n \in {m \in DOMAIN frames :
                                 frames[m].op \in {"erase", "pop", "clear"}}}
Clearing == \E n \in DOMAIN frames : frames[n].op = "clear"

ReentryInit == Init /\ frames = <<>> /\ before = <<>>

-----------------------------------------------------------------------------
(* emplace: the slot, its version and its link are read before T's         *)
(* constructor runs, and written back after it.                            *)

StartEmplace(v) ==
    /\ MayCall /\ Running /\ objectsCreated + Len(frames) < MaxCreated
    /\ \/ /\ freeHead = End /\ CanAllocate
          /\ AddSlabs(nextBase + SlotsPerSlab)
          /\ version' = GrownVersions(nextBase + SlotsPerSlab)
          /\ storage' = GrownLinks(nextBase + SlotsPerSlab)
          /\ freeHead' = nextBase
          /\ status' = "returned"
       \/ HeadUsable /\ UNCHANGED <<slabs, nextBase, version, storage,
                                     freeHead, status>>
    /\ \E next \in LinksRead(storage'[freeHead']) :
           Push(Frame("emplace", freeHead', version'[freeHead'], next, v))
    /\ UNCHANGED <<aliveBit, bitmap, deadCount, size, deadSlots,
                   objectsCreated, issued, before>>

(* A slip: the link is read after the constructor, from the value's bytes. *)
FinishEmplaceLate ==
    LET f == Top IN
    /\ In("emplace")
    /\ Pop
    /\ storage' = [storage EXCEPT ![f.slot] = f.value]
    /\ aliveBit' = [aliveBit EXCEPT ![f.slot] = HasAliveBit]
    /\ bitmap' = [bitmap EXCEPT ![f.slot] = TRUE]
    /\ freeHead' \in LinksRead(storage'[f.slot])
    /\ size' = size + 1
    /\ objectsCreated' = objectsCreated + 1
    /\ issued' = issued \union {[index |-> f.slot, version |-> f.ver]}
    /\ status' = "returned"
    /\ UNCHANGED <<slabs, version, nextBase, deadCount, deadSlots, before>>

FinishEmplace ==
    LET f == Top IN
    /\ In("emplace")
    /\ Pop
    /\ storage' = [storage EXCEPT ![f.slot] = f.value]
    /\ aliveBit' = [aliveBit EXCEPT ![f.slot] = HasAliveBit]
    /\ bitmap' = [bitmap EXCEPT ![f.slot] = TRUE]
    /\ freeHead' = f.next
    /\ size' = size + 1
    /\ objectsCreated' = objectsCreated + 1
    /\ issued' = issued \union {[index |-> f.slot, version |-> f.ver]}
    /\ status' = "returned"
    /\ UNCHANGED <<slabs, version, nextBase, deadCount, deadSlots, before>>

FailEmplace ==
    /\ In("emplace")
    /\ Pop
    /\ status' = "threw"
    /\ UNCHANGED <<slabs, version, aliveBit, bitmap, storage, deadCount,
                   freeHead, size, deadSlots, objectsCreated, nextBase, issued,
                   before>>

-----------------------------------------------------------------------------
(* erase and use: ~T runs before anything is written; a use() erases, if   *)
(* asked, once its callback is left.                                       *)

StartErase(k) ==
    /\ MayCall /\ Running /\ EraseFinds(k) /\ k.index \notin Ending
    /\ Push(Frame("erase", k.index, k.version, End, storage[k.index]))
    /\ UNCHANGED <<vars, before>>

FinishErase ==
    LET i == Top.slot IN
    /\ In("erase")
    /\ Pop
    /\ Reuse(i) \/ Retire(i) \/ Release(i)
    /\ Removed
    /\ status' \in {"returned", "threw"}
    /\ UNCHANGED before

(* pop moves the value out first, and goes on as erase with the slot it    *)
(* has found, whatever T's move constructor called; or the move throws.    *)
StartPop(k) ==
    /\ MayCall /\ Running /\ EraseFinds(k) /\ k.index \notin Ending
    /\ Push(Frame("pop", k.index, k.version, End, storage[k.index]))
    /\ UNCHANGED <<vars, before>>

PopMoves ==
    /\ In("pop")
    /\ frames' = [frames EXCEPT ![Len(frames)].op = "erase"]
    /\ UNCHANGED <<vars, before>>

FailPop ==
    /\ In("pop")
    /\ Pop
    /\ PopThrows([index |-> Top.slot, version |-> Top.ver])
    /\ UNCHANGED before

StartUse(k) ==
    /\ MayCall /\ Running /\ IsValid(k) /\ k.index \notin Ending
    /\ Push(Frame("use", k.index, k.version, End, storage[k.index]))
    /\ UNCHANGED <<vars, before>>

FinishUse ==
    /\ In("use")
    /\ Pop
    /\ UNCHANGED <<vars, before>>

FinishUseErasing ==
    LET k == [index |-> Top.slot, version |-> Top.ver] IN
    /\ In("use")
    /\ IF EraseFinds(k) /\ k.index \notin Ending
       THEN frames' = [frames EXCEPT ![Len(frames)].op = "erase"]
       ELSE Pop
    /\ UNCHANGED <<vars, before>>

-----------------------------------------------------------------------------
(* clear: the list is rebuilt slot by slot.  Sweep takes the loop from     *)
(* slot `from` to the next alive one, whose destructor is client code, or  *)
(* to the end; c is the set of the slot destroyed just before, if any.     *)

Fields == [version |-> version, aliveBit |-> aliveBit, bitmap |-> bitmap,
           storage |-> storage, deadCount |-> deadCount, freeHead |-> freeHead,
           size |-> size, deadSlots |-> deadSlots]

(* A slip: slots at the last version are linked as well.                   *)
LinkedBackAll(S) == {i \in S : Present(i)}

LinkedBack(S) == {i \in S : Present(i) /\ version[i] < MaxVersion}

Sweep(c, from, head) ==
    LET ahead == {i \in Index : i >= from /\ bitmap[i]}
        stop == IF ahead = {} THEN End
                ELSE CHOOSE i \in ahead : \A j \in ahead : i <= j
        L == LinkedBack(c \union {i \in Index : i >= from /\ i < stop})
        prev(i) == LastOf({j \in L : j < i})
        dying == {i \in c : version[i] = MaxVersion}
    IN
    /\ version' = [i \in Index |->
           IF i \in c /\ i \notin dying THEN version[i] + 1 ELSE version[i]]
    /\ aliveBit' = [i \in Index |-> aliveBit[i] /\ i \notin c]
    /\ bitmap' = [i \in Index |-> bitmap[i] /\ i \notin c]
    /\ storage' = [i \in Index |->
           IF i \notin L THEN storage[i]
           ELSE IF prev(i) = End THEN head ELSE prev(i)]
    /\ freeHead' = IF L = {} THEN head ELSE LastOf(L)
    /\ deadCount' = [s \in SlabIndex |->
           deadCount[s] + Cardinality(dying \intersect Slots(s))]
    /\ deadSlots' = deadSlots + Cardinality(dying)
    /\ IF stop = End
       THEN /\ size' = 0
            /\ status' = "returned"
            /\ before' = <<>>
            /\ IF In("clear") THEN Pop ELSE UNCHANGED frames
       ELSE /\ UNCHANGED <<size, status>>
            /\ IF In("clear")
               THEN /\ frames' = [frames EXCEPT ![Len(frames)].slot = stop]
                    /\ UNCHANGED before
               ELSE /\ Push(Frame("clear", stop, 0, End, storage[stop]))
                    /\ before' = Fields
    /\ UNCHANGED <<slabs, objectsCreated, nextBase, issued>>

StartClear ==
    /\ MayCall /\ Running /\ Ending = {}
    /\ Sweep({}, 0, End)

ContinueClear ==
    /\ In("clear")
    /\ Sweep({Top.slot}, Top.slot + 1, freeHead)

-----------------------------------------------------------------------------
(* reserve() and reset() run no client code here: they take effect at once. *)
(* reset() frees the slab that an erase or pop in progress works on.       *)

CallReserve(to) ==
    /\ MayCall
    /\ Reserve(to)
    /\ UNCHANGED <<frames, before>>

CallReset ==
    /\ MayCall
    /\ \A n \in DOMAIN frames : frames[n].op = "use"
    /\ Reset
    /\ UNCHANGED <<frames, before>>

ReentryNext ==
    \/ \E v \in Values : StartEmplace(v)
    \/ FinishEmplace
    \/ FailEmplace
    \/ \E k \in Key : StartErase(k)
    \/ FinishErase
    \/ \E k \in Key : StartPop(k)
    \/ PopMoves
    \/ FailPop
    \/ \E k \in Key : StartUse(k)
    \/ FinishUse
    \/ FinishUseErasing
    \/ StartClear
    \/ ContinueClear
    \/ \E to \in SlabEnds : CallReserve(to)
    \/ CallReset

ReentrySpec == ReentryInit /\ [][ReentryNext]_reentryVars

-----------------------------------------------------------------------------
(* The calls take effect one at a time, each at its end, exactly as the    *)
(* atomic calls of SlotMap do: calls made by callbacks and destructors act *)
(* as if made just before the call they interrupt.  A slab allocated by    *)
(* emplace acts as a reserve() before it; a clear() in progress is hidden  *)
(* until it is complete, so its loop computes what SlotMap's Clear states. *)
Whole(now, name) == IF Clearing THEN before[name] ELSE now

Atomic == INSTANCE SlotMap WITH
    version <- Whole(version, "version"),
    aliveBit <- Whole(aliveBit, "aliveBit"),
    bitmap <- Whole(bitmap, "bitmap"),
    storage <- Whole(storage, "storage"),
    deadCount <- Whole(deadCount, "deadCount"),
    freeHead <- Whole(freeHead, "freeHead"),
    size <- Whole(size, "size"),
    deadSlots <- Whole(deadSlots, "deadSlots")

CallsActAtomically == Atomic!SpecUntilRecycle

(* The value a use() callback works on is not destroyed under it.          *)
ValueValidInCallback ==
    \A n \in DOMAIN frames :
        frames[n].op = "use" =>
            /\ IsValid([index |-> frames[n].slot, version |-> frames[n].ver])
            /\ frames[n].slot \notin Ending

(* size() counts the alive elements whenever no clear() is in progress.    *)
SizeCountsElements ==
    ~Clearing => size = Cardinality({i \in Index : bitmap[i]})
=============================================================================
