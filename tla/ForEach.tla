------------------------------ MODULE ForEach ------------------------------
(***************************************************************************)
(* BasicSlotMap::for_each, step by step: the walk over the slabs, over the *)
(* words of a slab's bitmap, over a copy of the word's bits, and the calls *)
(* of the client's callback, which may ask through Options to erase the    *)
(* element it was given, stop the walk, or throw.  Between walks the map   *)
(* is used as in SlotMap.  The slab is held by pointer: it is followed     *)
(* when the map moves it, and may be gone.                                 *)
(*                                                                         *)
(* A callback that calls emplace() is left out: the documentation declares *)
(* it undefined.                                                           *)
(***************************************************************************)
EXTENDS SlotMap

CONSTANTS
    ChunkSlots,     \* slots per load of the bitmap: 64, or 8 at the end
    MayErase        \* what a callback may erase itself: "nothing",
                    \* elements of "other words" of the bitmap, "anything"

ASSUME WalkAssumption ==
    /\ ChunkSlots \in Nat \ {0}
    /\ SlotsPerSlab % ChunkSlots = 0
    /\ MayErase \in {"nothing", "other words", "anything"}
    /\ ~AllocFails

VARIABLES
    pc,         \* where the walk is
    slabIdx,    \* storage_for_each_slab's position
    at,         \* where the slab held by pointer is now
    offset,     \* slot_base: first slot of the word
    rest,       \* word: slots of the word still to visit
    key,        \* the key given to the callback
    stop,       \* options.stop
    visited,    \* elements counted for the caller
    due,        \* history: keys valid at the start and not erased since
    seen        \* history: keys handed to the callback

walkVars == <<pc, slabIdx, at, offset, rest, key, stop, visited, due, seen>>
allVars == <<vars, walkVars>>

NSlabs == MaxSlots \div SlotsPerSlab
Gone == NSlabs

WalkInit ==
    /\ Init
    /\ pc = "idle"
    /\ slabIdx = 0 /\ at = 0 /\ offset = 0 /\ rest = {}
    /\ key = NullKey /\ stop = FALSE /\ visited = 0
    /\ due = {} /\ seen = {}

(* The walk is over: its local variables are gone.                         *)
Leave ==
    /\ pc' = "idle"
    /\ slabIdx' = 0 /\ at' = 0 /\ offset' = 0 /\ rest' = {}
    /\ key' = NullKey /\ stop' = FALSE /\ visited' = 0
    /\ due' = {} /\ seen' = {}

(* The map is used until a recycling closes the free list into a cycle,    *)
(* after which SlotMap's own runs show what goes wrong.                    *)
MapCall ==
    /\ pc = "idle" /\ Chain[MaxSlots] = End
    /\ Next
    /\ UNCHANGED walkVars

BeginWalk ==
    /\ pc = "idle" /\ Running
    /\ pc' = "slabs"
    /\ due' = {k \in Key : IsValid(k)}
    /\ UNCHANGED <<vars, slabIdx, at, offset, rest, key, stop, visited, seen>>

(* storage_for_each_slab: the callable ignores slabs after a stop.         *)
NextSlab ==
    /\ pc = "slabs" /\ slabIdx < NSlabs
    /\ IF slabIdx \in slabs /\ ~stop
       THEN pc' = "words" /\ at' = slabIdx /\ offset' = 0 /\ UNCHANGED slabIdx
       ELSE slabIdx' = slabIdx + 1 /\ UNCHANGED <<pc, at, offset>>
    /\ UNCHANGED <<vars, rest, key, stop, visited, due, seen>>

EndWalk ==
    /\ pc = "slabs" /\ slabIdx = NSlabs
    /\ Leave
    /\ UNCHANGED vars

(* A slip: the last word of a slab is not loaded.                          *)
WordsShort == offset + ChunkSlots < SlotsPerSlab \/ offset = 0

Words == offset < SlotsPerSlab

SlotAt(j) == at * SlotsPerSlab + j
Word == offset .. offset + ChunkSlots - 1

(* One word of the bitmap is copied; freed memory may hold any.            *)
LoadWord ==
    /\ pc = "words" /\ Words
    /\ IF at = Gone THEN rest' \in SUBSET Word
       ELSE rest' = {j \in Word : bitmap[SlotAt(j)]}
    /\ pc' = "bits"
    /\ UNCHANGED <<vars, slabIdx, at, offset, key, stop, visited, due, seen>>

(* A slip: the loop over the slabs does not advance.                       *)
EndSlabStays ==
    /\ pc = "words" /\ ~Words
    /\ pc' = "slabs"
    /\ UNCHANGED <<vars, slabIdx, at, offset, rest, key, stop, visited, due,
                   seen>>

EndSlab ==
    /\ pc = "words" /\ ~Words
    /\ pc' = "slabs"
    /\ slabIdx' = slabIdx + 1
    /\ UNCHANGED <<vars, at, offset, rest, key, stop, visited, due, seen>>

EndWord ==
    /\ pc = "bits" /\ rest = {}
    /\ pc' = "words"
    /\ offset' = offset + ChunkSlots
    /\ UNCHANGED <<vars, slabIdx, at, rest, key, stop, visited, due, seen>>

(* A slip: the bit of the slot just visited stays set.                     *)
BitKept(j) == rest

(* A slip: the whole word is cleared.                                      *)
WordCleared(j) == {}

BitCleared(j) == rest \ {j}

(* The key is made of the position the walk started from and the version   *)
(* the slot has now.                                                       *)
CallBack ==
    LET j == CHOOSE x \in rest : \A y \in rest : x <= y IN
    /\ pc = "bits" /\ rest # {}
    /\ \E v \in IF at = Gone THEN Version ELSE {version[SlotAt(j)]} :
           key' = [index |-> slabIdx * SlotsPerSlab + j, version |-> v]
    /\ seen' = seen \union {key'}
    /\ rest' = BitCleared(j)
    /\ pc' = "callback"
    /\ UNCHANGED <<vars, slabIdx, at, offset, stop, visited, due>>

(* Where the slab is after a removal: recycled to the newest range, gone,  *)
(* or where it was.                                                        *)
Follow ==
    at' = IF at \in slabs' THEN at
          ELSE IF at # Gone /\ nextBase' > nextBase THEN SlabOf(nextBase)
          ELSE Gone

EraseCall(k) ==
    \/ Erase(k)
    \/ EraseRecycles(k) /\ status' = "returned"
    \/ RecycleAborts(k)
    \/ ~EraseFinds(k) /\ UNCHANGED vars

(* The callback returns, with Options::erase and Options::stop set or not. *)
CallbackReturns ==
    /\ pc = "callback" /\ Running
    /\ visited' = visited + 1
    /\ \/ EraseCall(key) /\ due' = due \ {key} /\ Follow
       \/ UNCHANGED <<vars, due, at>>
    /\ stop' \in BOOLEAN
    /\ IF stop' THEN pc' = "slabs" /\ slabIdx' = slabIdx + 1
       ELSE pc' = "bits" /\ UNCHANGED slabIdx
    /\ UNCHANGED <<offset, rest, key, seen>>

(* The callback throws: the walk is left, whatever Options says.           *)
CallbackThrows ==
    /\ pc = "callback" /\ Running
    /\ Leave
    /\ UNCHANGED vars

SameWord(k) ==
    k.index - slabIdx * SlotsPerSlab \in Word

(* The callback erases another element itself.                             *)
CallbackErases(k) ==
    /\ pc = "callback" /\ Running
    /\ MayErase = "anything" \/ (MayErase = "other words" /\ ~SameWord(k))
    /\ k # key /\ EraseFinds(k)
    /\ EraseCall(k)
    /\ due' = due \ {k}
    /\ Follow
    /\ UNCHANGED <<pc, slabIdx, offset, rest, key, stop, visited, seen>>

(* An assert() that fires ends the walk with the program.                  *)
WalkStep ==
    /\ Running
    /\ \/ NextSlab \/ EndWalk \/ LoadWord \/ EndSlab \/ EndWord \/ CallBack
       \/ CallbackReturns

WalkNext ==
    \/ MapCall
    \/ BeginWalk
    \/ WalkStep
    \/ CallbackThrows
    \/ \E k \in Key : CallbackErases(k)

(* for_each keeps running, and callbacks return or throw.                  *)
Fairness == WF_allVars(WalkStep)

WalkSpec == WalkInit /\ [][WalkNext]_allVars /\ Fairness

-----------------------------------------------------------------------------
(* Every element handed to the callback is alive, and the key handed with  *)
(* it is the one that finds it, although versions and bitmap words were    *)
(* read at different times and slabs may have moved in between.            *)
HandsOutLiveElements ==
    [][pc = "bits" /\ pc' = "callback" => IsValid(key')]_allVars

(* A walk that was not stopped has visited each element that was alive at  *)
(* its start and not erased since, and none twice: nothing is skipped or   *)
(* repeated when slabs are deleted or moved to a later index under it.     *)
EachElementOnce ==
    [][pc = "slabs" /\ pc' = "idle" /\ ~stop =>
           due \subseteq seen /\ visited = Cardinality(seen)]_allVars

(* The bitmap is only ever read from a slab that still exists.             *)
ReadsExistingSlab == pc \in {"words", "bits"} /\ Words => at # Gone

(* Every walk comes to its end, although erasing in it adds slab positions *)
(* in front of it.                                                         *)
WalkEnds == pc = "slabs" ~> pc = "idle"
=============================================================================
