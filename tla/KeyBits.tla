------------------------------ MODULE KeyBits ------------------------------
(***************************************************************************)
(* Key: index, version and user bits packed in one unsigned integer.  The  *)
(* map issues keys; a client copies them, retags their user bits, makes    *)
(* null keys, rebuilds keys from their parts, and compares what it holds.  *)
(* `meant` records what each key was made to say: module SlotMap works     *)
(* with keys as such records, and this module shows that it may.           *)
(***************************************************************************)
EXTENDS Integers, Powers

CONSTANTS
    IndexBits, VersionBits, UserBits,
    UserDigits,         \* width of the integer that holds a user_type
    DefaultUserBits,    \* Traits' default_user, not yet masked
    Asserts,            \* assert() is compiled in
    Holders             \* the client's key variables

ASSUME KeyAssumption ==
    /\ IndexBits \in Nat \ {0} /\ VersionBits \in Nat \ {0}
    /\ UserBits \in 0 .. UserDigits /\ UserDigits \in Nat
    /\ DefaultUserBits \in Nat /\ Asserts \in BOOLEAN

NumBits == IndexBits + VersionBits + UserBits
Bits == 0 .. Pow2[NumBits] - 1

MakeMask(bits) == Pow2[bits] - 1
IndexMask == MakeMask(IndexBits)
VersionMask == MakeMask(VersionBits)
UserMask == MakeMask(UserBits)
VersionShift == IndexBits
UserShift == IndexBits + VersionBits

(* x & MakeMask(bits).                                                     *)
Low(x, bits) == x % Pow2[bits]

SafeShiftLeft(x, shift) ==
    IF shift >= NumBits THEN 0 ELSE (x * Pow2[shift]) % Pow2[NumBits]
SafeShiftRight(x, shift) == IF shift >= NumBits THEN 0 ELSE x \div Pow2[shift]

(* The constructor's three disjoint fields, or-ed together.                *)
Pack(i, v, u) ==
    Low(i, IndexBits) + SafeShiftLeft(Low(v, VersionBits), VersionShift)
                      + SafeShiftLeft(Low(u, UserBits), UserShift)

IndexOf(bits) == Low(bits, IndexBits)

(* A slip: the user bits above the version are not masked off.             *)
VersionUnmasked(bits) == SafeShiftRight(bits, VersionShift)

VersionOf(bits) == Low(SafeShiftRight(bits, VersionShift), VersionBits)
UserOf(bits) == Low(SafeShiftRight(bits, UserShift), UserBits)

(* User(unsigned): truncated to the integer's width, then checked.         *)
UserArg(x) == x % Pow2[UserDigits]
ArgAccepted(x) == Asserts => UserArg(x) <= UserMask

WithUser(bits, u) == Pack(IndexOf(bits), VersionOf(bits), u)

(* A slip: a key whose index and version are zero, whatever its user bits. *)
IsNullUntagged(bits) == IndexOf(bits) = 0 /\ VersionOf(bits) = 0

IsNull(bits) == bits = 0

(* bits | (user_mask << user_shift).                                       *)
SetUserBits(bits) ==
    bits - SafeShiftLeft(UserOf(bits), UserShift) +
        SafeShiftLeft(UserMask, UserShift)

(* A slip: the mask is not shifted to the user bits.                       *)
IdentifiesUnshifted(a, b) == a \div (UserMask + 1) = b \div (UserMask + 1)

IdentifiesSameObject(a, b) == SetUserBits(a) = SetUserBits(b)

(* A slip: user bits ignored, as a lookup ignores them.                    *)
LessUntagged(a, b) == Low(a, UserShift) < Low(b, UserShift)

(* operator <=>.                                                           *)
Less(a, b) == a < b

-----------------------------------------------------------------------------
VARIABLES
    held,   \* the bits of each key the client holds
    meant   \* history: what each of them was made to say

vars == <<held, meant>>

Meaning(i, v, u) == [user |-> u, version |-> v, index |-> i]
NullMeaning == Meaning(0, 0, 0)

Init ==
    /\ held = [h \in Holders |-> 0]
    /\ meant = [h \in Holders |-> NullMeaning]

Hold(h, bits, says) ==
    /\ held' = [held EXCEPT ![h] = bits]
    /\ meant' = [meant EXCEPT ![h] = says]

(* emplace: never index 0 under version 0; default_user_bits as masked by  *)
(* Traits.                                                                 *)
Issue(h, i, v) ==
    /\ <<i, v>> # <<0, 0>>
    /\ Hold(h, Pack(i, v, Low(DefaultUserBits, UserBits)),
            Meaning(i, v, DefaultUserBits % Pow2[UserBits]))

Retag(h, x) ==
    /\ ArgAccepted(x)
    /\ Hold(h, WithUser(held[h], UserArg(x)),
            [meant[h] EXCEPT !.user = x % Pow2[UserBits]])

(* Key(k.index(), k.version()): the user bits are left behind.             *)
Rebuild(h) ==
    Hold(h, Pack(IndexOf(held[h]), VersionOf(held[h]), 0),
         [meant[h] EXCEPT !.user = 0])

Nullify(h) == Hold(h, Pack(0, 0, 0), NullMeaning)

CopyFrom(h, g) == Hold(h, held[g], meant[g])

Next ==
    \/ \E h \in Holders, i \in 0 .. IndexMask, v \in 0 .. VersionMask :
           Issue(h, i, v)
    \/ \E h \in Holders, x \in 0 .. Pow2[UserDigits + 1] - 1 : Retag(h, x)
    \/ \E h \in Holders : Rebuild(h) \/ Nullify(h)
    \/ \E h, g \in Holders : CopyFrom(h, g)

Spec == Init /\ [][Next]_vars

-----------------------------------------------------------------------------
(* What a map reads from a key is what the key was made to say, whatever   *)
(* has been tagged on it: no field leaks into another.                     *)
KeysSayWhatTheyMean ==
    \A h \in Holders :
        /\ IndexOf(held[h]) = meant[h].index
        /\ VersionOf(held[h]) = meant[h].version
        /\ UserOf(held[h]) = meant[h].user

(* identifies_same_object: exactly the keys a map cannot tell apart.       *)
SameObjectIgnoresTags ==
    \A h, g \in Holders :
        IdentifiesSameObject(held[h], held[g]) <=>
            [meant[h] EXCEPT !.user = 0] = [meant[g] EXCEPT !.user = 0]

(* "[user][version][index] from MSB to LSB": keys compare by their tag,    *)
(* then by version, then by index, and are equal only if all three are.    *)
OrderIsByTagVersionIndex ==
    \A h, g \in Holders :
        LET a == meant[h]
            b == meant[g]
        IN Less(held[h], held[g]) <=>
               \/ a.user < b.user
               \/ a.user = b.user /\ a.version < b.version
               \/ a.user = b.user /\ a.version = b.version /\ a.index < b.index

(* Only what was made null is null: an issued key stays truthy under any   *)
(* tag, with its tag taken off, and rebuilt from its parts.                *)
OnlyNullIsNull ==
    \A h \in Holders : IsNull(held[h]) <=> meant[h] = NullMeaning
=============================================================================
