----------------------------- MODULE KeyProofs -----------------------------
(***************************************************************************)
(* Proofs about KeyBits, for any split of a key into index, version and    *)
(* user bits: the three fields of a key never leak into each other.        *)
(***************************************************************************)
EXTENDS KeyBits, PowersProofs

-----------------------------------------------------------------------------
(* Fields side by side.                                                    *)

(* Three fields of sizes I, V and U fit in I * V * U values.               *)
LEMMA FieldsFit ==
    ASSUME NEW I \in Nat \ {0}, NEW V \in Nat \ {0}, NEW U \in Nat \ {0},
           NEW i \in 0 .. I - 1, NEW v \in 0 .. V - 1, NEW u \in 0 .. U - 1
    PROVE  /\ i + v * I \in 0 .. I * V - 1
           /\ v * I \in 0 .. I * V - 1
           /\ u * (I * V) \in 0 .. (I * V) * U - 1
           /\ i + v * I + u * (I * V) \in 0 .. (I * V) * U - 1
<1>1. I * V \in Nat \ {0}
  OBVIOUS
<1>2. v * I \in Nat /\ v * I + I <= I * V
  <2>1. (V - 1 - v) \in Nat /\ (V - 1 - v) * I \in Nat
    OBVIOUS
  <2>2. (V - 1 - v) * I = I * V - I - v * I
    OBVIOUS
  <2> QED
    BY <2>1, <2>2
<1>3. PICK P \in Nat \ {0} : P = I * V
  BY <1>1
<1>4. u * P \in Nat /\ u * P + P <= P * U
  <2>1. (U - 1 - u) \in Nat /\ (U - 1 - u) * P \in Nat
    OBVIOUS
  <2>2. (U - 1 - u) * P = P * U - P - u * P
    OBVIOUS
  <2> QED
    BY <2>1, <2>2
<1>5. PICK w \in Nat : w = v * I
  BY <1>2
<1>6. PICK y \in Nat, N \in Int : y = u * P /\ N = P * U
  BY <1>4
<1>7. w + I <= P /\ y + P <= N
  BY <1>2, <1>3, <1>4, <1>5, <1>6
<1>8. i + w \in 0 .. P - 1 /\ w \in 0 .. P - 1 /\ y \in 0 .. N - 1
        /\ i + w + y \in 0 .. N - 1
  BY ONLY <1>7, i \in 0 .. I - 1, I \in Nat, P \in Nat \ {0}, w \in Nat,
          y \in Nat, N \in Int
<1> QED
  BY <1>3, <1>5, <1>6, <1>8

(* i, v and u are what is read from x.                                     *)
Reads(I, V, x, i, v, u) ==
    x % I = i /\ (x \div I) % V = v /\ x \div (I * V) = u

(* What each field is taken out as.                                        *)
LEMMA FieldsRead ==
    ASSUME NEW I \in Nat \ {0}, NEW V \in Nat \ {0}, NEW U \in Nat \ {0},
           NEW i \in 0 .. I - 1, NEW v \in 0 .. V - 1, NEW u \in 0 .. U - 1
    PROVE  Reads(I, V, i + v * I + u * (I * V), i, v, u)
<1> SUFFICES ASSUME NEW x, x = i + v * I + u * (I * V)
    PROVE  x % I = i /\ (x \div I) % V = v /\ x \div (I * V) = u
  BY DEF Reads
<1>1. PICK q \in Nat : q = u * V + v
  OBVIOUS
<1>2. x = q * I + i
  BY <1>1
<1>3. x \div I = q /\ x % I = i
  BY <1>1, <1>2, Divided
<1>4. q % V = v
  BY <1>1, Divided
<1>5. PICK P \in Nat \ {0}, r \in Nat : P = I * V /\ r = i + v * I
  OBVIOUS
<1>6. r < P
  BY <1>5, FieldsFit
<1>7. x = u * P + r
  BY <1>5
<1>8. x \div P = u
  BY <1>5, <1>6, <1>7, Divided
<1> QED
  BY <1>3, <1>4, <1>5, <1>8

(* Fields side by side compare as the first of them that differs.          *)
LEMMA FieldsCompare ==
    ASSUME NEW I \in Nat \ {0}, NEW V \in Nat \ {0}, NEW U \in Nat \ {0},
           NEW i \in 0 .. I - 1, NEW v \in 0 .. V - 1, NEW u \in 0 .. U - 1,
           NEW j \in 0 .. I - 1, NEW w \in 0 .. V - 1, NEW t \in 0 .. U - 1,
           \/ u < t
           \/ u = t /\ v < w
           \/ u = t /\ v = w /\ i < j
    PROVE  i + v * I + u * (I * V) < j + w * I + t * (I * V)
<1>1. PICK P \in Nat \ {0} : P = I * V
  OBVIOUS
<1>2. i + v * I \in 0 .. P - 1 /\ j + w * I \in 0 .. P - 1
  BY <1>1, FieldsFit
<1>3. CASE u < t
  <2>1. (t - u - 1) \in Nat /\ (t - u - 1) * P \in Nat
    BY <1>3
  <2>2. (t - u - 1) * P = t * P - u * P - P
    OBVIOUS
  <2>3. PICK a \in Int, b \in Int, y \in Int, z \in Int :
            a = i + v * I /\ b = j + w * I /\ y = u * P /\ z = t * P
    OBVIOUS
  <2>4. a < P /\ 0 <= b /\ y + P <= z
    BY <1>2, <2>1, <2>2, <2>3
  <2>5. a + y < b + z
    BY ONLY <2>4, a \in Int, b \in Int, y \in Int, z \in Int, P \in Nat
  <2> QED
    BY <1>1, <2>3, <2>5
<1>4. CASE u = t /\ v < w
  <2>1. (w - v - 1) \in Nat /\ (w - v - 1) * I \in Nat
    BY <1>4
  <2>2. (w - v - 1) * I = w * I - v * I - I
    OBVIOUS
  <2>3. PICK y \in Int, z \in Int, d \in Int :
            y = v * I /\ z = w * I /\ d = u * P
    OBVIOUS
  <2>4. y + I <= z
    BY <2>1, <2>2, <2>3
  <2>5. i + y + d < j + z + d
    BY ONLY <2>4, i \in 0 .. I - 1, j \in 0 .. I - 1, y \in Int, z \in Int,
            d \in Int, I \in Nat
  <2> QED
    BY <1>1, <1>4, <2>3, <2>5
<1>5. CASE u = t /\ v = w /\ i < j
  BY <1>1, <1>5
<1> QED
  BY <1>3, <1>4, <1>5

-----------------------------------------------------------------------------
(* Keys.                                                                   *)

(* How many indexes, versions and tags there are.                          *)
Is == Pow2[IndexBits]
Vs == Pow2[VersionBits]
Us == Pow2[UserBits]

(* The three fields of a key, side by side.                                *)
Side(i, v, u) == i + v * Is + u * (Is * Vs)

(* A key says only what its fields have room for.                          *)
Sayings == [user : 0 .. Us - 1, version : 0 .. Vs - 1, index : 0 .. Is - 1]
Says(m) == Side(m.index, m.version, m.user)

(* The fields' sizes, and where the fields begin.                          *)
LEMMA Sizes ==
    /\ Is \in Nat \ {0} /\ Vs \in Nat \ {0} /\ Us \in Nat \ {0}
    /\ IndexBits \in Nat /\ VersionBits \in Nat /\ UserBits \in Nat
    /\ Pow2[UserShift] = Is * Vs /\ Pow2[NumBits] = (Is * Vs) * Us
    /\ VersionShift < NumBits /\ Pow2[VersionShift] = Is
    /\ (UserShift >= NumBits => UserBits = 0 /\ Us = 1)
<1>1. IndexBits \in Nat /\ VersionBits \in Nat /\ UserBits \in Nat
        /\ IndexBits # 0 /\ VersionBits # 0
  BY KeyAssumption
<1>2. Is \in Nat \ {0} /\ Vs \in Nat \ {0} /\ Us \in Nat \ {0}
  BY <1>1, Pow2Is DEF Is, Vs, Us
<1>3. Pow2[UserShift] = Is * Vs
  BY <1>1, Pow2Sum DEF UserShift, Is, Vs
<1>4. Pow2[NumBits] = (Is * Vs) * Us
  <2>1. UserShift \in Nat /\ NumBits = UserShift + UserBits
    BY <1>1 DEF UserShift, NumBits
  <2>2. Pow2[NumBits] = Pow2[UserShift] * Pow2[UserBits]
    BY <1>1, <2>1, Pow2Sum
  <2> QED
    BY <1>3, <2>2 DEF Us
<1>5. VersionShift < NumBits /\ Pow2[VersionShift] = Is
  BY <1>1 DEF VersionShift, NumBits, Is
<1>6. UserShift >= NumBits => UserBits = 0 /\ Us = 1
  BY <1>1, Pow2Is DEF UserShift, NumBits, Us
<1> QED
  BY <1>1, <1>2, <1>3, <1>4, <1>5, <1>6

(* Nothing is left of zero.                                                *)
LEMMA NoRemainder ==
    /\ (0 % Is) = 0 /\ (0 % Vs) = 0 /\ (0 % Us) = 0
    /\ 0 \in 0 .. Is - 1 /\ 0 \in 0 .. Vs - 1 /\ 0 \in 0 .. Us - 1
<1>1. ASSUME NEW p \in Nat \ {0} PROVE (0 % p) = 0 /\ 0 \in 0 .. p - 1
  OBVIOUS
<1> QED
  BY <1>1, Sizes

(* The shifted user bits, wherever they are: no bits, no shift.            *)
LEMMA ShiftedUser ==
    ASSUME NEW u \in 0 .. Us - 1
    PROVE  SafeShiftLeft(u, UserShift) = u * (Is * Vs)
<1>1. CASE UserShift >= NumBits
  <2>1. u = 0 /\ Is * Vs \in Nat
    BY <1>1, Sizes
  <2> QED
    BY <1>1, <2>1 DEF SafeShiftLeft
<1>2. CASE ~(UserShift >= NumBits)
  <2>1. PICK x : x = u * (Is * Vs)
    OBVIOUS
  <2>2. PICK N : N = (Is * Vs) * Us
    OBVIOUS
  <2>3. x \in 0 .. N - 1 /\ N \in Nat \ {0}
    <3>1. 0 \in 0 .. Is - 1 /\ 0 \in 0 .. Vs - 1
      BY Sizes
    <3>2. u * (Is * Vs) \in 0 .. (Is * Vs) * Us - 1
      BY Sizes, FieldsFit, <3>1
    <3>3. (Is * Vs) * Us \in Nat \ {0}
      BY Sizes
    <3> QED
      BY <2>1, <2>2, <3>2, <3>3
  <2>4. x % N = x
    <3>1. x \in Nat
      BY <2>3
    <3> QED
      BY <2>3, <3>1, Remainder
  <2>5. SafeShiftLeft(u, UserShift) = (u * Pow2[UserShift]) % Pow2[NumBits]
    BY <1>2 DEF SafeShiftLeft
  <2> QED
    BY <2>1, <2>2, <2>4, <2>5, Sizes
<1> QED
  BY <1>1, <1>2

(* Packing puts what is left of each part in its field, side by side.      *)
LEMMA PackIs ==
    ASSUME NEW i \in Nat, NEW v \in Nat, NEW u \in Nat
    PROVE  Pack(i, v, u) = Side((i % Is), (v % Vs), (u % Us))
<1>1. PICK a, b, c : a = (i % Is) /\ b = (v % Vs) /\ c = (u % Us)
  OBVIOUS
<1>2. a \in 0 .. Is - 1 /\ b \in 0 .. Vs - 1 /\ c \in 0 .. Us - 1
  BY <1>1, Sizes, Remainder
<1>3. SafeShiftLeft(c, UserShift) = c * (Is * Vs)
  BY <1>2, ShiftedUser
<1>4. SafeShiftLeft(b, VersionShift) = b * Is
  <2>1. PICK x, N : x = b * Is /\ N = (Is * Vs) * Us
    OBVIOUS
  <2>2. x \in 0 .. N - 1 /\ N \in Nat \ {0}
    <3>1. 0 \in 0 .. Is - 1 /\ 0 \in 0 .. Us - 1
      BY Sizes
    <3>2. 0 + b * Is + 0 * (Is * Vs) \in 0 .. (Is * Vs) * Us - 1
      BY Sizes, FieldsFit, <1>2, <3>1
    <3>3. (Is * Vs) * Us \in Nat \ {0} /\ 0 + b * Is + 0 * (Is * Vs) = b * Is
      BY Sizes, <1>2
    <3> QED
      BY <2>1, <3>2, <3>3
  <2>3. x % N = x
    <3>1. x \in Nat
      BY <2>2
    <3> QED
      BY <2>2, <3>1, Remainder
  <2>4. SafeShiftLeft(b, VersionShift) =
            (b * Pow2[VersionShift]) % Pow2[NumBits]
    <3>1. ~(VersionShift >= NumBits)
      BY Sizes DEF VersionShift, NumBits
    <3> QED
      BY <3>1 DEF SafeShiftLeft
  <2> QED
    BY <2>1, <2>3, <2>4, Sizes
<1>5. Low(i, IndexBits) = a /\ Low(v, VersionBits) = b /\ Low(u, UserBits) = c
  BY <1>1 DEF Low, Is, Vs, Us
<1> QED
  BY <1>1, <1>3, <1>4, <1>5 DEF Pack, Side

(* What a key says can be read back from it.                               *)
LEMMA ReadBack ==
    ASSUME NEW m \in Sayings
    PROVE  /\ IndexOf(Says(m)) = m.index
           /\ VersionOf(Says(m)) = m.version
           /\ UserOf(Says(m)) = m.user
           /\ Says(m) \in Nat
<1>1. PICK i, v, u : i = m.index /\ v = m.version /\ u = m.user
  OBVIOUS
<1>2. i \in 0 .. Is - 1 /\ v \in 0 .. Vs - 1 /\ u \in 0 .. Us - 1
  BY <1>1 DEF Sayings
<1>3. PICK x : x = i + v * Is + u * (Is * Vs)
  OBVIOUS
<1>4. Says(m) = x
  BY <1>1, <1>3 DEF Says, Side
<1>5. x \in Nat
  <2>1. x \in 0 .. (Is * Vs) * Us - 1
    BY <1>2, <1>3, Sizes, FieldsFit
  <2> QED
    BY <2>1
<1>6. x % Is = i /\ (x \div Is) % Vs = v /\ x \div (Is * Vs) = u
  <2>1. Is \in Nat \ {0} /\ Vs \in Nat \ {0} /\ Us \in Nat \ {0}
    BY Sizes
  <2>2. Reads(Is, Vs, i + v * Is + u * (Is * Vs), i, v, u)
    BY ONLY <1>2, <2>1, FieldsRead
  <2> QED
    BY <1>3, <2>2 DEF Reads
<1>7. IndexOf(x) = i
  BY <1>6 DEF IndexOf, Low, Is
<1>8. VersionOf(x) = v
  <2>1. SafeShiftRight(x, VersionShift) = x \div Is
    <3>1. ~(VersionShift >= NumBits)
      BY Sizes DEF VersionShift, NumBits
    <3> QED
      BY <3>1, Sizes DEF SafeShiftRight
  <2> QED
    BY <1>6, <2>1 DEF VersionOf, Low, Vs
<1>9. UserOf(x) = u
  <2>1. CASE UserShift >= NumBits
    <3>1. u = 0 /\ Us = 1
      BY <1>2, <2>1, Sizes
    <3>2. SafeShiftRight(x, UserShift) = 0
      BY <2>1 DEF SafeShiftRight
    <3> QED
      BY <3>1, <3>2 DEF UserOf, Low, Us
  <2>2. CASE ~(UserShift >= NumBits)
    <3>1. SafeShiftRight(x, UserShift) = u
      BY <1>6, <2>2, Sizes DEF SafeShiftRight
    <3>2. u % Us = u
      <4>1. u \in Nat
        BY <1>2
      <4> QED
        BY <1>2, <4>1, Sizes, Remainder
    <3> QED
      BY <3>1, <3>2 DEF UserOf, Low, Us
  <2> QED
    BY <2>1, <2>2
<1> QED
  BY <1>1, <1>4, <1>5, <1>7, <1>8, <1>9

(* With its user bits set, a key says the largest tag.                     *)
LEMMA UserBitsSet ==
    ASSUME NEW m \in Sayings
    PROVE  SetUserBits(Says(m)) = Says([m EXCEPT !.user = Us - 1])
<1>1. PICK i, v, u : i = m.index /\ v = m.version /\ u = m.user
  OBVIOUS
<1>2. i \in 0 .. Is - 1 /\ v \in 0 .. Vs - 1 /\ u \in 0 .. Us - 1
        /\ Us - 1 \in 0 .. Us - 1
  BY <1>1, Sizes DEF Sayings
<1>3. UserOf(Says(m)) = u /\ UserMask = Us - 1
  BY <1>1, ReadBack DEF UserMask, MakeMask, Us
<1>4. SetUserBits(Says(m)) =
          Says(m) - u * (Is * Vs) + (Us - 1) * (Is * Vs)
  BY <1>2, <1>3, ShiftedUser DEF SetUserBits
<1>5. Says(m) = i + v * Is + u * (Is * Vs)
  BY <1>1 DEF Says, Side
<1>6. Says([m EXCEPT !.user = Us - 1]) =
          i + v * Is + (Us - 1) * (Is * Vs)
  BY <1>1 DEF Says, Side, Sayings
<1>7. PICK a, b, c \in Int : a = i + v * Is /\ b = u * (Is * Vs)
                                /\ c = (Us - 1) * (Is * Vs)
  <2>1. i + v * Is \in Int /\ u * (Is * Vs) \in Int /\ (Us - 1) * (Is * Vs) \in Int
    BY <1>2, Sizes
  <2> QED
    BY <2>1
<1>8. a + b - b + c = a + c
  BY <1>7
<1> QED
  BY <1>4, <1>5, <1>6, <1>7, <1>8

(* Keys order as what they say does, and differ if that does.              *)
LEMMA SaysOrders ==
    ASSUME NEW m \in Sayings, NEW n \in Sayings
    PROVE  /\ Says(m) < Says(n) <=>
                  \/ m.user < n.user
                  \/ m.user = n.user /\ m.version < n.version
                  \/ m.user = n.user /\ m.version = n.version
                         /\ m.index < n.index
           /\ Says(m) = Says(n) <=> m = n
<1> DEFINE Before(a, b) ==
               \/ a.user < b.user
               \/ a.user = b.user /\ a.version < b.version
               \/ a.user = b.user /\ a.version = b.version
                      /\ a.index < b.index
<1>1. ASSUME NEW a \in Sayings, NEW b \in Sayings, Before(a, b)
      PROVE  Says(a) < Says(b)
  <2>1. PICK i, v, u, j, w, t :
            i = a.index /\ v = a.version /\ u = a.user
                /\ j = b.index /\ w = b.version /\ t = b.user
    OBVIOUS
  <2>2. i \in 0 .. Is - 1 /\ v \in 0 .. Vs - 1 /\ u \in 0 .. Us - 1
          /\ j \in 0 .. Is - 1 /\ w \in 0 .. Vs - 1 /\ t \in 0 .. Us - 1
    BY <2>1 DEF Sayings
  <2>3. u < t \/ (u = t /\ v < w) \/ (u = t /\ v = w /\ i < j)
    BY <1>1, <2>1
  <2>4. i + v * Is + u * (Is * Vs) < j + w * Is + t * (Is * Vs)
    BY <2>2, <2>3, Sizes, FieldsCompare
  <2> QED
    BY <2>1, <2>4 DEF Says, Side
<1>2. Before(m, n) \/ Before(n, m) \/ m = n
  <2>1. m.user \in Int /\ n.user \in Int /\ m.version \in Int
          /\ n.version \in Int /\ m.index \in Int /\ n.index \in Int
    BY Sizes DEF Sayings
  <2>2. m.user = n.user /\ m.version = n.version /\ m.index = n.index => m = n
    BY DEF Sayings
  <2> QED
    BY <2>1, <2>2
<1>3. Says(m) \in Nat /\ Says(n) \in Nat
  BY ReadBack
<1>4. m = n => ~Before(m, n)
  <2>1. m.user \in Int /\ m.version \in Int /\ m.index \in Int
    BY Sizes DEF Sayings
  <2> QED
    BY <2>1
<1>5. Before(m, n) => Says(m) < Says(n)
  BY <1>1
<1>6. Before(n, m) => Says(n) < Says(m)
  BY <1>1
<1>7. m = n => Says(m) = Says(n)
  OBVIOUS
<1> HIDE DEF Before
<1>8. (Says(m) < Says(n) <=> Before(m, n)) /\ (Says(m) = Says(n) <=> m = n)
  BY <1>2, <1>3, <1>4, <1>5, <1>6, <1>7
<1> USE DEF Before
<1> QED
  BY <1>8

-----------------------------------------------------------------------------
(* Every key holds, side by side, what it was made to say, and says only   *)
(* what there is room for.                                                 *)
KeyInv ==
    /\ meant \in [Holders -> Sayings]
    /\ held = [h \in Holders |-> Says(meant[h])]

(* The null key says nothing.                                              *)
LEMMA NullSays ==
    NullMeaning \in Sayings /\ Says(NullMeaning) = 0
BY Sizes DEF NullMeaning, Meaning, Sayings, Says, Side

(* Holding a key that says what it means.                                  *)
LEMMA HoldKeeps ==
    ASSUME KeyInv, NEW h \in Holders, NEW m \in Sayings, NEW x, x = Says(m),
           Hold(h, x, m)
    PROVE  KeyInv'
BY DEF KeyInv, Hold

(* A smaller number of tags divides a larger: truncating to the integer's  *)
(* width leaves the user bits alone.                                       *)
LEMMA Truncated ==
    ASSUME NEW x \in Nat
    PROVE  UserArg(x) % Us = x % Us /\ UserArg(x) \in Nat
<1>1. PICK k \in Nat : UserDigits = UserBits + k /\ UserBits \in Nat
  <2>1. UserDigits - UserBits \in Nat
          /\ UserDigits = UserBits + (UserDigits - UserBits) /\ UserBits \in Nat
    BY KeyAssumption
  <2> QED
    BY <2>1
<1>2. PICK U, K \in Nat \ {0} : U = Us /\ K = Pow2[k]
  BY <1>1, Sizes, Pow2Is
<1>3. Pow2[UserDigits] = U * K
  BY <1>1, <1>2, Pow2Sum DEF Us
<1>4. PICK P \in Nat \ {0} : P = U * K
  BY <1>2
<1>5. PICK q, r \in Nat : x = q * P + r /\ r = x % P
  <2>1. x \div P \in Nat /\ x % P \in Nat /\ x = (x \div P) * P + (x % P)
    OBVIOUS
  <2> QED
    BY <2>1
<1>6. PICK d, s \in Nat : r = d * U + s /\ s = r % U /\ s < U
  <2>1. r \div U \in Nat /\ r % U \in Nat /\ r = (r \div U) * U + (r % U)
          /\ r % U < U
    OBVIOUS
  <2> QED
    BY <2>1
<1>7. PICK e \in Nat : e = q * K + d
  OBVIOUS
<1>8. x = e * U + s
  <2>1. q * P = (q * K) * U
    BY <1>4
  <2>2. e * U = (q * K) * U + d * U
    BY <1>7
  <2>3. PICK a, b \in Nat : a = (q * K) * U /\ b = d * U
    OBVIOUS
  <2>4. x = a + (b + s) /\ e * U = a + b
    BY <1>5, <1>6, <2>1, <2>2, <2>3
  <2> QED
    BY ONLY <2>3, <2>4, a \in Nat, b \in Nat, s \in Nat, x \in Nat
<1>9. x % U = s
  BY <1>6, <1>8, Divided
<1>10. UserArg(x) = r
  BY <1>3, <1>4, <1>5 DEF UserArg
<1> QED
  BY <1>2, <1>5, <1>6, <1>9, <1>10

(* No key holds anything else than what it was made to say.                *)
LEMMA KeyStep ==
    KeyInv /\ [Next]_vars => KeyInv'
<1> SUFFICES ASSUME KeyInv, [Next]_vars PROVE KeyInv'
  OBVIOUS
<1>1. ASSUME NEW h \in Holders
      PROVE  meant[h] \in Sayings /\ held[h] = Says(meant[h])
  BY DEF KeyInv
<1>2. ASSUME NEW h \in Holders, NEW i \in 0 .. IndexMask,
             NEW v \in 0 .. VersionMask, Issue(h, i, v)
      PROVE  KeyInv'
  <2>1. PICK d : d = (DefaultUserBits % Us)
    OBVIOUS
  <2>2. d \in 0 .. Us - 1 /\ d \in Nat /\ (d % Us) = d
    <3>1. DefaultUserBits \in Nat
      BY KeyAssumption
    <3>2. d \in 0 .. Us - 1 /\ d \in Nat
      BY <2>1, <3>1, Sizes, Remainder
    <3> QED
      BY <3>2, Sizes, Remainder
  <2>3. i \in 0 .. Is - 1 /\ v \in 0 .. Vs - 1
    BY DEF IndexMask, VersionMask, MakeMask, Is, Vs
  <2>4. (i % Is) = i /\ (v % Vs) = v /\ i \in Nat /\ v \in Nat
    <3>1. i \in Nat /\ v \in Nat
      BY <2>3
    <3> QED
      BY <2>3, <3>1, Sizes, Remainder
  <2>5. Pack(i, v, d) = Side(i, v, d)
    BY <2>2, <2>4, PackIs
  <2>6. PICK m : m = Meaning(i, v, d)
    OBVIOUS
  <2>7. m \in Sayings /\ Says(m) = Pack(i, v, d)
    BY <2>2, <2>3, <2>5, <2>6 DEF Meaning, Sayings, Says
  <2>8. Hold(h, Pack(i, v, d), m)
    BY <1>2, <2>1, <2>6 DEF Issue, Low, Us
  <2> QED
    BY <2>7, <2>8, HoldKeeps
<1>3. ASSUME NEW h \in Holders, NEW x \in 0 .. Pow2[UserDigits + 1] - 1,
             Retag(h, x)
      PROVE  KeyInv'
  <2>1. x \in Nat
    OBVIOUS
  <2>2. PICK u : u = (x % Us)
    OBVIOUS
  <2>3. u \in 0 .. Us - 1 /\ (UserArg(x) % Us) = u /\ UserArg(x) \in Nat
    BY <2>1, <2>2, Sizes, Remainder, Truncated
  <2>4. PICK n : n \in Sayings /\ n = meant[h] /\ held[h] = Says(n)
    BY <1>1
  <2>5. IndexOf(held[h]) = n.index /\ VersionOf(held[h]) = n.version
    BY <2>4, ReadBack
  <2>6. n.index \in 0 .. Is - 1 /\ n.version \in 0 .. Vs - 1
          /\ n.index \in Nat /\ n.version \in Nat
    BY <2>4, Sizes DEF Sayings
  <2>7. (n.index % Is) = n.index /\ (n.version % Vs) = n.version
    BY <2>6, Sizes, Remainder
  <2>8. WithUser(held[h], UserArg(x)) = Side(n.index, n.version, u)
    BY <2>3, <2>5, <2>6, <2>7, PackIs DEF WithUser
  <2>9. PICK m : m = [n EXCEPT !.user = u]
    OBVIOUS
  <2>10. m \in Sayings /\ Says(m) = Side(n.index, n.version, u)
    BY <2>3, <2>4, <2>9 DEF Sayings, Says
  <2>11. Hold(h, WithUser(held[h], UserArg(x)), m)
    BY <1>3, <2>2, <2>4, <2>9 DEF Retag, Us
  <2> QED
    BY <2>8, <2>10, <2>11, HoldKeeps
<1>4. ASSUME NEW h \in Holders, Rebuild(h) PROVE KeyInv'
  <2>1. PICK n : n \in Sayings /\ n = meant[h] /\ held[h] = Says(n)
    BY <1>1
  <2>2. IndexOf(held[h]) = n.index /\ VersionOf(held[h]) = n.version
    BY <2>1, ReadBack
  <2>3. n.index \in 0 .. Is - 1 /\ n.version \in 0 .. Vs - 1
          /\ n.index \in Nat /\ n.version \in Nat
    BY <2>1, Sizes DEF Sayings
  <2>4. (n.index % Is) = n.index /\ (n.version % Vs) = n.version
          /\ (0 % Us) = 0 /\ 0 \in 0 .. Us - 1
    BY <2>3, Sizes, Remainder, NoRemainder
  <2>5. Pack(IndexOf(held[h]), VersionOf(held[h]), 0) =
            Side(n.index, n.version, 0)
    BY <2>2, <2>3, <2>4, PackIs
  <2>6. PICK m : m = [n EXCEPT !.user = 0]
    OBVIOUS
  <2>7. m \in Sayings /\ Says(m) = Side(n.index, n.version, 0)
    BY <2>1, <2>4, <2>6 DEF Sayings, Says
  <2>8. Hold(h, Pack(IndexOf(held[h]), VersionOf(held[h]), 0), m)
    BY <1>4, <2>1, <2>6 DEF Rebuild
  <2> QED
    BY <2>5, <2>7, <2>8, HoldKeeps
<1>5. ASSUME NEW h \in Holders, Nullify(h) PROVE KeyInv'
  <2>1. (0 % Is) = 0 /\ (0 % Vs) = 0 /\ (0 % Us) = 0
    BY NoRemainder
  <2>2. Pack(0, 0, 0) = Side(0, 0, 0)
    BY <2>1, PackIs
  <2>3. Side(0, 0, 0) = Says(NullMeaning)
    BY DEF Says, NullMeaning, Meaning
  <2> QED
    BY <1>5, <2>2, <2>3, NullSays, HoldKeeps DEF Nullify
<1>6. ASSUME NEW h \in Holders, NEW g \in Holders, CopyFrom(h, g)
      PROVE  KeyInv'
  BY <1>1, <1>6, HoldKeeps DEF CopyFrom
<1>7. CASE UNCHANGED vars
  BY <1>7 DEF KeyInv, vars
<1> QED
  BY <1>2, <1>3, <1>4, <1>5, <1>6, <1>7 DEF Next

(* In every reachable state, every key holds what it was made to say.      *)
LEMMA KeysHold == Spec => []KeyInv
<1>1. Init => KeyInv
  BY NullSays DEF Init, KeyInv
<1> QED
  BY <1>1, KeyStep, PTL DEF Spec

(* Whatever the split, what a map reads from a key (its index, its         *)
(* version, its tag) is what the key was made to say.                      *)
THEOREM KeysMeanWhatTheySay == Spec => []KeysSayWhatTheyMean
<1>1. KeyInv => KeysSayWhatTheyMean
  BY ReadBack DEF KeyInv, KeysSayWhatTheyMean
<1> QED
  BY <1>1, KeysHold, PTL

(* identifies_same_object equates exactly the keys that differ in nothing  *)
(* but their tags.                                                         *)
THEOREM TagsDoNotIdentify == Spec => []SameObjectIgnoresTags
<1>1. ASSUME NEW m \in Sayings, NEW n \in Sayings
      PROVE  IdentifiesSameObject(Says(m), Says(n)) <=>
                 [m EXCEPT !.user = 0] = [n EXCEPT !.user = 0]
  <2>1. PICK a, b : a = [m EXCEPT !.user = Us - 1]
                      /\ b = [n EXCEPT !.user = Us - 1]
    OBVIOUS
  <2>2. a \in Sayings /\ b \in Sayings
    BY <2>1, Sizes DEF Sayings
  <2>3. IdentifiesSameObject(Says(m), Says(n)) <=> a = b
    BY <2>1, <2>2, UserBitsSet, SaysOrders DEF IdentifiesSameObject
  <2>4. a = b <=> m.version = n.version /\ m.index = n.index
    BY <2>1, <2>2 DEF Sayings
  <2>5. [m EXCEPT !.user = 0] = [n EXCEPT !.user = 0]
            <=> m.version = n.version /\ m.index = n.index
    BY DEF Sayings
  <2> QED
    BY <2>3, <2>4, <2>5
<1>2. KeyInv => SameObjectIgnoresTags
  BY <1>1 DEF KeyInv, SameObjectIgnoresTags
<1> QED
  BY <1>2, KeysHold, PTL

(* Keys compare as their comment says: by tag, then version, then index.   *)
THEOREM KeysAreOrdered == Spec => []OrderIsByTagVersionIndex
<1>1. KeyInv => OrderIsByTagVersionIndex
  BY SaysOrders DEF KeyInv, OrderIsByTagVersionIndex, Less
<1> QED
  BY <1>1, KeysHold, PTL

(* Only what was made null is null.                                        *)
THEOREM OnlyNullKeysAreNull == Spec => []OnlyNullIsNull
<1>1. KeyInv => OnlyNullIsNull
  <2>1. ASSUME NEW m \in Sayings PROVE Says(m) = 0 <=> m = NullMeaning
    BY NullSays, SaysOrders
  <2> QED
    BY <2>1 DEF KeyInv, OnlyNullIsNull, IsNull
<1> QED
  BY <1>1, KeysHold, PTL
=============================================================================
