------------------------- MODULE MessageReader_proofs -------------------------
(***************************************************************************)
(* What the loops of a collector keep, whatever the bytes of the message:  *)
(* no iterator leaves what the loop around it gave it, what is announced   *)
(* as a template definition can be parsed, and the fields of a record fill *)
(* it to its end.                                                          *)
(***************************************************************************)
EXTENDS MessageReader, TLAPS, NaturalsInduction, WellFoundedInduction,
        SequenceTheorems

-----------------------------------------------------------------------------
(* Induction *)

\* Every non-empty set of natural numbers has a least element.
LEMMA Minimum ==
  ASSUME NEW S \in SUBSET Nat, S # {}
  PROVE  \E x \in S : \A y \in S : x <= y
<1>1. IsWellFoundedOn(OpToRel(<, Nat), Nat)
  BY NatLessThanWellFounded
<1>2. PICK x \in S : \A y \in S : ~ (<<y, x>> \in OpToRel(<, Nat))
  BY <1>1, WFMin
<1>3. \A y \in S : ~(y < x)
  BY <1>2 DEF OpToRel
<1> QED  BY <1>3

\* A set that holds a number and the successor of each of its members up to
\* another number holds all between them.
Ladder(S, a, b) == a \in S /\ \A k \in a..(b - 1) : k \in S => k + 1 \in S

LEMMA Climb ==
  ASSUME NEW S, NEW a \in Int, NEW b \in Int, Ladder(S, a, b)
  PROVE  \A k \in a..b : k \in S
<1> DEFINE Missing == {n \in Nat : a + n <= b /\ a + n \notin S}
<1>1. SUFFICES ASSUME Missing # {} PROVE FALSE
  <2>1. ASSUME NEW k \in a..b, k \notin S PROVE k - a \in Missing
    BY <2>1
  <2> QED  BY <2>1
<1>2. PICK n \in Missing : \A m \in Missing : n <= m
  <2>1. Missing \in SUBSET Nat
    OBVIOUS
  <2> QED  BY <1>1, <2>1, Minimum
<1>3. n # 0
  BY <1>2 DEF Ladder
<1>4. n - 1 \in Nat /\ n - 1 \notin Missing /\ a + (n - 1) <= b - 1
  BY <1>2, <1>3
<1>5. a + (n - 1) \in S
  BY <1>4
<1>6. (a + (n - 1)) + 1 \in S
  BY <1>4, <1>5 DEF Ladder
<1>7. (a + (n - 1)) + 1 = a + n
  BY <1>4
<1> QED  BY <1>2, <1>6, <1>7

-----------------------------------------------------------------------------
(* Lengths of templates *)

LengthOf(ie) == IF ie.len = VarLen THEN 1 ELSE ie.len

\* The recursion of LengthBefore.
Lengths(g, ies) ==
  g = [i \in 1..(Len(ies) + 1) |-> IF i = 1 THEN 0 ELSE g[i - 1] + LengthOf(ies[i - 1])]
LengthsTo(g, ies, k) ==
  g = [i \in 1..k |-> IF i = 1 THEN 0 ELSE g[i - 1] + LengthOf(ies[i - 1])]

LEMMA LengthsExist ==
  ASSUME NEW ies, Len(ies) \in Nat
  PROVE  \E g : Lengths(g, ies)
<1> DEFINE S == {k \in Nat : \E g : LengthsTo(g, ies, k)}
<1>1. 1 \in S
  <2> DEFINE g == [i \in 1..1 |-> 0]
  <2>1. g = [i \in 1..1 |-> IF i = 1 THEN 0 ELSE g[i - 1] + LengthOf(ies[i - 1])]
    OBVIOUS
  <2>2. LengthsTo(g, ies, 1)
    BY <2>1 DEF LengthsTo
  <2> QED  BY <2>2
<1>2. ASSUME NEW k \in 1..Len(ies), k \in S
      PROVE  k + 1 \in S
  <2>1. PICK g : LengthsTo(g, ies, k)
    BY <1>2
  <2> DEFINE h == [i \in 1..(k + 1) |-> IF i = k + 1 THEN g[k] + LengthOf(ies[k]) ELSE g[i]]
  <2>2. ASSUME NEW i \in 1..(k + 1)
        PROVE  h[i] = IF i = 1 THEN 0 ELSE h[i - 1] + LengthOf(ies[i - 1])
    <3>1. CASE i = k + 1
      BY <3>1
    <3>2. CASE i \in 1..k
      <4>1. h[i] = g[i] /\ (i # 1 => h[i - 1] = g[i - 1])
        BY <3>2
      <4>2. g[i] = IF i = 1 THEN 0 ELSE g[i - 1] + LengthOf(ies[i - 1])
        BY <2>1, <3>2 DEF LengthsTo
      <4> QED  BY <4>1, <4>2
    <3> QED  BY <3>1, <3>2
  <2>3. h = [i \in 1..(k + 1) |-> IF i = 1 THEN 0 ELSE h[i - 1] + LengthOf(ies[i - 1])]
    BY <2>2
  <2>4. LengthsTo(h, ies, k + 1)
    BY <2>3 DEF LengthsTo
  <2> QED  BY <2>4
<1> HIDE DEF S
<1>3. Ladder(S, 1, Len(ies) + 1)
  BY <1>1, <1>2 DEF Ladder
<1>4. Len(ies) + 1 \in S
  BY <1>3, Climb
<1> QED  BY <1>4 DEF S, Lengths, LengthsTo

LEMMA LengthsAre ==
  ASSUME NEW ies, Len(ies) \in Nat, NEW g, Lengths(g, ies)
  PROVE  LengthBefore(ies) = g
<1> DEFINE sum == CHOOSE sum : sum = [i \in 1..(Len(ies) + 1) |->
                     IF i = 1 THEN 0
                     ELSE sum[i - 1] + (IF ies[i - 1].len = VarLen THEN 1 ELSE ies[i - 1].len)]
<1>1. LengthBefore(ies) = sum
  BY DEF LengthBefore
<1>2. g = [i \in 1..(Len(ies) + 1) |->
             IF i = 1 THEN 0
             ELSE g[i - 1] + (IF ies[i - 1].len = VarLen THEN 1 ELSE ies[i - 1].len)]
  BY DEF Lengths, LengthOf
<1>3. sum = [i \in 1..(Len(ies) + 1) |->
               IF i = 1 THEN 0
               ELSE sum[i - 1] + (IF ies[i - 1].len = VarLen THEN 1 ELSE ies[i - 1].len)]
  BY <1>2
<1> HIDE DEF sum
<1> DEFINE S == {k \in 1..(Len(ies) + 1) : sum[k] = g[k]}
<1>4. 1 \in S
  BY <1>2, <1>3
<1>5. ASSUME NEW k \in 1..Len(ies), k \in S
      PROVE  k + 1 \in S
  <2>1. k + 1 \in 1..(Len(ies) + 1) /\ k + 1 # 1 /\ (k + 1) - 1 = k
    OBVIOUS
  <2>2. sum[k + 1] = sum[k] + (IF ies[k].len = VarLen THEN 1 ELSE ies[k].len)
    BY <1>3, <2>1
  <2>3. g[k + 1] = g[k] + (IF ies[k].len = VarLen THEN 1 ELSE ies[k].len)
    BY <1>2, <2>1
  <2> QED  BY <1>5, <2>1, <2>2, <2>3
<1> HIDE DEF S
<1>6. Ladder(S, 1, Len(ies) + 1)
  BY <1>4, <1>5 DEF Ladder
<1>7. \A k \in 1..(Len(ies) + 1) : k \in S
  BY <1>6, Climb
<1>8. \A k \in 1..(Len(ies) + 1) : sum[k] = g[k]
  BY <1>7 DEF S
<1>9. sum = g
  BY <1>2, <1>3, <1>8
<1> QED  BY <1>1, <1>9

\* Fields with the lengths of some specifiers have their least lengths.
LEMMA SameLengths ==
  ASSUME NEW ies, NEW fields, Len(ies) \in Nat, Len(fields) = Len(ies),
         \A i \in 1..Len(ies) : fields[i].len = ies[i].len
  PROVE  LengthBefore(fields) = LengthBefore(ies)
<1>1. PICK g : Lengths(g, ies)
  BY LengthsExist
<1>2. \A i \in 1..(Len(ies) + 1) : i # 1 => LengthOf(fields[i - 1]) = LengthOf(ies[i - 1])
  BY DEF LengthOf
<1>3. g = [i \in 1..(Len(fields) + 1) |-> IF i = 1 THEN 0 ELSE g[i - 1] + LengthOf(fields[i - 1])]
  BY <1>1, <1>2 DEF Lengths
<1>4. Lengths(g, fields)
  BY <1>3 DEF Lengths
<1>5. LengthBefore(ies) = g
  BY <1>1, LengthsAre
<1>6. LengthBefore(fields) = g
  BY <1>4, LengthsAre
<1> QED  BY <1>5, <1>6

-----------------------------------------------------------------------------
(* Bytes *)

Byte == 0..255
IsBytes(m) == m \in Seq(Byte)

LEMMA Bytes ==
  ASSUME NEW x \in Byte
  PROVE  x \in Nat /\ x <= 255
BY DEF Byte

\* Places that may be read, and what is read there.
LEMMA Read8 ==
  ASSUME NEW m, IsBytes(m), NEW p \in Nat, p + 1 <= Len(m)
  PROVE  U8(m, p) \in Nat /\ U8(m, p) <= 255
<1>1. p + 1 \in 1..Len(m)
  BY LenProperties DEF IsBytes
<1>2. m[p + 1] \in Byte
  BY <1>1, ElementOfSeq DEF IsBytes
<1> QED  BY <1>2, Bytes DEF U8

LEMMA Read16 ==
  ASSUME NEW m, IsBytes(m), NEW p \in Nat, p + 2 <= Len(m)
  PROVE  U16(m, p) \in Nat /\ U16(m, p) <= 65535
<1>1. p + 1 \in 1..Len(m) /\ p + 2 \in 1..Len(m)
  BY LenProperties DEF IsBytes
<1>2. m[p + 1] \in Byte /\ m[p + 2] \in Byte
  BY <1>1, ElementOfSeq DEF IsBytes
<1> DEFINE x == m[p + 1]
           y == m[p + 2]
<1>3. U16(m, p) = 256 * x + y
  BY DEF U16
<1>4. x \in Nat /\ x <= 255 /\ y \in Nat /\ y <= 255
  BY <1>2, Bytes
<1> HIDE DEF x, y
<1> QED  BY <1>3, <1>4

-----------------------------------------------------------------------------
(* Fields of a record *)

PrefixFits(m, end, p) == p + 1 <= end /\ (U8(m, p) = 255 => p + 3 <= end)
NextPlace(m, end, f, p) ==
  IF f.len # VarLen THEN p + f.len
  ELSE IF ~PrefixFits(m, end, p) THEN end + 1
  ELSE p + VarPrefix(m, p) + VarSize(m, p)

\* The recursion of RecordEnd.
Places(g, m, fields, at, end, n) ==
  g = [i \in 0..n |-> IF i = 0 THEN at ELSE NextPlace(m, end, fields[i], g[i - 1])]

LEMMA PlacesExist ==
  ASSUME NEW m, NEW fields, NEW at, NEW end, NEW n \in Nat
  PROVE  \E g : Places(g, m, fields, at, end, n)
<1> DEFINE S == {k \in Nat : \E g : Places(g, m, fields, at, end, k)}
<1>1. 0 \in S
  <2> DEFINE g == [i \in 0..0 |-> at]
  <2>1. g = [i \in 0..0 |-> IF i = 0 THEN at ELSE NextPlace(m, end, fields[i], g[i - 1])]
    OBVIOUS
  <2>2. Places(g, m, fields, at, end, 0)
    BY <2>1 DEF Places
  <2> QED  BY <2>2
<1>2. ASSUME NEW k \in 0..(n - 1), k \in S
      PROVE  k + 1 \in S
  <2>1. PICK g : Places(g, m, fields, at, end, k)
    BY <1>2
  <2> DEFINE h == [i \in 0..(k + 1) |->
                     IF i = k + 1 THEN NextPlace(m, end, fields[k + 1], g[k]) ELSE g[i]]
  <2>2. ASSUME NEW i \in 0..(k + 1)
        PROVE  h[i] = IF i = 0 THEN at ELSE NextPlace(m, end, fields[i], h[i - 1])
    <3>1. CASE i = k + 1
      <4>1. h[i - 1] = g[k] /\ i # 0
        BY <3>1
      <4> QED  BY <3>1, <4>1
    <3>2. CASE i \in 0..k
      <4>1. h[i] = g[i] /\ (i # 0 => h[i - 1] = g[i - 1])
        BY <3>2
      <4>2. g[i] = IF i = 0 THEN at ELSE NextPlace(m, end, fields[i], g[i - 1])
        BY <2>1, <3>2 DEF Places
      <4> QED  BY <4>1, <4>2
    <3> QED  BY <3>1, <3>2
  <2>3. h = [i \in 0..(k + 1) |-> IF i = 0 THEN at ELSE NextPlace(m, end, fields[i], h[i - 1])]
    BY <2>2
  <2>4. Places(h, m, fields, at, end, k + 1)
    BY <2>3 DEF Places
  <2> QED  BY <2>4
<1> HIDE DEF S
<1>3. Ladder(S, 0, n)
  BY <1>1, <1>2 DEF Ladder
<1>4. n \in S
  BY <1>3, Climb
<1> QED  BY <1>4 DEF S

LEMMA RecordEndIs ==
  ASSUME NEW m, NEW t, Len(t.fields) \in Nat, NEW at, NEW end
  PROVE  \E g : /\ Places(g, m, t.fields, at, end, Len(t.fields))
                /\ RecordEnd(m, t, at, end) = g[Len(t.fields)]
<1> DEFINE fields == t.fields
           n == Len(fields)
           prefixFits(p) == p + 1 <= end /\ (U8(m, p) = 255 => p + 3 <= end)
           place == CHOOSE place : place = [i \in 0..Len(t.fields) |->
                      IF i = 0 THEN at
                      ELSE IF t.fields[i].len # VarLen THEN place[i - 1] + t.fields[i].len
                           ELSE IF ~prefixFits(place[i - 1]) THEN end + 1
                           ELSE place[i - 1] + VarPrefix(m, place[i - 1]) + VarSize(m, place[i - 1])]
<1>1. RecordEnd(m, t, at, end) = place[n]
  BY DEF RecordEnd
<1>2. PICK g : Places(g, m, fields, at, end, n)
  BY PlacesExist
<1>3. \E g_ : g_ = [i \in 0..Len(t.fields) |->
                IF i = 0 THEN at
                ELSE IF t.fields[i].len # VarLen THEN g_[i - 1] + t.fields[i].len
                     ELSE IF ~prefixFits(g_[i - 1]) THEN end + 1
                     ELSE g_[i - 1] + VarPrefix(m, g_[i - 1]) + VarSize(m, g_[i - 1])]
  BY <1>2 DEF Places, NextPlace, PrefixFits
<1>4. place = [i \in 0..Len(t.fields) |->
                IF i = 0 THEN at
                ELSE IF t.fields[i].len # VarLen THEN place[i - 1] + t.fields[i].len
                     ELSE IF ~prefixFits(place[i - 1]) THEN end + 1
                     ELSE place[i - 1] + VarPrefix(m, place[i - 1]) + VarSize(m, place[i - 1])]
  BY <1>3
<1> HIDE DEF place
<1>5. Places(place, m, fields, at, end, n)
  BY <1>4 DEF Places, NextPlace, PrefixFits
<1> QED  BY <1>1, <1>5

\* Prefix and content of a field at a place.
PrefixOf(m, f, p) == IF f.len = VarLen THEN VarPrefix(m, p) ELSE 0
SizeOf(m, f, p) == IF f.len = VarLen THEN VarSize(m, p) ELSE f.len

LEMMA PrefixReads ==
  ASSUME NEW m, IsBytes(m), NEW p \in Nat, NEW end \in Nat, end <= Len(m), PrefixFits(m, end, p)
  PROVE  VarPrefix(m, p) \in Nat /\ VarPrefix(m, p) >= 1 /\ VarSize(m, p) \in Nat
<1>1. Len(m) \in Nat
  BY LenProperties DEF IsBytes
<1>2. p + 1 <= Len(m) /\ (U8(m, p) = 255 => p + 3 <= Len(m))
  BY <1>1 DEF PrefixFits
<1>3. U8(m, p) \in Nat
  BY <1>2, Read8
<1>4. U8(m, p) = 255 => U16(m, p + 1) \in Nat
  <2> SUFFICES ASSUME U8(m, p) = 255 PROVE U16(m, p + 1) \in Nat
    OBVIOUS
  <2>1. p + 1 \in Nat /\ (p + 1) + 2 <= Len(m)
    BY <1>1, <1>2
  <2> QED  BY <2>1, Read16
<1> QED  BY <1>3, <1>4 DEF VarPrefix, VarSize

\* A step of the recursion over fields: behind the end there is no way back.
PlaceStep(m, end, f, p) ==
  LET q == NextPlace(m, end, f, p)
  IN  /\ q \in Nat
      /\ p > end => q > end
      /\ q <= end => /\ q = p + PrefixOf(m, f, p) + SizeOf(m, f, p)
                     /\ p <= q /\ PrefixOf(m, f, p) \in Nat /\ SizeOf(m, f, p) \in Nat
LEMMA NextPlaceIs ==
  ASSUME NEW m, IsBytes(m), NEW f, f.len \in Nat, NEW p \in Nat, NEW end \in Nat, end <= Len(m)
  PROVE  PlaceStep(m, end, f, p)
<1>1. CASE f.len # VarLen
  BY <1>1 DEF PlaceStep, NextPlace, PrefixOf, SizeOf
<1>2. CASE f.len = VarLen /\ ~PrefixFits(m, end, p)
  BY <1>2 DEF PlaceStep, NextPlace
<1>3. CASE f.len = VarLen /\ PrefixFits(m, end, p)
  <2>1. VarPrefix(m, p) \in Nat /\ VarPrefix(m, p) >= 1 /\ VarSize(m, p) \in Nat
    BY <1>3, PrefixReads
  <2>2. NextPlace(m, end, f, p) = p + VarPrefix(m, p) + VarSize(m, p)
    BY <1>3 DEF NextPlace
  <2>3. PrefixOf(m, f, p) = VarPrefix(m, p) /\ SizeOf(m, f, p) = VarSize(m, p)
    BY <1>3 DEF PrefixOf, SizeOf
  <2> QED  BY <2>1, <2>2, <2>3 DEF PlaceStep
<1> QED  BY <1>1, <1>2, <1>3

HasLengths(fields) == Len(fields) \in Nat /\ \A i \in 1..Len(fields) : fields[i].len \in Nat

\* Where fields are that end before the end.
Within(g, m, fields, at, end) ==
  LET n == Len(fields)
  IN  /\ \A i \in 0..n : g[i] \in Nat /\ at <= g[i] /\ g[i] <= g[n]
      /\ \A i \in 1..n :
           /\ g[i] = g[i - 1] + PrefixOf(m, fields[i], g[i - 1]) + SizeOf(m, fields[i], g[i - 1])
           /\ PrefixOf(m, fields[i], g[i - 1]) \in Nat /\ SizeOf(m, fields[i], g[i - 1]) \in Nat
      /\ g[0] = at

LEMMA PlacesNat ==
  ASSUME NEW m, IsBytes(m), NEW fields, HasLengths(fields), NEW at \in Nat,
         NEW end \in Nat, end <= Len(m), NEW g, Places(g, m, fields, at, end, Len(fields))
  PROVE  \A i \in 0..Len(fields) : g[i] \in Nat
<1> DEFINE n == Len(fields)
<1>1. n \in Nat
  BY DEF HasLengths
<1>2. \A i \in 1..n : g[i] = NextPlace(m, end, fields[i], g[i - 1])
  BY DEF Places
<1>3. g[0] = at
  BY <1>1 DEF Places
<1>4. ASSUME NEW i \in 1..n, g[i - 1] \in Nat
      PROVE  PlaceStep(m, end, fields[i], g[i - 1])
  BY <1>4, NextPlaceIs DEF HasLengths
<1> DEFINE S == {i \in 0..n : g[i] \in Nat}
<1>5. \A i \in 0..n : g[i] \in Nat
  <2>1. 0 \in S
    BY <1>1, <1>3
  <2>2. ASSUME NEW k \in 0..(n - 1), k \in S PROVE k + 1 \in S
    <3>1. k + 1 \in 1..n /\ k + 1 \in 0..n /\ (k + 1) - 1 = k /\ g[k] \in Nat
      BY <1>1, <2>2
    <3>2. PlaceStep(m, end, fields[k + 1], g[k])
      BY <1>4, <3>1
    <3>3. g[k + 1] = NextPlace(m, end, fields[k + 1], g[k])
      BY <1>2, <3>1
    <3> QED  BY <3>1, <3>2, <3>3 DEF PlaceStep
  <2> HIDE DEF S
  <2>3. Ladder(S, 0, n)
    BY <2>1, <2>2 DEF Ladder
  <2>4. \A k \in 0..n : k \in S
    BY <1>1, <2>3, Climb
  <2> QED  BY <2>4 DEF S
<1> QED  BY <1>5

LEMMA PlacesWithin ==
  ASSUME NEW m, IsBytes(m), NEW fields, HasLengths(fields), NEW at \in Nat,
         NEW end \in Nat, end <= Len(m), NEW g, Places(g, m, fields, at, end, Len(fields)),
         g[Len(fields)] <= end
  PROVE  Within(g, m, fields, at, end)
<1> DEFINE n == Len(fields)
<1>1. n \in Nat
  BY DEF HasLengths
<1>2. \A i \in 1..n : g[i] = NextPlace(m, end, fields[i], g[i - 1])
  BY DEF Places
<1>3. g[0] = at
  BY <1>1 DEF Places
<1>4. ASSUME NEW i \in 1..n, g[i - 1] \in Nat
      PROVE  PlaceStep(m, end, fields[i], g[i - 1])
  BY <1>4, NextPlaceIs DEF HasLengths
<1>5. \A i \in 0..n : g[i] \in Nat
  BY PlacesNat
<1>6. \A i \in 1..n : /\ g[i - 1] > end => g[i] > end
                      /\ g[i] <= end => /\ g[i - 1] <= g[i]
                                        /\ g[i] = g[i - 1] + PrefixOf(m, fields[i], g[i - 1])
                                                    + SizeOf(m, fields[i], g[i - 1])
                                        /\ PrefixOf(m, fields[i], g[i - 1]) \in Nat
                                        /\ SizeOf(m, fields[i], g[i - 1]) \in Nat
  <2> SUFFICES ASSUME NEW i \in 1..n
               PROVE  /\ g[i - 1] > end => g[i] > end
                      /\ g[i] <= end => /\ g[i - 1] <= g[i]
                                        /\ g[i] = g[i - 1] + PrefixOf(m, fields[i], g[i - 1])
                                                    + SizeOf(m, fields[i], g[i - 1])
                                        /\ PrefixOf(m, fields[i], g[i - 1]) \in Nat
                                        /\ SizeOf(m, fields[i], g[i - 1]) \in Nat
    OBVIOUS
  <2>1. i - 1 \in 0..n
    BY <1>1
  <2>2. PlaceStep(m, end, fields[i], g[i - 1]) /\ g[i] = NextPlace(m, end, fields[i], g[i - 1])
    BY <1>2, <1>4, <1>5, <2>1
  <2> QED  BY <2>2 DEF PlaceStep
<1>7. \A i \in 0..n : g[i] <= end
  <2> SUFFICES ASSUME NEW j \in 0..n, g[j] > end PROVE FALSE
    BY <1>5
  <2> DEFINE T == {i \in 0..n : g[i] > end}
  <2>1. j \in T
    OBVIOUS
  <2>2. ASSUME NEW k \in j..(n - 1), k \in T PROVE k + 1 \in T
    <3>1. k + 1 \in 1..n /\ (k + 1) - 1 = k
      BY <1>1
    <3> QED  BY <1>6, <2>2, <3>1
  <2> HIDE DEF T
  <2>3. Ladder(T, j, n)
    BY <2>1, <2>2 DEF Ladder
  <2>4. n \in T
    BY <1>1, <2>3, Climb
  <2> QED  BY <1>1, <1>5, <2>4 DEF T
<1>8. \A i \in 1..n : /\ g[i - 1] <= g[i]
                      /\ g[i] = g[i - 1] + PrefixOf(m, fields[i], g[i - 1]) + SizeOf(m, fields[i], g[i - 1])
                      /\ PrefixOf(m, fields[i], g[i - 1]) \in Nat /\ SizeOf(m, fields[i], g[i - 1]) \in Nat
  BY <1>1, <1>6, <1>7
<1>9. \A i \in 0..n : at <= g[i]
  <2> DEFINE T == {i \in 0..n : at <= g[i]}
  <2>1. 0 \in T
    BY <1>1, <1>3
  <2>2. ASSUME NEW k \in 0..(n - 1), k \in T PROVE k + 1 \in T
    <3>1. k + 1 \in 1..n /\ (k + 1) - 1 = k /\ k \in 0..n /\ k + 1 \in 0..n
      BY <1>1
    <3>2. g[k] <= g[k + 1] /\ g[k] \in Nat /\ g[k + 1] \in Nat
      BY <1>5, <1>8, <3>1
    <3> QED  BY <2>2, <3>1, <3>2
  <2> HIDE DEF T
  <2>3. Ladder(T, 0, n)
    BY <2>1, <2>2 DEF Ladder
  <2>4. \A k \in 0..n : k \in T
    BY <1>1, <2>3, Climb
  <2> QED  BY <2>4 DEF T
<1>10. \A i \in 0..n : g[i] <= g[n]
  <2> SUFFICES ASSUME NEW j \in 0..n PROVE g[j] <= g[n]
    OBVIOUS
  <2> DEFINE T == {i \in 0..n : g[j] <= g[i]}
  <2>1. j \in T
    BY <1>5
  <2>2. ASSUME NEW k \in j..(n - 1), k \in T PROVE k + 1 \in T
    <3>1. k + 1 \in 1..n /\ (k + 1) - 1 = k /\ k \in 0..n /\ k + 1 \in 0..n
      BY <1>1
    <3>2. g[k] <= g[k + 1] /\ g[k] \in Nat /\ g[k + 1] \in Nat /\ g[j] \in Nat
      BY <1>5, <1>8, <3>1
    <3> QED  BY <2>2, <3>1, <3>2
  <2> HIDE DEF T
  <2>3. Ladder(T, j, n)
    BY <2>1, <2>2 DEF Ladder
  <2>4. n \in T
    BY <1>1, <2>3, Climb
  <2> QED  BY <2>4 DEF T
<1> QED  BY <1>3, <1>5, <1>8, <1>9, <1>10 DEF Within

\* In a template of fixed lengths the recursion gives the least lengths.
LEMMA FixedPlaces ==
  ASSUME NEW m, NEW fields, HasLengths(fields), \A i \in 1..Len(fields) : fields[i].len # VarLen,
         NEW at \in Nat, NEW end, NEW g, Places(g, m, fields, at, end, Len(fields))
  PROVE  /\ LengthBefore(fields)[Len(fields) + 1] \in Nat
         /\ g[Len(fields)] = at + LengthBefore(fields)[Len(fields) + 1]
<1> DEFINE n == Len(fields)
           L == LengthBefore(fields)
<1>1. n \in Nat
  BY DEF HasLengths
<1>2. PICK h : Lengths(h, fields)
  BY <1>1, LengthsExist
<1>3. L = h
  BY <1>1, <1>2, LengthsAre
<1>4. \A i \in 1..(n + 1) : h[i] = IF i = 1 THEN 0 ELSE h[i - 1] + LengthOf(fields[i - 1])
  BY <1>2 DEF Lengths
<1>5. \A i \in 0..n : g[i] = IF i = 0 THEN at ELSE NextPlace(m, end, fields[i], g[i - 1])
  BY DEF Places
<1> DEFINE S == {i \in 0..n : h[i + 1] \in Nat /\ g[i] = at + h[i + 1]}
<1>6. 0 \in S
  <2>1. h[1] = 0 /\ g[0] = at
    BY <1>1, <1>4, <1>5
  <2> QED  BY <1>1, <2>1
<1>7. ASSUME NEW k \in 0..(n - 1), k \in S PROVE k + 1 \in S
  <2>1. k + 1 \in 1..n /\ (k + 1) - 1 = k /\ k + 2 \in 1..(n + 1) /\ (k + 2) - 1 = k + 1 /\ k + 2 # 1
    BY <1>1
  <2> DEFINE f == fields[k + 1]
  <2>2. f.len \in Nat /\ f.len # VarLen
    BY <2>1 DEF HasLengths
  <2>3. h[k + 2] = h[k + 1] + f.len
    BY <1>4, <2>1, <2>2 DEF LengthOf
  <2>4. g[k + 1] = NextPlace(m, end, f, g[k])
    BY <1>5, <2>1
  <2>5. g[k + 1] = g[k] + f.len
    BY <2>2, <2>4 DEF NextPlace
  <2> HIDE DEF f
  <2>6. h[k + 1] \in Nat /\ g[k] = at + h[k + 1]
    BY <1>7
  <2>7. (k + 1) + 1 = k + 2 /\ k + 1 \in 0..n
    BY <2>1
  <2> QED  BY <2>2, <2>3, <2>5, <2>6, <2>7
<1> HIDE DEF S
<1>8. Ladder(S, 0, n)
  BY <1>6, <1>7 DEF Ladder
<1>9. n \in S
  BY <1>1, <1>8, Climb
<1> QED  BY <1>3, <1>9 DEF S

\* The recursion of Offsets.
OffsetChain(g, rec, fields, a, off) ==
  g = [j \in a..(Len(fields) + 1) |->
         IF j = a THEN off
         ELSE g[j - 1] + PrefixAt(rec, fields[j - 1], g[j - 1]) + SizeAt(rec, fields[j - 1], g[j - 1])]

LEMMA OffsetsAre ==
  ASSUME NEW rec, NEW fields, Len(fields) \in Nat, NEW a \in 1..(Len(fields) + 1), NEW off,
         NEW g, OffsetChain(g, rec, fields, a, off)
  PROVE  Offsets(rec, fields, a, off) = g
<1> DEFINE n == Len(fields)
           offset == CHOOSE offset : offset = [j \in a..(Len(fields) + 1) |->
                       IF j = a THEN off
                       ELSE offset[j - 1] + PrefixAt(rec, fields[j - 1], offset[j - 1])
                              + SizeAt(rec, fields[j - 1], offset[j - 1])]
<1>1. Offsets(rec, fields, a, off) = offset
  BY DEF Offsets
<1>2. offset = [j \in a..(Len(fields) + 1) |->
                  IF j = a THEN off
                  ELSE offset[j - 1] + PrefixAt(rec, fields[j - 1], offset[j - 1])
                         + SizeAt(rec, fields[j - 1], offset[j - 1])]
  BY DEF OffsetChain
<1> HIDE DEF offset
<1>3. OffsetChain(offset, rec, fields, a, off)
  BY <1>2 DEF OffsetChain
<1> DEFINE S == {k \in a..(n + 1) : offset[k] = g[k]}
<1>4. a \in S
  <2>1. a \in a..(n + 1)
    OBVIOUS
  <2> QED  BY <1>3, <2>1 DEF OffsetChain
<1>5. ASSUME NEW k \in a..n, k \in S PROVE k + 1 \in S
  <2>1. k + 1 \in a..(n + 1) /\ k + 1 # a /\ (k + 1) - 1 = k
    OBVIOUS
  <2>2. offset[k + 1] = offset[k] + PrefixAt(rec, fields[k], offset[k]) + SizeAt(rec, fields[k], offset[k])
    BY <1>3, <2>1 DEF OffsetChain
  <2>3. g[k + 1] = g[k] + PrefixAt(rec, fields[k], g[k]) + SizeAt(rec, fields[k], g[k])
    BY <2>1 DEF OffsetChain
  <2> QED  BY <1>5, <2>1, <2>2, <2>3
<1> HIDE DEF S
<1>6. Ladder(S, a, n + 1)
  BY <1>4, <1>5 DEF Ladder
<1>7. \A k \in a..(n + 1) : k \in S
  BY <1>6, Climb
<1>8. \A k \in a..(n + 1) : offset[k] = g[k]
  BY <1>7 DEF S
<1>9. offset = g
  BY <1>3, <1>8 DEF OffsetChain
<1> QED  BY <1>1, <1>9

\* The fields of a record, from its start to its end.
Fields(rec) == rec.tmplt.fields
FieldOffsets(rec) == Offsets(rec, Fields(rec), 1, 0)
Filled(rec) ==
  LET n == Len(Fields(rec))
      o == FieldOffsets(rec)
  IN  /\ n \in Nat /\ rec.size \in Nat
      /\ OffsetChain(o, rec, Fields(rec), 1, 0)
      /\ \A j \in 1..(n + 1) : o[j] \in Nat /\ o[j] <= rec.size
      /\ \A j \in 1..n : /\ PrefixAt(rec, Fields(rec)[j], o[j]) \in Nat
                       /\ SizeAt(rec, Fields(rec)[j], o[j]) \in Nat
      /\ o[n + 1] = rec.size

LEMMA FilledBy ==
  ASSUME NEW m, NEW rec, HasLengths(Fields(rec)), NEW end, NEW p,
         rec.mem = m, rec.at \in Nat, Within(p, m, Fields(rec), rec.at, end),
         rec.size = p[Len(Fields(rec))] - rec.at
  PROVE  Filled(rec)
<1> DEFINE fields == Fields(rec)
           n == Len(fields)
           g == [j \in 1..(n + 1) |-> p[j - 1] - rec.at]
<1>1. n \in Nat
  BY DEF HasLengths
<1>2. \A i \in 0..n : p[i] \in Nat /\ rec.at <= p[i] /\ p[i] <= p[n]
  BY DEF Within
<1>3. ASSUME NEW i \in 1..n
      PROVE  /\ PrefixAt(rec, fields[i], g[i]) \in Nat /\ SizeAt(rec, fields[i], g[i]) \in Nat
             /\ g[i + 1] = g[i] + PrefixAt(rec, fields[i], g[i]) + SizeAt(rec, fields[i], g[i])
  <2> DEFINE f == fields[i]
  <2>1. i - 1 \in 0..n /\ i \in 0..n /\ i + 1 \in 1..(n + 1) /\ i \in 1..(n + 1) /\ (i + 1) - 1 = i
    BY <1>1
  <2>2. /\ p[i] = p[i - 1] + PrefixOf(m, f, p[i - 1]) + SizeOf(m, f, p[i - 1])
        /\ PrefixOf(m, f, p[i - 1]) \in Nat /\ SizeOf(m, f, p[i - 1]) \in Nat
    BY DEF Within
  <2>3. g[i + 1] = p[i] - rec.at /\ g[i] = p[i - 1] - rec.at
    BY <2>1
  <2>4. p[i] \in Nat /\ p[i - 1] \in Nat
    BY <1>2, <2>1
  <2>5. rec.at + g[i] = p[i - 1]
    BY <2>3, <2>4
  <2>6. PrefixAt(rec, f, g[i]) = PrefixOf(m, f, p[i - 1]) /\ SizeAt(rec, f, g[i]) = SizeOf(m, f, p[i - 1])
    BY <2>5 DEF PrefixAt, PrefixOf, SizeAt, SizeOf
  <2> HIDE DEF g, f
  <2>7. g[i + 1] = g[i] + PrefixAt(rec, f, g[i]) + SizeAt(rec, f, g[i])
    BY <2>2, <2>3, <2>4, <2>6
  <2> QED  BY <2>2, <2>6, <2>7 DEF f
<1>4. g = [j \in 1..(n + 1) |->
             IF j = 1 THEN 0
             ELSE g[j - 1] + PrefixAt(rec, fields[j - 1], g[j - 1]) + SizeAt(rec, fields[j - 1], g[j - 1])]
  <2> SUFFICES ASSUME NEW j \in 1..(n + 1)
               PROVE  g[j] = IF j = 1 THEN 0
                             ELSE g[j - 1] + PrefixAt(rec, fields[j - 1], g[j - 1])
                                    + SizeAt(rec, fields[j - 1], g[j - 1])
    OBVIOUS
  <2>1. CASE j = 1
    <3>1. g[j] = p[0] - rec.at
      BY <1>1, <2>1
    <3>2. p[0] = rec.at
      BY DEF Within
    <3> QED  BY <2>1, <3>1, <3>2
  <2>2. CASE j # 1
    <3>1. j - 1 \in 1..n /\ (j - 1) + 1 = j
      BY <1>1, <2>2
    <3> HIDE DEF g
    <3> QED  BY <1>3, <2>2, <3>1
  <2> QED  BY <2>1, <2>2
<1>5. OffsetChain(g, rec, fields, 1, 0)
  BY <1>4 DEF OffsetChain
<1>6. \A j \in 1..(n + 1) : g[j] \in Nat /\ g[j] <= rec.size
  <2> SUFFICES ASSUME NEW j \in 1..(n + 1) PROVE g[j] \in Nat /\ g[j] <= rec.size
    OBVIOUS
  <2>1. j - 1 \in 0..n /\ n \in 0..n
    BY <1>1
  <2> QED  BY <1>1, <1>2, <2>1
<1>7. g[n + 1] = rec.size /\ rec.size \in Nat
  <2>1. (n + 1) - 1 = n /\ n + 1 \in 1..(n + 1) /\ n \in 0..n
    BY <1>1
  <2> QED  BY <1>2, <2>1
<1> HIDE DEF g
<1>8. FieldOffsets(rec) = g
  <2>1. 1 \in 1..(n + 1)
    BY <1>1
  <2> QED  BY <1>1, <1>5, <2>1, OffsetsAre DEF FieldOffsets
<1> QED  BY <1>1, <1>3, <1>5, <1>6, <1>7, <1>8 DEF Filled

-----------------------------------------------------------------------------
(* Field specifiers *)

\* A step of template_parse_fields(): behind the end when a specifier is cut off.
IsLong(m, p) == U16(m, p) >= EnBit
IsWhole(m, end, p) == p + FieldLen <= end /\ (IsLong(m, p) => (p + FieldLen) + FieldLen <= end)
SpecLen(m, p) == (IF IsLong(m, p) THEN 2 ELSE 1) * FieldLen
SpecAfter(m, end, p) == IF p > end \/ ~IsWhole(m, end, p) THEN end + 1 ELSE p + SpecLen(m, p)
SpecAt(m, p) ==
  [id |-> U16(m, p) % EnBit,
   en |-> IF IsLong(m, p) THEN U32(m, p + FieldLen) ELSE 0,
   len |-> U16(m, p + 2)]

\* The recursion of ParseFields.
Specs(g, m, at, end, count) ==
  g = [i \in 1..(count + 1) |-> IF i = 1 THEN at ELSE SpecAfter(m, end, g[i - 1])]

LEMMA SpecsExist ==
  ASSUME NEW m, NEW at, NEW end, NEW count \in Nat
  PROVE  \E g : Specs(g, m, at, end, count)
<1> DEFINE S == {k \in Nat : \E g : Specs(g, m, at, end, k)}
<1>1. 0 \in S
  <2> DEFINE g == [i \in 1..(0 + 1) |-> at]
  <2>1. g = [i \in 1..(0 + 1) |-> IF i = 1 THEN at ELSE SpecAfter(m, end, g[i - 1])]
    OBVIOUS
  <2>2. Specs(g, m, at, end, 0)
    BY <2>1 DEF Specs
  <2> QED  BY <2>2
<1>2. ASSUME NEW k \in 0..(count - 1), k \in S
      PROVE  k + 1 \in S
  <2>1. PICK g : Specs(g, m, at, end, k)
    BY <1>2
  <2> DEFINE h == [i \in 1..((k + 1) + 1) |-> IF i = k + 2 THEN SpecAfter(m, end, g[k + 1]) ELSE g[i]]
  <2>2. ASSUME NEW i \in 1..((k + 1) + 1)
        PROVE  h[i] = IF i = 1 THEN at ELSE SpecAfter(m, end, h[i - 1])
    <3>1. CASE i = k + 2
      <4>1. h[i - 1] = g[k + 1] /\ i # 1
        BY <3>1
      <4> QED  BY <3>1, <4>1
    <3>2. CASE i \in 1..(k + 1)
      <4>1. h[i] = g[i] /\ (i # 1 => h[i - 1] = g[i - 1])
        BY <3>2
      <4>2. g[i] = IF i = 1 THEN at ELSE SpecAfter(m, end, g[i - 1])
        BY <2>1, <3>2 DEF Specs
      <4> QED  BY <4>1, <4>2
    <3> QED  BY <3>1, <3>2
  <2>3. h = [i \in 1..((k + 1) + 1) |-> IF i = 1 THEN at ELSE SpecAfter(m, end, h[i - 1])]
    BY <2>2
  <2>4. Specs(h, m, at, end, k + 1)
    BY <2>3 DEF Specs
  <2> QED  BY <2>4
<1> HIDE DEF S
<1>3. Ladder(S, 0, count)
  BY <1>1, <1>2 DEF Ladder
<1>4. count \in S
  BY <1>3, Climb
<1> QED  BY <1>4 DEF S

LEMMA OnceAfter ==
  ASSUME NEW m, NEW end, NEW p
  PROVE  (CHOOSE y \in {SpecAfter(m, end, z) : z \in {p}} : TRUE) = SpecAfter(m, end, p)
<1>1. {SpecAfter(m, end, z) : z \in {p}} = {SpecAfter(m, end, p)}
  OBVIOUS
<1> QED  BY <1>1

\* What ParseFields says in terms of the places of the specifiers.
ParsedBy(g, m, at, end, count) ==
  IF at + count * FieldLen > end \/ g[count + 1] > end THEN ParseError
  ELSE [rc |-> "OK", len |-> g[count + 1] - at, ies |-> [i \in 1..count |-> SpecAt(m, g[i])]]

LEMMA ParseFieldsIs ==
  ASSUME NEW m, NEW at, NEW end, NEW count \in Nat, NEW g, Specs(g, m, at, end, count)
  PROVE  ParseFields(m, at, end, count) = ParsedBy(g, m, at, end, count)
<1> DEFINE Spec4(p) == p + FieldLen <= end
           Long(p) == U16(m, p) >= EnBit
           Whole(p) == Spec4(p) /\ (Long(p) => Spec4(p + FieldLen))
           After(p) == IF p > end \/ ~Whole(p) THEN end + 1
                       ELSE p + (IF Long(p) THEN 2 ELSE 1) * FieldLen
           place == CHOOSE place : place = [i \in 1..(count + 1) |->
                      IF i = 1 THEN at ELSE Once(After, place[i - 1])]
           ie(p) == [id |-> U16(m, p) % EnBit,
                     en |-> IF Long(p) THEN U32(m, p + FieldLen) ELSE 0,
                     len |-> U16(m, p + 2)]
<1>1. ParseFields(m, at, end, count) =
        IF at + count * FieldLen > end \/ place[count + 1] > end THEN ParseError
        ELSE [rc |-> "OK", len |-> place[count + 1] - at, ies |-> [i \in 1..count |-> ie(place[i])]]
  BY DEF ParseFields
<1>2. ASSUME NEW p PROVE Once(After, p) = SpecAfter(m, end, p)
  <2>1. \A z : After(z) = SpecAfter(m, end, z)
    BY DEF SpecAfter, IsWhole, IsLong, SpecLen
  <2> HIDE DEF After
  <2>2. Once(After, p) = CHOOSE y \in {After(z) : z \in {p}} : TRUE
    BY DEF Once
  <2>3. {After(z) : z \in {p}} = {SpecAfter(m, end, z) : z \in {p}}
    BY <2>1
  <2> QED  BY <2>2, <2>3, OnceAfter
<1> HIDE DEF After
<1>3. g = [i \in 1..(count + 1) |-> IF i = 1 THEN at ELSE Once(After, g[i - 1])]
  BY <1>2 DEF Specs
<1>4. place = [i \in 1..(count + 1) |-> IF i = 1 THEN at ELSE Once(After, place[i - 1])]
  BY <1>3
<1> HIDE DEF place
<1>5. place = [i \in 1..(count + 1) |-> IF i = 1 THEN at ELSE SpecAfter(m, end, place[i - 1])]
  BY <1>2, <1>4
<1> DEFINE S == {k \in 1..(count + 1) : place[k] = g[k]}
<1>6. 1 \in S
  BY <1>5 DEF Specs
<1>7. ASSUME NEW k \in 1..count, k \in S PROVE k + 1 \in S
  <2>1. k + 1 \in 1..(count + 1) /\ k + 1 # 1 /\ (k + 1) - 1 = k
    OBVIOUS
  <2>2. place[k + 1] = SpecAfter(m, end, place[k]) /\ g[k + 1] = SpecAfter(m, end, g[k])
    BY <1>5, <2>1 DEF Specs
  <2> QED  BY <1>7, <2>1, <2>2
<1> HIDE DEF S
<1>8. Ladder(S, 1, count + 1)
  BY <1>6, <1>7 DEF Ladder
<1>9. \A k \in 1..(count + 1) : k \in S
  BY <1>8, Climb
<1>10. place = g
  <2>1. \A k \in 1..(count + 1) : place[k] = g[k]
    BY <1>9 DEF S
  <2> QED  BY <1>5, <2>1 DEF Specs
<1>11. \A p : ie(p) = SpecAt(m, p)
  BY DEF SpecAt, IsLong
<1> HIDE DEF ie
<1> QED  BY <1>1, <1>10, <1>11 DEF ParsedBy

\* Specifiers that end before the end: where they are, and that they can be read.
SpecsWithin(g, m, at, end, count) ==
  /\ \A i \in 1..(count + 1) : g[i] \in Nat /\ at <= g[i] /\ g[i] <= g[count + 1]
  /\ \A i \in 1..count : /\ IsWhole(m, g[count + 1], g[i])
                         /\ g[i + 1] = g[i] + SpecLen(m, g[i])
                         /\ U16(m, g[i]) \in Nat
                         /\ U16(m, g[i] + 2) \in Nat /\ U16(m, g[i] + 2) <= 65535

SpecStep(m, end, p) ==
  LET q == SpecAfter(m, end, p)
  IN  /\ q \in Nat
      /\ p > end => q > end
      /\ q <= end => /\ q = p + SpecLen(m, p) /\ p + FieldLen <= q
                     /\ IsLong(m, p) => (p + FieldLen) + FieldLen <= q
                     /\ U16(m, p) \in Nat /\ U16(m, p + 2) \in Nat /\ U16(m, p + 2) <= 65535
LEMMA SpecAfterIs ==
  ASSUME NEW m, IsBytes(m), NEW p \in Nat, NEW end \in Nat, end <= Len(m)
  PROVE  SpecStep(m, end, p)
<1>1. CASE p > end \/ ~IsWhole(m, end, p)
  BY <1>1 DEF SpecStep, SpecAfter
<1>2. CASE ~(p > end \/ ~IsWhole(m, end, p))
  <2>1. SpecAfter(m, end, p) = p + SpecLen(m, p)
    BY <1>2 DEF SpecAfter
  <2>2. SpecLen(m, p) = IF IsLong(m, p) THEN 8 ELSE 4
    BY DEF SpecLen, FieldLen
  <2>3. Len(m) \in Nat /\ p + 4 <= Len(m)
    BY <1>2, LenProperties DEF IsWhole, FieldLen, IsBytes
  <2>4. U16(m, p) \in Nat /\ U16(m, p + 2) \in Nat /\ U16(m, p + 2) <= 65535
    <3>1. p + 2 \in Nat /\ (p + 2) + 2 <= Len(m) /\ p + 2 <= Len(m)
      BY <2>3
    <3> QED  BY <2>3, <3>1, Read16
  <2> QED  BY <1>2, <2>1, <2>2, <2>4 DEF SpecStep, FieldLen
<1> QED  BY <1>1, <1>2

LEMMA SpecsAreWithin ==
  ASSUME NEW m, IsBytes(m), NEW at \in Nat, NEW end \in Nat, end <= Len(m), NEW count \in Nat,
         NEW g, Specs(g, m, at, end, count), g[count + 1] <= end
  PROVE  /\ SpecsWithin(g, m, at, end, count)
         /\ at + count * FieldLen <= g[count + 1]
<1> DEFINE n == count + 1
<1>1. g[1] = at /\ \A i \in 1..count : g[i + 1] = SpecAfter(m, end, g[i])
  <2>1. 1 \in 1..n
    OBVIOUS
  <2>2. \A i \in 1..count : i + 1 \in 1..n /\ i + 1 # 1 /\ (i + 1) - 1 = i
    OBVIOUS
  <2> QED  BY <2>1, <2>2 DEF Specs
<1>2. \A i \in 1..n : g[i] \in Nat
  <2> DEFINE S == {i \in 1..n : g[i] \in Nat}
  <2>1. 1 \in S
    BY <1>1
  <2>2. ASSUME NEW k \in 1..(n - 1), k \in S PROVE k + 1 \in S
    <3>1. k \in 1..count /\ k + 1 \in 1..n /\ g[k] \in Nat
      BY <2>2
    <3>2. SpecStep(m, end, g[k])
      BY <3>1, SpecAfterIs
    <3> QED  BY <1>1, <3>1, <3>2 DEF SpecStep
  <2> HIDE DEF S
  <2>3. Ladder(S, 1, n)
    BY <2>1, <2>2 DEF Ladder
  <2>4. \A k \in 1..n : k \in S
    BY <2>3, Climb
  <2> QED  BY <2>4 DEF S
<1>3. \A i \in 1..count :
         /\ g[i] > end => g[i + 1] > end
         /\ g[i + 1] <= end =>
              /\ g[i + 1] = g[i] + SpecLen(m, g[i]) /\ g[i] + FieldLen <= g[i + 1]
              /\ IsLong(m, g[i]) => (g[i] + FieldLen) + FieldLen <= g[i + 1]
              /\ U16(m, g[i]) \in Nat /\ U16(m, g[i] + 2) \in Nat /\ U16(m, g[i] + 2) <= 65535
  <2> TAKE i \in 1..count
  <2>1. i \in 1..n /\ g[i] \in Nat
    BY <1>2
  <2>2. SpecStep(m, end, g[i]) /\ g[i + 1] = SpecAfter(m, end, g[i])
    BY <1>1, <2>1, SpecAfterIs
  <2> QED  BY <2>2 DEF SpecStep
<1>4. \A i \in 1..n : g[i] <= end
  <2> SUFFICES ASSUME NEW j \in 1..n, g[j] > end PROVE FALSE
    BY <1>2
  <2> DEFINE T == {i \in 1..n : g[i] > end}
  <2>1. j \in T
    OBVIOUS
  <2>2. ASSUME NEW k \in j..(n - 1), k \in T PROVE k + 1 \in T
    <3>1. k \in 1..count /\ k + 1 \in 1..n
      OBVIOUS
    <3> QED  BY <1>3, <2>2, <3>1
  <2> HIDE DEF T
  <2>3. Ladder(T, j, n)
    BY <2>1, <2>2 DEF Ladder
  <2>4. n \in T
    BY <2>3, Climb
  <2> QED  BY <1>2, <2>4 DEF T
<1>5. \A i \in 1..count :
         /\ g[i + 1] = g[i] + SpecLen(m, g[i]) /\ g[i] + FieldLen <= g[i + 1]
         /\ IsLong(m, g[i]) => (g[i] + FieldLen) + FieldLen <= g[i + 1]
         /\ U16(m, g[i]) \in Nat /\ U16(m, g[i] + 2) \in Nat /\ U16(m, g[i] + 2) <= 65535
  <2> TAKE i \in 1..count
  <2>1. i + 1 \in 1..n
    OBVIOUS
  <2> QED  BY <1>3, <1>4, <2>1
<1>6. \A i \in 1..n : at + (i - 1) * FieldLen <= g[i]
  <2> DEFINE T == {i \in 1..n : at + (i - 1) * 4 <= g[i]}
  <2>1. 1 \in T
    BY <1>1
  <2>2. ASSUME NEW k \in 1..(n - 1), k \in T PROVE k + 1 \in T
    <3>1. k \in 1..count /\ k + 1 \in 1..n /\ k \in 1..n
      OBVIOUS
    <3>2. g[k] + 4 <= g[k + 1] /\ g[k] \in Nat /\ g[k + 1] \in Nat
      BY <1>2, <1>5, <3>1 DEF FieldLen
    <3> QED  BY <2>2, <3>1, <3>2
  <2> HIDE DEF T
  <2>3. Ladder(T, 1, n)
    BY <2>1, <2>2 DEF Ladder
  <2>4. \A k \in 1..n : k \in T
    BY <2>3, Climb
  <2> QED  BY <2>4 DEF T, FieldLen
<1>7. \A i \in 1..n : g[i] <= g[n]
  <2> SUFFICES ASSUME NEW j \in 1..n PROVE g[j] <= g[n]
    OBVIOUS
  <2> DEFINE T == {i \in 1..n : g[j] <= g[i]}
  <2>1. j \in T
    BY <1>2
  <2>2. ASSUME NEW k \in j..(n - 1), k \in T PROVE k + 1 \in T
    <3>1. k \in 1..count /\ k + 1 \in 1..n /\ k \in 1..n
      OBVIOUS
    <3>2. g[k] + 4 <= g[k + 1] /\ g[k] \in Nat /\ g[k + 1] \in Nat /\ g[j] \in Nat
      BY <1>2, <1>5, <3>1 DEF FieldLen
    <3> QED  BY <2>2, <3>1, <3>2
  <2> HIDE DEF T
  <2>3. Ladder(T, j, n)
    BY <2>1, <2>2 DEF Ladder
  <2>4. n \in T
    BY <2>3, Climb
  <2> QED  BY <2>4 DEF T
<1>8. \A i \in 1..n : g[i] \in Nat /\ at <= g[i] /\ g[i] <= g[n]
  <2> TAKE i \in 1..n
  <2>1. at + (i - 1) * 4 <= g[i] /\ g[i] \in Nat /\ g[i] <= g[n]
    BY <1>2, <1>6, <1>7 DEF FieldLen
  <2> QED  BY <2>1
<1>9. \A i \in 1..count : IsWhole(m, g[n], g[i])
  <2> TAKE i \in 1..count
  <2>1. i + 1 \in 1..n /\ i \in 1..n
    OBVIOUS
  <2>2. g[i] \in Nat /\ g[i + 1] \in Nat /\ g[n] \in Nat /\ g[i + 1] <= g[n]
    BY <1>8, <2>1
  <2>3. g[i] + FieldLen <= g[n]
    <3>1. g[i] + 4 <= g[i + 1]
      BY <1>5 DEF FieldLen
    <3> QED  BY <2>2, <3>1 DEF FieldLen
  <2>4. IsLong(m, g[i]) => (g[i] + FieldLen) + FieldLen <= g[n]
    <3>1. IsLong(m, g[i]) => (g[i] + 4) + 4 <= g[i + 1]
      BY <1>5 DEF FieldLen
    <3> QED  BY <2>2, <3>1 DEF FieldLen
  <2> QED  BY <2>3, <2>4 DEF IsWhole
<1>10. at + count * FieldLen <= g[n]
  <2>1. n \in 1..n /\ n - 1 = count
    OBVIOUS
  <2> QED  BY <1>6, <2>1
<1>11. SpecsWithin(g, m, at, end, count)
  BY <1>5, <1>8, <1>9 DEF SpecsWithin
<1> QED  BY <1>10, <1>11

\* To parse as much as the specifiers take gives the same as to parse more.
LEMMA ParseLess ==
  ASSUME NEW m, IsBytes(m), NEW at \in Nat, NEW end \in Nat, end <= Len(m), NEW count \in Nat,
         NEW g, Specs(g, m, at, end, count), ParsedBy(g, m, at, end, count).rc = "OK"
  PROVE  /\ g[count + 1] <= end /\ g[count + 1] \in Nat /\ at <= g[count + 1]
         /\ SpecsWithin(g, m, at, end, count)
         /\ ParseFields(m, at, g[count + 1], count) = ParsedBy(g, m, at, end, count)
<1> DEFINE n == count + 1
           stop == g[n]
<1>1. ~(at + count * FieldLen > end \/ stop > end)
  BY DEF ParsedBy, ParseError
<1>2. n \in 1..n /\ stop \in Nat /\ stop <= end
  <2>1. n \in 1..n
    OBVIOUS
  <2> DEFINE S == {i \in 1..n : g[i] \in Nat}
  <2>2. 1 \in S
    BY DEF Specs
  <2>3. ASSUME NEW k \in 1..(n - 1), k \in S PROVE k + 1 \in S
    <3>1. k + 1 \in 1..n /\ k + 1 # 1 /\ (k + 1) - 1 = k /\ g[k] \in Nat
      BY <2>3
    <3>2. SpecStep(m, end, g[k])
      BY <3>1, SpecAfterIs
    <3>3. g[k + 1] = SpecAfter(m, end, g[k])
      BY <3>1 DEF Specs
    <3> QED  BY <3>1, <3>2, <3>3 DEF SpecStep
  <2> HIDE DEF S
  <2>4. Ladder(S, 1, n)
    BY <2>2, <2>3 DEF Ladder
  <2>5. n \in S
    BY <2>1, <2>4, Climb
  <2> QED  BY <1>1, <2>1, <2>5 DEF S
<1>3. SpecsWithin(g, m, at, end, count) /\ at + count * FieldLen <= stop
  BY <1>2, SpecsAreWithin
<1>4. ASSUME NEW i \in 1..n
      PROVE  g[i] = IF i = 1 THEN at ELSE SpecAfter(m, stop, g[i - 1])
  <2>1. CASE i = 1
    BY <2>1 DEF Specs
  <2>2. CASE i # 1
    <3>1. i - 1 \in 1..count /\ (i - 1) + 1 = i /\ i - 1 \in 1..n
      BY <2>2
    <3>2. g[i] = g[i - 1] + SpecLen(m, g[i - 1]) /\ IsWhole(m, stop, g[i - 1]) /\ g[i - 1] <= stop
          /\ g[i - 1] \in Nat
      BY <1>3, <3>1 DEF SpecsWithin
    <3>3. ~(g[i - 1] > stop)
      BY <1>2, <3>2
    <3> QED  BY <2>2, <3>2, <3>3 DEF SpecAfter
  <2> QED  BY <2>1, <2>2
<1>5. DOMAIN g = 1..n /\ g = [i \in DOMAIN g |-> g[i]]
  BY DEF Specs
<1>6. g = [i \in 1..n |-> IF i = 1 THEN at ELSE SpecAfter(m, stop, g[i - 1])]
  BY <1>4, <1>5
<1>7. Specs(g, m, at, stop, count)
  BY <1>6 DEF Specs
<1>8. ParseFields(m, at, stop, count) = ParsedBy(g, m, at, stop, count)
  BY <1>7, ParseFieldsIs
<1>9. ~(at + count * FieldLen > stop \/ g[count + 1] > stop)
  BY <1>2, <1>3 DEF FieldLen
<1>10. ParsedBy(g, m, at, stop, count) = ParsedBy(g, m, at, end, count)
  BY <1>1, <1>9 DEF ParsedBy
<1>11. at <= stop
  BY <1>2, <1>3 DEF SpecsWithin
<1> QED  BY <1>2, <1>3, <1>8, <1>10, <1>11

-----------------------------------------------------------------------------
(* Templates *)

\* fds_template_parse() behind its header.
ParseRest(type, m, at, header, specs) ==
  IF specs.rc # "OK" THEN ParseError
  ELSE IF LengthBefore(specs.ies)[header.count + 1] > MaxRecord THEN ParseError
  ELSE [rc |-> "OK", len |-> header.len + specs.len,
        tmplt |-> ParsedTemplate(type, header, specs.ies, SubSeq(m, at + 1, at + header.len + specs.len))]

LEMMA ParseIs ==
  ASSUME NEW type, NEW m, NEW at, NEW len, NEW header, header = ParseHeader(type, m, at, len),
         header.rc = "OK"
  PROVE  Parse(type, m, at, len) =
           ParseRest(type, m, at, header, ParseFields(m, at + header.len, at + len, header.count))
<1> DEFINE Rest(specs) == ParseRest(type, m, at, header, specs)
           specs == ParseFields(m, at + header.len, at + len, header.count)
<1>1. Parse(type, m, at, len) = CHOOSE y \in {Rest(z) : z \in {specs}} : TRUE
  BY DEF Parse, Once, ParseRest
<1> HIDE DEF Rest
<1>2. {Rest(z) : z \in {specs}} = {Rest(specs)}
  OBVIOUS
<1>3. Parse(type, m, at, len) = Rest(specs)
  BY <1>1, <1>2
<1> QED  BY <1>3 DEF Rest

WholeTemplate(type, header, ies, raw, fields) ==
  [type |-> type, id |-> header.id, scope |-> header.scope, fields |-> fields, rev |-> <<>>,
   flags |-> ParsedFlags(fields), dataLen |-> LengthBefore(ies)[header.count + 1], raw |-> raw,
   opts |-> IF type = "options" THEN DetectOpts(fields, header.scope) ELSE {}]

LEMMA ParsedTemplateIs ==
  ASSUME NEW type, NEW header, NEW ies, NEW raw
  PROVE  ParsedTemplate(type, header, ies, raw) =
           WholeTemplate(type, header, ies, raw, ParsedFields(ies, header.scope))
<1> DEFINE Whole(fields) == WholeTemplate(type, header, ies, raw, fields)
           fields == ParsedFields(ies, header.scope)
<1>1. ParsedTemplate(type, header, ies, raw) = CHOOSE y \in {Whole(z) : z \in {fields}} : TRUE
  BY DEF ParsedTemplate, Once, WholeTemplate
<1> HIDE DEF Whole
<1>2. {Whole(z) : z \in {fields}} = {Whole(fields)}
  OBVIOUS
<1>3. ParsedTemplate(type, header, ies, raw) = Whole(fields)
  BY <1>1, <1>2
<1> QED  BY <1>3 DEF Whole

\* The template of specifiers keeps their number and lengths.
IesOK(ies, count) ==
  /\ count \in Nat /\ DOMAIN ies = 1..count /\ Len(ies) = count
  /\ \A i \in 1..count : ies[i].len \in 0..VarLen
Keeps(t, header, ies) ==
  /\ IsTemplate(t)
  /\ t.dataLen = LengthBefore(ies)[header.count + 1]
  /\ Len(t.fields) = header.count /\ t.scope = header.scope /\ t.type \in {"data", "options"}

LEMMA TemplateKeeps ==
  ASSUME NEW type \in {"data", "options"}, NEW header, NEW ies, NEW raw, IesOK(ies, header.count)
  PROVE  Keeps(ParsedTemplate(type, header, ies, raw), header, ies)
<1> DEFINE fields == ParsedFields(ies, header.scope)
           n == header.count
           t == ParsedTemplate(type, header, ies, raw)
<1>1. t = WholeTemplate(type, header, ies, raw, fields)
  BY ParsedTemplateIs
<1>2. n \in Nat /\ DOMAIN ies = 1..n /\ Len(ies) = n /\ \A i \in 1..n : ies[i].len \in 0..VarLen
  BY DEF IesOK
<1>3. fields = [i \in 1..n |->
        [id |-> ies[i].id, en |-> ies[i].en, len |-> ies[i].len, off |-> OffsetOf(ies, i),
         flags |-> OccurrenceFlags(ies, i) \cup (IF i <= header.scope THEN {"SCOPE"} ELSE {}),
         def |-> NoElem]]
  BY <1>2 DEF ParsedFields
<1>4. DOMAIN fields = 1..n /\ fields = [i \in 1..n |-> fields[i]] /\ \A i \in 1..n : fields[i].len = ies[i].len
  BY <1>3
<1>5. t.fields = fields /\ t.flags = ParsedFlags(fields) /\ t.scope = header.scope /\ t.type = type
      /\ t.dataLen = LengthBefore(ies)[n + 1]
  BY <1>1 DEF WholeTemplate
<1> HIDE DEF fields, t
<1> DEFINE Members == {fields[i] : i \in DOMAIN fields}
<1>6. fields \in Seq(Members) /\ Len(fields) = n
  <2>1. fields \in [1..n -> Members]
    BY <1>4
  <2> HIDE DEF Members
  <2>2. fields \in Seq(Members)
    BY <1>2, <2>1, SeqDef
  <2>3. Len(fields) \in Nat /\ DOMAIN fields = 1..Len(fields)
    BY <2>2, LenProperties
  <2>4. Len(fields) = n
    BY <1>2, <1>4, <2>3
  <2> QED  BY <2>2, <2>4
<1>7. LengthBefore(fields) = LengthBefore(ies)
  BY <1>2, <1>4, <1>6, SameLengths
<1>8. "DYNAMIC" \in ParsedFlags(fields) <=> \E i \in DOMAIN fields : fields[i].len = VarLen
  BY DEF ParsedFlags
<1>9. IsTemplate(t)
  <2>1. \A i \in DOMAIN t.fields : t.fields[i].len \in 0..VarLen
    BY <1>2, <1>4, <1>5
  <2>2. t.fields \in Seq({t.fields[i] : i \in DOMAIN t.fields})
    BY <1>5, <1>6
  <2>3. t.dataLen = LengthBefore(t.fields)[Len(t.fields) + 1]
    BY <1>5, <1>6, <1>7
  <2>4. "DYNAMIC" \in t.flags <=> \E i \in DOMAIN t.fields : t.fields[i].len = VarLen
    BY <1>5, <1>8
  <2> QED  BY <2>1, <2>2, <2>3, <2>4 DEF IsTemplate
<1>10. Keeps(t, header, ies)
  BY <1>5, <1>6, <1>9 DEF Keeps
<1> QED  BY <1>10 DEF t

\* Specifiers that were read have lengths of 16 bits.
LEMMA ParsedIes ==
  ASSUME NEW m, NEW at, NEW end, NEW count \in Nat, NEW g, SpecsWithin(g, m, at, end, count),
         ParsedBy(g, m, at, end, count).rc = "OK"
  PROVE  /\ IesOK(ParsedBy(g, m, at, end, count).ies, count)
         /\ ParsedBy(g, m, at, end, count).len = g[count + 1] - at
<1> DEFINE ies == [i \in 1..count |-> SpecAt(m, g[i])]
<1>1. ParsedBy(g, m, at, end, count) = [rc |-> "OK", len |-> g[count + 1] - at, ies |-> ies]
  BY DEF ParsedBy, ParseError
<1>2. DOMAIN ies = 1..count /\ Len(ies) = count
  OBVIOUS
<1>3. ASSUME NEW i \in 1..count PROVE ies[i].len \in 0..VarLen
  <2>1. ies[i].len = U16(m, g[i] + 2)
    BY DEF SpecAt
  <2>2. U16(m, g[i] + 2) \in Nat /\ U16(m, g[i] + 2) <= 65535
    BY DEF SpecsWithin
  <2>3. U16(m, g[i] + 2) <= VarLen
    BY <2>2 DEF VarLen
  <2>4. VarLen \in Nat
    BY DEF VarLen
  <2> HIDE DEF ies
  <2> QED  BY <2>1, <2>2, <2>3, <2>4
<1> HIDE DEF ies
<1>4. IesOK(ies, count)
  BY <1>2, <1>3 DEF IesOK
<1> QED  BY <1>1, <1>4

-----------------------------------------------------------------------------
(* Template Sets *)

DefHeader(it) == IF it.type = OptsSet THEN WdrlLen + 2 ELSE WdrlLen
DefCount(m, it) == U16(m, it.next + 2)
DefScope(m, it) == IF it.type = OptsSet THEN U16(m, it.next + 4) ELSE 0
DefSpecs(m, it) == ParseFields(m, it.next + DefHeader(it), it.end, DefCount(m, it))

\* What fds_tset_iter_definitions() has found out when it returns a definition.
Defines(m, it) ==
  /\ ~(it.next + MinDefinition(it.type) > it.end)
  /\ ~(it.type = OptsSet /\ (DefScope(m, it) = 0 \/ DefScope(m, it) > DefCount(m, it)))
  /\ ~(U16(m, it.next) < MinDset)
  /\ DefCount(m, it) # 0
  /\ DefSpecs(m, it).rc = "OK"
  /\ LengthBefore(DefSpecs(m, it).ies)[DefCount(m, it) + 1] # 0
  /\ ~(LengthBefore(DefSpecs(m, it).ies)[DefCount(m, it) + 1] > MaxRecord)

\* An iterator over definitions that has not failed.
DefIter(m, it) ==
  /\ IsBytes(m) /\ it.next \in Nat /\ it.end \in Nat /\ it.end <= Len(m)
  /\ it.type \in {TmpltSet, OptsSet}

DefinitionResult(m, it) ==
  <<[it EXCEPT !.next = @ + DefHeader(it) + DefSpecs(m, it).len],
    [rc |-> "OK", what |-> "definition", rec |-> it.next, size |-> DefHeader(it) + DefSpecs(m, it).len,
     fields |-> DefCount(m, it), scope |-> DefScope(m, it)]>>

LEMMA DefReads ==
  ASSUME NEW m, NEW it, DefIter(m, it), it.next + MinDefinition(it.type) <= it.end
  PROVE  /\ U16(m, it.next) \in Nat /\ DefCount(m, it) \in Nat /\ DefScope(m, it) \in Nat
         /\ DefHeader(it) \in Nat /\ DefHeader(it) >= WdrlLen
         /\ it.next + DefHeader(it) <= it.end
<1>1. Len(m) \in Nat
  BY LenProperties DEF DefIter, IsBytes
<1>2. it.next \in Nat /\ it.end \in Nat /\ it.end <= Len(m) /\ IsBytes(m) /\ it.type \in {TmpltSet, OptsSet}
  BY DEF DefIter
<1>3. it.next + 8 <= it.end /\ (it.type = OptsSet => it.next + 10 <= it.end)
  BY <1>2 DEF MinDefinition, TmpltSet, OptsSet
<1>4. U16(m, it.next) \in Nat
  <2>1. it.next + 2 <= Len(m)
    BY <1>1, <1>2, <1>3
  <2> QED  BY <1>2, <2>1, Read16
<1>5. U16(m, it.next + 2) \in Nat
  <2>1. it.next + 2 \in Nat /\ (it.next + 2) + 2 <= Len(m)
    BY <1>1, <1>2, <1>3
  <2> QED  BY <1>2, <2>1, Read16
<1>6. it.type = OptsSet => U16(m, it.next + 4) \in Nat
  <2>1. it.next + 4 \in Nat /\ (it.next + 4) + 2 <= Len(m)
    BY <1>1, <1>2, <1>3
  <2> QED  BY <1>2, <2>1, Read16
<1>7. DefHeader(it) = IF it.type = OptsSet THEN 6 ELSE 4
  BY DEF DefHeader, WdrlLen
<1> QED  BY <1>2, <1>3, <1>4, <1>5, <1>6, <1>7 DEF DefCount, DefScope, WdrlLen

\* The iterator over definitions does one of three things.
LEMMA DefinitionIs ==
  ASSUME NEW m, NEW it
  PROVE  \/ Definition(m, it) = <<it, Eoc>>
         \/ Definition(m, it) = <<it, FormatError>>
         \/ Defines(m, it) /\ Definition(m, it) = DefinitionResult(m, it)
<1> DEFINE options == it.type = OptsSet
           id == U16(m, it.next)
           count == U16(m, it.next + 2)
           scope == IF options THEN U16(m, it.next + 4) ELSE 0
           header == IF options THEN WdrlLen + 2 ELSE WdrlLen
           specs == ParseFields(m, it.next + header, it.end, count)
           dataLen == LengthBefore(specs.ies)[count + 1]
<1>1. Definition(m, it) =
        IF it.next + MinDefinition(it.type) > it.end THEN <<it, Eoc>>
        ELSE IF \/ options /\ (scope = 0 \/ scope > count)
                \/ id < MinDset
                \/ count = 0
        THEN <<it, FormatError>>
        ELSE IF specs.rc # "OK" THEN <<it, FormatError>>
        ELSE IF dataLen = 0 \/ dataLen > MaxRecord THEN <<it, FormatError>>
        ELSE <<[it EXCEPT !.next = @ + header + specs.len],
               [rc |-> "OK", what |-> "definition", rec |-> it.next, size |-> header + specs.len,
                fields |-> count, scope |-> scope]>>
  BY DEF Definition
<1>2. header = DefHeader(it) /\ count = DefCount(m, it) /\ scope = DefScope(m, it)
  BY DEF DefHeader, DefCount, DefScope
<1>3. specs = DefSpecs(m, it)
  BY <1>2 DEF DefSpecs
<1> HIDE DEF header, count, scope, specs
<1>4. CASE it.next + MinDefinition(it.type) > it.end
  BY <1>1, <1>4
<1>5. CASE /\ ~(it.next + MinDefinition(it.type) > it.end)
           /\ \/ options /\ (scope = 0 \/ scope > count)
              \/ id < MinDset
              \/ count = 0
              \/ specs.rc # "OK"
              \/ dataLen = 0 \/ dataLen > MaxRecord
  BY <1>1, <1>5
<1>6. CASE /\ ~(it.next + MinDefinition(it.type) > it.end)
           /\ ~(options /\ (scope = 0 \/ scope > count))
           /\ ~(id < MinDset) /\ count # 0 /\ specs.rc = "OK"
           /\ ~(dataLen = 0) /\ ~(dataLen > MaxRecord)
  <2>1. Definition(m, it) = DefinitionResult(m, it)
    BY <1>1, <1>2, <1>3, <1>6 DEF DefinitionResult
  <2>2. Defines(m, it)
    BY <1>2, <1>3, <1>6 DEF Defines
  <2> QED  BY <2>1, <2>2
<1> QED  BY <1>4, <1>5, <1>6

\* The type of template that a Set of templates holds.
TypeOf(it) == IF it.type = TmpltSet THEN "data" ELSE "options"

\* A definition at a place of a message that fds_template_parse() takes: as
\* long as it was said to be, and with its fields.
Parses(m, type, r) ==
  LET parsed == Parse(type, m, r.rec, r.size)
  IN  /\ parsed.rc = "OK" /\ parsed.len = r.size
      /\ IsTemplate(parsed.tmplt) /\ parsed.tmplt.dataLen \in Nat /\ parsed.tmplt.dataLen >= 1
      /\ Len(parsed.tmplt.fields) = r.fields /\ parsed.tmplt.scope = r.scope

LEMMA LengthsNat ==
  ASSUME NEW ies, NEW count, IesOK(ies, count)
  PROVE  LengthBefore(ies)[count + 1] \in Nat
<1>1. count \in Nat /\ Len(ies) = count /\ \A i \in 1..count : ies[i].len \in Nat
  <2>1. VarLen \in Nat
    BY DEF VarLen
  <2> QED  BY <2>1 DEF IesOK
<1>2. PICK h : Lengths(h, ies)
  BY <1>1, LengthsExist
<1>3. LengthBefore(ies) = h
  BY <1>1, <1>2, LengthsAre
<1>4. \A i \in 1..(count + 1) : h[i] = IF i = 1 THEN 0 ELSE h[i - 1] + LengthOf(ies[i - 1])
  BY <1>1, <1>2 DEF Lengths
<1> DEFINE S == {i \in 1..(count + 1) : h[i] \in Nat}
<1>5. 1 \in S
  BY <1>1, <1>4
<1>6. ASSUME NEW k \in 1..count, k \in S PROVE k + 1 \in S
  <2>1. k + 1 \in 1..(count + 1) /\ k + 1 # 1 /\ (k + 1) - 1 = k /\ h[k] \in Nat
    BY <1>1, <1>6
  <2>2. h[k + 1] = h[k] + LengthOf(ies[k])
    BY <1>4, <2>1
  <2>3. LengthOf(ies[k]) \in Nat
    BY <1>1 DEF LengthOf
  <2> QED  BY <2>1, <2>2, <2>3
<1> HIDE DEF S
<1>7. Ladder(S, 1, count + 1)
  BY <1>1, <1>5, <1>6 DEF Ladder
<1>8. count + 1 \in S
  BY <1>1, <1>7, Climb
<1> QED  BY <1>3, <1>8 DEF S

LEMMA DefinedParses ==
  ASSUME NEW m, NEW it, DefIter(m, it), Defines(m, it)
  PROVE  /\ Parses(m, TypeOf(it), DefinitionResult(m, it)[2])
         /\ DefHeader(it) \in Nat /\ DefSpecs(m, it).len \in Nat
         /\ it.next + (DefHeader(it) + DefSpecs(m, it).len) <= it.end
<1> DEFINE type == TypeOf(it)
           r == DefinitionResult(m, it)[2]
           count == DefCount(m, it)
           at == it.next + DefHeader(it)
           scope == DefScope(m, it)
<1>1. /\ IsBytes(m) /\ it.next \in Nat /\ it.end \in Nat /\ it.end <= Len(m) /\ Len(m) \in Nat
      /\ it.type \in {TmpltSet, OptsSet}
  BY LenProperties DEF DefIter, IsBytes
<1>2. it.next + MinDefinition(it.type) <= it.end
  BY <1>1 DEF Defines, MinDefinition
<1>3. /\ U16(m, it.next) \in Nat /\ count \in Nat /\ scope \in Nat
      /\ DefHeader(it) \in Nat /\ DefHeader(it) >= WdrlLen /\ at <= it.end
  BY <1>2, DefReads
<1>4. PICK g : Specs(g, m, at, it.end, count)
  BY <1>3, SpecsExist
<1>5. DefSpecs(m, it) = ParsedBy(g, m, at, it.end, count)
  BY <1>3, <1>4, ParseFieldsIs DEF DefSpecs
<1>6. ParsedBy(g, m, at, it.end, count).rc = "OK"
  BY <1>5 DEF Defines
<1>7. at \in Nat
  BY <1>1, <1>3
<1> DEFINE specs == ParsedBy(g, m, at, it.end, count)
           stop == g[count + 1]
<1>8. /\ stop <= it.end /\ stop \in Nat /\ at <= stop
      /\ SpecsWithin(g, m, at, it.end, count)
      /\ ParseFields(m, at, stop, count) = specs
  BY <1>1, <1>3, <1>4, <1>6, <1>7, ParseLess
<1>9. IesOK(specs.ies, count) /\ specs.len = stop - at
  BY <1>3, <1>6, <1>8, ParsedIes
<1>10. r.rec = it.next /\ r.size = DefHeader(it) + specs.len /\ r.fields = count /\ r.scope = scope
  BY <1>5 DEF DefinitionResult
<1> HIDE DEF r, specs, scope
<1>11. r.size \in Nat /\ r.rec + r.size = stop /\ r.size >= DefHeader(it) /\ r.rec + DefHeader(it) = at
  <2> DEFINE h == DefHeader(it)
             n == it.next
             l == specs.len
  <2>1. at = n + h /\ at \in Nat /\ n \in Nat /\ h \in Nat
    BY <1>1, <1>3, <1>7
  <2>2. l = stop - at /\ stop \in Nat /\ at <= stop
    BY <1>8, <1>9
  <2>3. r.size = h + l /\ r.rec = n
    BY <1>10
  <2> HIDE DEF at, stop, h, n, l
  <2>4. r.size \in Nat /\ r.rec + r.size = stop /\ r.size >= h /\ r.rec + h = at
    BY <2>1, <2>2, <2>3
  <2> QED  BY <2>4 DEF at, stop, h
<1> DEFINE header == ParseHeader(type, m, r.rec, r.size)
<1>12. /\ header.rc = "OK" /\ header.count = count /\ header.scope = scope
       /\ header.len = DefHeader(it)
  <2>1. U16(m, r.rec) >= MinDset /\ count # 0 /\ ~(r.size < WdrlLen) /\ ~(U16(m, r.rec) < MinDset)
    BY <1>1, <1>3, <1>10, <1>11 DEF Defines, MinDset, WdrlLen
  <2>2. count = U16(m, r.rec + 2)
    BY <1>10 DEF DefCount
  <2>3. CASE it.type = TmpltSet
    <3>1. type = "data" /\ scope = 0 /\ DefHeader(it) = WdrlLen
      BY <2>3 DEF TypeOf, scope, DefScope, DefHeader, TmpltSet, OptsSet
    <3> HIDE DEF type, count
    <3>2. header = [rc |-> "OK", id |-> U16(m, r.rec), count |-> count, scope |-> 0, len |-> WdrlLen]
      BY <2>1, <2>2, <3>1 DEF ParseHeader
    <3> QED  BY <3>1, <3>2
  <2>4. CASE it.type = OptsSet
    <3>1. type = "options" /\ scope = U16(m, r.rec + 4) /\ DefHeader(it) = WdrlLen + 2
      BY <1>10, <2>4 DEF TypeOf, scope, DefScope, DefHeader, TmpltSet, OptsSet
    <3>2. ~BadScope(scope, count)
      BY <1>3, <2>4 DEF Defines, BadScope, scope
    <3>3. ~(r.size < WdrlLen + 2)
      BY <1>11, <3>1 DEF WdrlLen
    <3> HIDE DEF type, count
    <3>4. header = [rc |-> "OK", id |-> U16(m, r.rec), count |-> count, scope |-> scope, len |-> WdrlLen + 2]
      BY <2>1, <2>2, <3>1, <3>2, <3>3 DEF ParseHeader
    <3> QED  BY <3>1, <3>4
  <2> QED  BY <1>1, <2>3, <2>4
<1> HIDE DEF header
<1>13. ParseFields(m, r.rec + header.len, r.rec + r.size, header.count) = specs
  BY <1>8, <1>11, <1>12
<1>14. Parse(type, m, r.rec, r.size) = ParseRest(type, m, r.rec, header, specs)
  <2>1. header = ParseHeader(type, m, r.rec, r.size)
    BY DEF header
  <2> HIDE DEF type
  <2>2. Parse(type, m, r.rec, r.size) =
          ParseRest(type, m, r.rec, header, ParseFields(m, r.rec + header.len, r.rec + r.size, header.count))
    BY <1>12, <2>1, ParseIs
  <2> QED  BY <1>13, <2>2
<1> DEFINE raw == SubSeq(m, r.rec + 1, r.rec + header.len + specs.len)
           t == ParsedTemplate(type, header, specs.ies, raw)
<1>15. Keeps(t, header, specs.ies)
  <2>1. type \in {"data", "options"}
    BY DEF TypeOf
  <2> HIDE DEF type, raw
  <2>2. IesOK(specs.ies, header.count)
    BY <1>9, <1>12
  <2> QED  BY <2>1, <2>2, TemplateKeeps
<1>16. LengthBefore(specs.ies)[count + 1] # 0 /\ ~(LengthBefore(specs.ies)[count + 1] > MaxRecord)
  BY <1>5 DEF Defines, specs
<1>17. LengthBefore(specs.ies)[count + 1] \in Nat
  BY <1>9, LengthsNat
<1>18. Parse(type, m, r.rec, r.size) = [rc |-> "OK", len |-> header.len + specs.len, tmplt |-> t]
  <2>1. specs.rc = "OK"
    BY <1>6 DEF specs
  <2> HIDE DEF type
  <2> QED  BY <1>12, <1>14, <1>16, <2>1 DEF ParseRest
<1> HIDE DEF t
<1>19. header.len + specs.len = r.size
  BY <1>10, <1>12
<1>20. Parses(m, type, r)
  <2>1. /\ IsTemplate(t) /\ t.dataLen = LengthBefore(specs.ies)[count + 1]
        /\ Len(t.fields) = count /\ t.scope = scope
    BY <1>12, <1>15 DEF Keeps
  <2>2. t.dataLen \in Nat /\ t.dataLen >= 1
    BY <1>16, <1>17, <2>1
  <2> HIDE DEF type
  <2> QED  BY <1>10, <1>18, <1>19, <2>1, <2>2 DEF Parses
<1>21. DefHeader(it) + DefSpecs(m, it).len = r.size
  BY <1>5, <1>10 DEF specs
<1>22. it.next + r.size <= it.end
  BY <1>8, <1>10, <1>11
<1>23. DefSpecs(m, it).len \in Nat
  <2>1. DefSpecs(m, it).len = stop - at
    BY <1>5, <1>9 DEF specs
  <2> HIDE DEF at
  <2> QED  BY <1>7, <1>8, <2>1
<1>24. r = DefinitionResult(m, it)[2]
  BY DEF r
<1> QED  BY <1>3, <1>20, <1>21, <1>22, <1>23, <1>24

-----------------------------------------------------------------------------
(* The invariant: every iterator stays in what the loop around it gave it *)

InList == {"members", "list_records", "blocks", "block_records"}
InRecord == {"fields"} \cup InList
InSet == {"records"} \cup InRecord
Phases == {"sets", "templates", "done"} \cup InSet

SetsOK(m, s) ==
  /\ s = [next |-> s.next, end |-> s.end]
  /\ s.next \in Nat /\ s.end \in Nat /\ s.next <= s.end /\ s.end <= Len(m)

\* The Set that was delivered last ends where the next one starts.
TsetOK(m, s, it) ==
  /\ it = [type |-> it.type, begin |-> it.begin, next |-> it.next, end |-> it.end, failed |-> it.failed]
  /\ U16(m, it.begin) \in {TmpltSet, OptsSet}
  /\ it.next \in Nat /\ it.end = s.next
  /\ ~it.failed => it.next <= it.end /\ it.type \in {0, U16(m, it.begin)}
DsetOK(s, it) ==
  /\ it = [tmplt |-> it.tmplt, next |-> it.next, end |-> it.end, failed |-> it.failed]
  /\ IsTemplate(it.tmplt)
  /\ it.next \in Nat /\ it.end = s.next
  /\ ~it.failed => it.next <= it.end

\* The record that was delivered last, and the next field in it.
DrecOK(m, it, d) ==
  /\ d = [rec |-> d.rec, it |-> d.it]
  /\ d.it = [flags |-> d.it.flags, idx |-> d.it.idx, off |-> d.it.off, fields |-> d.it.fields]
  /\ d.rec.mem = m /\ d.rec.at \in Nat /\ d.rec.at + d.rec.size = it.next /\ it.next <= it.end
  /\ IsTemplate(d.rec.tmplt) /\ Filled(d.rec)
  /\ d.it.fields = Fields(d.rec)
  /\ d.it.idx \in 1..(Len(Fields(d.rec)) + 1)
  /\ d.it.off = FieldOffsets(d.rec)[d.it.idx]

\* A list that is not broken lies in a field of that record.
Snapshot(snap) == \A id \in DOMAIN snap : IsTemplate(snap[id])
BlistOK(l) ==
  /\ l = [err |-> l.err, next |-> l.next, end |-> l.end, id |-> l.id, en |-> l.en, len |-> l.len]
  /\ l.len \in Nat
StlistOK(l) ==
  /\ l = [err |-> l.err, tmplt |-> l.tmplt, next |-> l.next, end |-> l.end]
  /\ l.tmplt # NoTmplt => IsTemplate(l.tmplt)
StmlistOK(l) ==
  /\ l = [err |-> l.err, snap |-> l.snap, report |-> l.report, tmplt |-> l.tmplt,
          block |-> l.block, next |-> l.next, end |-> l.end]
  /\ Snapshot(l.snap) /\ l.report \in BOOLEAN
  /\ l.block \in Nat /\ l.next <= l.block /\ l.block <= l.end
  /\ l.tmplt # NoTmplt => IsTemplate(l.tmplt)
ListOK(it, ph, l) ==
  l.err = "OK" =>
    /\ l.next \in Nat /\ l.end \in Nat /\ l.next <= l.end /\ l.end <= it.next
    /\ ph = "members" => BlistOK(l)
    /\ ph = "list_records" => StlistOK(l)
    /\ ph \in {"blocks", "block_records"} => StmlistOK(l)
    /\ ph = "block_records" => l.tmplt # NoTmplt

MInv ==
  /\ phase \in Phases /\ report \in BOOLEAN
  /\ IsBytes(mem) /\ SetsOK(mem, sets) /\ Snapshot(known)
  /\ phase = "templates" => TsetOK(mem, sets, inner)
  /\ phase \in InSet => DsetOK(sets, inner)
  /\ phase \in InRecord => DrecOK(mem, inner, drec)
  /\ phase \in InList => ListOK(inner, phase, list)

\* What a step of each iterator does with its state.
SetDelivered(m, s, r) ==
  /\ r[2].rc = "OK" /\ r[2].set = s.next
  /\ SetsOK(m, r[1]) /\ r[1].next = s.next + U16(m, s.next + 2)
  /\ s.next + SetHdrLen <= r[1].next
SetsStep(m, s, r) == (r[1] = s /\ r[2].rc # "OK") \/ SetDelivered(m, s, r)

LEMMA SetsNextIs ==
  ASSUME NEW m, NEW s, IsBytes(m), SetsOK(m, s)
  PROVE  SetsStep(m, s, SetsNext(m, s))
<1> DEFINE len == U16(m, s.next + 2)
<1>1. s.next \in Nat /\ s.end \in Nat /\ s.next <= s.end /\ s.end <= Len(m) /\ Len(m) \in Nat
      /\ s = [next |-> s.next, end |-> s.end]
  BY LenProperties DEF SetsOK, IsBytes
<1>2. CASE s.next = s.end
  <2>1. SetsNext(m, s) = <<s, Eoc>>
    BY <1>2 DEF SetsNext
  <2> QED  BY <2>1 DEF SetsStep, Eoc
<1>3. CASE s.next # s.end /\ ~SetFits(s, len)
  <2>1. SetsNext(m, s) = <<s, FormatError>>
    BY <1>3 DEF SetsNext
  <2> QED  BY <2>1 DEF SetsStep, FormatError
<1>4. CASE s.next # s.end /\ SetFits(s, len)
  <2>1. SetsNext(m, s) = <<[s EXCEPT !.next = @ + len], [rc |-> "OK", set |-> s.next]>>
    BY <1>4 DEF SetsNext
  <2>2. s.next + 4 <= s.end /\ len >= 4 /\ s.next + len <= s.end
    BY <1>4 DEF SetFits, SetHdrLen
  <2>3. len \in Nat
    <3>1. s.next + 2 \in Nat /\ (s.next + 2) + 2 <= Len(m)
      BY <1>1, <2>2
    <3> QED  BY <3>1, Read16
  <2> DEFINE t == [s EXCEPT !.next = @ + len]
  <2> HIDE DEF len
  <2>4. t = [next |-> s.next + len, end |-> s.end]
    BY <1>1
  <2> HIDE DEF t
  <2>5. t.next = s.next + len /\ t.end = s.end
    BY <2>4
  <2>6. SetsOK(m, t)
    BY <1>1, <2>2, <2>3, <2>4, <2>5 DEF SetsOK
  <2>7. s.next + SetHdrLen <= t.next
    BY <1>1, <2>2, <2>3, <2>5 DEF SetHdrLen
  <2> DEFINE r == SetsNext(m, s)
  <2>8. r[1] = t /\ r[2].rc = "OK" /\ r[2].set = s.next
    BY <2>1 DEF t, len
  <2> HIDE DEF r
  <2>9. SetDelivered(m, s, r)
    BY <2>5, <2>6, <2>7, <2>8 DEF SetDelivered, len
  <2> QED  BY <2>9 DEF SetsStep, r
<1> QED  BY <1>2, <1>3, <1>4

\* The length of a template.
LEMMA TemplateLengths ==
  ASSUME NEW t, IsTemplate(t)
  PROVE  HasLengths(t.fields) /\ t.dataLen \in Nat /\ IesOK(t.fields, Len(t.fields))
<1> DEFINE fields == t.fields
           n == Len(fields)
           Members == {fields[i] : i \in DOMAIN fields}
<1>1. fields \in Seq(Members) /\ \A i \in DOMAIN fields : fields[i].len \in 0..VarLen
  BY DEF IsTemplate
<1> HIDE DEF Members
<1>2. n \in Nat /\ DOMAIN fields = 1..n
  BY <1>1, LenProperties
<1>3. IesOK(fields, n)
  BY <1>1, <1>2 DEF IesOK
<1>4. VarLen \in Nat
  BY DEF VarLen
<1>5. HasLengths(fields)
  BY <1>1, <1>2, <1>4 DEF HasLengths
<1>6. t.dataLen \in Nat
  <2>1. t.dataLen = LengthBefore(fields)[n + 1]
    BY DEF IsTemplate
  <2> HIDE DEF fields
  <2> QED  BY <1>3, <2>1, LengthsNat
<1> QED  BY <1>3, <1>5, <1>6

\* What the loops start with in a Set that was delivered: it lies between the
\* places before and after it.
LEMMA TsetInitIs ==
  ASSUME NEW m, NEW s, NEW u, IsBytes(m), SetsOK(m, s), SetsOK(m, u),
         u.next = s.next + U16(m, s.next + 2), s.next + SetHdrLen <= u.next,
         U16(m, s.next) \in {TmpltSet, OptsSet}
  PROVE  TsetOK(m, u, TsetInit(m, s.next))
<1> DEFINE set == s.next
           id == U16(m, set)
           first == set + SetHdrLen
           end == set + U16(m, set + 2)
           short == first + WdrlLen > end
           withdraws == ~short /\ U16(m, first + 2) = 0
           failed == short \/ (~withdraws /\ first + MinDefinition(id) > end)
           it == TsetInit(m, set)
<1>1. it = [type |-> IF withdraws THEN 0 ELSE id, begin |-> set, next |-> first, end |-> end, failed |-> failed]
  BY DEF TsetInit
<1>2. set \in Nat /\ u.next \in Nat
  BY DEF SetsOK
<1>3. first \in Nat /\ end = u.next /\ first <= end
  BY <1>2 DEF SetHdrLen
<1> HIDE DEF failed, withdraws, end, first, it
<1>4. it.type \in {0, id} /\ it.begin = set /\ it.next = first /\ it.end = end
  BY <1>1
<1>5. it = [type |-> it.type, begin |-> it.begin, next |-> it.next, end |-> it.end, failed |-> it.failed]
  BY <1>1
<1>6. TsetOK(m, u, it)
  BY <1>3, <1>4, <1>5 DEF TsetOK
<1> QED  BY <1>6 DEF it

LEMMA DsetInitIs ==
  ASSUME NEW m, NEW s, NEW u, NEW t, IsBytes(m), SetsOK(m, s), SetsOK(m, u), IsTemplate(t),
         u.next = s.next + U16(m, s.next + 2), s.next + SetHdrLen <= u.next
  PROVE  DsetOK(u, DsetInit(m, s.next, t))
<1> DEFINE set == s.next
           end == set + U16(m, set + 2)
           failed == set + SetHdrLen + t.dataLen > end
           it == DsetInit(m, set, t)
<1>1. it = [tmplt |-> t, next |-> set + SetHdrLen, end |-> end, failed |-> failed]
  BY DEF DsetInit
<1>2. set \in Nat /\ u.next \in Nat
  BY DEF SetsOK
<1>3. set + SetHdrLen \in Nat /\ end = u.next /\ set + SetHdrLen <= end
  BY <1>2 DEF SetHdrLen
<1> HIDE DEF failed, end, it
<1>4. it.tmplt = t /\ it.next = set + SetHdrLen /\ it.end = end
  BY <1>1
<1>5. it = [tmplt |-> it.tmplt, next |-> it.next, end |-> it.end, failed |-> it.failed]
  BY <1>1
<1>6. DsetOK(u, it)
  BY <1>3, <1>4, <1>5 DEF DsetOK
<1> QED  BY <1>6 DEF it

\* The type of the templates of a Set (SetType, of the Set that an iterator is in).
SetTypeOf(m, it) == IF U16(m, it.begin) = TmpltSet THEN "data" ELSE "options"

TsetStep(m, s, it, r) ==
  \/ r[1] = it /\ r[2].rc # "OK"
  \/ /\ r[2].rc = "OK" /\ TsetOK(m, s, r[1]) /\ r[1].begin = it.begin
     /\ \/ r[2].what = "withdrawal"
        \/ r[2].what = "definition" /\ Parses(m, SetTypeOf(m, it), r[2])

LEMMA TsetMoves ==
  ASSUME NEW m, NEW s, NEW it, SetsOK(m, s), TsetOK(m, s, it), ~it.failed,
         NEW n \in Nat, it.next + n <= it.end
  PROVE  TsetOK(m, s, [it EXCEPT !.next = @ + n]) /\ [it EXCEPT !.next = @ + n].begin = it.begin
<1> DEFINE t == [it EXCEPT !.next = @ + n]
<1>1. it = [type |-> it.type, begin |-> it.begin, next |-> it.next, end |-> it.end, failed |-> it.failed]
  BY DEF TsetOK
<1>2. t = [type |-> it.type, begin |-> it.begin, next |-> it.next + n, end |-> it.end, failed |-> it.failed]
  BY <1>1
<1> HIDE DEF t
<1>3. t.type = it.type /\ t.begin = it.begin /\ t.next = it.next + n /\ t.end = it.end
  BY <1>2
<1>4. t = [type |-> t.type, begin |-> t.begin, next |-> t.next, end |-> t.end, failed |-> t.failed]
  BY <1>2
<1>5. /\ U16(m, it.begin) \in {TmpltSet, OptsSet}
      /\ it.next \in Nat /\ it.end = s.next
      /\ it.next <= it.end /\ it.type \in {0, U16(m, it.begin)}
  BY DEF TsetOK
<1>6. t.next \in Nat /\ t.next <= t.end /\ t.end = s.next /\ t.type \in {0, U16(m, t.begin)}
      /\ U16(m, t.begin) \in {TmpltSet, OptsSet}
  BY <1>3, <1>5
<1>7. TsetOK(m, s, t)
  BY <1>4, <1>6 DEF TsetOK
<1> QED  BY <1>3, <1>7 DEF t

LEMMA TsetNextIs ==
  ASSUME NEW m, NEW s, NEW it, IsBytes(m), SetsOK(m, s), TsetOK(m, s, it)
  PROVE  TsetStep(m, s, it, TsetNext(m, it))
<1>1. CASE it.failed \/ it.next = it.end
  <2>1. TsetNext(m, it) = <<it, FormatError>> \/ TsetNext(m, it) = <<it, Eoc>>
    BY <1>1 DEF TsetNext
  <2> QED  BY <2>1 DEF TsetStep, FormatError, Eoc
<1>2. CASE ~it.failed /\ it.next # it.end /\ it.type # 0
  <2>1. TsetNext(m, it) = Definition(m, it)
    BY <1>2 DEF TsetNext
  <2>2. CASE Definition(m, it) = <<it, Eoc>> \/ Definition(m, it) = <<it, FormatError>>
    BY <2>1, <2>2 DEF TsetStep, FormatError, Eoc
  <2>3. CASE Defines(m, it) /\ Definition(m, it) = DefinitionResult(m, it)
    <3>1. DefIter(m, it)
      BY <1>2, LenProperties DEF TsetOK, SetsOK, DefIter, IsBytes
    <3> DEFINE size == DefHeader(it) + DefSpecs(m, it).len
               r == DefinitionResult(m, it)
    <3>2. /\ Parses(m, TypeOf(it), r[2])
          /\ DefHeader(it) \in Nat /\ DefSpecs(m, it).len \in Nat /\ size \in Nat
          /\ it.next + size <= it.end
      BY <2>3, <3>1, DefinedParses
    <3>3. TypeOf(it) = SetTypeOf(m, it)
      BY <1>2 DEF TsetOK, TypeOf, SetTypeOf
    <3>4. r[2].rc = "OK" /\ r[2].what = "definition"
      BY DEF DefinitionResult
    <3>5. r[1] = [it EXCEPT !.next = @ + size]
      <4>1. r[1] = [it EXCEPT !.next = @ + DefHeader(it) + DefSpecs(m, it).len]
        BY DEF DefinitionResult
      <4>2. it.next \in Nat
        BY DEF TsetOK
      <4> QED  BY <3>2, <4>1, <4>2
    <3> HIDE DEF size, r
    <3>6. TsetOK(m, s, r[1]) /\ r[1].begin = it.begin
      BY <1>2, <3>2, <3>5, TsetMoves
    <3>7. TsetStep(m, s, it, r)
      BY <3>2, <3>3, <3>4, <3>6 DEF TsetStep
    <3> QED  BY <2>1, <2>3, <3>7 DEF r
  <2> QED  BY <2>2, <2>3, DefinitionIs
<1>3. CASE ~it.failed /\ it.next # it.end /\ it.type = 0
  <2>1. TsetNext(m, it) = Withdrawal(m, it)
    BY <1>3 DEF TsetNext
  <2> DEFINE r == <<[it EXCEPT !.next = @ + WdrlLen],
                    [rc |-> "OK", what |-> "withdrawal", rec |-> it.next, size |-> WdrlLen]>>
  <2>2. \/ Withdrawal(m, it) = <<it, Eoc>>
        \/ Withdrawal(m, it) = <<it, FormatError>>
        \/ Withdrawal(m, it) = r /\ ~(it.next + WdrlLen > it.end)
    BY DEF Withdrawal
  <2>3. CASE Withdrawal(m, it) = <<it, Eoc>> \/ Withdrawal(m, it) = <<it, FormatError>>
    BY <2>1, <2>3 DEF TsetStep, FormatError, Eoc
  <2>4. CASE Withdrawal(m, it) = r /\ ~(it.next + WdrlLen > it.end)
    <3>1. it.next + WdrlLen <= it.end /\ WdrlLen \in Nat
      <4>1. it.next \in Nat /\ it.end \in Nat
        BY DEF TsetOK, SetsOK
      <4> QED  BY <2>4, <4>1 DEF WdrlLen
    <3>2. r[1] = [it EXCEPT !.next = @ + WdrlLen] /\ r[2].rc = "OK" /\ r[2].what = "withdrawal"
      OBVIOUS
    <3> HIDE DEF r
    <3>3. TsetOK(m, s, r[1]) /\ r[1].begin = it.begin
      BY <1>3, <3>1, <3>2, TsetMoves
    <3> QED  BY <2>1, <2>4, <3>2, <3>3 DEF TsetStep
  <2> QED  BY <2>2, <2>3, <2>4
<1> QED  BY <1>1, <1>2, <1>3

\* A record that the iterator over a Data Set delivers is filled by its fields.
Delivered(m, s, it, r) ==
  LET rec == [tmplt |-> it.tmplt, mem |-> m, at |-> r[2].rec, size |-> r[2].size]
  IN  /\ r[2].rc = "OK" /\ r[2].rec \in Nat
      /\ DsetOK(s, r[1]) /\ r[1].tmplt = it.tmplt /\ r[1].next <= r[1].end
      /\ r[2].rec + r[2].size = r[1].next
      /\ Filled(rec)
DsetStep(m, s, it, r) == (r[1] = it /\ r[2].rc # "OK") \/ Delivered(m, s, it, r)

LEMMA DsetMoves ==
  ASSUME NEW s, NEW it, NEW m, SetsOK(m, s), DsetOK(s, it), NEW n \in Nat, n <= it.end
  PROVE  /\ DsetOK(s, [it EXCEPT !.next = n]) /\ [it EXCEPT !.next = n].tmplt = it.tmplt
         /\ [it EXCEPT !.next = n].next = n /\ [it EXCEPT !.next = n].end = it.end
<1> DEFINE t == [it EXCEPT !.next = n]
<1>1. it = [tmplt |-> it.tmplt, next |-> it.next, end |-> it.end, failed |-> it.failed]
  BY DEF DsetOK
<1>2. t = [tmplt |-> it.tmplt, next |-> n, end |-> it.end, failed |-> it.failed]
  BY <1>1
<1> HIDE DEF t
<1>3. t.tmplt = it.tmplt /\ t.next = n /\ t.end = it.end
  BY <1>2
<1>4. t = [tmplt |-> t.tmplt, next |-> t.next, end |-> t.end, failed |-> t.failed]
  BY <1>2
<1>5. IsTemplate(it.tmplt) /\ it.end = s.next
  BY DEF DsetOK
<1>6. DsetOK(s, t)
  BY <1>3, <1>4, <1>5 DEF DsetOK
<1> QED  BY <1>3, <1>6 DEF t

\* Where a record ends, the chain of its fields does.
LEMMA RecordPlaces ==
  ASSUME NEW m, IsBytes(m), NEW t, IsTemplate(t), NEW at \in Nat, NEW end \in Nat, end <= Len(m),
         NEW stop, stop = (IF "DYNAMIC" \in t.flags THEN RecordEnd(m, t, at, end) ELSE at + t.dataLen),
         ~(stop > end)
  PROVE  /\ stop \in Nat /\ at <= stop /\ stop <= end
         /\ \E g : Within(g, m, t.fields, at, end) /\ stop = g[Len(t.fields)]
<1> DEFINE n == Len(t.fields)
<1>1. HasLengths(t.fields) /\ t.dataLen \in Nat /\ n \in Nat
  BY TemplateLengths DEF HasLengths
<1>2. \E g : Places(g, m, t.fields, at, end, n) /\ stop = g[n]
  <2>1. CASE "DYNAMIC" \in t.flags
    BY <1>1, <2>1, RecordEndIs
  <2>2. CASE "DYNAMIC" \notin t.flags
    <3>1. PICK g : Places(g, m, t.fields, at, end, n)
      BY <1>1, PlacesExist
    <3>2. \A i \in 1..n : t.fields[i].len # VarLen
      <4>1. DOMAIN t.fields = 1..n
        BY TemplateLengths DEF IesOK
      <4> QED  BY <2>2, <4>1 DEF IsTemplate
    <3>3. g[n] = at + LengthBefore(t.fields)[n + 1]
      BY <1>1, <3>1, <3>2, FixedPlaces
    <3>4. t.dataLen = LengthBefore(t.fields)[n + 1]
      BY DEF IsTemplate
    <3> QED  BY <2>2, <3>1, <3>3, <3>4
  <2> QED  BY <2>1, <2>2
<1>3. PICK g : Places(g, m, t.fields, at, end, n) /\ stop = g[n]
  BY <1>2
<1>4. n \in 0..n
  BY <1>1
<1>5. stop \in Nat
  <2>1. \A i \in 0..n : g[i] \in Nat
    BY <1>1, <1>3, PlacesNat
  <2> QED  BY <1>3, <1>4, <2>1
<1>6. Within(g, m, t.fields, at, end)
  BY <1>1, <1>3, <1>5, PlacesWithin
<1>7. at <= stop
  BY <1>3, <1>4, <1>6 DEF Within
<1> QED  BY <1>3, <1>5, <1>6, <1>7

LEMMA DsetNextIs ==
  ASSUME NEW m, NEW s, NEW it, IsBytes(m), SetsOK(m, s), DsetOK(s, it)
  PROVE  DsetStep(m, s, it, DsetNext(m, it))
<1> DEFINE t == it.tmplt
           at == it.next
           stop == IF "DYNAMIC" \in t.flags THEN RecordEnd(m, t, at, it.end) ELSE at + t.dataLen
           r == <<[it EXCEPT !.next = stop], [rc |-> "OK", rec |-> at, size |-> stop - at]>>
<1>1. /\ at \in Nat /\ it.end \in Nat /\ it.end <= Len(m) /\ IsTemplate(t)
  BY LenProperties DEF SetsOK, DsetOK, IsBytes
<1>2. \/ DsetNext(m, it) = <<it, FormatError>>
      \/ DsetNext(m, it) = <<it, Eoc>>
      \/ DsetNext(m, it) = r /\ ~(stop > it.end)
  BY DEF DsetNext
<1>3. CASE DsetNext(m, it) = <<it, Eoc>> \/ DsetNext(m, it) = <<it, FormatError>>
  BY <1>3 DEF DsetStep, FormatError, Eoc
<1>4. CASE DsetNext(m, it) = r /\ ~(stop > it.end)
  <2> DEFINE rec == [tmplt |-> t, mem |-> m, at |-> at, size |-> stop - at]
  <2>1. /\ stop \in Nat /\ at <= stop /\ stop <= it.end
        /\ \E g : Within(g, m, t.fields, at, it.end) /\ stop = g[Len(t.fields)]
    BY <1>1, <1>4, RecordPlaces
  <2>2. PICK g : Within(g, m, t.fields, at, it.end) /\ stop = g[Len(t.fields)]
    BY <2>1
  <2>3. /\ r[1] = [it EXCEPT !.next = stop]
        /\ r[2].rc = "OK" /\ r[2].rec = at /\ r[2].size = stop - at
    OBVIOUS
  <2>4. Filled(rec)
    <3>1. rec.mem = m /\ rec.at = at /\ rec.size = stop - at /\ rec.tmplt = t /\ Fields(rec) = t.fields
      BY DEF Fields
    <3>2. HasLengths(t.fields)
      BY <1>1, TemplateLengths
    <3> HIDE DEF rec, stop, t, at
    <3> QED  BY <1>1, <2>1, <2>2, <3>1, <3>2, FilledBy
  <2>5. rec = [tmplt |-> it.tmplt, mem |-> m, at |-> r[2].rec, size |-> r[2].size]
    BY <2>3
  <2> HIDE DEF r, stop, rec
  <2>6. DsetOK(s, r[1]) /\ r[1].tmplt = t /\ r[1].next = stop /\ r[1].end = it.end
    BY <2>1, <2>3, DsetMoves
  <2>7. r[2].rec + r[2].size = stop
    BY <1>1, <2>1, <2>3
  <2>8. Delivered(m, s, it, r)
    BY <1>1, <2>1, <2>3, <2>4, <2>5, <2>6, <2>7 DEF Delivered
  <2> QED  BY <1>4, <2>8 DEF DsetStep
<1> QED  BY <1>2, <1>3, <1>4

-----------------------------------------------------------------------------
(* Fields *)

\* From any field on the offsets are the same.
LEMMA OffsetsFrom ==
  ASSUME NEW rec, Filled(rec), NEW idx \in 1..(Len(Fields(rec)) + 1)
  PROVE  LET o == Offsets(rec, Fields(rec), idx, FieldOffsets(rec)[idx])
         IN  \A j \in idx..(Len(Fields(rec)) + 1) : o[j] = FieldOffsets(rec)[j]
<1> DEFINE fields == Fields(rec)
           n == Len(fields)
           w == FieldOffsets(rec)
           g == [j \in idx..(n + 1) |-> w[j]]
<1>1. n \in Nat /\ OffsetChain(w, rec, fields, 1, 0)
  BY DEF Filled
<1> HIDE DEF w, fields
<1>2. \A j \in 1..(n + 1) :
        w[j] = IF j = 1 THEN 0
               ELSE w[j - 1] + PrefixAt(rec, fields[j - 1], w[j - 1]) + SizeAt(rec, fields[j - 1], w[j - 1])
  BY <1>1 DEF OffsetChain
<1>3. ASSUME NEW j \in idx..(n + 1)
      PROVE  g[j] = IF j = idx THEN w[idx]
                    ELSE g[j - 1] + PrefixAt(rec, fields[j - 1], g[j - 1]) + SizeAt(rec, fields[j - 1], g[j - 1])
  <2>1. CASE j = idx
    BY <2>1
  <2>2. CASE j # idx
    <3>1. j \in 1..(n + 1) /\ j # 1 /\ j - 1 \in idx..(n + 1)
      BY <1>1, <2>2 DEF fields
    <3>2. g[j] = w[j] /\ g[j - 1] = w[j - 1]
      BY <3>1
    <3> HIDE DEF g
    <3> QED  BY <1>2, <2>2, <3>1, <3>2
  <2> QED  BY <2>1, <2>2
<1>4. g = [j \in idx..(n + 1) |->
             IF j = idx THEN w[idx]
             ELSE g[j - 1] + PrefixAt(rec, fields[j - 1], g[j - 1]) + SizeAt(rec, fields[j - 1], g[j - 1])]
  BY <1>3
<1>5. \A j \in idx..(n + 1) : g[j] = w[j]
  OBVIOUS
<1> HIDE DEF g
<1>6. OffsetChain(g, rec, fields, idx, w[idx])
  BY <1>4 DEF OffsetChain
<1>7. Offsets(rec, fields, idx, w[idx]) = g
  <2>1. idx \in 1..(n + 1)
    BY DEF fields
  <2> QED  BY <1>1, <1>6, <2>1, OffsetsAre
<1> QED  BY <1>5, <1>7 DEF w, fields

\* A field lies in its record, with its prefix.
LEMMA FieldInside ==
  ASSUME NEW rec, Filled(rec), NEW j \in 1..Len(Fields(rec))
  PROVE  LET off == FieldOffsets(rec)[j]
             f == Fields(rec)[j]
         IN  /\ off \in Nat /\ PrefixAt(rec, f, off) \in Nat /\ SizeAt(rec, f, off) \in Nat
             /\ FieldOffsets(rec)[j + 1] = off + PrefixAt(rec, f, off) + SizeAt(rec, f, off)
             /\ FieldOffsets(rec)[j + 1] <= rec.size
<1> DEFINE n == Len(Fields(rec))
<1>1. n \in Nat
  BY DEF Filled
<1>2. j \in 1..(n + 1) /\ j + 1 \in 1..(n + 1) /\ j + 1 # 1 /\ (j + 1) - 1 = j
  BY <1>1
<1>3. FieldOffsets(rec)[j + 1] =
        FieldOffsets(rec)[j] + PrefixAt(rec, Fields(rec)[j], FieldOffsets(rec)[j])
          + SizeAt(rec, Fields(rec)[j], FieldOffsets(rec)[j])
  BY <1>2 DEF Filled, OffsetChain
<1>4. FieldOffsets(rec)[j] \in Nat /\ FieldOffsets(rec)[j + 1] <= rec.size
  BY <1>2 DEF Filled
<1> QED  BY <1>3, <1>4 DEF Filled

\* A step of the iterator over fields: a field it delivers lies in the record.
InField(it, at, size) == at \in Nat /\ size \in Nat /\ at + size <= it.next
FieldStep(m, it, d, r) ==
  /\ DrecOK(m, it, [d EXCEPT !.it = r[1]])
  /\ r[2].rc = "OK" => InField(it, d.rec.at + r[2].data, r[2].size)

LEMMA DrecMoves ==
  ASSUME NEW m, NEW it, NEW d, DrecOK(m, it, d),
         NEW idx \in 1..(Len(Fields(d.rec)) + 1), NEW u,
         u = [d.it EXCEPT !.idx = idx, !.off = FieldOffsets(d.rec)[idx]]
  PROVE  DrecOK(m, it, [d EXCEPT !.it = u])
<1> DEFINE e == [d EXCEPT !.it = u]
           off == FieldOffsets(d.rec)[idx]
<1>1. /\ d = [rec |-> d.rec, it |-> d.it]
      /\ d.it = [flags |-> d.it.flags, idx |-> d.it.idx, off |-> d.it.off, fields |-> d.it.fields]
  BY DEF DrecOK
<1>2. u = [flags |-> d.it.flags, idx |-> idx, off |-> off, fields |-> d.it.fields]
  BY <1>1
<1>3. e = [rec |-> d.rec, it |-> u]
  BY <1>1
<1> HIDE DEF e
<1>4. e.rec = d.rec /\ e.it = u /\ u.flags = d.it.flags /\ u.idx = idx /\ u.off = off /\ u.fields = d.it.fields
  BY <1>2, <1>3
<1>5. e = [rec |-> e.rec, it |-> e.it]
      /\ e.it = [flags |-> e.it.flags, idx |-> e.it.idx, off |-> e.it.off, fields |-> e.it.fields]
  BY <1>2, <1>3, <1>4
<1>6. DrecOK(m, it, e)
  BY <1>4, <1>5 DEF DrecOK
<1> QED  BY <1>6 DEF e

LEMMA IterNextIs ==
  ASSUME NEW m, NEW it, NEW d, DrecOK(m, it, d), it.next \in Nat
  PROVE  FieldStep(m, it, d, IterNext(d.rec, d.it))
<1> DEFINE rec == d.rec
           fields == Fields(rec)
           n == Len(fields)
           w == FieldOffsets(rec)
           i == d.it.idx
           off == Offsets(rec, d.it.fields, i, d.it.off)
           wanted == {j \in DOMAIN d.it.fields : ~Skipped(d.it, d.it.fields[j])}
           hits == {j \in i..Len(d.it.fields) : j \in wanted}
           first == MinOf(hits)
           past == Len(d.it.fields) + 1
           r == IterNext(rec, d.it)
<1>1. /\ Filled(rec) /\ d.it.fields = fields /\ i \in 1..(n + 1) /\ d.it.off = w[i]
      /\ rec.at \in Nat /\ rec.at + rec.size = it.next
  BY DEF DrecOK
<1>2. n \in Nat /\ rec.size \in Nat
  BY <1>1 DEF Filled
<1>3. \A j \in i..(n + 1) : off[j] = w[j]
  BY <1>1, OffsetsFrom
<1>4. /\ hits = {} => r = <<[d.it EXCEPT !.idx = past, !.off = off[past]], EndOfRecord>>
      /\ hits # {} => r = <<[d.it EXCEPT !.idx = first + 1, !.off = off[first + 1]],
                           FieldFound(rec, d.it.fields, first, off[first])>>
  BY DEF IterNext, Seek
<1>5. CASE hits = {}
  <2>1. past \in 1..(n + 1) /\ past \in i..(n + 1)
    BY <1>1, <1>2
  <2>2. off[past] = w[past]
    BY <1>3, <2>1
  <2> HIDE DEF r, past, hits, off, w
  <2>3. r[1] = [d.it EXCEPT !.idx = past, !.off = w[past]] /\ r[2] = EndOfRecord
    BY <1>4, <1>5, <2>2
  <2>4. DrecOK(m, it, [d EXCEPT !.it = r[1]])
    BY <2>1, <2>3, DrecMoves DEF w
  <2>5. r[2].rc # "OK"
    BY <2>3 DEF EndOfRecord
  <2>6. FieldStep(m, it, d, r)
    BY <2>4, <2>5 DEF FieldStep
  <2> QED  BY <2>6 DEF r
<1>6. CASE hits # {}
  <2>1. first \in hits
    <3>1. hits \in SUBSET Nat
      BY <1>1, <1>2
    <3> HIDE DEF hits
    <3>2. \E x \in hits : \A y \in hits : x <= y
      BY <1>6, <3>1, Minimum
    <3> QED  BY <3>2 DEF MinOf
  <2>2. first \in i..n
    BY <1>1, <2>1
  <2> HIDE DEF first
  <2>3. first \in 1..n /\ first + 1 \in 1..(n + 1) /\ first \in i..(n + 1) /\ first + 1 \in i..(n + 1)
    BY <1>1, <1>2, <2>2
  <2>4. off[first] = w[first] /\ off[first + 1] = w[first + 1]
    BY <1>3, <2>3
  <2>5. /\ w[first] \in Nat /\ PrefixAt(rec, fields[first], w[first]) \in Nat
        /\ SizeAt(rec, fields[first], w[first]) \in Nat
        /\ w[first + 1] = w[first] + PrefixAt(rec, fields[first], w[first])
                          + SizeAt(rec, fields[first], w[first])
        /\ w[first + 1] <= rec.size
    BY <1>1, <2>3, FieldInside
  <2> HIDE DEF r, hits, off, w
  <2> DEFINE f == FieldFound(rec, fields, first, w[first])
  <2>6. r = <<[d.it EXCEPT !.idx = first + 1, !.off = w[first + 1]], f>>
    BY <1>1, <1>4, <1>6, <2>4
  <2>7. r[1] = [d.it EXCEPT !.idx = first + 1, !.off = w[first + 1]]
        /\ r[2] = f
    BY <2>6
  <2>8. f.data = w[first] + PrefixAt(rec, fields[first], w[first])
        /\ f.size = SizeAt(rec, fields[first], w[first])
    BY DEF FieldFound
  <2> HIDE DEF f
  <2>9. InField(it, rec.at + r[2].data, r[2].size)
    <3> DEFINE at == rec.at
               data == r[2].data
               size == r[2].size
               p == PrefixAt(rec, fields[first], w[first])
               o == w[first]
    <3>1. data = o + p /\ size = SizeAt(rec, fields[first], w[first])
      BY <2>7, <2>8
    <3>2. o \in Nat /\ p \in Nat /\ size \in Nat /\ (o + p) + size <= rec.size
      BY <2>5, <3>1
    <3>3. at \in Nat /\ at + rec.size = it.next /\ rec.size \in Nat
      BY <1>1, <1>2
    <3> HIDE DEF at, data, size, o, p, rec
    <3>4. at + data \in Nat /\ size \in Nat /\ (at + data) + size <= it.next
      BY <3>1, <3>2, <3>3
    <3>5. InField(it, at + data, size)
      BY <3>4 DEF InField
    <3> QED  BY <3>5 DEF at, data, size, rec
  <2>10. DrecOK(m, it, [d EXCEPT !.it = r[1]])
    BY <2>3, <2>7, DrecMoves DEF w
  <2>11. FieldStep(m, it, d, r)
    BY <2>9, <2>10 DEF FieldStep
  <2> QED  BY <2>11 DEF r
<1> QED  BY <1>5, <1>6

\* The first field of a record that was delivered.
LEMMA IterInitIs ==
  ASSUME NEW m, NEW s, NEW it, NEW r, DsetOK(s, it), Delivered(m, s, it, r), NEW rec,
         rec = [tmplt |-> it.tmplt, mem |-> m, at |-> r[2].rec, size |-> r[2].size]
  PROVE  DrecOK(m, r[1], [rec |-> rec, it |-> IterInit(rec, {})])
<1> DEFINE u == IterInit(rec, {})
           d == [rec |-> rec, it |-> u]
<1>1. u = [flags |-> {}, idx |-> 1, off |-> 0, fields |-> Fields(rec)]
  BY DEF IterInit, Fields
<1>2. Filled(rec) /\ rec.mem = m /\ rec.at = r[2].rec /\ rec.tmplt = it.tmplt /\ rec.size = r[2].size
  BY DEF Delivered
<1>3. d.rec = rec /\ d.it = u
  OBVIOUS
<1>4. d = [rec |-> d.rec, it |-> d.it]
  OBVIOUS
<1> HIDE DEF d, u
<1>5. d.it = [flags |-> d.it.flags, idx |-> d.it.idx, off |-> d.it.off, fields |-> d.it.fields]
      /\ d.it.fields = Fields(rec) /\ d.it.idx = 1 /\ d.it.off = 0
  BY <1>1, <1>3
<1>6. Len(Fields(rec)) \in Nat /\ 1 \in 1..(Len(Fields(rec)) + 1) /\ FieldOffsets(rec)[1] = 0
  <2>1. Len(Fields(rec)) \in Nat /\ OffsetChain(FieldOffsets(rec), rec, Fields(rec), 1, 0)
    BY <1>2 DEF Filled
  <2>2. 1 \in 1..(Len(Fields(rec)) + 1)
    BY <2>1
  <2> QED  BY <2>1, <2>2 DEF OffsetChain
<1>7. /\ rec.at \in Nat /\ rec.at + rec.size = r[1].next /\ r[1].next <= r[1].end
      /\ IsTemplate(rec.tmplt)
  BY <1>2 DEF Delivered, DsetOK
<1>8. DrecOK(m, r[1], d)
  BY <1>2, <1>3, <1>4, <1>5, <1>6, <1>7 DEF DrecOK
<1> QED  BY <1>8 DEF d, u

-----------------------------------------------------------------------------
(* Lists *)

\* A field that lies in a message.
InMessage(m, at, size) == IsBytes(m) /\ at \in Nat /\ size \in Nat /\ at + size <= Len(m)

LEMMA ReadsInside ==
  ASSUME NEW m, NEW at, NEW size, InMessage(m, at, size), NEW k \in Nat, k + 2 <= size
  PROVE  U16(m, at + k) \in Nat
<1>1. at \in Nat /\ size \in Nat /\ at + size <= Len(m) /\ Len(m) \in Nat /\ IsBytes(m)
  BY LenProperties DEF InMessage, IsBytes
<1>2. at + k \in Nat /\ (at + k) + 2 <= Len(m)
  BY <1>1
<1> QED  BY <1>1, <1>2, Read16

LEMMA BlistInitIs ==
  ASSUME NEW m, NEW it, it.next \in Nat, it.next <= Len(m), NEW at, NEW size,
         InMessage(m, at, size), InField(it, at, size)
  PROVE  ListOK(it, "members", BlistInit(m, at, size))
<1> DEFINE id == U16(m, at + 1)
           len == U16(m, at + 3)
           long == id >= EnBit
           first == at + (IF long THEN BlistLongHdr ELSE BlistShortHdr)
           bad == size < BlistShortHdr \/ (long /\ size < BlistLongHdr) \/ (len = 0 /\ first # at + size)
           en == IF long THEN U32(m, at + 5) ELSE 0
           kept == id % EnBit
           l == BlistInit(m, at, size)
<1>1. /\ bad => l = Broken("FORMAT")
      /\ ~bad => l = [err |-> "OK", next |-> first, end |-> at + size, id |-> kept, en |-> en, len |-> len]
  BY DEF BlistInit
<1>2. at \in Nat /\ size \in Nat /\ at + size <= it.next
  BY DEF InField
<1>3. CASE bad
  <2>1. l.err # "OK"
    BY <1>1, <1>3 DEF Broken
  <2> QED  BY <2>1 DEF ListOK
<1>4. CASE ~bad
  <2>1. size >= 5 /\ (long => size >= 9)
    BY <1>2, <1>4 DEF BlistShortHdr, BlistLongHdr
  <2>2. len \in Nat
    <3>1. 3 \in Nat /\ 3 + 2 <= size
      BY <1>2, <2>1
    <3> QED  BY <3>1, ReadsInside
  <2>3. first \in Nat /\ first <= at + size
    BY <1>2, <2>1 DEF BlistShortHdr, BlistLongHdr
  <2> DEFINE end == at + size
  <2>4. end \in Nat /\ end <= it.next /\ first <= end
    BY <1>2, <2>3
  <2>5. l = [err |-> "OK", next |-> first, end |-> end, id |-> kept, en |-> en, len |-> len]
    BY <1>1, <1>4
  <2> HIDE DEF l, first, end, kept, en, len
  <2>6. l.err = "OK" /\ l.next = first /\ l.end = end /\ l.id = kept /\ l.en = en /\ l.len = len
    BY <2>5
  <2>7. BlistOK(l)
    BY <2>2, <2>5, <2>6 DEF BlistOK
  <2>8. ListOK(it, "members", l)
    BY <2>3, <2>4, <2>6, <2>7 DEF ListOK
  <2> QED  BY <2>8 DEF l
<1> QED  BY <1>3, <1>4

LEMMA BlistNextIs ==
  ASSUME NEW m, NEW it, IsBytes(m), it.next \in Nat, it.next <= Len(m), NEW l,
         ListOK(it, "members", l), BlistNext(m, l)[2].rc = "OK"
  PROVE  ListOK(it, "members", BlistNext(m, l)[1])
<1> DEFINE var == l.len = VarLen
           prefix == IF var THEN VarPrefix(m, l.next) ELSE 0
           size == IF var THEN VarSize(m, l.next) ELSE l.len
           r == BlistNext(m, l)
<1>1. /\ r[1] = [l EXCEPT !.next = @ + prefix + size]
      /\ l.err = "OK" /\ ~(l.next >= l.end)
      /\ ~(l.next + prefix > l.end) /\ ~(l.next + prefix + size > l.end)
  BY DEF BlistNext, Failed
<1>2. l.next \in Nat /\ l.end \in Nat /\ l.end <= it.next /\ BlistOK(l) /\ Len(m) \in Nat
  BY <1>1, LenProperties DEF ListOK, IsBytes
<1>3. prefix \in Nat /\ size \in Nat
  <2>1. CASE ~var
    BY <1>2, <2>1 DEF BlistOK
  <2>2. CASE var
    <3>1. l.next + 1 <= Len(m)
      BY <1>1, <1>2
    <3>2. U8(m, l.next) \in Nat
      BY <1>2, <3>1, Read8
    <3>3. U8(m, l.next) = 255 => U16(m, l.next + 1) \in Nat
      <4>1. HAVE U8(m, l.next) = 255
      <4>2. prefix = 3
        BY <2>2, <4>1 DEF VarPrefix
      <4>3. l.next + 3 <= l.end
        BY <1>1, <1>2, <4>2
      <4>4. l.next + 1 \in Nat /\ (l.next + 1) + 2 <= Len(m)
        BY <1>2, <4>3
      <4> QED  BY <4>4, Read16
    <3> QED  BY <2>2, <3>2, <3>3 DEF VarPrefix, VarSize
  <2> QED  BY <2>1, <2>2
<1> DEFINE next == l.next + prefix + size
           u == [l EXCEPT !.next = @ + prefix + size]
<1> HIDE DEF prefix, size
<1>4. next \in Nat /\ next <= l.end
  BY <1>1, <1>2, <1>3
<1>5. l = [err |-> l.err, next |-> l.next, end |-> l.end, id |-> l.id, en |-> l.en, len |-> l.len]
      /\ l.len \in Nat
  BY <1>2 DEF BlistOK
<1>6. u = [err |-> l.err, next |-> next, end |-> l.end, id |-> l.id, en |-> l.en, len |-> l.len]
  BY <1>5
<1> HIDE DEF u, next
<1>7. u.err = l.err /\ u.next = next /\ u.end = l.end /\ u.id = l.id /\ u.en = l.en /\ u.len = l.len
  BY <1>6
<1>8. BlistOK(u)
  BY <1>5, <1>6, <1>7 DEF BlistOK
<1>9. ListOK(it, "members", u)
  BY <1>2, <1>4, <1>7, <1>8 DEF ListOK
<1> QED  BY <1>1, <1>9 DEF u

\* A record of a list that fits is no longer than what is left.
LEMMA StlRecSizeIs ==
  ASSUME NEW m, IsBytes(m), NEW t, IsTemplate(t), NEW at \in Nat, NEW end \in Nat, end <= Len(m)
  PROVE  /\ StlRecSize(m, t, at, end) \in Nat
         /\ StlRecSize(m, t, at, end) # 0 => at + StlRecSize(m, t, at, end) <= end
<1> DEFINE size == StlRecSize(m, t, at, end)
           stop == IF "DYNAMIC" \in t.flags THEN RecordEnd(m, t, at, end) ELSE at + t.dataLen
<1>1. t.dataLen \in Nat
  BY TemplateLengths
<1>2. size = 0 \/ (size = stop - at /\ ~(stop > end))
  <2>1. CASE "DYNAMIC" \in t.flags
    BY <2>1 DEF StlRecSize
  <2>2. CASE "DYNAMIC" \notin t.flags
    <3>1. stop = at + t.dataLen /\ t.dataLen = stop - at
      BY <1>1, <2>2
    <3> HIDE DEF stop
    <3>2. size = 0 \/ (size = t.dataLen /\ ~(at + t.dataLen > end))
      BY <2>2 DEF StlRecSize
    <3> QED  BY <3>1, <3>2
  <2> QED  BY <2>1, <2>2
<1>3. CASE size = 0
  BY <1>3
<1>4. CASE size = stop - at /\ ~(stop > end)
  <2>1. stop \in Nat /\ at <= stop /\ stop <= end
    BY <1>4, RecordPlaces
  <2> HIDE DEF stop, size
  <2>2. size \in Nat /\ at + size <= end
    BY <1>4, <2>1
  <2> QED  BY <2>2 DEF size
<1> QED  BY <1>2, <1>3, <1>4

LEMMA StlistInitIs ==
  ASSUME NEW m, NEW it, it.next \in Nat, NEW at, NEW size, InField(it, at, size),
         NEW snap, Snapshot(snap), NEW rep
  PROVE  ListOK(it, "list_records", StlistInit(m, at, size, snap, rep))
<1> DEFINE id == U16(m, at + 1)
           t == SnapTmplt(snap, id)
           l == StlistInit(m, at, size, snap, rep)
           end == at + size
           first == at + StlistHdr
<1>1. \/ l = Broken("FORMAT") \/ l = Broken("NOTFOUND")
      \/ l = [err |-> "OK", tmplt |-> t, next |-> first, end |-> end] /\ ~(size < StlistHdr)
  BY Zenon DEF StlistInit
<1>2. CASE l = Broken("FORMAT") \/ l = Broken("NOTFOUND")
  <2>1. l.err # "OK"
    BY <1>2 DEF Broken
  <2> QED  BY <2>1 DEF ListOK
<1>3. CASE l = [err |-> "OK", tmplt |-> t, next |-> first, end |-> end] /\ ~(size < StlistHdr)
  <2>1. first \in Nat /\ end \in Nat /\ first <= end /\ end <= it.next
    BY <1>3 DEF InField, StlistHdr
  <2>2. t # NoTmplt => IsTemplate(t)
    BY DEF SnapTmplt, Snapshot
  <2> HIDE DEF l, t, first, end
  <2>3. l.err = "OK" /\ l.tmplt = t /\ l.next = first /\ l.end = end
    BY <1>3
  <2>4. l = [err |-> l.err, tmplt |-> l.tmplt, next |-> l.next, end |-> l.end]
    BY <1>3, <2>3
  <2>5. StlistOK(l)
    BY <2>2, <2>3, <2>4 DEF StlistOK
  <2>6. ListOK(it, "list_records", l)
    BY <2>1, <2>3, <2>5 DEF ListOK
  <2> QED  BY <2>6 DEF l
<1> QED  BY <1>1, <1>2, <1>3

LEMMA StlistNextIs ==
  ASSUME NEW m, NEW it, IsBytes(m), it.next \in Nat, it.next <= Len(m), NEW l,
         ListOK(it, "list_records", l), StlistNext(m, l)[2].rc = "OK"
  PROVE  ListOK(it, "list_records", StlistNext(m, l)[1])
<1> DEFINE size == StlRecSize(m, l.tmplt, l.next, l.end)
           next == l.next + size
           u == [l EXCEPT !.next = @ + size]
           r == StlistNext(m, l)
<1>1. /\ r[1] = u /\ l.err = "OK" /\ size # 0
      /\ ~(l.tmplt = NoTmplt \/ l.next >= l.end)
  BY DEF StlistNext, Failed, Eoc
<1>2. /\ l.next \in Nat /\ l.end \in Nat /\ l.end <= it.next /\ Len(m) \in Nat
      /\ l.end <= Len(m)
  BY <1>1, LenProperties DEF ListOK, IsBytes
<1>3. l = [err |-> l.err, tmplt |-> l.tmplt, next |-> l.next, end |-> l.end]
  BY <1>1 DEF ListOK, StlistOK
<1>4. IsTemplate(l.tmplt)
  BY <1>1 DEF ListOK, StlistOK
<1>5. size \in Nat /\ l.next + size <= l.end
  BY <1>1, <1>2, <1>4, StlRecSizeIs
<1> HIDE DEF size
<1>6. next \in Nat /\ next <= l.end
  BY <1>2, <1>5
<1>7. u = [err |-> l.err, tmplt |-> l.tmplt, next |-> next, end |-> l.end]
  BY <1>3
<1> HIDE DEF u, next, r
<1>8. u.err = l.err /\ u.tmplt = l.tmplt /\ u.next = next /\ u.end = l.end
  BY <1>7
<1>9. u = [err |-> u.err, tmplt |-> u.tmplt, next |-> u.next, end |-> u.end]
  BY <1>7, <1>8
<1>10. StlistOK(u)
  BY <1>4, <1>8, <1>9 DEF StlistOK
<1>11. ListOK(it, "list_records", u)
  BY <1>1, <1>2, <1>6, <1>8, <1>10 DEF ListOK
<1> QED  BY <1>1, <1>11 DEF r

LEMMA StmlistInitIs ==
  ASSUME NEW m, NEW it, it.next \in Nat, NEW at, NEW size, InField(it, at, size),
         NEW snap, Snapshot(snap), NEW rep \in BOOLEAN
  PROVE  ListOK(it, "blocks", StmlistInit(m, at, size, snap, rep))
<1> DEFINE l == StmlistInit(m, at, size, snap, rep)
           end == at + size
           first == at + StmlistHdr
<1>1. CASE size < StmlistHdr
  <2>1. l.err # "OK"
    BY <1>1 DEF StmlistInit, Broken
  <2> QED  BY <2>1 DEF ListOK
<1>2. CASE ~(size < StmlistHdr)
  <2>1. l = [err |-> "OK", snap |-> snap, report |-> rep, tmplt |-> NoTmplt,
             block |-> first, next |-> first, end |-> end]
    BY <1>2 DEF StmlistInit
  <2>2. first \in Nat /\ end \in Nat /\ first <= end /\ end <= it.next /\ first <= first
    BY <1>2 DEF InField, StmlistHdr
  <2> HIDE DEF l, first, end
  <2>3. /\ l.err = "OK" /\ l.snap = snap /\ l.tmplt = NoTmplt
        /\ l.block = first /\ l.next = first /\ l.end = end
    BY <2>1
  <2>4. l.report = rep
    BY <2>1
  <2>5. l = [err |-> l.err, snap |-> l.snap, report |-> l.report, tmplt |-> l.tmplt,
             block |-> l.block, next |-> l.next, end |-> l.end]
    BY <2>1
  <2>6. StmlistOK(l)
    BY <2>2, <2>3, <2>4, <2>5 DEF StmlistOK
  <2>7. ListOK(it, "blocks", l)
    BY <2>2, <2>3, <2>6 DEF ListOK
  <2> QED  BY <2>7 DEF l
<1> QED  BY <1>1, <1>2

-----------------------------------------------------------------------------
(* The search of a subTemplateMultiList for a block of a known template *)

\* From every place the search goes to a later one, until it stops.
SkipMap(g, stops, leap, a, end) == g = [p \in a..end |-> IF p \in stops THEN p ELSE g[leap[p]]]
Leaps(stops, leap, a, end) ==
  /\ end \in stops
  /\ \A p \in a..end : p \notin stops => leap[p] \in (p + 1)..end

LEMMA SkipExists ==
  ASSUME NEW stops, NEW leap, NEW a \in Nat, NEW end \in Nat, a <= end, Leaps(stops, leap, a, end)
  PROVE  \E g : SkipMap(g, stops, leap, a, end)
<1> DEFINE S == {k \in Nat : \E g : SkipMap(g, stops, leap, end - k, end)}
<1>1. 0 \in S
  <2> DEFINE g == [p \in end..end |-> p]
  <2>1. end - 0 = end
    OBVIOUS
  <2>2. \A p \in end..end : p \in stops
    BY DEF Leaps
  <2>3. g = [p \in end..end |-> IF p \in stops THEN p ELSE g[leap[p]]]
    BY <2>2
  <2>4. SkipMap(g, stops, leap, end - 0, end)
    BY <2>1, <2>3 DEF SkipMap
  <2> QED  BY <2>4
<1>2. ASSUME NEW k \in 0..((end - a) - 1), k \in S
      PROVE  k + 1 \in S
  <2>1. PICK g : SkipMap(g, stops, leap, end - k, end)
    BY <1>2
  <2> DEFINE b == end - k
             c == end - (k + 1)
             h == [p \in c..end |-> IF p = c THEN (IF c \in stops THEN c ELSE g[leap[c]]) ELSE g[p]]
  <2>2. b \in Nat /\ c \in Nat /\ b = c + 1 /\ a <= c /\ b <= end
    BY <1>2
  <2>3. \A p \in b..end : g[p] = IF p \in stops THEN p ELSE g[leap[p]]
    BY <2>1 DEF SkipMap
  <2>4. \A p \in c..end : p # c => p \in b..end
    BY <2>2
  <2>5. \A p \in c..end : p \notin stops => leap[p] \in b..end
    <3> SUFFICES ASSUME NEW p \in c..end, p \notin stops PROVE leap[p] \in b..end
      OBVIOUS
    <3>1. p \in a..end
      BY <2>2
    <3>2. leap[p] \in (p + 1)..end
      BY <3>1 DEF Leaps
    <3> QED  BY <2>2, <3>2
  <2> HIDE DEF b, c
  <2>6. \A p \in b..end : h[p] = g[p]
    BY <2>2
  <2>7. ASSUME NEW p \in c..end
        PROVE  h[p] = IF p \in stops THEN p ELSE h[leap[p]]
    <3>1. CASE p \in stops
      <4>1. CASE p = c
        BY <3>1, <4>1
      <4>2. CASE p # c
        <5>1. h[p] = g[p] /\ p \in b..end
          BY <2>4, <4>2
        <5> HIDE DEF h
        <5> QED  BY <2>3, <3>1, <5>1
      <4> QED  BY <4>1, <4>2
    <3>2. CASE p \notin stops
      <4>1. h[leap[p]] = g[leap[p]]
        BY <2>5, <2>6, <3>2
      <4>2. h[p] = g[leap[p]]
        <5>1. CASE p = c
          BY <3>2, <5>1
        <5>2. CASE p # c
          <6>1. h[p] = g[p] /\ p \in b..end
            BY <2>4, <5>2
          <6> HIDE DEF h
          <6> QED  BY <2>3, <3>2, <6>1
        <5> QED  BY <5>1, <5>2
      <4> HIDE DEF h
      <4> QED  BY <3>2, <4>1, <4>2
    <3> QED  BY <3>1, <3>2
  <2>8. h = [p \in c..end |-> h[p]]
    OBVIOUS
  <2> HIDE DEF h
  <2>9. h = [p \in c..end |-> IF p \in stops THEN p ELSE h[leap[p]]]
    BY <2>7, <2>8
  <2>10. SkipMap(h, stops, leap, end - (k + 1), end)
    BY <2>9 DEF SkipMap, c
  <2> QED  BY <1>2, <2>10
<1> HIDE DEF S
<1>3. Ladder(S, 0, end - a)
  BY <1>1, <1>2 DEF Ladder
<1>4. end - a \in 0..(end - a) /\ end - a \in Int
  OBVIOUS
<1>5. end - a \in S
  BY <1>3, <1>4, Climb
<1>6. end - (end - a) = a
  OBVIOUS
<1> QED  BY <1>5, <1>6 DEF S

\* It ends where it stops.
LEMMA SkipStops ==
  ASSUME NEW stops, NEW leap, NEW a \in Nat, NEW end \in Nat, a <= end, Leaps(stops, leap, a, end),
         NEW g, SkipMap(g, stops, leap, a, end)
  PROVE  g[a] \in a..end /\ g[a] \in stops
<1> DEFINE good(p) == g[p] \in p..end /\ g[p] \in stops
           S == {k \in Nat : \A p \in (end - k)..end : p \in a..end => good(p)}
<1>1. \A p \in a..end : g[p] = IF p \in stops THEN p ELSE g[leap[p]]
  BY DEF SkipMap
<1>2. 0 \in S
  <2>1. \A p \in (end - 0)..end : p = end
    OBVIOUS
  <2>2. end \in a..end /\ end \in stops
    BY DEF Leaps
  <2>3. g[end] = end
    BY <1>1, <2>2
  <2>4. good(end)
    BY <2>2, <2>3
  <2> QED  BY <2>1, <2>4
<1>3. ASSUME NEW k \in 0..((end - a) - 1), k \in S
      PROVE  k + 1 \in S
  <2> SUFFICES ASSUME NEW p \in (end - (k + 1))..end, p \in a..end PROVE good(p)
    BY <1>3
  <2>1. CASE p \in stops
    <3>1. g[p] = p /\ p \in p..end
      BY <1>1, <2>1
    <3> QED  BY <2>1, <3>1
  <2>2. CASE p \notin stops
    <3>1. leap[p] \in (p + 1)..end
      BY <2>2 DEF Leaps
    <3>2. leap[p] \in (end - k)..end /\ leap[p] \in a..end
      BY <1>3, <3>1
    <3>3. g[leap[p]] \in leap[p]..end /\ g[leap[p]] \in stops
      BY <1>3, <3>2
    <3>4. g[p] = g[leap[p]]
      BY <1>1, <2>2
    <3>5. g[leap[p]] \in p..end
      BY <3>1, <3>3
    <3> QED  BY <3>3, <3>4, <3>5
  <2> QED  BY <2>1, <2>2
<1> HIDE DEF S
<1>4. Ladder(S, 0, end - a)
  BY <1>2, <1>3 DEF Ladder
<1>5. end - a \in 0..(end - a) /\ end - a \in Int
  OBVIOUS
<1>6. end - a \in S
  BY <1>4, <1>5, Climb
<1>7. end - (end - a) = a /\ a \in a..end
  OBVIOUS
<1> QED  BY <1>6, <1>7 DEF S

\* A block of a list that is found complete.
LEMMA BlockIsWhole ==
  ASSUME NEW m, IsBytes(m), NEW end \in Nat, end <= Len(m), NEW p \in Nat, ValidBlock(m, p, end)
  PROVE  BlockEnd(m, p) \in Nat /\ p + SetHdrLen <= BlockEnd(m, p) /\ BlockEnd(m, p) <= end
<1> DEFINE len == U16(m, p + 2)
<1>1. p + 4 <= end /\ len >= 4 /\ p + len <= end /\ BlockEnd(m, p) = p + len
  BY DEF ValidBlock, BlockEnd, SetHdrLen
<1>2. len \in Nat
  <2>1. Len(m) \in Nat
    BY LenProperties DEF IsBytes
  <2>2. p + 2 \in Nat /\ (p + 2) + 2 <= Len(m)
    BY <1>1, <2>1
  <2> QED  BY <2>2, Read16
<1> HIDE DEF len
<1> QED  BY <1>1, <1>2 DEF SetHdrLen

\* The iterator goes to a block.
Moved(l, block, next, t) == [l EXCEPT !.block = block, !.next = next, !.tmplt = t]
Movable(it, l, block, next, t) ==
  /\ ListOK(it, "blocks", l) /\ l.err = "OK"
  /\ block \in Nat /\ block <= l.end /\ next \in Nat /\ next <= block
  /\ t # NoTmplt => IsTemplate(t)

LEMMA IntoBlock ==
  ASSUME NEW it, it.next \in Nat, NEW l, NEW block, NEW next, NEW t, Movable(it, l, block, next, t)
  PROVE  /\ ListOK(it, "blocks", Moved(l, block, next, t))
         /\ t # NoTmplt => ListOK(it, "block_records", Moved(l, block, next, t))
<1> DEFINE u == Moved(l, block, next, t)
<1>0. /\ ListOK(it, "blocks", l) /\ l.err = "OK"
      /\ block \in Nat /\ block <= l.end /\ next \in Nat /\ next <= block
      /\ t # NoTmplt => IsTemplate(t)
  BY DEF Movable
<1>1. l.next \in Nat /\ l.end \in Nat /\ l.end <= it.next
  BY <1>0 DEF ListOK
<1>2. StmlistOK(l)
  BY <1>0 DEF ListOK
<1>3. Snapshot(l.snap) /\ l.report \in BOOLEAN
  BY <1>2 DEF StmlistOK
<1>4. l = [err |-> l.err, snap |-> l.snap, report |-> l.report, tmplt |-> l.tmplt,
           block |-> l.block, next |-> l.next, end |-> l.end]
  BY <1>2 DEF StmlistOK
<1>5. u = [err |-> l.err, snap |-> l.snap, report |-> l.report, tmplt |-> t,
           block |-> block, next |-> next, end |-> l.end]
  <2>1. u = [l EXCEPT !.block = block, !.next = next, !.tmplt = t]
    BY DEF Moved
  <2> HIDE DEF u
  <2> QED  BY <1>4, <2>1
<1> HIDE DEF u
<1>6. u.err = "OK" /\ u.snap = l.snap /\ u.tmplt = t /\ u.block = block /\ u.next = next /\ u.end = l.end
  BY <1>0, <1>5
<1>7. u.report = l.report
  BY <1>5
<1>8. u = [err |-> u.err, snap |-> u.snap, report |-> u.report, tmplt |-> u.tmplt,
           block |-> u.block, next |-> u.next, end |-> u.end]
  BY <1>5
<1>9. StmlistOK(u)
  <2>1. u.block \in Nat /\ u.next <= u.block /\ u.block <= u.end /\ (u.tmplt # NoTmplt => IsTemplate(u.tmplt))
    BY <1>0, <1>6
  <2>2. Snapshot(u.snap) /\ u.report \in BOOLEAN
    BY <1>3, <1>6, <1>7
  <2> QED  BY <1>8, <2>1, <2>2 DEF StmlistOK
<1>10. u.next \in Nat /\ u.end \in Nat /\ u.next <= u.end /\ u.end <= it.next
  BY <1>0, <1>1, <1>6
<1> QED  BY <1>6, <1>9, <1>10 DEF ListOK, u

\* Where the search stops.
Searched(m, l) ==
  LET found(p) == SnapTmplt(l.snap, U16(m, p)) # NoTmplt
      stops(p) == p >= l.end \/ ~ValidBlock(m, p, l.end) \/ found(p) \/ l.report
      skip[p \in l.block..l.end] == IF stops(p) THEN p ELSE skip[BlockEnd(m, p)]
  IN  skip[l.block]

LEMMA SearchedIs ==
  ASSUME NEW m, IsBytes(m), NEW l, l.block \in Nat, l.end \in Nat, l.block <= l.end, l.end <= Len(m)
  PROVE  Searched(m, l) \in l.block..l.end
<1> DEFINE a == l.block
           end == l.end
           stopping(p) == \/ p >= end \/ ~ValidBlock(m, p, end)
                          \/ SnapTmplt(l.snap, U16(m, p)) # NoTmplt \/ l.report
           stops == {p \in a..end : stopping(p)}
           leap == [p \in a..end |-> BlockEnd(m, p)]
           skip == CHOOSE skip : skip = [p \in a..end |-> IF stopping(p) THEN p ELSE skip[BlockEnd(m, p)]]
<1>1. Searched(m, l) = skip[a]
  BY DEF Searched
<1>2. end \in stops
  BY DEF stops
<1>3. ASSUME NEW p \in a..end, p \notin stops
      PROVE  leap[p] \in (p + 1)..end
  <2>1. ValidBlock(m, p, end) /\ p \in Nat
    BY <1>3
  <2>2. leap[p] = BlockEnd(m, p)
    OBVIOUS
  <2>3. BlockEnd(m, p) \in Nat /\ p + 4 <= BlockEnd(m, p) /\ BlockEnd(m, p) <= end
    BY <2>1, BlockIsWhole DEF SetHdrLen
  <2> HIDE DEF leap
  <2> QED  BY <2>1, <2>2, <2>3
<1>4. ASSUME NEW g
      PROVE  SkipMap(g, stops, leap, a, end) <=>
               g = [p \in a..end |-> IF stopping(p) THEN p ELSE g[BlockEnd(m, p)]]
  <2>1. \A p \in a..end : p \in stops <=> stopping(p)
    BY DEF stops
  <2>2. \A p \in a..end : leap[p] = BlockEnd(m, p)
    OBVIOUS
  <2> HIDE DEF stops, leap, stopping
  <2>3. [p \in a..end |-> IF p \in stops THEN p ELSE g[leap[p]]]
          = [p \in a..end |-> IF stopping(p) THEN p ELSE g[BlockEnd(m, p)]]
    BY <2>1, <2>2
  <2> QED  BY <2>3 DEF SkipMap
<1> HIDE DEF stops, leap, stopping
<1>5. Leaps(stops, leap, a, end)
  BY <1>2, <1>3 DEF Leaps
<1>6. PICK g : SkipMap(g, stops, leap, a, end)
  BY <1>5, SkipExists
<1>7. skip = [p \in a..end |-> IF stopping(p) THEN p ELSE skip[BlockEnd(m, p)]]
  BY <1>4, <1>6
<1> HIDE DEF skip
<1>8. SkipMap(skip, stops, leap, a, end)
  BY <1>4, <1>7
<1>9. skip[a] \in a..end
  BY <1>5, <1>8, SkipStops
<1> QED  BY <1>1, <1>9

\* After a block was searched for, the list is in order unless the loops leave it.
BlockStep(it, r) ==
  /\ r[2].rc = "OK" => ListOK(it, "block_records", r[1])
  /\ r[2].rc = "NOTFOUND" => ListOK(it, "blocks", r[1])

LEMMA StmlistNextBlockIs ==
  ASSUME NEW m, IsBytes(m), NEW it, it.next \in Nat, it.next <= Len(m), NEW l, ListOK(it, "blocks", l)
  PROVE  BlockStep(it, StmlistNextBlock(m, l))
<1> DEFINE stop == Searched(m, l)
           t == SnapTmplt(l.snap, U16(m, stop))
           end == BlockEnd(m, stop)
           inside == [l EXCEPT !.block = end, !.next = stop + SetHdrLen, !.tmplt = t]
           over == [inside EXCEPT !.next = inside.block]
           r == StmlistNextBlock(m, l)
<1>1. \/ r[1] = l /\ r[2].rc = l.err /\ l.err # "OK"
      \/ l.err = "OK" /\ r[2].rc \notin {"OK", "NOTFOUND"}
      \/ l.err = "OK" /\ ValidBlock(m, stop, l.end) /\ r = <<over, [rc |-> "NOTFOUND"]>>
      \/ l.err = "OK" /\ ValidBlock(m, stop, l.end) /\ t # NoTmplt /\ r[1] = inside /\ r[2].rc = "OK"
  BY DEF StmlistNextBlock, Searched, Eoc, Failed
<1>2. CASE r[1] = l /\ r[2].rc = l.err /\ l.err # "OK"
  BY <1>2 DEF BlockStep, ListOK
<1>3. CASE l.err = "OK" /\ r[2].rc \notin {"OK", "NOTFOUND"}
  BY <1>3 DEF BlockStep
<1>4. ASSUME l.err = "OK"
      PROVE  l.block \in Nat /\ l.end \in Nat /\ l.block <= l.end /\ l.end <= it.next
  BY <1>4 DEF ListOK, StmlistOK
<1>5. ASSUME l.err = "OK", ValidBlock(m, stop, l.end)
      PROVE  stop \in Nat /\ end \in Nat /\ stop + 4 <= end /\ end <= l.end
  <2>1. Len(m) \in Nat
    BY LenProperties DEF IsBytes
  <2>2. l.end <= Len(m)
    BY <1>4, <1>5, <2>1
  <2>3. stop \in l.block..l.end
    BY <1>4, <1>5, <2>2, SearchedIs
  <2>4. stop \in Nat
    BY <1>4, <1>5, <2>3
  <2> HIDE DEF stop
  <2> QED  BY <1>4, <1>5, <2>2, <2>4, BlockIsWhole DEF SetHdrLen
<1>6. l.err = "OK" => (t # NoTmplt => IsTemplate(t))
  BY DEF ListOK, StmlistOK, SnapTmplt, Snapshot
<1>7. l.err = "OK" =>
        l = [err |-> l.err, snap |-> l.snap, report |-> l.report, tmplt |-> l.tmplt,
             block |-> l.block, next |-> l.next, end |-> l.end]
  BY DEF ListOK, StmlistOK
<1> HIDE DEF stop, end, t
<1>8. CASE l.err = "OK" /\ ValidBlock(m, stop, l.end) /\ r = <<over, [rc |-> "NOTFOUND"]>>
  <2>1. over = Moved(l, end, end, t)
    BY <1>7, <1>8 DEF Moved
  <2>2. end \in Nat /\ end <= l.end /\ end <= end
    BY <1>5, <1>8
  <2>3. r[1] = over /\ r[2].rc = "NOTFOUND"
    BY <1>8
  <2> HIDE DEF over, r
  <2>4. ListOK(it, "blocks", over)
    <3>1. Movable(it, l, end, end, t)
      BY <1>6, <1>8, <2>2 DEF Movable
    <3> QED  BY <2>1, <3>1, IntoBlock
  <2>5. BlockStep(it, r)
    BY <2>3, <2>4 DEF BlockStep
  <2> QED  BY <2>5 DEF r
<1>9. CASE /\ l.err = "OK" /\ ValidBlock(m, stop, l.end) /\ t # NoTmplt
           /\ r[1] = inside /\ r[2].rc = "OK"
  <2> DEFINE next == stop + SetHdrLen
  <2>1. end \in Nat /\ end <= l.end /\ next \in Nat /\ next <= end
    BY <1>5, <1>9 DEF SetHdrLen
  <2>2. inside = Moved(l, end, next, t)
    BY DEF Moved
  <2> HIDE DEF inside, r, next
  <2>3. ListOK(it, "block_records", inside)
    <3>1. Movable(it, l, end, next, t)
      BY <1>6, <1>9, <2>1 DEF Movable
    <3> QED  BY <1>9, <2>2, <3>1, IntoBlock
  <2>4. BlockStep(it, r)
    BY <1>9, <2>3 DEF BlockStep
  <2> QED  BY <2>4 DEF r
<1> QED  BY <1>1, <1>2, <1>3, <1>8, <1>9

\* A record of a block.
RecordStep(it, r) ==
  /\ r[2].rc = "OK" => ListOK(it, "block_records", r[1])
  /\ r[2].rc = "EOC" => ListOK(it, "blocks", r[1])

LEMMA StmlistNextRecIs ==
  ASSUME NEW m, IsBytes(m), NEW it, it.next \in Nat, it.next <= Len(m), NEW l, ListOK(it, "block_records", l)
  PROVE  RecordStep(it, StmlistNextRec(m, l))
<1> DEFINE size == StlRecSize(m, l.tmplt, l.next, l.block)
           u == [l EXCEPT !.next = @ + size]
           r == StmlistNextRec(m, l)
<1>1. \/ r[1] = l /\ r[2].rc = l.err /\ l.err # "OK"
      \/ r[1] = l /\ r[2].rc = "EOC" /\ l.err = "OK"
      \/ r[2].rc = "FORMAT"
      \/ r[1] = u /\ r[2].rc = "OK" /\ l.err = "OK" /\ size # 0
  BY DEF StmlistNextRec, Failed, Eoc
<1>2. CASE r[1] = l /\ r[2].rc = l.err /\ l.err # "OK"
  BY <1>2 DEF RecordStep, ListOK
<1>3. CASE r[1] = l /\ r[2].rc = "EOC" /\ l.err = "OK"
  BY <1>3 DEF RecordStep, ListOK
<1>4. CASE r[2].rc = "FORMAT"
  BY <1>4 DEF RecordStep
<1>5. CASE r[1] = u /\ r[2].rc = "OK" /\ l.err = "OK" /\ size # 0
  <2> DEFINE next == l.next + size
  <2>1. /\ l.next \in Nat /\ l.end \in Nat /\ l.end <= it.next
        /\ l.block \in Nat /\ l.block <= l.end
    BY <1>5 DEF ListOK, StmlistOK
  <2>2. IsTemplate(l.tmplt) /\ l.tmplt # NoTmplt
    BY <1>5 DEF ListOK, StmlistOK
  <2>3. Len(m) \in Nat
    BY LenProperties DEF IsBytes
  <2>4. l.block <= Len(m)
    BY <2>1, <2>3
  <2>5. size \in Nat /\ l.next + size <= l.block
    BY <1>5, <2>1, <2>2, <2>4, StlRecSizeIs
  <2> HIDE DEF size
  <2>6. next \in Nat /\ next <= l.block
    BY <2>1, <2>5
  <2>7. ListOK(it, "blocks", l)
    BY DEF ListOK
  <2>8. l = [err |-> l.err, snap |-> l.snap, report |-> l.report, tmplt |-> l.tmplt,
             block |-> l.block, next |-> l.next, end |-> l.end]
    BY <1>5 DEF ListOK, StmlistOK
  <2>9. u = Moved(l, l.block, next, l.tmplt)
    BY <2>8 DEF Moved
  <2> HIDE DEF u, next, r
  <2>10. ListOK(it, "block_records", u)
    <3>1. Movable(it, l, l.block, next, l.tmplt)
      BY <1>5, <2>1, <2>2, <2>6, <2>7 DEF Movable
    <3> QED  BY <2>2, <2>9, <3>1, IntoBlock
  <2>11. RecordStep(it, r)
    BY <1>5, <2>10 DEF RecordStep
  <2> QED  BY <2>11 DEF r
<1> QED  BY <1>1, <1>2, <1>3, <1>4, <1>5

-----------------------------------------------------------------------------
(* The loops *)

LEMMA InitInv ==
  ASSUME MInit
  PROVE  MInv
<1>1. PICK m \in Messages :
        /\ mem = m.bytes /\ known = m.known /\ report \in BOOLEAN
        /\ sets = SetsInit(m.bytes, 0) /\ phase = "sets"
  BY DEF MInit
<1>2. /\ m.bytes \in Seq(0..255) /\ U16(m.bytes, 2) \in MsgHdrLen..Len(m.bytes)
      /\ Snapshot(m.known)
  BY MessagesAssumption DEF Snapshot
<1>3. IsBytes(mem) /\ Snapshot(known)
  BY <1>1, <1>2 DEF IsBytes, Byte
<1>4. SetsOK(mem, sets)
  <2> DEFINE len == U16(mem, 2)
  <2>1. sets = [next |-> 0 + MsgHdrLen, end |-> 0 + U16(mem, 0 + 2)]
    BY <1>1 DEF SetsInit
  <2>2. 0 + 2 = 2 /\ len \in MsgHdrLen..Len(mem) /\ Len(mem) \in Nat
    BY <1>1, <1>2, <1>3, LenProperties DEF IsBytes
  <2>3. sets = [next |-> 0 + 16, end |-> 0 + len]
    BY <2>1, <2>2 DEF MsgHdrLen
  <2>4. len \in Nat /\ 16 <= len /\ len <= Len(mem)
    BY <2>2 DEF MsgHdrLen
  <2> HIDE DEF len
  <2>5. sets.next = 16 /\ sets.end = len
    BY <2>3, <2>4
  <2>6. sets = [next |-> sets.next, end |-> sets.end]
    BY <2>3
  <2> QED  BY <2>4, <2>5, <2>6 DEF SetsOK
<1> QED  BY <1>1, <1>3, <1>4 DEF MInv, Phases, InSet, InRecord, InList

\* What is behind the iterators of a Set is in the message.
LEMMA Limits ==
  ASSUME MInv
  PROVE  /\ phase \in InSet => inner.next \in Nat /\ inner.end \in Nat /\ inner.end <= Len(mem)
         /\ phase \in InRecord => inner.next <= inner.end /\ inner.next <= Len(mem)
         /\ Len(mem) \in Nat
<1>1. Len(mem) \in Nat /\ sets.next \in Nat /\ sets.next <= Len(mem)
  BY LenProperties DEF MInv, SetsOK, IsBytes
<1>2. phase \in InSet => inner.next \in Nat /\ inner.end = sets.next
  BY DEF MInv, DsetOK
<1>3. phase \in InRecord => phase \in InSet /\ inner.next <= inner.end
  BY DEF MInv, DrecOK, InSet
<1> QED  BY <1>1, <1>2, <1>3

LEMMA NextSetInv ==
  ASSUME MInv, NextSet
  PROVE  MInv'
<1> DEFINE r == SetsNext(mem, sets)
           id == U16(mem, r[2].set)
<1>1. /\ phase = "sets" /\ sets' = r[1]
      /\ mem' = mem /\ report' = report /\ known' = known
  BY DEF NextSet
<1>2. \/ phase' \in {"done", "sets"}
      \/ /\ r[2].rc = "OK" /\ id \in {TmpltSet, OptsSet}
         /\ phase' = "templates" /\ inner' = TsetInit(mem, r[2].set)
      \/ /\ r[2].rc = "OK" /\ id \in DOMAIN known
         /\ phase' = "records" /\ inner' = DsetInit(mem, r[2].set, known[id])
  BY DEF NextSet
<1>3. IsBytes(mem) /\ SetsOK(mem, sets) /\ Snapshot(known) /\ report \in BOOLEAN
  BY DEF MInv
<1>4. SetsStep(mem, sets, r)
  BY <1>3, SetsNextIs
<1> HIDE DEF r
<1>5. SetsOK(mem, sets')
  BY <1>1, <1>3, <1>4 DEF SetsStep, SetDelivered
<1>6. CASE phase' \in {"done", "sets"}
  BY <1>1, <1>3, <1>5, <1>6 DEF MInv, Phases, InSet, InRecord, InList
<1>7. r[2].rc = "OK" =>
        /\ r[2].set = sets.next /\ sets'.next = sets.next + U16(mem, sets.next + 2)
        /\ sets.next + SetHdrLen <= sets'.next
  BY <1>1, <1>4 DEF SetsStep, SetDelivered
<1>8. CASE /\ r[2].rc = "OK" /\ id \in {TmpltSet, OptsSet}
           /\ phase' = "templates" /\ inner' = TsetInit(mem, r[2].set)
  <2>1. TsetOK(mem, sets', TsetInit(mem, sets.next))
    BY <1>3, <1>5, <1>7, <1>8, TsetInitIs
  <2>2. TsetOK(mem, sets', inner')
    BY <1>7, <1>8, <2>1
  <2> QED  BY <1>1, <1>3, <1>5, <1>8, <2>2 DEF MInv, Phases, InSet, InRecord, InList
<1>9. CASE /\ r[2].rc = "OK" /\ id \in DOMAIN known
           /\ phase' = "records" /\ inner' = DsetInit(mem, r[2].set, known[id])
  <2>1. IsTemplate(known[id])
    BY <1>3, <1>9 DEF Snapshot
  <2>2. DsetOK(sets', DsetInit(mem, sets.next, known[id]))
    BY <1>3, <1>5, <1>7, <1>9, <2>1, DsetInitIs
  <2>3. DsetOK(sets', inner')
    BY <1>7, <1>9, <2>2
  <2> QED  BY <1>1, <1>3, <1>5, <1>9, <2>3 DEF MInv, Phases, InSet, InRecord, InList
<1> QED  BY <1>2, <1>6, <1>8, <1>9

LEMMA NextTemplateInv ==
  ASSUME MInv, NextTemplate
  PROVE  MInv'
<1> DEFINE r == TsetNext(mem, inner)
           parsed == Parse(SetTypeOf(mem, inner), mem, r[2].rec, r[2].size)
           id == U16(mem, r[2].rec)
<1>1. /\ phase = "templates" /\ inner' = r[1]
      /\ mem' = mem /\ report' = report /\ sets' = sets
  BY DEF NextTemplate
<1>2. \/ phase' = "sets" /\ known' = known
      \/ phase' = phase /\ r[2].rc = "OK" /\ \E ids : known' = Without(ids)
      \/ /\ phase' = phase /\ r[2].rc = "OK" /\ r[2].what = "definition"
         /\ known' = [i \in DOMAIN known \cup {id} |-> IF i = id THEN parsed.tmplt ELSE known[i]]
  BY DEF NextTemplate, ParseDefinition, SetType, SetTypeOf
<1>3. IsBytes(mem) /\ SetsOK(mem, sets) /\ Snapshot(known) /\ report \in BOOLEAN
      /\ TsetOK(mem, sets, inner)
  BY <1>1 DEF MInv
<1>4. TsetStep(mem, sets, inner, r)
  BY <1>3, TsetNextIs
<1> HIDE DEF r
<1>5. CASE phase' = "sets" /\ known' = known
  BY <1>1, <1>3, <1>5 DEF MInv, Phases, InSet, InRecord, InList
<1>6. r[2].rc = "OK" => TsetOK(mem, sets, inner')
  BY <1>1, <1>4 DEF TsetStep
<1>7. CASE phase' = phase /\ r[2].rc = "OK" /\ \E ids : known' = Without(ids)
  <2>1. Snapshot(known')
    BY <1>3, <1>7 DEF Snapshot, Without
  <2> QED  BY <1>1, <1>3, <1>6, <1>7, <2>1 DEF MInv, Phases, InSet, InRecord, InList
<1>8. CASE /\ phase' = phase /\ r[2].rc = "OK" /\ r[2].what = "definition"
           /\ known' = [i \in DOMAIN known \cup {id} |-> IF i = id THEN parsed.tmplt ELSE known[i]]
  <2>1. IsTemplate(parsed.tmplt)
    BY <1>4, <1>8 DEF TsetStep, Parses
  <2> HIDE DEF parsed, id
  <2>2. Snapshot(known')
    BY <1>3, <1>8, <2>1 DEF Snapshot
  <2> QED  BY <1>1, <1>3, <1>6, <1>8, <2>2 DEF MInv, Phases, InSet, InRecord, InList
<1> QED  BY <1>2, <1>5, <1>7, <1>8

LEMMA NextRecordInv ==
  ASSUME MInv, NextRecord
  PROVE  MInv'
<1> DEFINE r == DsetNext(mem, inner)
           rec == [tmplt |-> inner.tmplt, mem |-> mem, at |-> r[2].rec, size |-> r[2].size]
<1>1. /\ phase = "records" /\ inner' = r[1]
      /\ mem' = mem /\ report' = report /\ sets' = sets /\ known' = known
      /\ \/ phase' = "sets"
         \/ r[2].rc = "OK" /\ phase' = "fields" /\ drec' = [rec |-> rec, it |-> IterInit(rec, {})]
  BY DEF NextRecord
<1>2. IsBytes(mem) /\ SetsOK(mem, sets) /\ Snapshot(known) /\ report \in BOOLEAN
      /\ DsetOK(sets, inner)
  BY <1>1 DEF MInv, InSet
<1>3. DsetStep(mem, sets, inner, r)
  BY <1>2, DsetNextIs
<1>4. CASE phase' = "sets"
  BY <1>1, <1>2, <1>4 DEF MInv, Phases, InSet, InRecord, InList
<1>5. CASE r[2].rc = "OK" /\ phase' = "fields" /\ drec' = [rec |-> rec, it |-> IterInit(rec, {})]
  <2>1. Delivered(mem, sets, inner, r)
    BY <1>3, <1>5 DEF DsetStep
  <2> HIDE DEF r
  <2>2. DsetOK(sets, inner')
    BY <1>1, <2>1 DEF Delivered
  <2>3. DrecOK(mem, r[1], [rec |-> rec, it |-> IterInit(rec, {})])
    BY <1>2, <2>1, IterInitIs
  <2>4. DrecOK(mem, inner', drec')
    BY <1>1, <1>5, <2>3
  <2> QED  BY <1>1, <1>2, <1>5, <2>2, <2>4 DEF MInv, Phases, InSet, InRecord, InList
<1> QED  BY <1>1, <1>4, <1>5

LEMMA NextFieldInv ==
  ASSUME MInv, NextField
  PROVE  MInv'
<1> DEFINE r == IterNext(drec.rec, drec.it)
           f == r[2]
           at == drec.rec.at + f.data
           id == f.info.id
<1>1. /\ phase = "fields" /\ drec' = [drec EXCEPT !.it = r[1]]
      /\ mem' = mem /\ report' = report /\ sets' = sets /\ known' = known /\ inner' = inner
  BY DEF NextField
<1>2. \/ phase' = "records"
      \/ f.rc = "OK" /\ phase' = "fields"
      \/ f.rc = "OK" /\ phase' = "members" /\ list' = BlistInit(mem, at, f.size)
      \/ f.rc = "OK" /\ phase' = "list_records" /\ list' = StlistInit(mem, at, f.size, known, report)
      \/ f.rc = "OK" /\ phase' = "blocks" /\ list' = StmlistInit(mem, at, f.size, known, report)
  <2> USE DEF ListLoop
  <2>1. CASE f.rc # "OK"
    BY <2>1 DEF NextField
  <2>2. CASE f.rc = "OK" /\ ~(f.info.en = 0 /\ id \in DOMAIN ListLoop)
    <3>1. phase' = phase
      BY <2>2 DEF NextField
    <3> QED  BY <1>1, <2>2, <3>1
  <2>3. CASE f.rc = "OK" /\ f.info.en = 0 /\ id \in DOMAIN ListLoop
    <3>1. /\ phase' = ListLoop[id]
          /\ list' = CASE id = 291 -> BlistInit(mem, at, f.size)
                       [] id = 292 -> StlistInit(mem, at, f.size, known, report)
                       [] OTHER -> StmlistInit(mem, at, f.size, known, report)
      BY <2>3 DEF NextField
    <3>2. id \in {291, 292, 293}
      BY <2>3
    <3> HIDE DEF id, at, f
    <3>3. CASE id = 291
      BY <2>3, <3>1, <3>3
    <3>4. CASE id = 292
      BY <2>3, <3>1, <3>4
    <3>5. CASE id = 293
      BY <2>3, <3>1, <3>5
    <3> QED  BY <3>2, <3>3, <3>4, <3>5
  <2> QED  BY <2>1, <2>2, <2>3
<1>3. IsBytes(mem) /\ SetsOK(mem, sets) /\ Snapshot(known) /\ report \in BOOLEAN
      /\ DsetOK(sets, inner) /\ DrecOK(mem, inner, drec)
  BY <1>1 DEF MInv, InSet, InRecord
<1>4. inner.next \in Nat /\ inner.next <= Len(mem) /\ Len(mem) \in Nat
  BY <1>1, Limits DEF InSet, InRecord
<1>5. FieldStep(mem, inner, drec, r)
  BY <1>3, <1>4, IterNextIs
<1> HIDE DEF r
<1>6. DrecOK(mem, inner, drec')
  BY <1>1, <1>5 DEF FieldStep
<1>7. f.rc = "OK" => InField(inner, at, f.size) /\ InMessage(mem, at, f.size)
  <2> SUFFICES ASSUME f.rc = "OK" PROVE InField(inner, at, f.size) /\ InMessage(mem, at, f.size)
    OBVIOUS
  <2>1. InField(inner, at, f.size)
    BY <1>5 DEF FieldStep
  <2> HIDE DEF f, at
  <2> DEFINE size == f.size
  <2>2. at \in Nat /\ size \in Nat /\ at + size <= inner.next
    BY <2>1 DEF InField
  <2> HIDE DEF size
  <2>3. at + size <= Len(mem)
    BY <1>4, <2>2
  <2>4. InMessage(mem, at, size)
    BY <1>3, <2>2, <2>3 DEF InMessage
  <2> QED  BY <2>1, <2>4 DEF size
<1>8. CASE phase' = "records"
  BY <1>1, <1>3, <1>8 DEF MInv, Phases, InSet, InRecord, InList
<1>9. CASE f.rc = "OK" /\ phase' = "fields"
  BY <1>1, <1>3, <1>6, <1>9 DEF MInv, Phases, InSet, InRecord, InList
<1> HIDE DEF f, at
<1>10. ASSUME f.rc = "OK", phase' \in {"members", "list_records", "blocks"}, ListOK(inner, phase', list')
       PROVE  MInv'
  BY <1>1, <1>3, <1>6, <1>10 DEF MInv, Phases, InSet, InRecord, InList
<1>11. CASE f.rc = "OK" /\ phase' = "members" /\ list' = BlistInit(mem, at, f.size)
  <2>1. ListOK(inner, "members", BlistInit(mem, at, f.size))
    BY <1>4, <1>7, <1>11, BlistInitIs
  <2>2. ListOK(inner, phase', list')
    BY <1>11, <2>1
  <2> QED  BY <1>10, <1>11, <2>2
<1>12. CASE f.rc = "OK" /\ phase' = "list_records" /\ list' = StlistInit(mem, at, f.size, known, report)
  <2>1. ListOK(inner, "list_records", StlistInit(mem, at, f.size, known, report))
    BY <1>3, <1>4, <1>7, <1>12, StlistInitIs
  <2>2. ListOK(inner, phase', list')
    BY <1>12, <2>1
  <2> QED  BY <1>10, <1>12, <2>2
<1>13. CASE f.rc = "OK" /\ phase' = "blocks" /\ list' = StmlistInit(mem, at, f.size, known, report)
  <2>1. ListOK(inner, "blocks", StmlistInit(mem, at, f.size, known, report))
    BY <1>3, <1>4, <1>7, <1>13, StmlistInitIs
  <2>2. ListOK(inner, phase', list')
    BY <1>13, <2>1
  <2> QED  BY <1>10, <1>13, <2>2
<1> QED  BY <1>2, <1>8, <1>9, <1>11, <1>12, <1>13

\* What a step in a list leaves alone is in order as it was.
LEMMA ListSteps ==
  ASSUME MInv, phase \in InList, UNCHANGED <<mem, sent, report, known, sets, inner, drec>>,
         phase' \in InRecord, phase' \in InList => ListOK(inner, phase', list')
  PROVE  MInv'
<1>1. IsBytes(mem) /\ SetsOK(mem, sets) /\ Snapshot(known) /\ report \in BOOLEAN
      /\ DsetOK(sets, inner) /\ DrecOK(mem, inner, drec)
  BY DEF MInv, InSet, InRecord
<1>2. phase' \in Phases /\ phase' \notin {"templates", "sets", "done", "records"}
  BY DEF Phases, InSet, InRecord, InList
<1> QED  BY <1>1, <1>2 DEF MInv

LEMMA NextMemberInv ==
  ASSUME MInv, NextMember
  PROVE  MInv'
<1> DEFINE r == IF phase = "members" THEN BlistNext(mem, list) ELSE StlistNext(mem, list)
<1>1. /\ phase \in {"members", "list_records"} /\ list' = r[1]
      /\ phase' = "fields" \/ (phase' = phase /\ r[2].rc = "OK")
      /\ UNCHANGED <<mem, sent, report, known, sets, inner, drec>>
  BY DEF NextMember
<1>2. phase \in InList /\ phase \in InRecord /\ phase \in InSet /\ "fields" \in InRecord /\ "fields" \notin InList
  BY <1>1 DEF InList, InRecord, InSet
<1>3. IsBytes(mem) /\ ListOK(inner, phase, list) /\ inner.next \in Nat /\ inner.next <= Len(mem)
  BY <1>2, Limits DEF MInv
<1>4. CASE phase' = "fields"
  BY <1>1, <1>2, <1>4, ListSteps
<1>5. CASE phase' = phase /\ r[2].rc = "OK"
  <2>1. ListOK(inner, phase, r[1])
    <3>1. CASE phase = "members"
      BY <1>3, <1>5, <3>1, BlistNextIs
    <3>2. CASE phase = "list_records"
      BY <1>3, <1>5, <3>2, StlistNextIs
    <3> QED  BY <1>1, <3>1, <3>2
  <2> HIDE DEF r
  <2>2. ListOK(inner, phase', list')
    BY <1>1, <1>5, <2>1
  <2> QED  BY <1>1, <1>2, <1>5, <2>2, ListSteps
<1> QED  BY <1>1, <1>4, <1>5

LEMMA NextBlockInv ==
  ASSUME MInv, NextBlock
  PROVE  MInv'
<1> DEFINE r == StmlistNextBlock(mem, list)
<1>1. /\ phase = "blocks" /\ list' = r[1]
      /\ \/ phase' = "fields"
         \/ phase' = "block_records" /\ r[2].rc = "OK"
         \/ phase' = "blocks" /\ r[2].rc = "NOTFOUND"
      /\ UNCHANGED <<mem, sent, report, known, sets, inner, drec>>
  BY DEF NextBlock
<1>2. phase \in InList /\ phase \in InRecord /\ phase \in InSet /\ "fields" \in InRecord /\ "fields" \notin InList
      /\ "block_records" \in InRecord /\ "blocks" \in InRecord
  BY <1>1 DEF InList, InRecord, InSet
<1>3. IsBytes(mem) /\ ListOK(inner, "blocks", list) /\ inner.next \in Nat /\ inner.next <= Len(mem)
  BY <1>1, <1>2, Limits DEF MInv
<1>4. BlockStep(inner, r)
  BY <1>3, StmlistNextBlockIs
<1> HIDE DEF r
<1>5. phase' \in InList => ListOK(inner, phase', list')
  BY <1>1, <1>2, <1>4 DEF BlockStep
<1>6. phase' \in InRecord
  BY <1>1, <1>2
<1> QED  BY <1>1, <1>2, <1>5, <1>6, ListSteps

LEMMA NextOfBlockInv ==
  ASSUME MInv, NextOfBlock
  PROVE  MInv'
<1> DEFINE r == StmlistNextRec(mem, list)
<1>1. /\ phase = "block_records" /\ list' = r[1]
      /\ \/ phase' = "fields"
         \/ phase' = "block_records" /\ r[2].rc = "OK"
         \/ phase' = "blocks" /\ r[2].rc = "EOC"
      /\ UNCHANGED <<mem, sent, report, known, sets, inner, drec>>
  <2>1. phase = "block_records" /\ list' = r[1] /\ UNCHANGED <<mem, sent, report, known, sets, inner, drec>>
    BY DEF NextOfBlock
  <2>2. CASE r[2].rc = "OK"
    BY <2>1, <2>2 DEF NextOfBlock
  <2>3. CASE r[2].rc = "EOC"
    BY <2>1, <2>3 DEF NextOfBlock
  <2>4. CASE r[2].rc \notin {"OK", "EOC"}
    BY <2>1, <2>4 DEF NextOfBlock
  <2> QED  BY <2>1, <2>2, <2>3, <2>4
<1>2. phase \in InList /\ phase \in InRecord /\ phase \in InSet /\ "fields" \in InRecord /\ "fields" \notin InList
      /\ "block_records" \in InRecord /\ "blocks" \in InRecord
  BY <1>1 DEF InList, InRecord, InSet
<1>3. IsBytes(mem) /\ ListOK(inner, "block_records", list) /\ inner.next \in Nat /\ inner.next <= Len(mem)
  BY <1>1, <1>2, Limits DEF MInv
<1>4. RecordStep(inner, r)
  BY <1>3, StmlistNextRecIs
<1> HIDE DEF r
<1>5. phase' \in InList => ListOK(inner, phase', list')
  BY <1>1, <1>2, <1>4 DEF RecordStep
<1>6. phase' \in InRecord
  BY <1>1, <1>2
<1> QED  BY <1>1, <1>2, <1>5, <1>6, ListSteps

\* The loops of a collector keep every iterator in what the loop around it
\* gave it, and every template they know such that records can be cut by it.
THEOREM IteratorInvariant == MSpec => []MInv
<1>1. MInit => MInv
  BY InitInv
<1>2. MInv /\ [MNext]_mvars => MInv'
  <2> SUFFICES ASSUME MInv, [MNext]_mvars PROVE MInv'
    OBVIOUS
  <2>1. CASE NextSet       BY <2>1, NextSetInv
  <2>2. CASE NextTemplate  BY <2>2, NextTemplateInv
  <2>3. CASE NextRecord    BY <2>3, NextRecordInv
  <2>4. CASE NextField     BY <2>4, NextFieldInv
  <2>5. CASE NextMember    BY <2>5, NextMemberInv
  <2>6. CASE NextBlock     BY <2>6, NextBlockInv
  <2>7. CASE NextOfBlock   BY <2>7, NextOfBlockInv
  <2>8. CASE UNCHANGED mvars
    BY <2>8 DEF mvars, MInv
  <2> QED  BY <2>1, <2>2, <2>3, <2>4, <2>5, <2>6, <2>7, <2>8 DEF MNext
<1> QED  BY <1>1, <1>2, PTL DEF MSpec

\* The fields of a Data Record end where the record ends, and no field is
\* delivered that leaves it: fds_dset_iter_next() and fds_drec_iter_next()
\* find the lengths apart from each other, for any bytes and any template.
THEOREM RecordsAreFilled == MSpec => []FieldsFillRecord
<1>1. MInv => FieldsFillRecord
  <2> SUFFICES ASSUME MInv, phase \in InRecord
               PROVE  drec.it.off <= drec.rec.size
                      /\ (drec.it.idx > Len(drec.it.fields) => drec.it.off = drec.rec.size)
    BY DEF FieldsFillRecord, InRecord, InList
  <2> DEFINE rec == drec.rec
             n == Len(Fields(rec))
  <2>1. /\ Filled(rec) /\ drec.it.fields = Fields(rec)
        /\ drec.it.idx \in 1..(n + 1) /\ drec.it.off = FieldOffsets(rec)[drec.it.idx]
    BY DEF MInv, DrecOK
  <2>2. n \in Nat /\ FieldOffsets(rec)[n + 1] = rec.size
        /\ FieldOffsets(rec)[drec.it.idx] <= rec.size
    BY <2>1 DEF Filled
  <2>3. drec.it.idx > Len(drec.it.fields) => drec.it.idx = n + 1
    BY <2>1, <2>2
  <2> QED  BY <2>1, <2>2, <2>3
<1> QED  BY <1>1, IteratorInvariant, PTL

\* What fds_tset_iter_next() announces as a definition, fds_template_parse()
\* turns into a template of that length and of those fields, for any bytes.
THEOREM DefinitionsAreParsed == MSpec => []DefinitionsParse
<1>1. MInv => DefinitionsParse
  <2> DEFINE r == TsetNext(mem, inner)[2]
  <2> SUFFICES ASSUME MInv, phase = "templates", r.rc = "OK", r.what = "definition"
               PROVE  LET parsed == ParseDefinition(r)
                      IN  /\ parsed.rc = "OK" /\ parsed.len = r.size /\ parsed.tmplt.dataLen >= 1
                          /\ Len(parsed.tmplt.fields) = r.fields /\ parsed.tmplt.scope = r.scope
    BY DEF DefinitionsParse
  <2>1. TsetStep(mem, sets, inner, TsetNext(mem, inner))
    BY TsetNextIs DEF MInv
  <2>2. Parses(mem, SetTypeOf(mem, inner), r)
    BY <2>1 DEF TsetStep
  <2> HIDE DEF r
  <2> QED  BY <2>2 DEF Parses, ParseDefinition, SetType, SetTypeOf
<1> QED  BY <1>1, IteratorInvariant, PTL
=============================================================================
