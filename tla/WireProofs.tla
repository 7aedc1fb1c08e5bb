----------------------------- MODULE WireProofs -----------------------------
(***************************************************************************)
(* What the format bytes say, for every byte, and what a row of items is   *)
(* worth, for every message: the lemmas that the proofs about the decoders *)
(* and the encoders share, and the theorems that a value has one end and   *)
(* that Grammar finds the same one.                                        *)
(***************************************************************************)
EXTENDS Rows, FiniteSets, FiniteSetTheorems, SequenceTheorems, WellFoundedInduction,
        TLAPS

\* A length field is 0, 1, 2 or 4 bytes wide (format.go).
LEMMA LenWidthType ==
  ASSUME NEW f \in Byte
  PROVE  LenWidth(f) \in {0, 1, 2, 4}
BY DEF LenWidth

\* A scalar's payload has a width (the number cases of decodeValue).
LEMMA ScalarWidthType ==
  ASSUME NEW f \in Byte
  PROVE  ScalarWidth(f) \in Nat
BY DEF ScalarWidth

\* One more byte of a big-endian number.
LEMMA DigitType ==
  ASSUME NEW high \in Nat, NEW low \in Nat
  PROVE  Digit(high, low) \in Nat
BY DEF Digit

\* A length that was read completely is a natural number (parse*Len).
LEMMA ItemLenType ==
  ASSUME NEW d \in Seq(Byte), NEW p \in Nat, NEW f \in Byte,
         p + 1 + LenWidth(f) <= Len(d)
  PROVE  ItemLen(d, p, f) \in Nat
<1>1. CASE LenWidth(f) = 0
  <2>1. FixLen(f) \in Nat
    BY DEF FixLen, FixExt, FixExtLen, Byte
  <2>2. QED  BY <1>1, <2>1 DEF ItemLen
<1>2. CASE LenWidth(f) # 0
  <2>1. LenWidth(f) \in {1, 2, 4}
    BY <1>2, LenWidthType
  <2>2. ASSUME NEW i \in 1..Len(d) PROVE d[i] \in Nat
    <3>1. d[i] \in Byte
      BY ElementOfSeq
    <3>2. \A x \in Byte : x \in Nat
      BY DEF Byte
    <3>3. QED  BY <3>1, <3>2, Zenon
  <2>3. BigEndian(d, p + 1, LenWidth(f)) \in Nat
    <3>1. CASE LenWidth(f) = 1
      <4>1. p + 1 + 1 \in 1..Len(d)
        BY <3>1
      <4>2. QED  BY <3>1, <4>1, <2>2 DEF BigEndian
    <3>2. CASE LenWidth(f) = 2
      <4>1. p + 1 + 1 \in 1..Len(d) /\ p + 1 + 2 \in 1..Len(d)
        BY <3>2
      <4>2. d[p + 1 + 1] \in Nat /\ d[p + 1 + 2] \in Nat
        BY <4>1, <2>2
      <4>3. QED  BY <3>2, <4>2, DigitType DEF BigEndian
    <3>3. CASE LenWidth(f) = 4
      <4>1. /\ p + 1 + 1 \in 1..Len(d) /\ p + 1 + 2 \in 1..Len(d)
            /\ p + 1 + 3 \in 1..Len(d) /\ p + 1 + 4 \in 1..Len(d)
        BY <3>3
      <4>2. /\ d[p + 1 + 1] \in Nat /\ d[p + 1 + 2] \in Nat
            /\ d[p + 1 + 3] \in Nat /\ d[p + 1 + 4] \in Nat
        BY <4>1, <2>2
      <4>3. Digit(d[p + 1 + 1], d[p + 1 + 2]) \in Nat
        BY <4>2, DigitType
      <4>4. Digit(Digit(d[p + 1 + 1], d[p + 1 + 2]), d[p + 1 + 3]) \in Nat
        BY <4>2, <4>3, DigitType
      <4>5. QED  BY <3>3, <4>2, <4>4, DigitType DEF BigEndian
    <3>4. LenWidth(f) = 1 \/ LenWidth(f) = 2 \/ LenWidth(f) = 4
      BY <2>1
    <3>5. QED  BY <3>1, <3>2, <3>3, <3>4
  <2>4. QED  BY <1>2, <2>3 DEF ItemLen
<1>3. QED  BY <1>1, <1>2

\* The format bytes of numbers and of bools open no container.
LEMMA ScalarKinds ==
  ASSUME NEW f \in Byte,
         \/ isPositiveFixint(f) \/ isNegativeFixint(f)
         \/ f \in 202..211 \/ f \in {194, 195}
  PROVE  Kind(f) = "scalar"
<1>1. CASE isPositiveFixint(f) \/ isNegativeFixint(f)
  <2>1. f \in Nat /\ (f <= 127 \/ f >= 224) /\ f <= 255
    BY <1>1 DEF isPositiveFixint, isNegativeFixint, Byte
  <2>2. ~isFixmap(f)
    BY <2>1 DEF isFixmap
  <2>3. ~isFixarray(f)
    BY <2>1 DEF isFixarray
  <2>4. ~isFixstr(f)
    BY <2>1 DEF isFixstr
  <2>5. /\ f \notin Map /\ f \notin Array /\ f \notin Str /\ f \notin NilBool \cup Number
        /\ f \notin Bin /\ f \notin FixExt \cup VarExt
    BY <2>1 DEF Map, Array, Str, NilBool, Number, Bin, FixExt, VarExt
  <2> QED
    BY <1>1, <2>2, <2>3, <2>4, <2>5 DEF Kind
<1>2. CASE f \in 202..211 \/ f \in {194, 195}
  <2>1. f \in Nat /\ f >= 194 /\ f <= 211
    BY <1>2
  <2>2. ~isFixmap(f)
    BY <2>1 DEF isFixmap
  <2>3. ~isFixarray(f)
    BY <2>1 DEF isFixarray
  <2>4. ~isFixstr(f)
    BY <2>1 DEF isFixstr
  <2>5. /\ f \notin Map /\ f \notin Array /\ f \notin Str /\ f \in NilBool \cup Number
        /\ f \notin Bin /\ f \notin FixExt \cup VarExt
    BY <1>2 DEF Map, Array, Str, NilBool, Number, Bin, FixExt, VarExt
  <2>6. ~isNegativeFixint(f)
    BY <2>1 DEF isNegativeFixint
  <2>7. ~isPositiveFixint(f)
    BY <2>1 DEF isPositiveFixint
  <2> QED
    BY <2>2, <2>3, <2>4, <2>5, <2>6, <2>7 DEF Kind
<1> QED
  BY <1>1, <1>2
-----------------------------------------------------------------------------
(* Rows of items.                                                          *)

\* The order of the natural numbers is well founded.
Less == {s \in Nat \X Nat : s[1] < s[2]}
\* There is no endless descent in the natural numbers.
LEMMA NatLess == IsWellFoundedOn(Less, Nat)
BY NatLessThanWellFounded, Zenon DEF OpToRel, Less

\* A nonempty set of natural numbers has a least element.
LEMMA LeastElement ==
  ASSUME NEW S \in SUBSET Nat, S # {}
  PROVE  \E m \in S : \A n \in S : m <= n
<1>1. PICK m \in S : \A n \in S : ~(<<n, m>> \in Less)
  BY NatLess, WFMin
<1>2. ASSUME NEW n \in S PROVE m <= n
  <2>1. ~(n < m)
    BY <1>1 DEF Less
  <2>2. QED  BY <2>1
<1>3. QED  BY <1>2

\* What an item's header says, once it is there.
LEMMA HeaderFacts ==
  ASSUME NEW d \in Seq(Byte), NEW p \in Nat, HasHeader(d, p)
  PROVE  /\ d[p+1] \in Byte
         /\ HeaderEnd(d, p) \in Nat /\ p < HeaderEnd(d, p)
         /\ KindAt(d, p) # "scalar" => LenAt(d, p) \in Nat
         /\ ValuesIn(d, p) \in Nat
<1>1. d[p+1] \in Byte
  <2>1. p + 1 \in 1..Len(d)
    BY DEF HasHeader
  <2>2. QED  BY <2>1, ElementOfSeq
<1>2. LenWidth(d[p+1]) \in Nat
  BY <1>1, LenWidthType
<1>3. HeaderEnd(d, p) \in Nat /\ p < HeaderEnd(d, p)
  BY <1>2 DEF HeaderEnd
<1>4. ASSUME KindAt(d, p) # "scalar" PROVE LenAt(d, p) \in Nat
  <2>1. p + 1 + LenWidth(d[p+1]) <= Len(d)
    BY <1>4 DEF HasHeader, HeaderEnd
  <2>2. QED  BY <1>1, <2>1, ItemLenType DEF LenAt
<1>5. ValuesIn(d, p) \in Nat
  BY <1>4 DEF ValuesIn
<1>6. QED  BY <1>1, <1>3, <1>4, <1>5

\* An item takes at least one byte, and lies in the message.
LEMMA ItemMoves ==
  ASSUME NEW d \in Seq(Byte), NEW p \in Nat, IsItem(d, p)
  PROVE  /\ ItemEnd(d, p) \in Nat /\ p < ItemEnd(d, p) /\ ItemEnd(d, p) <= Len(d)
         /\ ValuesIn(d, p) \in Nat
<1>1. HasHeader(d, p) /\ ItemEnd(d, p) <= Len(d)
  BY DEF IsItem
<1>2. /\ d[p+1] \in Byte /\ HeaderEnd(d, p) \in Nat /\ p < HeaderEnd(d, p)
      /\ KindAt(d, p) # "scalar" => LenAt(d, p) \in Nat
      /\ ValuesIn(d, p) \in Nat
  BY <1>1, HeaderFacts
<1>3. CASE KindAt(d, p) = "scalar"
  BY <1>1, <1>2, <1>3, ScalarWidthType DEF ItemEnd
<1>4. CASE KindAt(d, p) # "scalar"
  <2>1. LenAt(d, p) \in Nat
    BY <1>2, <1>4
  <2>2. ItemEnd(d, p) = HeaderEnd(d, p) + (IF KindAt(d, p) \in {"str", "bin"} THEN LenAt(d, p)
                          ELSE IF KindAt(d, p) = "ext" THEN 1 + LenAt(d, p)
                          ELSE 0)
    BY <1>4 DEF ItemEnd
  <2>3. QED  BY <1>1, <1>2, <2>1, <2>2
<1>5. QED  BY <1>3, <1>4

\* The row bt, eu is the row at, due and the item behind it.
GrowsTo(d, k, at, due, bt, eu) ==
  /\ IsRow(d, k + 1, bt, eu)
  /\ \A i \in 0..k : bt[i] = at[i] /\ eu[i] = due[i]
  /\ bt[k+1] = ItemEnd(d, at[k])
  /\ eu[k+1] = due[k] - 1 + ValuesIn(d, at[k])

\* A row grows by the item at its end.
LEMMA RowGrows ==
  ASSUME NEW d \in Seq(Byte), NEW k \in Nat,
         NEW at, NEW due,
         IsRow(d, k, at, due), due[k] > 0, IsItem(d, at[k])
  PROVE  \E bt, eu : GrowsTo(d, k, at, due, bt, eu)
<1> DEFINE e == ItemEnd(d, at[k])
           n == due[k] - 1 + ValuesIn(d, at[k])
           bt == [i \in 0..k+1 |-> IF i = k + 1 THEN e ELSE at[i]]
           eu == [i \in 0..k+1 |-> IF i = k + 1 THEN n ELSE due[i]]
<1>0. at \in [0..k -> Nat] /\ due \in [0..k -> Nat]
  BY DEF IsRow
<1>1. at[k] \in Nat /\ due[k] \in Nat /\ k \in 0..k
  BY <1>0
<1>2. e \in Nat /\ ValuesIn(d, at[k]) \in Nat
  BY <1>1, ItemMoves
<1>3. n \in Nat
  BY <1>1, <1>2
<1> HIDE DEF e, n
<1>4. bt \in [0..k+1 -> Nat] /\ eu \in [0..k+1 -> Nat]
  BY <1>0, <1>2, <1>3
<1>5. /\ \A i \in 0..k : bt[i] = at[i] /\ eu[i] = due[i]
      /\ bt[k+1] = e /\ eu[k+1] = n
  OBVIOUS
<1> HIDE DEF bt, eu
<1>6. ASSUME NEW i \in 0..k+1-1
      PROVE  /\ IsItem(d, bt[i]) /\ eu[i] > 0
             /\ bt[i+1] = ItemEnd(d, bt[i])
             /\ eu[i+1] = eu[i] - 1 + ValuesIn(d, bt[i])
  <2>1. i \in 0..k /\ bt[i] = at[i] /\ eu[i] = due[i]
    BY <1>5
  <2>2. CASE i = k
    BY <1>5, <2>1, <2>2 DEF e, n
  <2>3. CASE i # k
    <3>1. i \in 0..k-1 /\ i + 1 \in 0..k
      BY <2>1, <2>3
    <3>2. bt[i+1] = at[i+1] /\ eu[i+1] = due[i+1]
      BY <1>5, <3>1
    <3>3. /\ IsItem(d, at[i]) /\ due[i] > 0
          /\ at[i+1] = ItemEnd(d, at[i])
          /\ due[i+1] = due[i] - 1 + ValuesIn(d, at[i])
      BY <3>1 DEF IsRow
    <3>4. QED  BY <2>1, <3>2, <3>3
  <2>4. QED  BY <2>2, <2>3
<1>7. eu[0] = 1
  BY <1>5 DEF IsRow
<1>8. IsRow(d, k + 1, bt, eu)
  <2> DEFINE m == k + 1
             Follows(i) == /\ IsItem(d, bt[i]) /\ eu[i] > 0
                           /\ bt[i+1] = ItemEnd(d, bt[i])
                           /\ eu[i+1] = eu[i] - 1 + ValuesIn(d, bt[i])
  <2>1. \A i \in 0..m-1 : Follows(i)
    BY <1>6
  <2>2. bt \in [0..m -> Nat] /\ eu \in [0..m -> Nat]
    BY <1>4
  <2> HIDE DEF m
  <2>3. IsRow(d, m, bt, eu)
    BY <1>7, <2>1, <2>2, Zenon DEF IsRow
  <2>4. QED  BY <2>3 DEF m
<1>9. GrowsTo(d, k, at, due, bt, eu)
  BY <1>5, <1>8 DEF GrowsTo, e, n
<1>10. QED  BY <1>9

\* Two rows that begin at the same byte agree for as long as both last: what is
\* read at a byte, and how much is due there, does not depend on the reader.
LEMMA RowsAgree ==
  ASSUME NEW d \in Seq(Byte), NEW k \in Nat, NEW m \in Nat,
         NEW at, NEW due,
         NEW bt, NEW eu,
         IsRow(d, k, at, due), IsRow(d, m, bt, eu), at[0] = bt[0],
         NEW j \in Nat, j <= k, j <= m
  PROVE  at[j] = bt[j] /\ due[j] = eu[j]
<1> DEFINE Bad == {i \in Nat : i <= k /\ i <= m /\ ~(at[i] = bt[i] /\ due[i] = eu[i])}
<1> SUFFICES ASSUME Bad # {} PROVE FALSE
  OBVIOUS
<1>1. PICK b \in Bad : \A n \in Bad : b <= n
  BY LeastElement
<1>2. b \in Nat /\ b <= k /\ b <= m /\ ~(at[b] = bt[b] /\ due[b] = eu[b])
  OBVIOUS
<1>3. b # 0
  BY <1>2 DEF IsRow
<1>4. b - 1 \in Nat /\ b - 1 <= k /\ b - 1 <= m /\ ~(b <= b - 1)
  BY <1>2, <1>3
<1>5. at[b-1] = bt[b-1] /\ due[b-1] = eu[b-1]
  BY <1>1, <1>4
<1>6. b - 1 \in 0..k-1 /\ b - 1 \in 0..m-1 /\ b - 1 + 1 = b
  BY <1>2, <1>3
<1>7. /\ at[b] = ItemEnd(d, at[b-1])
      /\ due[b] = due[b-1] - 1 + ValuesIn(d, at[b-1])
  BY <1>6 DEF IsRow
<1>8. /\ bt[b] = ItemEnd(d, bt[b-1])
      /\ eu[b] = eu[b-1] - 1 + ValuesIn(d, bt[b-1])
  BY <1>6 DEF IsRow
<1>9. QED  BY <1>2, <1>5, <1>7, <1>8

\* A row whose values are complete is not continued by any other.
LEMMA RowEnds ==
  ASSUME NEW d \in Seq(Byte), NEW k \in Nat, NEW m \in Nat,
         NEW at, NEW due,
         NEW bt, NEW eu,
         IsRow(d, k, at, due), IsRow(d, m, bt, eu), at[0] = bt[0], due[k] = 0
  PROVE  m <= k
<1> SUFFICES ASSUME k < m PROVE FALSE
  OBVIOUS
<1>1. k \in Nat /\ k <= k /\ k <= m
  OBVIOUS
<1>2. eu[k] = due[k]
  BY <1>1, RowsAgree
<1>3. k \in 0..m-1
  OBVIOUS
<1>4. eu[k] > 0
  BY <1>3 DEF IsRow
<1>5. QED  BY <1>2, <1>4

\* Two complete rows that begin at the same byte end at the same byte.
LEMMA RowsEndTogether ==
  ASSUME NEW d \in Seq(Byte), NEW k \in Nat, NEW m \in Nat,
         NEW at, NEW due,
         NEW bt, NEW eu,
         IsRow(d, k, at, due), IsRow(d, m, bt, eu), at[0] = bt[0],
         due[k] = 0, eu[m] = 0
  PROVE  at[k] = bt[m]
<1>1. m <= k
  BY RowEnds
<1>2. k <= m
  BY RowEnds
<1>3. k = m /\ k \in Nat /\ k <= k /\ k <= m
  BY <1>1, <1>2
<1>4. at[k] = bt[k]
  BY <1>3, RowsAgree
<1>5. QED  BY <1>3, <1>4

\* A value has one end: nothing that is read after it, and no choice of the
\* reader, decides where it stops. Each decoder that reads a value left to
\* right therefore stops at the same byte.
THEOREM ValuesEndOnce ==
  ASSUME NEW d \in Seq(Byte), NEW p \in Nat, NEW q \in Nat, NEW r \in Nat,
         IsValue(d, p, q), IsValue(d, p, r)
  PROVE  q = r
<1>1. ASSUME NEW k \in Nat, NEW at, NEW due, NEW m \in Nat, NEW bt, NEW eu,
             IsRow(d, k, at, due) /\ at[0] = p /\ at[k] = q /\ due[k] = 0,
             IsRow(d, m, bt, eu) /\ bt[0] = p /\ bt[m] = r /\ eu[m] = 0
      PROVE  q = r
  <2>1. at[k] = bt[m]
    BY <1>1, RowsEndTogether
  <2>2. QED  BY <1>1, <2>1
<1>2. QED  BY <1>1, Zenon DEF IsValue

\* Each value still due at some byte of a complete row takes at least one byte:
\* the room that validateArrayLen and validateMapLen insist on is needed.
LEMMA RoomForTheRest ==
  ASSUME NEW d \in Seq(Byte), NEW k \in Nat,
         NEW at, NEW due,
         IsRow(d, k, at, due), due[k] = 0
  PROVE  \A i \in 0..k : at[i] + due[i] <= at[k]
<1>0. at \in [0..k -> Nat] /\ due \in [0..k -> Nat]
  BY DEF IsRow
<1> DEFINE Bad == {j \in Nat : j <= k /\ at[k-j] + due[k-j] > at[k]}
<1>1. ASSUME Bad # {} PROVE FALSE
  <2>1. PICK b \in Bad : \A n \in Bad : b <= n
    BY <1>1, LeastElement
  <2>2. b \in Nat /\ b <= k /\ at[k-b] + due[k-b] > at[k]
    OBVIOUS
  <2>3. b # 0
    <3>1. at[k] \in Nat /\ due[k] = 0 /\ k - 0 = k
      BY <1>0
    <3>2. QED  BY <2>2, <3>1
  <2>4. b - 1 \in Nat /\ b - 1 <= k /\ ~(b <= b - 1)
    BY <2>2, <2>3
  <2>5. ~(at[k-(b-1)] + due[k-(b-1)] > at[k])
    BY <2>1, <2>4
  <2> DEFINE c == k - b
  <2>6. c \in 0..k-1 /\ c \in 0..k /\ c + 1 \in 0..k /\ k - (b - 1) = c + 1
    BY <2>2, <2>3
  <2> HIDE DEF c
  <2>7. /\ IsItem(d, at[c]) /\ due[c] > 0
        /\ at[c+1] = ItemEnd(d, at[c])
        /\ due[c+1] = due[c] - 1 + ValuesIn(d, at[c])
    BY <2>6 DEF IsRow
  <2>8. /\ at[c] \in Nat /\ due[c] \in Nat /\ at[c+1] \in Nat /\ due[c+1] \in Nat
        /\ at[k] \in Nat
    BY <1>0, <2>6
  <2>9. at[c] < at[c+1] /\ ValuesIn(d, at[c]) \in Nat
    BY <2>7, <2>8, ItemMoves
  <2>10. at[c] + due[c] > at[k] /\ ~(at[c+1] + due[c+1] > at[k])
    BY <2>2, <2>5, <2>6 DEF c
  <2> DEFINE a0 == at[c]  a1 == at[c+1]  n0 == due[c]  n1 == due[c+1]
             z == at[k]  v0 == ValuesIn(d, at[c])
  <2>11. /\ a0 \in Nat /\ a1 \in Nat /\ n0 \in Nat /\ n1 \in Nat /\ z \in Nat /\ v0 \in Nat
         /\ a0 < a1 /\ n1 = n0 - 1 + v0 /\ a0 + n0 > z /\ ~(a1 + n1 > z)
    BY <2>7, <2>8, <2>9, <2>10
  <2> HIDE DEF a0, a1, n0, n1, z, v0
  <2>12. QED  BY <2>11
<1>2. ASSUME NEW i \in 0..k PROVE at[i] + due[i] <= at[k]
  <2>1. k - i \in Nat /\ k - i <= k /\ k - (k - i) = i
    OBVIOUS
  <2>2. ~(at[k-(k-i)] + due[k-(k-i)] > at[k])
    BY <1>1, <2>1
  <2>3. at[i] \in Nat /\ due[i] \in Nat /\ at[k] \in Nat
    BY <1>0
  <2>4. QED  BY <2>1, <2>2, <2>3
<1>3. QED  BY <1>2

\* A row that still has values due is short of every complete row from the
\* same byte, which goes on with the item at its end.
LEMMA RowGoesOn ==
  ASSUME NEW d \in Seq(Byte), NEW k \in Nat, NEW m \in Nat,
         NEW at, NEW due,
         NEW bt, NEW eu,
         IsRow(d, k, at, due), IsRow(d, m, bt, eu), at[0] = bt[0],
         due[k] > 0, eu[m] = 0
  PROVE  /\ IsItem(d, at[k])
         /\ ItemEnd(d, at[k]) + ValuesIn(d, at[k]) <= Len(d)
<1>1. k <= m
  BY RowEnds
<1>2. k \in Nat /\ k <= k
  OBVIOUS
<1>3. at[k] = bt[k] /\ due[k] = eu[k]
  BY <1>1, <1>2, RowsAgree
<1>4. k # m
  BY <1>3
<1>5. k \in 0..m-1 /\ k + 1 \in 0..m /\ m - 1 \in 0..m-1 /\ k \in 0..m /\ m - 1 \in 0..m
  BY <1>1, <1>4
<1>6. /\ IsItem(d, bt[k]) /\ bt[k+1] = ItemEnd(d, bt[k])
      /\ eu[k+1] = eu[k] - 1 + ValuesIn(d, bt[k])
  BY <1>5 DEF IsRow
<1>7. bt[k+1] + eu[k+1] <= bt[m]
  BY <1>5, RoomForTheRest
<1>8. bt[m] <= Len(d)
  <2>1. IsItem(d, bt[m-1]) /\ bt[m-1+1] = ItemEnd(d, bt[m-1])
    BY <1>5 DEF IsRow
  <2>2. m - 1 + 1 = m
    OBVIOUS
  <2>3. QED  BY <2>1, <2>2 DEF IsItem
<1>9. bt[k] \in Nat /\ eu[k] \in Nat /\ bt[m] \in Nat
  BY <1>5 DEF IsRow
<1>10. ItemEnd(d, bt[k]) \in Nat /\ ValuesIn(d, bt[k]) \in Nat
  BY <1>6, <1>9, ItemMoves
<1>11. ItemEnd(d, bt[k]) + ValuesIn(d, bt[k]) <= Len(d)
  <2> DEFINE e == ItemEnd(d, bt[k])  v == ValuesIn(d, bt[k])  n == eu[k]  z == bt[m]
  <2>1. /\ e \in Nat /\ v \in Nat /\ n \in Nat /\ n > 0 /\ z \in Nat /\ Len(d) \in Nat
        /\ e + (n - 1 + v) <= z /\ z <= Len(d)
    BY <1>3, <1>6, <1>7, <1>8, <1>9, <1>10
  <2> HIDE DEF e, v, n, z
  <2>2. e + v <= Len(d)
    BY <2>1
  <2>3. QED  BY <2>2 DEF e, v
<1>12. QED  BY <1>3, <1>6, <1>11

\* Where a value is whole, a reader that still has values due finds an item,
\* all of it, and room for the values it opens.
LEMMA WholeGoesOn ==
  ASSUME NEW d \in Seq(Byte), NEW k \in Nat, NEW q \in Nat,
         NEW at, NEW due,
         IsRow(d, k, at, due), due[k] > 0, IsValue(d, at[0], q)
  PROVE  /\ IsItem(d, at[k])
         /\ ItemEnd(d, at[k]) + ValuesIn(d, at[k]) <= Len(d)
<1>1. ASSUME NEW m \in Nat, NEW bt, NEW eu,
             IsRow(d, m, bt, eu) /\ bt[0] = at[0] /\ bt[m] = q /\ eu[m] = 0
      PROVE  /\ IsItem(d, at[k])
             /\ ItemEnd(d, at[k]) + ValuesIn(d, at[k]) <= Len(d)
  BY <1>1, RowGoesOn
<1>2. QED  BY <1>1, Zenon DEF IsValue

-----------------------------------------------------------------------------
(* A reader with loops: what it has read is a row, and what its loops have *)
(* left is what the row still asks for.                                    *)

\* Whole items lie between s and p, and behind them n values are still due.
RowTo(d, s, p, n) ==
  \E k \in Nat : \E at, due \in [0..k -> Nat] :
    IsRow(d, k, at, due) /\ at[0] = s /\ at[k] = p /\ due[k] = n

\* A reader begins in front of one value.
LEMMA RowBegins ==
  ASSUME NEW d, NEW s \in Nat
  PROVE  RowTo(d, s, s, 1)
<1> DEFINE at == [i \in 0..0 |-> s]  due == [i \in 0..0 |-> 1]
<1>1. at \in [0..0 -> Nat] /\ due \in [0..0 -> Nat] /\ at[0] = s /\ due[0] = 1
  OBVIOUS
<1> HIDE DEF at, due
<1>2. \A i : i \notin 0..0-1
  OBVIOUS
<1>3. IsRow(d, 0, at, due)
  BY <1>1, <1>2, Zenon DEF IsRow
<1>4. 0 \in Nat
  OBVIOUS
<1>5. QED  BY <1>1, <1>3, <1>4, Zenon DEF RowTo

\* It goes on with an item that is there.
LEMMA RowReads ==
  ASSUME NEW d \in Seq(Byte), NEW s, NEW p, NEW n,
         RowTo(d, s, p, n), n > 0, IsItem(d, p)
  PROVE  RowTo(d, s, ItemEnd(d, p), n - 1 + ValuesIn(d, p))
<1>1. ASSUME NEW k \in Nat, NEW at, NEW due,
             IsRow(d, k, at, due) /\ at[0] = s /\ at[k] = p /\ due[k] = n
      PROVE  RowTo(d, s, ItemEnd(d, p), n - 1 + ValuesIn(d, p))
  <2>1. PICK bt, eu : GrowsTo(d, k, at, due, bt, eu)
    BY <1>1, RowGrows
  <2> DEFINE m == k + 1
  <2>2. m \in Nat /\ 0 \in 0..k
    OBVIOUS
  <2>3. IsRow(d, m, bt, eu)
    BY <2>1 DEF GrowsTo
  <2>4. bt[0] = s /\ bt[m] = ItemEnd(d, p) /\ eu[m] = n - 1 + ValuesIn(d, p)
    BY <1>1, <2>1, <2>2 DEF GrowsTo
  <2> HIDE DEF m
  <2>5. bt \in [0..m -> Nat] /\ eu \in [0..m -> Nat]
    BY <2>3, Zenon DEF IsRow
  <2>6. QED  BY <2>2, <2>3, <2>4, <2>5, Zenon DEF RowTo
<1>2. QED  BY <1>1, Zenon DEF RowTo

\* Where it finds no whole item, or no room for what the item opens, no value is
\* whole.
LEMMA RowIsCutShort ==
  ASSUME NEW d \in Seq(Byte), NEW s, NEW p, NEW n,
         RowTo(d, s, p, n), n > 0,
         ~(IsItem(d, p) /\ ItemEnd(d, p) + ValuesIn(d, p) <= Len(d))
  PROVE  \A q \in Nat : ~IsValue(d, s, q)
<1> SUFFICES ASSUME NEW q \in Nat, IsValue(d, s, q) PROVE FALSE
  OBVIOUS
<1>1. ASSUME NEW k \in Nat, NEW at, NEW due,
             IsRow(d, k, at, due) /\ at[0] = s /\ at[k] = p /\ due[k] = n
      PROVE  FALSE
  BY <1>1, WholeGoesOn
<1>2. QED  BY <1>1, Zenon DEF RowTo

\* When nothing is due any more, it has read the value.
LEMMA RowIsValue ==
  ASSUME NEW d, NEW s, NEW p, RowTo(d, s, p, 0)
  PROVE  IsValue(d, s, p)
BY Zenon DEF RowTo, IsValue

\* What the loops st have left is n values, the one being read included: owed[i]
\* counts what the i outermost of them owe beside it.
StillDue(st, n) ==
  \E owed \in [0..Len(st) -> Int] :
    /\ owed[0] = 0
    /\ \A i \in 1..Len(st) : owed[i] = owed[i-1] + st[i].left - 1
    /\ \A i \in 0..Len(st)-1 : owed[i] >= 0
    /\ n = owed[Len(st)] + 1

\* A call has one value to read and no loop open.
LEMMA DueFresh == StillDue(<<>>, 1)
<1> DEFINE owed == [i \in 0..0 |-> 0]
<1>1. Len(<<>>) = 0
  OBVIOUS
<1>2. owed \in [0..0 -> Int] /\ owed[0] = 0 /\ 1 = owed[0] + 1
  OBVIOUS
<1>3. /\ \A i \in 1..0 : owed[i] = owed[i-1] + <<>>[i].left - 1
      /\ \A i \in 0..0-1 : owed[i] >= 0
  OBVIOUS
<1> HIDE DEF owed
<1>4. QED  BY <1>1, <1>2, <1>3, Zenon DEF StillDue

\* Outside every loop it is the value itself that is still due.
LEMMA DueOutside ==
  ASSUME NEW n, StillDue(<<>>, n)
  PROVE  n = 1
<1>1. Len(<<>>) = 0
  OBVIOUS
<1>2. QED  BY <1>1 DEF StillDue

\* While no loop is over, a value is due.
LEMMA DueIsPositive ==
  ASSUME NEW st, Len(st) \in Nat, NEW n, StillDue(st, n),
         \A i \in 1..Len(st) : st[i].left \in Nat /\ st[i].left > 0
  PROVE  n > 0
<1>1. PICK owed \in [0..Len(st) -> Int] :
        /\ owed[0] = 0
        /\ \A i \in 1..Len(st) : owed[i] = owed[i-1] + st[i].left - 1
        /\ \A i \in 0..Len(st)-1 : owed[i] >= 0
        /\ n = owed[Len(st)] + 1
  BY DEF StillDue
<1> DEFINE m == Len(st)
<1>2. m \in Nat
  OBVIOUS
<1>3. CASE m = 0
  BY <1>1, <1>3
<1>4. CASE m # 0
  <2>1. m \in 1..m /\ m - 1 \in 0..m-1
    BY <1>2, <1>4
  <2>2. owed[m] = owed[m-1] + st[m].left - 1 /\ owed[m-1] >= 0 /\ st[m].left > 0
    BY <1>1, <2>1
  <2>3. owed[m-1] \in Int
    BY <1>2, <2>1
  <2>4. st[m].left \in Nat
    BY <2>1
  <2>5. n = owed[m] + 1
    BY <1>1
  <2> DEFINE a == owed[m-1]  b == owed[m]  l == st[m].left
  <2>6. a \in Int /\ l \in Nat /\ l > 0 /\ a >= 0 /\ b = a + l - 1 /\ n = b + 1
    BY <2>2, <2>3, <2>4, <2>5
  <2> HIDE DEF a, b, l
  <2>7. QED  BY <2>6
<1>5. QED  BY <1>3, <1>4

\* The innermost loop counts the value it has read.
LEMMA DueOne ==
  ASSUME NEW st, NEW sv, Len(st) \in Nat, Len(st) > 0, Len(sv) = Len(st),
         NEW n, StillDue(st, n),
         st[Len(st)].left \in Nat, sv[Len(st)].left = st[Len(st)].left - 1,
         \A i \in 1..Len(st)-1 : sv[i].left = st[i].left
  PROVE  StillDue(sv, n - 1)
<1>1. PICK owed \in [0..Len(st) -> Int] :
        /\ owed[0] = 0
        /\ \A i \in 1..Len(st) : owed[i] = owed[i-1] + st[i].left - 1
        /\ \A i \in 0..Len(st)-1 : owed[i] >= 0
        /\ n = owed[Len(st)] + 1
  BY DEF StillDue
<1> DEFINE m == Len(st)
           ov == [i \in 0..m |-> IF i = m THEN owed[m] - 1 ELSE owed[i]]
<1>2. m \in Nat /\ m > 0
  OBVIOUS
<1>3. owed[m] \in Int /\ m \in 0..m /\ 0 \in 0..m /\ 0 # m
  BY <1>2
<1>4. /\ ov \in [0..m -> Int] /\ ov[m] = owed[m] - 1
      /\ \A i \in 0..m-1 : ov[i] = owed[i]
  BY <1>2, <1>3
<1> HIDE DEF ov
<1>5. ov[0] = 0
  BY <1>1, <1>2, <1>4
<1>6. ASSUME NEW i \in 1..m PROVE ov[i] = ov[i-1] + sv[i].left - 1
  <2>1. owed[i] = owed[i-1] + st[i].left - 1
    BY <1>1
  <2>2. i - 1 \in 0..m-1 /\ ov[i-1] = owed[i-1] /\ owed[i-1] \in Int
    <3>1. i - 1 \in 0..m-1 /\ i - 1 \in 0..m
      BY <1>2
    <3>2. ov[i-1] = owed[i-1]
      BY <1>4, <3>1
    <3>3. owed[i-1] \in Int
      BY <3>1
    <3>4. QED  BY <3>1, <3>2, <3>3
  <2>3. CASE i = m
    <3>1. ov[i] = owed[i] - 1
      BY <1>4, <2>3
    <3>2. sv[i].left = st[i].left - 1 /\ st[i].left \in Nat
      BY <2>3
    <3> DEFINE a == owed[i-1]  l == st[i].left
    <3>3. a \in Int /\ l \in Nat /\ ov[i] = a + l - 1 - 1 /\ ov[i-1] = a /\ sv[i].left = l - 1
      BY <2>1, <2>2, <3>1, <3>2
    <3> HIDE DEF a, l
    <3>4. QED  BY <3>3
  <2>4. CASE i # m
    <3>1. i \in 1..m-1 /\ i \in 0..m-1
      BY <2>4, <1>2
    <3>2. QED  BY <1>4, <2>1, <2>2, <3>1
  <2>5. QED  BY <2>3, <2>4
<1>7. \A i \in 0..m-1 : ov[i] >= 0
  BY <1>1, <1>4
<1>8. n - 1 = ov[m] + 1
  BY <1>1, <1>3, <1>4
<1>9. StillDue(sv, n - 1)
  BY <1>4, <1>5, <1>6, <1>7, <1>8, Zenon DEF StillDue
<1>10. QED  BY <1>9

\* A container brings as many values as its loop will read, and is one itself.
LEMMA DueOpen ==
  ASSUME NEW st, NEW sv, Len(st) \in Nat, Len(sv) = Len(st) + 1,
         NEW n, n > 0, StillDue(st, n), NEW l \in Nat, sv[Len(sv)].left = l,
         \A i \in 1..Len(st) : sv[i].left = st[i].left
  PROVE  StillDue(sv, n - 1 + l)
<1>1. PICK owed \in [0..Len(st) -> Int] :
        /\ owed[0] = 0
        /\ \A i \in 1..Len(st) : owed[i] = owed[i-1] + st[i].left - 1
        /\ \A i \in 0..Len(st)-1 : owed[i] >= 0
        /\ n = owed[Len(st)] + 1
  BY DEF StillDue
<1> DEFINE m == Len(st)
           c == m + 1
           ov == [i \in 0..c |-> IF i = c THEN owed[m] + l - 1 ELSE owed[i]]
<1>2. m \in Nat /\ l \in Nat
  OBVIOUS
<1>3. c \in Nat /\ c - 1 = m /\ c # 0 /\ c \in 0..c
  BY <1>2
<1>4. /\ Len(sv) = c /\ sv[c].left = l
      /\ \A i \in 1..m : sv[i].left = st[i].left
  OBVIOUS
<1>5. owed[m] \in Int
  BY <1>2
<1>6. /\ ov \in [0..c -> Int] /\ ov[c] = owed[m] + l - 1
      /\ \A i \in 0..m : ov[i] = owed[i]
  <2>1. owed[m] + l - 1 \in Int
    BY <1>2, <1>5
  <2>2. \A i \in 0..c : i # c => i \in 0..m
    BY <1>2, <1>3
  <2>3. \A i \in 0..m : i \in 0..c /\ i # c
    BY <1>2, <1>3
  <2> HIDE DEF c
  <2>4. ov \in [0..c -> Int]
    BY <2>1, <2>2
  <2>5. ov[c] = owed[m] + l - 1
    BY <1>3
  <2>6. QED  BY <2>3, <2>4, <2>5
<1> HIDE DEF ov, c
<1>7. ov[0] = 0
  BY <1>1, <1>2, <1>6
<1>8. ASSUME NEW i \in 1..c PROVE ov[i] = ov[i-1] + sv[i].left - 1
  <2>1. CASE i = c
    <3>1. i - 1 = m /\ m \in 0..m
      BY <1>2, <1>3, <2>1
    <3>2. QED  BY <1>2, <1>4, <1>5, <1>6, <2>1, <3>1
  <2>2. CASE i # c
    <3>1. i \in 1..m /\ i \in 0..m /\ i - 1 \in 0..m
      BY <1>2, <1>3, <2>2
    <3>2. QED  BY <1>1, <1>4, <1>6, <3>1
  <2>3. QED  BY <2>1, <2>2
<1>9. ASSUME NEW i \in 0..c-1 PROVE ov[i] >= 0
  <2>1. i \in 0..m /\ ov[i] = owed[i]
    BY <1>3, <1>6
  <2>2. CASE i = m
    BY <1>1, <1>5, <2>1, <2>2
  <2>3. CASE i # m
    <3>1. i \in 0..m-1
      BY <1>2, <2>1, <2>3
    <3>2. QED  BY <1>1, <2>1, <3>1
  <2>4. QED  BY <2>2, <2>3
<1>10. n - 1 + l = ov[c] + 1
  BY <1>1, <1>2, <1>5, <1>6
<1>11. StillDue(sv, n - 1 + l)
  BY <1>4, <1>6, <1>7, <1>8, <1>9, <1>10, Zenon DEF StillDue
<1>12. QED  BY <1>11

\* A loop that is over was the value its own container was waiting for.
LEMMA DueClose ==
  ASSUME NEW st, NEW outer, Len(outer) \in Nat, Len(st) = Len(outer) + 1,
         NEW n, StillDue(st, n), st[Len(st)].left = 0,
         \A i \in 1..Len(outer) : outer[i].left = st[i].left
  PROVE  /\ Len(outer) = 0 => n = 0
         /\ StillDue(outer, n + 1)
<1>1. PICK owed \in [0..Len(st) -> Int] :
        /\ owed[0] = 0
        /\ \A i \in 1..Len(st) : owed[i] = owed[i-1] + st[i].left - 1
        /\ \A i \in 0..Len(st)-1 : owed[i] >= 0
        /\ n = owed[Len(st)] + 1
  BY DEF StillDue
<1> DEFINE m == Len(outer)
           ov == [i \in 0..m |-> owed[i]]
<1>2. m \in Nat /\ Len(st) = m + 1
  OBVIOUS
<1>3. \A i \in 0..m : owed[i] \in Int
  BY <1>2
<1>4. ov \in [0..m -> Int] /\ \A i \in 0..m : ov[i] = owed[i]
  BY <1>3
<1> HIDE DEF ov
<1>5. ov[0] = 0
  BY <1>1, <1>2, <1>4
<1>6. ASSUME NEW i \in 1..m PROVE ov[i] = ov[i-1] + outer[i].left - 1
  <2>1. i \in 0..m /\ i - 1 \in 0..m /\ i \in 1..Len(st)
    BY <1>2
  <2>2. outer[i].left = st[i].left
    OBVIOUS
  <2>3. QED  BY <1>1, <1>4, <2>1, <2>2
<1>7. ASSUME NEW i \in 0..m-1 PROVE ov[i] >= 0
  <2>1. i \in 0..m /\ i \in 0..Len(st)-1
    BY <1>2
  <2>2. QED  BY <1>1, <1>4, <2>1
<1>8. n + 1 = ov[m] + 1 /\ n = owed[m]
  <2>1. m + 1 \in 1..Len(st) /\ m + 1 - 1 = m /\ m \in 0..m
    BY <1>2
  <2>2. owed[m+1] = owed[m] + st[m+1].left - 1 /\ st[m+1].left = 0 /\ owed[m] \in Int
    BY <1>1, <1>2, <1>3, <2>1
  <2>3. n = owed[m+1] + 1
    BY <1>1, <1>2
  <2>4. QED  BY <1>4, <2>1, <2>2, <2>3
<1>9. StillDue(outer, n + 1)
  BY <1>4, <1>5, <1>6, <1>7, <1>8, Zenon DEF StillDue
<1>10. ASSUME Len(outer) = 0 PROVE n = 0
  BY <1>1, <1>8, <1>10
<1>11. QED  BY <1>9, <1>10

-----------------------------------------------------------------------------
(* A reader with loops, and which items of the row they belong to.         *)

\* The n loops st of a reader of a row that stands in front of its k-th item: the
\* i-th was opened by the op[i]-th item, and behind the last one k comes next.
LoopsOf(d, st, n, k, at, due, op) ==
  /\ op \in [1..n+1 -> 0..k] /\ op[n+1] = k
  /\ due[op[1]] = 1
  /\ \A i \in 1..n :
       /\ op[i] < op[i+1]
       /\ due[op[i+1]] = due[op[i]] + st[i].left - 1
       /\ KindAt(d, at[op[i]]) = st[i].kind
       /\ \A l \in op[i]..k-1 : due[l] >= due[op[i]]
  /\ \A j \in Around(due, k) : \E i \in 1..n : op[i] = j

\* Numbers that do not fall from one to the next do not fall at all.
LEMMA Ascending ==
  ASSUME NEW n \in Nat, NEW f, \A i \in 1..n+1 : f[i] \in Int,
         \A i \in 1..n : f[i] <= f[i+1]
  PROVE  \A j \in 1..n+1 : \A i \in 1..j : f[i] <= f[j]
<1> DEFINE Bad == {j \in Nat : j \in 1..n+1 /\ \E i \in 1..j : ~(f[i] <= f[j])}
<1> SUFFICES ASSUME Bad # {} PROVE FALSE
  <2>1. ASSUME NEW j \in 1..n+1, NEW i \in 1..j, ~(f[i] <= f[j]) PROVE j \in Bad
    BY <2>1
  <2>2. QED  BY <2>1
<1>1. PICK b \in Bad : \A m \in Bad : b <= m
  BY LeastElement
<1>2. b \in Nat /\ b \in 1..n+1
  OBVIOUS
<1>3. PICK i \in 1..b : ~(f[i] <= f[b])
  OBVIOUS
<1>4. f[i] \in Int /\ f[b] \in Int
  BY <1>2, <1>3
<1>5. i # b
  BY <1>3, <1>4
<1>6. b - 1 \in 1..n /\ b - 1 \in Nat /\ i \in 1..b-1 /\ ~(b <= b - 1) /\ b - 1 + 1 = b
  BY <1>2, <1>3, <1>5
<1>7. b - 1 \notin Bad
  BY <1>1, <1>6
<1>8. f[i] <= f[b-1] /\ f[b-1] \in Int
  BY <1>6, <1>7
<1>9. f[b-1] <= f[b]
  BY <1>6
<1>10. QED  BY <1>3, <1>4, <1>8, <1>9

\* Numbers that rise from one to the next rise all the way.
LEMMA Rising ==
  ASSUME NEW n \in Nat, NEW f, \A i \in 1..n+1 : f[i] \in Int,
         \A i \in 1..n : f[i] < f[i+1]
  PROVE  \A j \in 1..n+1 : \A i \in 1..j-1 : f[i] < f[j]
<1> DEFINE g == [i \in 1..n+1 |-> f[i] - i]
<1>1. \A i \in 1..n+1 : g[i] \in Int /\ g[i] = f[i] - i
  OBVIOUS
<1>2. ASSUME NEW i \in 1..n PROVE g[i] <= g[i+1]
  <2>1. i \in 1..n+1 /\ i + 1 \in 1..n+1 /\ f[i] < f[i+1]
    OBVIOUS
  <2>2. f[i] \in Int /\ f[i+1] \in Int
    BY <2>1
  <2>3. g[i] = f[i] - i /\ g[i+1] = f[i+1] - (i + 1)
    BY <1>1, <2>1
  <2>4. QED  BY <2>1, <2>2, <2>3
<1> HIDE DEF g
<1>3. \A j \in 1..n+1 : \A i \in 1..j : g[i] <= g[j]
  BY <1>1, <1>2, Ascending
<1>4. ASSUME NEW j \in 1..n+1, NEW i \in 1..j-1 PROVE f[i] < f[j]
  <2>1. i \in 1..j /\ i \in 1..n+1 /\ i < j
    OBVIOUS
  <2>2. g[i] <= g[j]
    BY <1>3, <2>1
  <2>3. f[i] \in Int /\ f[j] \in Int /\ g[i] = f[i] - i /\ g[j] = f[j] - j
    BY <1>1, <2>1
  <2>4. QED  BY <2>1, <2>2, <2>3
<1>5. QED  BY <1>4

\* The loops are those of the containers around the k-th item, innermost last.
Enclosing(n, k, due, op) ==
  /\ \A j : j \in Around(due, k) <=> \E i \in 1..n : op[i] = j
  /\ \A j \in 1..n+1 : \A i \in 1..j-1 : op[i] < op[j]
  /\ \A i \in 1..n : due[op[i]] <= due[k]

\* While no loop is over, a value is due, and the loops are those of the containers
\* that the next item is in, innermost last.
LEMMA LoopsAround ==
  ASSUME NEW d, NEW st, NEW n \in Nat, NEW k \in Nat, NEW at, NEW due \in [0..k -> Nat],
         NEW op, LoopsOf(d, st, n, k, at, due, op),
         \A i \in 1..n : st[i].left \in Nat /\ st[i].left > 0
  PROVE  due[k] > 0 /\ Enclosing(n, k, due, op)
<1>1. /\ op \in [1..n+1 -> 0..k] /\ op[n+1] = k /\ due[op[1]] = 1
      /\ \A i \in 1..n : op[i] < op[i+1] /\ due[op[i+1]] = due[op[i]] + st[i].left - 1
      /\ \A i \in 1..n : \A l \in op[i]..k-1 : due[l] >= due[op[i]]
      /\ \A j \in Around(due, k) : \E i \in 1..n : op[i] = j
  BY DEF LoopsOf
<1>2. \A i \in 1..n+1 : op[i] \in 0..k /\ op[i] \in Int /\ due[op[i]] \in Nat
  BY <1>1
<1>3. \A j \in 1..n+1 : \A i \in 1..j-1 : op[i] < op[j]
  BY <1>1, <1>2, Rising
<1> DEFINE f == [i \in 1..n+1 |-> due[op[i]]]
<1>4. \A i \in 1..n+1 : f[i] = due[op[i]] /\ f[i] \in Int
  BY <1>2
<1>5. ASSUME NEW i \in 1..n PROVE f[i] <= f[i+1]
  <2>1. i \in 1..n+1 /\ i + 1 \in 1..n+1
    OBVIOUS
  <2>2. st[i].left \in Nat /\ st[i].left > 0
    OBVIOUS
  <2>3. f[i] = due[op[i]] /\ f[i] \in Int /\ f[i+1] = due[op[i+1]]
    BY <1>4, <2>1
  <2>4. due[op[i+1]] = due[op[i]] + st[i].left - 1
    BY <1>1
  <2> HIDE DEF f
  <2>5. f[i+1] = f[i] + st[i].left - 1
    BY <2>3, <2>4
  <2>6. QED  BY <2>2, <2>3, <2>5
<1> HIDE DEF f
<1>6. \A j \in 1..n+1 : \A i \in 1..j : f[i] <= f[j]
  BY <1>4, <1>5, Ascending
<1>7. n + 1 \in 1..n+1 /\ 1 \in 1..n+1
  OBVIOUS
<1>8. f[n+1] = due[k] /\ f[1] = 1
  BY <1>1, <1>4, <1>7
<1>9. due[k] > 0
  <2>1. f[1] <= f[n+1]
    BY <1>6, <1>7
  <2>2. k \in 0..k
    OBVIOUS
  <2>3. due[k] \in Nat
    BY <2>2
  <2>4. QED  BY <1>8, <2>1, <2>3
<1>10. ASSUME NEW i \in 1..n PROVE due[op[i]] <= due[k]
  <2>1. i \in 1..n+1 /\ f[i] <= f[n+1]
    BY <1>6, <1>7
  <2>2. QED  BY <1>4, <1>8, <2>1
<1>11. ASSUME NEW i \in 1..n PROVE op[i] \in Around(due, k)
  <2>1. n + 1 \in 1..n+1 /\ i \in 1..(n+1)-1
    OBVIOUS
  <2>2. op[i] < op[n+1]
    BY <1>3, <2>1
  <2>3. i \in 1..n+1
    OBVIOUS
  <2>4. op[i] \in 0..k /\ op[i] < k
    BY <1>1, <1>2, <2>2, <2>3
  <2>5. op[i] \in 0..k-1
    BY <2>4
  <2>6. ASSUME NEW l \in op[i]+1..k PROVE due[l] >= due[op[i]]
    <3>1. CASE l = k
      BY <1>2, <1>10, <3>1, <2>3
    <3>2. CASE l # k
      <4>1. l \in op[i]..k-1
        BY <2>4, <3>2
      <4>2. QED  BY <1>1, <4>1
    <3>3. QED  BY <3>1, <3>2
  <2> DEFINE o == op[i]
  <2>7. o \in 0..k-1 /\ \A l \in o+1..k : due[l] >= due[o]
    BY <2>5, <2>6
  <2> HIDE DEF o
  <2>8. o \in Around(due, k)
    BY <2>7 DEF Around
  <2>9. QED  BY <2>8 DEF o
<1>12. \A j : j \in Around(due, k) <=> \E i \in 1..n : op[i] = j
  BY <1>1, <1>11
<1>13. QED  BY <1>3, <1>9, <1>10, <1>12 DEF Enclosing

\* So many containers are around the next item as there are loops.
LEMMA LoopsCount ==
  ASSUME NEW d, NEW st, NEW n \in Nat, NEW k \in Nat, NEW at, NEW due \in [0..k -> Nat],
         NEW op, LoopsOf(d, st, n, k, at, due, op),
         \A i \in 1..n : st[i].left \in Nat /\ st[i].left > 0
  PROVE  Cardinality(Around(due, k)) = n
<1> DEFINE A == Around(due, k)
           g == [i \in 1..n |-> op[i]]
<1>0. Enclosing(n, k, due, op)
  BY LoopsAround
<1>1. /\ \A j : j \in A <=> \E i \in 1..n : op[i] = j
      /\ \A j \in 1..n+1 : \A i \in 1..j-1 : op[i] < op[j]
  BY <1>0 DEF Enclosing
<1>2. \A i \in 1..n : op[i] \in Int
  BY DEF LoopsOf
<1> HIDE DEF A
<1>3. \A i \in 1..n : g[i] = op[i] /\ g[i] \in A
  BY <1>1
<1>4. ASSUME NEW i \in 1..n, NEW j \in 1..n, g[i] = g[j] PROVE i = j
  <2>1. op[i] = op[j] /\ op[i] \in Int
    BY <1>2, <1>3, <1>4
  <2>2. CASE i < j
    <3>1. j \in 1..n+1 /\ i \in 1..j-1
      BY <2>2
    <3>2. op[i] < op[j]
      BY <1>1, <3>1
    <3>3. QED  BY <2>1, <3>2
  <2>3. CASE j < i
    <3>1. i \in 1..n+1 /\ j \in 1..i-1
      BY <2>3
    <3>2. op[j] < op[i]
      BY <1>1, <3>1
    <3>3. QED  BY <2>1, <3>2
  <2>4. QED  BY <2>2, <2>3
<1>5. \A j \in A : \E i \in 1..n : g[i] = j
  BY <1>1, <1>3
<1>6. g \in [1..n -> A]
  BY <1>3
<1> HIDE DEF g
<1>7. g \in Bijection(1..n, A)
  BY <1>4, <1>5, <1>6 DEF Bijection, Injection, Surjection, IsInjective
<1>8. ExistsBijection(1..n, A)
  BY <1>7 DEF ExistsBijection
<1>9. Cardinality(A) = n
  BY <1>8, FS_CountingElements
<1>10. QED  BY <1>9 DEF A

\* The next item is a key if and only if the innermost loop is a map's and an even
\* number of its values are left.
LEMMA LoopsKey ==
  ASSUME NEW d, NEW st, NEW n \in Nat, NEW k \in Nat, NEW at, NEW due \in [0..k -> Nat],
         NEW op, LoopsOf(d, st, n, k, at, due, op),
         \A i \in 1..n : st[i].left \in Nat /\ st[i].left > 0
  PROVE  IsKey(d, at, due, k) <=> n > 0 /\ st[n].kind = "map" /\ st[n].left % 2 = 0
<1>0. Enclosing(n, k, due, op)
  BY LoopsAround
<1>1. /\ \A j : j \in Around(due, k) <=> \E i \in 1..n : op[i] = j
      /\ \A j \in 1..n+1 : \A i \in 1..j-1 : op[i] < op[j]
  BY <1>0 DEF Enclosing
<1>2. \A i \in 1..n : op[i] \in Int
  BY DEF LoopsOf
<1>3. CASE n = 0
  <2>1. Around(due, k) = {}
    BY <1>1, <1>3
  <2>2. QED  BY <1>3, <2>1 DEF IsKey
<1>4. CASE n # 0
  <2>1. n \in 1..n
    BY <1>4
  <2> DEFINE o == op[n]
             Even(j) == KindAt(d, at[j]) = "map" /\ (due[k] - due[j] + 1) % 2 = 0
  <2>2. o \in Around(due, k) /\ o \in Int
    BY <1>1, <1>2, <2>1
  <2>3. ASSUME NEW l \in Around(due, k) PROVE l <= o /\ l \in Int
    <3>1. PICK i \in 1..n : op[i] = l
      BY <1>1
    <3>2. CASE i = n
      BY <1>2, <3>1, <3>2
    <3>3. CASE i # n
      <4>1. n \in 1..n+1 /\ i \in 1..n-1
        BY <3>1, <3>3, <2>1
      <4>2. op[i] < op[n]
        BY <1>1, <4>1
      <4>3. QED  BY <1>2, <2>1, <3>1, <4>2
    <3>4. QED  BY <3>2, <3>3
  <2>4. /\ due[k] = due[o] + st[n].left - 1 /\ KindAt(d, at[o]) = st[n].kind
        /\ due[o] \in Nat /\ st[n].left \in Nat
    <3>1. /\ due[op[n+1]] = due[o] + st[n].left - 1 /\ op[n+1] = k
          /\ KindAt(d, at[o]) = st[n].kind
      BY <2>1 DEF LoopsOf
    <3>2. o \in 0..k
      BY <2>1 DEF LoopsOf
    <3>3. due[o] \in Nat /\ st[n].left \in Nat
      BY <2>1, <3>2
    <3>4. QED  BY <3>1, <3>3
  <2>5. due[k] - due[o] + 1 = st[n].left
    BY <2>4
  <2>6. Even(o) <=> st[n].kind = "map" /\ st[n].left % 2 = 0
    BY <2>4, <2>5
  <2>7. \A j \in Around(due, k) : (\A l \in Around(due, k) : l <= j) => j = o
    BY <2>2, <2>3
  <2>8. IsKey(d, at, due, k) <=> \E j \in Around(due, k) : (\A l \in Around(due, k) : l <= j) /\ Even(j)
    BY DEF IsKey
  <2> HIDE DEF o, Even
  <2>9. IsKey(d, at, due, k) <=> Even(o)
    BY <2>2, <2>3, <2>7, <2>8
  <2>10. QED  BY <1>4, <2>6, <2>9
<1>5. QED  BY <1>3, <1>4

\* The row bt, eu begins with the row at, due.
Begins(k, at, due, bt, eu) == \A i \in 0..k : bt[i] = at[i] /\ eu[i] = due[i]

\* The containers around the item behind an item are some of those around that
\* item and, if values are due in it, that item.
LEMMA AroundNext ==
  ASSUME NEW k \in Nat, NEW due \in [0..k -> Nat], NEW m, m = k + 1, NEW eu \in [0..m -> Nat],
         \A i \in 0..k : eu[i] = due[i],
         NEW j \in Around(eu, m), j # k
  PROVE  j \in Around(due, k)
<1>1. j \in 0..m-1 /\ \A l \in j+1..m : eu[l] >= eu[j]
  BY DEF Around
<1>2. j \in 0..k-1 /\ j \in 0..k
  BY <1>1
<1>3. ASSUME NEW l \in j+1..k PROVE due[l] >= due[j]
  <2>1. l \in j+1..m /\ l \in 0..k
    BY <1>2
  <2>2. eu[l] >= eu[j] /\ eu[l] = due[l] /\ eu[j] = due[j]
    BY <1>1, <1>2, <2>1
  <2>3. QED  BY <2>2
<1>4. QED  BY <1>2, <1>3 DEF Around

\* A loop that has read an item without values counts it.
LEMMA LoopsRead ==
  ASSUME NEW d, NEW st, NEW n \in Nat, NEW k \in Nat, NEW at, NEW due \in [0..k -> Nat],
         NEW op, LoopsOf(d, st, n, k, at, due, op),
         \A i \in 1..n : st[i].left \in Nat /\ st[i].left > 0,
         NEW m, m = k + 1, NEW bt, NEW eu \in [0..m -> Nat], Begins(k, at, due, bt, eu),
         eu[m] = due[k] - 1, n > 0,
         NEW sv, \A i \in 1..n-1 : sv[i] = st[i],
         sv[n].kind = st[n].kind, sv[n].left = st[n].left - 1
  PROVE  \E oq : LoopsOf(d, sv, n, m, bt, eu, oq)
<1> DEFINE oq == [i \in 1..n+1 |-> IF i = n + 1 THEN m ELSE op[i]]
<1>1. /\ op \in [1..n+1 -> 0..k] /\ op[n+1] = k /\ due[op[1]] = 1
      /\ \A i \in 1..n : /\ op[i] < op[i+1] /\ due[op[i+1]] = due[op[i]] + st[i].left - 1
                        /\ KindAt(d, at[op[i]]) = st[i].kind
      /\ \A i \in 1..n : \A l \in op[i]..k-1 : due[l] >= due[op[i]]
      /\ \A j \in Around(due, k) : \E i \in 1..n : op[i] = j
  BY DEF LoopsOf
<1>2. due[k] > 0 /\ \A i \in 1..n : due[op[i]] <= due[k]
  BY LoopsAround DEF Enclosing
<1>3. m \in Nat /\ m - 1 = k /\ n \in 1..n /\ 1 \in 1..n /\ k \in 0..k
  OBVIOUS
<1>4. /\ \A i \in 1..n : op[i] \in 0..k /\ op[i] \in 0..m
      /\ \A i \in 1..n : i \in 1..n+1 /\ i # n + 1
      /\ \A i \in 1..n : i # n => i + 1 \in 1..n /\ i \in 1..n-1
      /\ n + 1 \in 1..n+1 /\ m \in 0..m
      /\ \A i \in 1..n+1 : i # n + 1 => i \in 1..n
  <2>1. ASSUME NEW i \in 1..n PROVE op[i] \in 0..k /\ op[i] \in 0..m
    <3>1. i \in 1..n+1
      OBVIOUS
    <3>2. op[i] \in 0..k
      BY <1>1, <3>1
    <3>3. QED  BY <3>2
  <2>2. QED  BY <2>1
<1>5. oq[n+1] = m /\ (\A i \in 1..n : oq[i] = op[i])
  BY <1>4
<1>6. oq \in [1..n+1 -> 0..m]
  BY <1>4
<1> HIDE DEF oq
<1>7. \A i \in 0..k : eu[i] = due[i] /\ bt[i] = at[i]
  BY DEF Begins
<1>8. eu[oq[1]] = 1
  BY <1>1, <1>3, <1>4, <1>5, <1>7
<1>9. ASSUME NEW i \in 1..n
      PROVE  /\ oq[i] < oq[i+1]
             /\ eu[oq[i+1]] = eu[oq[i]] + sv[i].left - 1
             /\ KindAt(d, bt[oq[i]]) = sv[i].kind
  <2>1. oq[i] = op[i] /\ op[i] \in 0..k /\ eu[op[i]] = due[op[i]] /\ bt[op[i]] = at[op[i]]
    BY <1>4, <1>5, <1>7
  <2>2. KindAt(d, at[op[i]]) = st[i].kind /\ op[i] < op[i+1]
        /\ due[op[i+1]] = due[op[i]] + st[i].left - 1
    BY <1>1
  <2>3. st[i].left \in Nat /\ due[op[i]] \in Nat
    BY <2>1
  <2>4. CASE i = n
    <3>1. oq[i+1] = m /\ op[i+1] = k /\ sv[i].kind = st[i].kind /\ sv[i].left = st[i].left - 1
      BY <1>1, <1>5, <2>4
    <3>2. oq[i] < m
      BY <2>1
    <3>3. eu[m] = due[k] - 1 /\ due[k] = due[op[i]] + st[i].left - 1
      BY <2>2, <3>1
    <3>4. eu[m] = due[op[i]] + (st[i].left - 1) - 1
      <4> DEFINE u == due[op[i]]  w == st[i].left  z == due[k]
      <4>1. u \in Nat /\ w \in Nat
        BY <2>3
      <4>2. z = u + w - 1
        BY <3>3
      <4>3. eu[m] = z - 1
        BY <3>3
      <4> HIDE DEF u, w, z
      <4>4. eu[m] = u + (w - 1) - 1
        BY <4>1, <4>2, <4>3
      <4>5. QED  BY <4>4 DEF u, w
    <3>5. QED  BY <2>1, <2>2, <3>1, <3>2, <3>4
  <2>5. CASE i # n
    <3>1. i + 1 \in 1..n /\ sv[i] = st[i]
      BY <1>4, <2>5
    <3>2. oq[i+1] = op[i+1] /\ op[i+1] \in 0..k /\ eu[op[i+1]] = due[op[i+1]]
      BY <1>4, <1>5, <1>7, <3>1
    <3>3. QED  BY <2>1, <2>2, <3>1, <3>2
  <2>6. QED  BY <2>4, <2>5
<1>10. ASSUME NEW i \in 1..n, NEW l \in oq[i]..m-1 PROVE eu[l] >= eu[oq[i]]
  <2>1. oq[i] = op[i] /\ op[i] \in 0..k /\ eu[op[i]] = due[op[i]]
    BY <1>4, <1>5, <1>7
  <2>2. l \in 0..k /\ eu[l] = due[l]
    BY <1>3, <1>7, <2>1
  <2>3. CASE l = k
    BY <1>2, <2>1, <2>2, <2>3
  <2>4. CASE l # k
    <3>1. l \in op[i]..k-1
      BY <1>3, <2>1, <2>2, <2>4
    <3>2. QED  BY <1>1, <2>1, <2>2, <3>1
  <2>5. QED  BY <2>3, <2>4
<1>11. ASSUME NEW j \in Around(eu, m) PROVE \E i \in 1..n : oq[i] = j
  <2>1. j # k
    <3>1. SUFFICES ASSUME j = k PROVE FALSE
      OBVIOUS
    <3>2. m \in j+1..m
      BY <3>1
    <3>3. eu[m] >= eu[k]
      BY <3>1, <3>2 DEF Around
    <3>4. eu[k] = due[k] /\ due[k] \in Nat
      BY <1>3, <1>7
    <3>5. QED  BY <3>3, <3>4
  <2>2. j \in Around(due, k)
    BY <1>7, <2>1, AroundNext
  <2>3. QED  BY <1>1, <1>5, <2>2
<1>12. LoopsOf(d, sv, n, m, bt, eu, oq)
  BY <1>5, <1>6, <1>8, <1>9, <1>10, <1>11 DEF LoopsOf
<1>13. QED  BY <1>12

\* Outside every loop the value asked for has been read then.
LEMMA LastRead ==
  ASSUME NEW d, NEW st, NEW k \in Nat, NEW at, NEW due, NEW op,
         LoopsOf(d, st, 0, k, at, due, op)
  PROVE  due[k] = 1
<1>1. op[0+1] = k /\ due[op[1]] = 1
  BY DEF LoopsOf
<1>2. QED  BY <1>1

\* A loop is opened: sv are the loops st and one more, for the values in the k-th
\* item of the row at, due, which goes on as bt, eu.
OpensLoop(d, st, n, k, at, due, m, bt, eu, o, sv) ==
  /\ m = k + 1 /\ eu \in [0..m -> Nat] /\ Begins(k, at, due, bt, eu)
  /\ o = n + 1 /\ (\A i \in 1..n : sv[i] = st[i]) /\ sv[o].left \in Nat
  /\ eu[m] = due[k] - 1 + sv[o].left /\ sv[o].kind = KindAt(d, at[k])

\* A container is one of the values that its own loop reads, and opens a loop.
LEMMA LoopsOpen ==
  ASSUME NEW d, NEW st, NEW n \in Nat, NEW k \in Nat, NEW at, NEW due \in [0..k -> Nat],
         NEW op, LoopsOf(d, st, n, k, at, due, op),
         \A i \in 1..n : st[i].left \in Nat /\ st[i].left > 0,
         NEW m, NEW bt, NEW eu, NEW o, NEW sv,
         OpensLoop(d, st, n, k, at, due, m, bt, eu, o, sv)
  PROVE  \E oq : LoopsOf(d, sv, o, m, bt, eu, oq)
<1>0. /\ m = k + 1 /\ eu \in [0..m -> Nat] /\ Begins(k, at, due, bt, eu)
      /\ o = n + 1 /\ (\A i \in 1..n : sv[i] = st[i]) /\ sv[o].left \in Nat
      /\ eu[m] = due[k] - 1 + sv[o].left /\ sv[o].kind = KindAt(d, at[k])
  BY DEF OpensLoop
<1> USE <1>0
<1> DEFINE oq == [i \in 1..o+1 |-> IF i = o + 1 THEN m ELSE op[i]]
<1>1. /\ op \in [1..o -> 0..k] /\ op[o] = k /\ due[op[1]] = 1
      /\ \A i \in 1..n : /\ op[i] < op[i+1] /\ due[op[i+1]] = due[op[i]] + st[i].left - 1
                        /\ KindAt(d, at[op[i]]) = st[i].kind
      /\ \A i \in 1..n : \A l \in op[i]..k-1 : due[l] >= due[op[i]]
      /\ \A j \in Around(due, k) : \E i \in 1..n : op[i] = j
  BY DEF LoopsOf
<1>2. due[k] > 0 /\ \A i \in 1..n : due[op[i]] <= due[k]
  BY LoopsAround DEF Enclosing
<1>3. m \in Nat /\ m - 1 = k /\ o \in Nat /\ o \in 1..o /\ 1 \in 1..o /\ k \in 0..k
  <2>1. m \in Nat /\ m - 1 = k /\ o \in Nat /\ k \in 0..k
    OBVIOUS
  <2>2. o \in 1..o
    OBVIOUS
  <2>3. 1 \in 1..o
    OBVIOUS
  <2>4. QED  BY <2>1, <2>2, <2>3
<1>4. /\ \A i \in 1..o : op[i] \in 0..k /\ op[i] \in 0..m
      /\ \A i \in 1..o : i \in 1..o+1 /\ i # o + 1
      /\ \A i \in 1..o : i # o => i + 1 \in 1..o /\ i \in 1..n
      /\ o + 1 \in 1..o+1 /\ m \in 0..m
      /\ \A i \in 1..o+1 : i # o + 1 => i \in 1..o
      /\ \A i \in 1..n : i \in 1..o
  <2>1. ASSUME NEW i \in 1..o PROVE op[i] \in 0..k /\ op[i] \in 0..m
    <3>1. op[i] \in 0..k
      BY <1>1
    <3>2. QED  BY <3>1
  <2>2. QED  BY <2>1
<1>5. oq[o+1] = m /\ (\A i \in 1..o : oq[i] = op[i])
  BY <1>4
<1>6. oq \in [1..o+1 -> 0..m]
  BY <1>4
<1> HIDE DEF oq
<1>7. \A i \in 0..k : eu[i] = due[i] /\ bt[i] = at[i]
  BY DEF Begins
<1>8. eu[oq[1]] = 1
  BY <1>1, <1>3, <1>4, <1>5, <1>7
<1>9. ASSUME NEW i \in 1..o
      PROVE  /\ oq[i] < oq[i+1]
             /\ eu[oq[i+1]] = eu[oq[i]] + sv[i].left - 1
             /\ KindAt(d, bt[oq[i]]) = sv[i].kind
  <2>1. oq[i] = op[i] /\ op[i] \in 0..k /\ eu[op[i]] = due[op[i]] /\ bt[op[i]] = at[op[i]]
    BY <1>4, <1>5, <1>7
  <2>2. CASE i = o
    <3>1. oq[i+1] = m /\ op[i] = k
      BY <1>1, <1>5, <2>2
    <3>2. due[k] \in Nat
      BY <1>3
    <3>3. eu[m] = eu[oq[i]] + sv[i].left - 1
      <4> DEFINE u == due[k]  w == sv[i].left
      <4>1. eu[m] = u - 1 + w /\ eu[oq[i]] = u /\ u \in Nat /\ w \in Nat
        BY <2>1, <2>2, <3>1, <3>2
      <4> HIDE DEF u, w
      <4>2. eu[m] = eu[oq[i]] + w - 1
        BY <4>1
      <4>3. QED  BY <4>2 DEF w
    <3>4. k < m
      OBVIOUS
    <3>5. QED  BY <2>1, <2>2, <3>1, <3>3, <3>4
  <2>3. CASE i # o
    <3>1. i + 1 \in 1..o /\ i \in 1..n /\ sv[i] = st[i]
      BY <1>4, <2>3
    <3>2. oq[i+1] = op[i+1] /\ op[i+1] \in 0..k /\ eu[op[i+1]] = due[op[i+1]]
      BY <1>4, <1>5, <1>7, <3>1
    <3>3. KindAt(d, at[op[i]]) = st[i].kind /\ op[i] < op[i+1]
          /\ due[op[i+1]] = due[op[i]] + st[i].left - 1
      BY <1>1, <3>1
    <3>4. QED  BY <2>1, <3>1, <3>2, <3>3
  <2>4. QED  BY <2>2, <2>3
<1>10. ASSUME NEW i \in 1..o, NEW l \in oq[i]..m-1 PROVE eu[l] >= eu[oq[i]]
  <2>1. oq[i] = op[i] /\ op[i] \in 0..k /\ eu[op[i]] = due[op[i]]
    BY <1>4, <1>5, <1>7
  <2>2. l \in 0..k /\ eu[l] = due[l] /\ due[l] \in Nat
    BY <1>3, <1>7, <2>1
  <2>3. CASE i = o
    <3>1. l = k
      BY <1>1, <2>1, <2>2, <2>3
    <3>2. QED  BY <1>1, <2>1, <2>2, <2>3, <3>1
  <2>4. CASE i # o
    <3>1. i \in 1..n
      BY <1>4, <2>4
    <3>2. CASE l = k
      BY <1>2, <2>1, <2>2, <3>1, <3>2
    <3>3. CASE l # k
      <4>1. l \in op[i]..k-1
        BY <1>3, <2>1, <2>2, <3>3
      <4>2. QED  BY <1>1, <2>1, <2>2, <3>1, <4>1
    <3>4. QED  BY <3>2, <3>3
  <2>5. QED  BY <2>3, <2>4
<1>11. ASSUME NEW j \in Around(eu, m) PROVE \E i \in 1..o : oq[i] = j
  <2>1. CASE j = k
    BY <1>1, <1>3, <1>5, <2>1
  <2>2. CASE j # k
    <3>1. j \in Around(due, k)
      BY <1>7, <2>2, AroundNext
    <3>2. PICK i \in 1..n : op[i] = j
      BY <1>1, <3>1
    <3>3. QED  BY <1>4, <1>5, <3>2
  <2>3. QED  BY <2>1, <2>2
<1>12. LoopsOf(d, sv, o, m, bt, eu, oq)
  BY <1>3, <1>5, <1>6, <1>8, <1>9, <1>10, <1>11 DEF LoopsOf
<1>13. QED  BY <1>12

\* A loop that is over was a value of the loop it is in, which counts it.
LEMMA LoopsClose ==
  ASSUME NEW d, NEW st, NEW n \in Nat, NEW k \in Nat, NEW at, NEW due \in [0..k -> Nat],
         NEW op, LoopsOf(d, st, n, k, at, due, op),
         \A i \in 1..n : st[i].left \in Nat,
         n > 1, st[n].left = 0, NEW o, o = n - 1,
         NEW sv, \A i \in 1..o-1 : sv[i] = st[i],
         sv[o].kind = st[o].kind, sv[o].left = st[o].left - 1
  PROVE  \E oq : LoopsOf(d, sv, o, k, at, due, oq)
<1> DEFINE oq == [i \in 1..n |-> IF i = n THEN k ELSE op[i]]
<1>1. /\ op \in [1..n+1 -> 0..k] /\ op[n+1] = k /\ due[op[1]] = 1
      /\ \A i \in 1..n : /\ op[i] < op[i+1] /\ due[op[i+1]] = due[op[i]] + st[i].left - 1
                        /\ KindAt(d, at[op[i]]) = st[i].kind
      /\ \A i \in 1..n : \A l \in op[i]..k-1 : due[l] >= due[op[i]]
      /\ \A j \in Around(due, k) : \E i \in 1..n : op[i] = j
  BY DEF LoopsOf
<1>2. n \in 1..n /\ 1 \in 1..o /\ o + 1 = n /\ k \in 0..k /\ o \in 1..n
  <2>1. o + 1 = n /\ k \in 0..k
    OBVIOUS
  <2>2. n \in 1..n
    OBVIOUS
  <2>3. 1 \in 1..o /\ o \in 1..n
    OBVIOUS
  <2>4. QED  BY <2>1, <2>2, <2>3
<1>3. \A i \in 1..n : op[i] \in 0..k /\ due[op[i]] \in Nat
  <2>1. ASSUME NEW i \in 1..n PROVE op[i] \in 0..k
    <3>1. i \in 1..n+1
      OBVIOUS
    <3>2. QED  BY <1>1, <3>1
  <2>2. QED  BY <2>1
<1>4. due[k] = due[op[n]] - 1 /\ op[n] < k
  <2>1. due[op[n+1]] = due[op[n]] + st[n].left - 1 /\ op[n] < op[n+1]
    BY <1>1, <1>2
  <2>2. due[op[n]] \in Nat
    BY <1>2, <1>3
  <2>3. QED  BY <1>1, <2>1, <2>2
<1>5. oq[n] = k /\ (\A i \in 1..o : oq[i] = op[i])
  BY <1>2
<1>6. oq \in [1..o+1 -> 0..k]
  BY <1>2, <1>3
<1> HIDE DEF oq
<1>7. \A i \in 1..o : i \in 1..n /\ i # n /\ (i # o => i + 1 \in 1..o /\ i \in 1..o-1)
  BY <1>2
<1>8. due[oq[1]] = 1
  BY <1>1, <1>2, <1>5
<1>9. ASSUME NEW i \in 1..o
      PROVE  /\ oq[i] < oq[i+1]
             /\ due[oq[i+1]] = due[oq[i]] + sv[i].left - 1
             /\ KindAt(d, at[oq[i]]) = sv[i].kind
             /\ \A l \in oq[i]..k-1 : due[l] >= due[oq[i]]
  <2>1. oq[i] = op[i] /\ op[i] \in 0..k /\ due[op[i]] \in Nat /\ st[i].left \in Nat
    BY <1>3, <1>5, <1>7
  <2>2. /\ op[i] < op[i+1] /\ due[op[i+1]] = due[op[i]] + st[i].left - 1
        /\ KindAt(d, at[op[i]]) = st[i].kind
        /\ \A l \in op[i]..k-1 : due[l] >= due[op[i]]
    BY <1>1, <1>7
  <2>3. CASE i = o
    <3>1. oq[i+1] = k /\ i + 1 = n
      BY <1>2, <1>5, <2>3
    <3>2. op[i] < op[n] /\ due[op[n]] = due[op[i]] + st[i].left - 1 /\ op[n] \in 0..k
      BY <1>2, <1>3, <2>2, <3>1
    <3>3. op[i] < k
      BY <1>4, <2>1, <3>2
    <3>4. sv[i].left = st[i].left - 1 /\ sv[i].kind = st[i].kind
      BY <2>3
    <3>5. due[k] = due[op[i]] + (st[i].left - 1) - 1
      <4> DEFINE u == due[op[i]]  w == st[i].left  z == due[op[n]]
      <4>1. u \in Nat /\ w \in Nat
        BY <2>1
      <4>2. z = u + w - 1
        BY <3>2
      <4>3. due[k] = z - 1
        BY <1>4
      <4> HIDE DEF u, w, z
      <4>4. due[k] = u + (w - 1) - 1
        BY <4>1, <4>2, <4>3
      <4>5. QED  BY <4>4 DEF u, w
    <3>6. QED  BY <2>1, <2>2, <3>1, <3>3, <3>4, <3>5
  <2>4. CASE i # o
    <3>1. i + 1 \in 1..o /\ sv[i] = st[i]
      BY <1>7, <2>4
    <3>2. oq[i+1] = op[i+1]
      BY <1>5, <3>1
    <3>3. QED  BY <2>1, <2>2, <3>1, <3>2
  <2>5. QED  BY <2>3, <2>4
<1>10. ASSUME NEW j \in Around(due, k) PROVE \E i \in 1..o : oq[i] = j
  <2>1. PICK i \in 1..n : op[i] = j
    BY <1>1
  <2>2. i # n
    <3>1. SUFFICES ASSUME i = n PROVE FALSE
      OBVIOUS
    <3>2. j = op[n] /\ j \in 0..k /\ j < k
      BY <1>2, <1>3, <1>4, <2>1, <3>1
    <3>3. k \in j+1..k
      BY <3>2
    <3>4. due[k] >= due[j]
      BY <3>3 DEF Around
    <3>5. due[j] \in Nat /\ due[k] = due[j] - 1
      BY <1>4, <3>2
    <3>6. QED  BY <3>4, <3>5
  <2>3. i \in 1..o
    BY <2>2
  <2>4. QED  BY <1>5, <2>1, <2>3
<1>11. LoopsOf(d, sv, o, k, at, due, oq)
  BY <1>2, <1>5, <1>6, <1>8, <1>9, <1>10 DEF LoopsOf
<1>12. QED  BY <1>11

\* The outermost loop was the value asked for.
LEMMA LastClose ==
  ASSUME NEW d, NEW st, NEW k \in Nat, NEW at, NEW due \in [0..k -> Nat], NEW op,
         LoopsOf(d, st, 1, k, at, due, op), st[1].left = 0
  PROVE  due[k] = 0
<1>1. 1 \in 1..1 /\ 1 + 1 = 2
  OBVIOUS
<1>2. op[1+1] = k /\ due[op[1]] = 1
  BY DEF LoopsOf
<1>3. due[op[1+1]] = due[op[1]] + st[1].left - 1
  BY <1>1 DEF LoopsOf
<1>4. QED  BY <1>2, <1>3

-----------------------------------------------------------------------------
(* A writer: it appends whole items to a message.                          *)

\* The bytes b are one whole item, of k values.
IsWhole(b, k) == IsItem(b, 0) /\ ItemEnd(b, 0) = Len(b) /\ ValuesIn(b, 0) = k

\* From p on, d has the bytes that e has from q on, and e has no fewer.
SameFrom(d, p, e, q) ==
  /\ Len(d) - p <= Len(e) - q
  /\ \A i \in 1..Len(d) - p : e[q+i] = d[p+i]

\* The length that a header says is the same wherever the header is.
LEMMA LengthSame ==
  ASSUME NEW d \in Seq(Byte), NEW p \in Nat, NEW e \in Seq(Byte), NEW q \in Nat,
         SameFrom(d, p, e, q), NEW f \in Byte, p + 1 + LenWidth(f) <= Len(d)
  PROVE  ItemLen(e, q, f) = ItemLen(d, p, f)
<1> DEFINE w == LenWidth(f)
<1>1. w \in {0, 1, 2, 4} /\ w + 1 <= Len(d) - p
  BY LenWidthType
<1>2. \A i \in 1..w : e[q + 1 + i] = d[p + 1 + i]
  <2> SUFFICES ASSUME NEW i \in 1..w PROVE e[q + 1 + i] = d[p + 1 + i]
    OBVIOUS
  <2>1. 1 + i \in 1..Len(d) - p /\ q + (1 + i) = q + 1 + i /\ p + (1 + i) = p + 1 + i
    BY <1>1
  <2>2. e[q + (1 + i)] = d[p + (1 + i)]
    BY <2>1 DEF SameFrom
  <2> QED
    BY <2>1, <2>2
<1> HIDE DEF w
<1>3. CASE w = 0
  BY <1>3 DEF ItemLen, w
<1>4. CASE w = 1
  BY <1>2, <1>4 DEF ItemLen, w, BigEndian
<1>5. CASE w = 2
  BY <1>2, <1>5 DEF ItemLen, w, BigEndian
<1>6. CASE w = 4
  BY <1>2, <1>6 DEF ItemLen, w, BigEndian
<1>7. QED  BY <1>1, <1>3, <1>4, <1>5, <1>6

\* An item is the same item wherever its bytes are, and whatever is behind them.
LEMMA ItemSame ==
  ASSUME NEW d \in Seq(Byte), NEW p \in Nat, NEW e \in Seq(Byte), NEW q \in Nat,
         SameFrom(d, p, e, q), IsItem(d, p)
  PROVE  /\ IsItem(e, q) /\ ValuesIn(e, q) = ValuesIn(d, p)
         /\ ItemEnd(e, q) - q = ItemEnd(d, p) - p
<1> DEFINE f == d[p+1]
           k == Kind(f)
<1>1. p < Len(d) /\ q < Len(e) /\ Len(d) \in Nat /\ Len(e) \in Nat
  BY DEF IsItem, HasHeader, SameFrom
<1>2. f \in Byte /\ e[q+1] = f
  <2>1. 1 \in 1..Len(d) - p /\ p + 1 \in 1..Len(d)
    BY <1>1
  <2> QED
    BY <2>1, ElementOfSeq DEF SameFrom
<1> HIDE DEF f
<1>3. /\ KindAt(d, p) = k /\ KindAt(e, q) = k
      /\ HeaderEnd(d, p) = p + 1 + LenWidth(f) /\ HeaderEnd(e, q) = q + 1 + LenWidth(f)
      /\ LenAt(d, p) = ItemLen(d, p, f) /\ LenAt(e, q) = ItemLen(e, q, f)
  BY <1>2 DEF KindAt, HeaderEnd, LenAt, f
<1>4. k # "invalid" /\ ItemEnd(d, p) <= Len(d) /\ (k = "scalar" \/ HeaderEnd(d, p) <= Len(d))
  BY <1>3 DEF IsItem, HasHeader
<1>5. ItemEnd(d, p) \in Nat /\ LenWidth(f) \in Nat /\ ScalarWidth(f) \in Nat
  <2>1. ItemEnd(d, p) \in Nat
    BY ItemMoves
  <2>2. LenWidth(f) \in Nat /\ ScalarWidth(f) \in Nat
    BY <1>2, LenWidthType, ScalarWidthType
  <2> QED
    BY <2>1, <2>2
<1>6. Len(d) - p <= Len(e) - q
  BY DEF SameFrom
<1> HIDE DEF k
<1>7. CASE k = "scalar"
  <2>1. ItemEnd(d, p) = p + 1 + ScalarWidth(f) /\ ItemEnd(e, q) = q + 1 + ScalarWidth(f)
    BY <1>2, <1>3, <1>7 DEF ItemEnd, f
  <2>2. ValuesIn(d, p) = 0 /\ ValuesIn(e, q) = 0
    BY <1>3, <1>7 DEF ValuesIn
  <2>3. ItemEnd(e, q) <= Len(e)
    BY <1>1, <1>4, <1>5, <1>6, <2>1
  <2> QED
    BY <1>1, <1>3, <1>5, <1>7, <2>1, <2>2, <2>3 DEF IsItem, HasHeader
<1>8. CASE k # "scalar"
  <2>1. LenAt(e, q) = LenAt(d, p) /\ LenAt(d, p) \in Nat
    <3>1. p + 1 + LenWidth(f) <= Len(d)
      BY <1>3, <1>4, <1>8
    <3> QED
      BY <1>2, <1>3, <3>1, LengthSame, ItemLenType
  <2> DEFINE more == IF k \in {"str", "bin"} THEN LenAt(d, p)
                     ELSE IF k = "ext" THEN 1 + LenAt(d, p) ELSE 0
  <2>2. more \in Nat
    BY <2>1
  <2>3. ItemEnd(d, p) = p + 1 + LenWidth(f) + more /\ ItemEnd(e, q) = q + 1 + LenWidth(f) + more
    BY <1>3, <1>8, <2>1 DEF ItemEnd
  <2> HIDE DEF more
  <2>4. ItemEnd(e, q) <= Len(e) /\ HeaderEnd(e, q) <= Len(e)
    BY <1>1, <1>3, <1>4, <1>5, <1>6, <2>2, <2>3
  <2>5. ValuesIn(e, q) = ValuesIn(d, p)
    BY <1>3, <2>1 DEF ValuesIn
  <2>6. ItemEnd(e, q) - q = ItemEnd(d, p) - p
    BY <1>5, <2>2, <2>3
  <2> QED
    BY <1>1, <1>3, <1>4, <2>4, <2>5, <2>6 DEF IsItem, HasHeader
<1> QED
  BY <1>7, <1>8

\* What is written behind a message changes nothing of what is read in it.
LEMMA RowStays ==
  ASSUME NEW d \in Seq(Byte), NEW b \in Seq(Byte), NEW s, NEW p, NEW n, RowTo(d, s, p, n)
  PROVE  RowTo(d \o b, s, p, n)
<1> DEFINE e == d \o b
<1>1. e \in Seq(Byte) /\ \A q \in Nat : SameFrom(d, q, e, q)
  BY DEF SameFrom
<1> HIDE DEF e
<1>2. ASSUME NEW q \in Nat, IsItem(d, q)
      PROVE  IsItem(e, q) /\ ItemEnd(e, q) = ItemEnd(d, q) /\ ValuesIn(e, q) = ValuesIn(d, q)
  <2>1. SameFrom(d, q, e, q)
    BY <1>1
  <2>2. ItemEnd(d, q) \in Nat
    BY <1>2, ItemMoves
  <2>3. IsItem(e, q) /\ ValuesIn(e, q) = ValuesIn(d, q) /\ ItemEnd(e, q) - q = ItemEnd(d, q) - q
    BY <1>1, <1>2, <2>1, ItemSame
  <2>4. IsItem(e, q) => ItemEnd(e, q) \in Nat
    BY <1>1, ItemMoves
  <2> QED
    BY <2>2, <2>3, <2>4
<1>3. PICK k \in Nat : \E at, due \in [0..k -> Nat] :
        IsRow(d, k, at, due) /\ at[0] = s /\ at[k] = p /\ due[k] = n
  BY DEF RowTo
<1>4. PICK at, due \in [0..k -> Nat] :
        IsRow(d, k, at, due) /\ at[0] = s /\ at[k] = p /\ due[k] = n
  BY <1>3
<1>5. ASSUME NEW i \in 0..k-1
      PROVE  /\ IsItem(e, at[i]) /\ due[i] > 0
             /\ at[i+1] = ItemEnd(e, at[i])
             /\ due[i+1] = due[i] - 1 + ValuesIn(e, at[i])
  <2>1. /\ IsItem(d, at[i]) /\ due[i] > 0
        /\ at[i+1] = ItemEnd(d, at[i])
        /\ due[i+1] = due[i] - 1 + ValuesIn(d, at[i])
    BY <1>4 DEF IsRow
  <2>2. at[i] \in Nat
    OBVIOUS
  <2> QED
    BY <1>2, <2>1, <2>2
<1>6. IsRow(e, k, at, due)
  BY <1>4, <1>5 DEF IsRow
<1> QED
  BY <1>4, <1>6 DEF RowTo, e

\* So a value stays a value.
LEMMA ValueStays ==
  ASSUME NEW d \in Seq(Byte), NEW b \in Seq(Byte), NEW s, NEW p, IsValue(d, s, p)
  PROVE  IsValue(d \o b, s, p)
<1>1. RowTo(d, s, p, 0)
  BY Zenon DEF RowTo, IsValue
<1> QED
  BY <1>1, RowStays, RowIsValue

\* A row goes on with the item that is written behind it.
LEMMA RowAppends ==
  ASSUME NEW d \in Seq(Byte), NEW b \in Seq(Byte), NEW s, NEW n, NEW k,
         RowTo(d, s, Len(d), n), n > 0, IsWhole(b, k)
  PROVE  RowTo(d \o b, s, Len(d \o b), n - 1 + k)
<1> DEFINE e == d \o b
<1>1. e \in Seq(Byte) /\ Len(d) \in Nat /\ Len(e) = Len(d) + Len(b) /\ Len(b) \in Nat
  OBVIOUS
<1>2. SameFrom(b, 0, e, Len(d))
  BY DEF SameFrom
<1> HIDE DEF e
<1>3. /\ IsItem(e, Len(d)) /\ ValuesIn(e, Len(d)) = k
      /\ ItemEnd(e, Len(d)) - Len(d) = Len(b) - 0
  <2>1. IsItem(b, 0) /\ ItemEnd(b, 0) = Len(b) /\ ValuesIn(b, 0) = k /\ 0 \in Nat
    BY DEF IsWhole
  <2>2. /\ IsItem(e, Len(d)) /\ ValuesIn(e, Len(d)) = ValuesIn(b, 0)
        /\ ItemEnd(e, Len(d)) - Len(d) = ItemEnd(b, 0) - 0
    BY <1>1, <1>2, <2>1, ItemSame
  <2> QED
    BY <2>1, <2>2
<1>4. ItemEnd(e, Len(d)) = Len(e)
  <2>1. ItemEnd(e, Len(d)) \in Nat
    BY <1>1, <1>3, ItemMoves
  <2> QED
    BY <1>1, <1>3, <2>1
<1>5. RowTo(e, s, Len(d), n)
  BY RowStays DEF e
<1> QED
  BY <1>1, <1>3, <1>4, <1>5, RowReads DEF e
\* The ranges of the short formats.
LEMMA Ranges ==
  ASSUME NEW f \in Byte
  PROVE  /\ isPositiveFixint(f) <=> f <= 127
         /\ isNegativeFixint(f) <=> f >= 224
         /\ isFixmap(f)   <=> 128 <= f /\ f <= 143
         /\ isFixarray(f) <=> 144 <= f /\ f <= 159
         /\ isFixstr(f)   <=> 160 <= f /\ f <= 191
BY DEF Byte, isPositiveFixint, isNegativeFixint, isFixmap, isFixarray, isFixstr

\* The formats by kind, in numbers.
LEMMA KindOf ==
  ASSUME NEW f \in Byte
  PROVE  /\ f <= 127 \/ f >= 224 \/ f \in {192, 194, 195} \cup 202..211 => Kind(f) = "scalar"
         /\ f \in 128..143 \cup {222, 223} => Kind(f) = "map"
         /\ f \in 144..159 \cup {220, 221} => Kind(f) = "array"
         /\ f \in 160..191 \cup 217..219   => Kind(f) = "str"
         /\ f \in 196..198                 => Kind(f) = "bin"
         /\ f \in 199..201 \cup 212..216   => Kind(f) = "ext"
<1> DEFINE short == isPositiveFixint(f) \/ isNegativeFixint(f)
           map   == isFixmap(f) \/ f \in Map
           array == isFixarray(f) \/ f \in Array
           str   == isFixstr(f) \/ f \in Str
           other == f \in NilBool \cup Number
           bin   == f \in Bin
           ext   == f \in FixExt \cup VarExt
<1>1. /\ short <=> f <= 127 \/ f >= 224
      /\ map   <=> f \in 128..143 \cup {222, 223}
      /\ array <=> f \in 144..159 \cup {220, 221}
      /\ str   <=> f \in 160..191 \cup 217..219
      /\ other <=> f \in {192, 194, 195} \cup 202..211
      /\ bin   <=> f \in 196..198
      /\ ext   <=> f \in 199..201 \cup 212..216
  BY Ranges DEF Map, Array, Str, NilBool, Number, Bin, FixExt, VarExt, Byte
<1>2. Kind(f) = CASE short -> "scalar" [] map -> "map" [] array -> "array" [] str -> "str"
                  [] other -> "scalar" [] bin -> "bin" [] ext -> "ext" [] OTHER -> "invalid"
  BY DEF Kind
<1> HIDE DEF short, map, array, str, other, bin, ext
<1>3. /\ short => ~map /\ ~array /\ ~str /\ ~other /\ ~bin /\ ~ext
      /\ map => ~array /\ ~str /\ ~other /\ ~bin /\ ~ext
      /\ array => ~str /\ ~other /\ ~bin /\ ~ext
      /\ str => ~other /\ ~bin /\ ~ext
      /\ other => ~bin /\ ~ext
      /\ bin => ~ext
  BY <1>1 DEF Byte
<1>4. /\ short \/ other => Kind(f) = "scalar"
      /\ map => Kind(f) = "map"
      /\ array => Kind(f) = "array"
      /\ str => Kind(f) = "str"
      /\ bin => Kind(f) = "bin"
      /\ ext => Kind(f) = "ext"
  <2>1. CASE short
    BY <1>2, <1>3, <2>1
  <2>2. CASE map
    BY <1>2, <1>3, <2>2
  <2>3. CASE array
    BY <1>2, <1>3, <2>3
  <2>4. CASE str
    BY <1>2, <1>3, <2>4
  <2>5. CASE other
    BY <1>2, <1>3, <2>5
  <2>6. CASE bin
    BY <1>2, <1>3, <2>6
  <2>7. CASE ext
    BY <1>2, <1>3, <2>7
  <2> QED
    BY <2>1, <2>2, <2>3, <2>4, <2>5, <2>6, <2>7
<1> QED
  BY <1>1, <1>4

\* A number, nil or a bool: the format byte and a payload of its width.
LEMMA ScalarIsWhole ==
  ASSUME NEW b \in Seq(Byte), b # <<>>, Kind(b[1]) = "scalar", Len(b) = 1 + ScalarWidth(b[1])
  PROVE  IsWhole(b, 0)
<1>1. Len(b) \in Nat /\ Len(b) > 0 /\ 0 + 1 = 1
  OBVIOUS
<1>2. KindAt(b, 0) = "scalar"
  BY <1>1 DEF KindAt
<1>3. ItemEnd(b, 0) = Len(b) /\ ValuesIn(b, 0) = 0
  BY <1>1, <1>2 DEF ItemEnd, ValuesIn
<1> QED
  BY <1>1, <1>2, <1>3 DEF IsWhole, IsItem, HasHeader

\* The format byte f and the bytes h behind it say the length n.
SaysLength(f, h, n) ==
  \/ LenWidth(f) = 0 /\ h = <<>> /\ FixLen(f) = n
  \/ LenWidth(f) = 1 /\ h = <<n>>
  \/ LenWidth(f) = 2 /\ h = <<n \div 256, n % 256>>

\* Anything else: a format byte, a length, and what has that length.
LEMMA SizedIsWhole ==
  ASSUME NEW f \in Byte, NEW h \in Seq(Byte), NEW n \in Nat, NEW s \in Seq(Byte),
         SaysLength(f, h, n), Kind(f) \in {"str", "bin", "ext", "array", "map"},
         Len(s) = IF Kind(f) \in {"str", "bin"} THEN n ELSE IF Kind(f) = "ext" THEN 1 + n ELSE 0
  PROVE  IsWhole(<<f>> \o (h \o s),
                 IF Kind(f) = "array" THEN n ELSE IF Kind(f) = "map" THEN 2 * n ELSE 0)
<1> DEFINE b == <<f>> \o (h \o s)
           w == LenWidth(f)
<1>1. /\ w \in {0, 1, 2} /\ Len(h) = w
      /\ b \in Seq(Byte) /\ Len(b) = 1 + w + Len(s) /\ b[0+1] = f
      /\ w >= 1 => b[2] = h[1]
      /\ w = 2  => b[3] = h[2]
  <2>1. w \in {0, 1, 2} /\ Len(h) = w
    BY DEF SaysLength
  <2> HIDE DEF w
  <2>2. /\ h \o s \in Seq(Byte) /\ Len(h \o s) = w + Len(s)
        /\ w >= 1 => (h \o s)[1] = h[1]
        /\ w = 2  => (h \o s)[2] = h[2]
    BY <2>1
  <2> DEFINE r == h \o s
  <2> HIDE DEF r
  <2>3. /\ <<f>> \o r \in Seq(Byte) /\ Len(<<f>> \o r) = 1 + Len(r) /\ (<<f>> \o r)[1] = f
        /\ Len(r) >= 1 => (<<f>> \o r)[2] = r[1]
        /\ Len(r) >= 2 => (<<f>> \o r)[3] = r[2]
    BY <2>2 DEF r
  <2>4. Len(s) \in Nat /\ 0 + 1 = 1
    OBVIOUS
  <2> QED
    BY <2>1, <2>2, <2>3, <2>4 DEF r
<1> HIDE DEF b
<1>2. ItemLen(b, 0, f) = n
  <2>1. CASE w = 0
    BY <2>1 DEF SaysLength, ItemLen
  <2>2. CASE w = 1
    BY <1>1, <2>2 DEF SaysLength, ItemLen, BigEndian
  <2>3. CASE w = 2
    <3>1. h = <<n \div 256, n % 256>>
      BY <2>3 DEF SaysLength
    <3>2. h[1] = n \div 256 /\ h[2] = n % 256
      BY <3>1
    <3>3. b[2] = n \div 256 /\ b[3] = n % 256
      BY <1>1, <2>3, <3>2
    <3>4. ItemLen(b, 0, f) = Digit(b[2], b[3])
      BY <2>3 DEF ItemLen, BigEndian
    <3>5. Digit(n \div 256, n % 256) = n
      BY SMT DEF Digit
    <3> QED
      BY <3>3, <3>4, <3>5
  <2> QED
    BY <1>1, <2>1, <2>2, <2>3
<1>3. KindAt(b, 0) = Kind(f) /\ LenAt(b, 0) = n /\ HeaderEnd(b, 0) = 1 + w
  BY <1>1, <1>2 DEF KindAt, LenAt, HeaderEnd
<1>4. ItemEnd(b, 0) = Len(b)
  BY <1>1, <1>3 DEF ItemEnd
<1>5. ValuesIn(b, 0) = IF Kind(f) = "array" THEN n ELSE IF Kind(f) = "map" THEN 2 * n ELSE 0
  BY <1>3 DEF ValuesIn
<1>6. 0 < Len(b) /\ HeaderEnd(b, 0) <= Len(b) /\ Len(b) <= Len(b)
  BY <1>1, <1>3
<1> QED
  BY <1>3, <1>4, <1>5, <1>6 DEF IsWhole, IsItem, HasHeader, b

-----------------------------------------------------------------------------
(* The table of Grammar is the masks of format.go.                         *)

\* What Wire says of the first bytes of a row of the table.
Agrees(r, f) ==
  /\ r.kind = Kind(f) /\ r.width = LenWidth(f)
  /\ r.kind = "scalar" => r.fixed = ScalarWidth(f)
  /\ r.kind = "ext" /\ r.width = 0 => r.fixed - 1 = FixLen(f)
  /\ r.kind \notin {"scalar", "ext"} /\ r.width = 0 => f - r.lo = FixLen(f)

\* The lengths that a first byte itself carries, by its row.
LEMMA FixLens ==
  ASSUME NEW f \in Byte
  PROVE  /\ f \in 128..143 => FixLen(f) = f - 128
         /\ f \in 144..159 => FixLen(f) = f - 144
         /\ f \in 160..191 => FixLen(f) = f - 160
         /\ f \in 192..255 =>
              FixLen(f) = IF f \in 212..216 THEN <<1, 2, 4, 8, 16>>[f - 211] ELSE 0
BY Ranges DEF FixLen, FixExt, FixExtLen, Byte

\* The rows agree with the masks of format.go, and every byte but one has a row.
LEMMA TableAgrees ==
  ASSUME NEW f \in Byte, NEW r \in G!Table, f \in r.lo..r.hi
  PROVE  Agrees(r, f)
<1>1. PICK t \in G!Rows :
        r = [lo |-> t[1], hi |-> t[2], kind |-> t[3], width |-> t[4], fixed |-> t[5]]
  BY Zenon DEF G!Table
<1>2. r.lo = t[1] /\ r.hi = t[2] /\ r.kind = t[3] /\ r.width = t[4] /\ r.fixed = t[5]
  BY <1>1
<1>3. t[1] <= f /\ f <= t[2]
  BY <1>2 DEF Byte, G!Rows
<1> QED
  BY <1>2, <1>3, KindOf, FixLens DEF Agrees, G!Rows, LenWidth, ScalarWidth, Byte

LEMMA InTable ==
  ASSUME NEW f \in Byte, f # 193
  PROVE  G!RowOf(f) \in G!Table /\ f \in G!RowOf(f).lo..G!RowOf(f).hi
<1>1. \E t \in G!Rows : t[1] <= f /\ f <= t[2]
  BY DEF G!Rows, Byte
<1>2. PICK t \in G!Rows : t[1] <= f /\ f <= t[2]
  BY <1>1
<1> DEFINE u == [lo |-> t[1], hi |-> t[2], kind |-> t[3], width |-> t[4], fixed |-> t[5]]
<1>3. u \in G!Table
  BY Zenon DEF G!Table
<1>4. f \in u.lo..u.hi
  BY <1>2 DEF Byte, G!Rows
<1> QED
  BY <1>3, <1>4, Zenon DEF G!RowOf

\* Big reads a number as BigEndian does.
LEMMA BigIs ==
  ASSUME NEW d \in Seq(Byte), NEW q \in Nat, NEW w \in {1, 2, 4}, q + w <= Len(d)
  PROVE  G!Big(d, q, w) = BigEndian(d, q, w)
<1> DEFINE Def(n) == [i \in 0..w |-> IF i = 0 THEN 0 ELSE 256 * n[i-1] + d[q+i]]
           n1 == 256 * 0 + d[q+1]
           n2 == 256 * n1 + d[q+2]
           n3 == 256 * n2 + d[q+3]
           n4 == 256 * n3 + d[q+4]
           g == [i \in 0..w |-> IF i = 0 THEN 0 ELSE IF i = 1 THEN n1 ELSE IF i = 2 THEN n2
                                ELSE IF i = 3 THEN n3 ELSE n4]
           n == CHOOSE n : n = Def(n)
<1>1. g = Def(g)
  <2>1. ASSUME NEW i \in 0..w PROVE g[i] = Def(g)[i]
    <3>1. CASE i = 0
      BY <3>1
    <3>2. CASE i = 1
      BY <3>2
    <3>3. CASE i = 2
      BY <3>3
    <3>4. CASE i = 3
      BY <3>4
    <3>5. CASE i = 4
      BY <3>5
    <3> QED
      BY <3>1, <3>2, <3>3, <3>4, <3>5
  <2> QED
    BY <2>1
<1>2. \E m : m = Def(m)
  BY <1>1, Zenon
<1>3. n = Def(n)
  BY <1>2, Zenon
<1>4. G!Big(d, q, w) = n[w]
  BY Zenon DEF G!Big
<1> HIDE DEF n
<1>5. ASSUME NEW i \in 0..w PROVE n[i] = IF i = 0 THEN 0 ELSE 256 * n[i-1] + d[q+i]
  BY <1>3
<1> HIDE DEF Def
<1>6. \A i \in 1..w : d[q+i] \in Nat
  <2>1. \A i \in 1..w : q + i \in 1..Len(d)
    OBVIOUS
  <2>2. \A i \in 1..Len(d) : d[i] \in Byte
    BY ElementOfSeq
  <2>3. \A i \in Byte : i \in Nat
    BY DEF Byte
  <2> QED
    BY <2>1, <2>2, <2>3
<1>7. n[1] = d[q+1]
  BY <1>5, <1>6
<1>8. CASE w = 1
  BY <1>4, <1>7, <1>8 DEF BigEndian
<1>9. CASE w = 2
  BY <1>4, <1>5, <1>7, <1>9 DEF BigEndian, Digit
<1>10. CASE w = 4
  <2>1. n[2] = Digit(d[q+1], d[q+2])
    BY <1>5, <1>7, <1>10 DEF Digit
  <2>2. n[3] = Digit(n[2], d[q+3])
    BY <1>5, <1>10 DEF Digit
  <2>3. n[4] = Digit(n[3], d[q+4])
    BY <1>5, <1>10 DEF Digit
  <2> QED
    BY <1>4, <1>10, <2>1, <2>2, <2>3 DEF BigEndian
<1> QED
  BY <1>8, <1>9, <1>10

\* The table has no row for the byte that is never used.
LEMMA NeverUsed ==
  ASSUME NEW f \in Byte
  PROVE  /\ Kind(f) = "invalid" <=> f = 193
         /\ f # 193 => Kind(f) \in {"scalar", "map", "array", "str", "bin", "ext"}
<1>1. f # 193 => f <= 127 \/ f >= 224 \/ f \in {192, 194, 195} \cup 202..211
               \/ f \in 128..143 \cup {222, 223} \/ f \in 144..159 \cup {220, 221}
               \/ f \in 160..191 \cup 217..219 \/ f \in 196..198 \/ f \in 199..201 \cup 212..216
  BY DEF Byte
<1>2. f # 193 => Kind(f) \in {"scalar", "map", "array", "str", "bin", "ext"}
  BY <1>1, KindOf
<1>3. Kind(193) = "invalid"
  <2> DEFINE b == 193
  <2>1. b \in Byte
    BY DEF Byte
  <2>2. /\ ~(isPositiveFixint(b) \/ isNegativeFixint(b)) /\ ~(isFixmap(b) \/ b \in Map)
        /\ ~(isFixarray(b) \/ b \in Array) /\ ~(isFixstr(b) \/ b \in Str)
        /\ ~(b \in NilBool \cup Number) /\ ~(b \in Bin) /\ ~(b \in FixExt \cup VarExt)
    BY <2>1, Ranges DEF Map, Array, Str, NilBool, Number, Bin, FixExt, VarExt
  <2> HIDE DEF b
  <2>3. Kind(b) = "invalid"
    BY <2>2, Zenon DEF Kind
  <2> QED
    BY <2>3 DEF b
<1> QED
  BY <1>2, <1>3

\* No scalar has a length field.
LEMMA ScalarNoWidth ==
  ASSUME NEW f \in Byte, Kind(f) = "scalar"
  PROVE  LenWidth(f) = 0
BY KindOf DEF LenWidth, Byte

\* An item whose header is there ends behind its format byte.
LEMMA HeaderMoves ==
  ASSUME NEW d \in Seq(Byte), NEW q \in Nat, HasHeader(d, q)
  PROVE  ItemEnd(d, q) \in Nat /\ q < ItemEnd(d, q)
<1>1. /\ d[q+1] \in Byte /\ HeaderEnd(d, q) \in Nat /\ q < HeaderEnd(d, q)
      /\ KindAt(d, q) # "scalar" => LenAt(d, q) \in Nat
  BY HeaderFacts
<1>2. CASE KindAt(d, q) = "scalar"
  BY <1>1, <1>2, ScalarWidthType DEF ItemEnd
<1>3. CASE KindAt(d, q) # "scalar"
  <2>1. LenAt(d, q) \in Nat
    BY <1>1, <1>3
  <2>2. \/ ItemEnd(d, q) = HeaderEnd(d, q) + LenAt(d, q)
        \/ ItemEnd(d, q) = HeaderEnd(d, q) + (1 + LenAt(d, q))
        \/ ItemEnd(d, q) = HeaderEnd(d, q) + 0
    BY <1>3, Zenon DEF ItemEnd
  <2> QED
    BY <1>1, <2>1, <2>2
<1> QED
  BY <1>2, <1>3

\* What the table says of the item at q is what Wire and Rows say of it.
LEMMA HeaderIs ==
  ASSUME NEW d \in Seq(Byte), NEW q \in Nat, q < Len(d), d[q+1] # 193
  PROVE  LET f == d[q+1]
             h == G!HeaderAt(d, q)
         IN  /\ f \in Byte
             /\ G!RowOf(f).kind = KindAt(d, q) /\ q + 1 + G!RowOf(f).width = HeaderEnd(d, q)
             /\ HeaderEnd(d, q) <= Len(d) =>
                  /\ h.kind = KindAt(d, q) /\ h.rear = HeaderEnd(d, q)
                  /\ h.len = IF KindAt(d, q) = "scalar" THEN ScalarWidth(f) ELSE LenAt(d, q)
                  /\ KindAt(d, q) \notin {"array", "map"} => h.end = ItemEnd(d, q)
                  /\ G!Values(h) = ValuesIn(d, q)
<1> DEFINE f == d[q+1]
           row == G!RowOf(f)
           h == G!HeaderAt(d, q)
<1>1. f \in Byte
  OBVIOUS
<1>2. Agrees(row, f)
  BY <1>1, InTable, TableAgrees
<1>3. row.kind = KindAt(d, q) /\ row.width = LenWidth(f)
  BY <1>2 DEF Agrees, KindAt
<1>4. q + 1 + row.width = HeaderEnd(d, q)
  BY <1>3 DEF HeaderEnd
<1> DEFINE len == IF row.kind = "scalar" THEN row.fixed
                  ELSE IF row.width > 0 THEN G!Big(d, q + 1, row.width)
                  ELSE IF row.kind = "ext" THEN row.fixed - 1
                  ELSE d[q+1] - row.lo
<1>5. /\ h.kind = row.kind /\ h.rear = q + 1 + row.width /\ h.len = len
      /\ h.end = q + 1 + row.width + len + (IF row.kind = "ext" THEN 1 ELSE 0)
  BY DEF G!HeaderAt, G!HeaderBy
<1>6. ASSUME HeaderEnd(d, q) <= Len(d)
      PROVE  len = IF KindAt(d, q) = "scalar" THEN ScalarWidth(f) ELSE LenAt(d, q)
  <2>1. CASE row.kind = "scalar"
    BY <1>2, <1>3, <2>1 DEF Agrees
  <2>2. CASE row.kind # "scalar" /\ row.width = 0
    <3>1. LenAt(d, q) = FixLen(f)
      BY <1>3, <2>2 DEF LenAt, ItemLen
    <3>2. len = FixLen(f)
      <4>1. CASE row.kind = "ext"
        BY <1>2, <2>2, <4>1 DEF Agrees
      <4>2. CASE row.kind # "ext"
        BY <1>2, <2>2, <4>2 DEF Agrees
      <4> QED
        BY <4>1, <4>2
    <3> QED
      BY <1>3, <2>2, <3>1, <3>2
  <2>3. CASE row.kind # "scalar" /\ row.width # 0
    <3>1. row.width \in {1, 2, 4} /\ q + 1 + row.width <= Len(d)
      BY <1>1, <1>3, <1>4, <1>6, <2>3, LenWidthType
    <3>2. LenAt(d, q) = BigEndian(d, q + 1, row.width)
      BY <1>3, <2>3, Zenon DEF LenAt, ItemLen
    <3>3. len = G!Big(d, q + 1, row.width)
      BY <2>3, <3>1
    <3> HIDE DEF row
    <3>4. G!Big(d, q + 1, row.width) = BigEndian(d, q + 1, row.width)
      BY <3>1, BigIs
    <3> QED
      BY <1>3, <2>3, <3>2, <3>3, <3>4
  <2> QED
    BY <2>1, <2>2, <2>3
<1> HIDE DEF len, row
<1>7. ASSUME HeaderEnd(d, q) <= Len(d), KindAt(d, q) \notin {"array", "map"}
      PROVE  h.end = ItemEnd(d, q)
  <2>1. KindAt(d, q) \in {"scalar", "str", "bin", "ext"}
    BY <1>1, <1>7, NeverUsed DEF KindAt
  <2>2. KindAt(d, q) = "scalar" => row.width = 0
    BY <1>1, <1>3, ScalarNoWidth DEF KindAt
  <2>3. h.end = HeaderEnd(d, q) + len + (IF KindAt(d, q) = "ext" THEN 1 ELSE 0)
    BY <1>3, <1>4, <1>5
  <2>4. KindAt(d, q) # "scalar" => LenAt(d, q) \in Nat
    BY <1>7, HeaderFacts DEF HasHeader
  <2>5. ScalarWidth(f) \in Nat
    BY <1>1, ScalarWidthType
  <2>6. len = IF KindAt(d, q) = "scalar" THEN ScalarWidth(f) ELSE LenAt(d, q)
    BY <1>6, <1>7
  <2>7. HeaderEnd(d, q) = q + 1 + row.width
    BY <1>4
  <2>8. HeaderEnd(d, q) \in Nat
    BY <1>7, HeaderFacts DEF HasHeader
  <2> HIDE DEF h
  <2>9. CASE KindAt(d, q) = "scalar"
    BY <2>2, <2>3, <2>5, <2>6, <2>7, <2>9 DEF ItemEnd
  <2>10. CASE KindAt(d, q) # "scalar"
    BY <2>1, <2>3, <2>4, <2>6, <2>8, <2>10 DEF ItemEnd
  <2> QED
    BY <2>9, <2>10
<1>8. ASSUME HeaderEnd(d, q) <= Len(d) PROVE G!Values(h) = ValuesIn(d, q)
  BY <1>3, <1>5, <1>6, <1>8 DEF G!Values, ValuesIn
<1> QED
  BY <1>1, <1>3, <1>4, <1>5, <1>6, <1>7, <1>8 DEF row

-----------------------------------------------------------------------------
(* Grammar reads what it says it reads.  Parsed is defined by recursion on *)
(* what lies behind, so there is such a function for the last n bytes of a *)
(* message if there is one for the last n - 1; a least n for which there is*)
(* none cannot be.                                                         *)

\* What can be found at x: nothing ends in front of what was asked for, or behind
\* the message.
Found(d, x, r) ==
  /\ r.ok \in BOOLEAN /\ r.end \in Nat /\ r.nest \in Nat
  /\ r.ok => x.at + x.due <= r.end /\ (x.at <= Len(d) => r.end <= Len(d))

\* The header of the first value at x is there.
HasFirst(d, x) ==
  x.due > 0 /\ x.at < Len(d) /\ d[x.at+1] # 193 /\ HeaderEnd(d, x.at) <= Len(d)

\* The parts of a place.
LEMMA PlaceIs ==
  ASSUME NEW q \in Nat, NEW k \in Nat, NEW b \in BOOLEAN
  PROVE  /\ G!Place(q, k, b) \in G!Places
         /\ G!Place(q, k, b).at = q /\ G!Place(q, k, b).due = k /\ G!Place(q, k, b).pairs = b
BY DEF G!Place, G!Places

\* The first value at a place is read from what is behind it.
LEMMA FirstIs ==
  ASSUME NEW d \in Seq(Byte), NEW x \in G!Places, HasFirst(d, x), NEW f, NEW g,
         \A y \in G!Places : y.at > x.at => Found(d, y, f[y]) /\ f[y] = g[y]
  PROVE  LET r == G!First(d, f, x)
         IN  /\ r = G!First(d, g, x)
             /\ r.ok \in BOOLEAN /\ r.end \in Nat /\ r.nest \in Nat
             /\ r.ok => x.at < r.end /\ r.end <= Len(d)
<1> DEFINE q == x.at
           h == G!HeaderAt(d, q)
           item == G!Item(h.kind, h.len, x)
           y == G!Place(h.rear, G!Values(h), h.kind = "map")
<1>1. q \in Nat /\ q < Len(d) /\ d[q+1] # 193 /\ HeaderEnd(d, q) <= Len(d)
  BY DEF HasFirst, G!Places
<1>2. /\ d[q+1] \in Byte
      /\ h.kind = KindAt(d, q) /\ h.rear = HeaderEnd(d, q)
      /\ KindAt(d, q) \notin {"array", "map"} => h.end = ItemEnd(d, q)
      /\ G!Values(h) = ValuesIn(d, q)
  BY <1>1, HeaderIs
<1>3. HasHeader(d, q)
  BY <1>1 DEF HasHeader
<1>4. HeaderEnd(d, q) \in Nat /\ q < HeaderEnd(d, q) /\ ValuesIn(d, q) \in Nat
  BY <1>1, <1>3, HeaderFacts
<1> HIDE DEF h, q
<1>5. CASE h.kind \in {"array", "map"}
  <2>1. G!First(d, f, x) = G!Container(item, f[y]) /\ G!First(d, g, x) = G!Container(item, g[y])
    BY <1>5 DEF G!First, h, q
  <2> DEFINE keyed == h.kind = "map"
  <2>2. keyed \in BOOLEAN
    BY Zenon
  <2>3. y = G!Place(HeaderEnd(d, q), ValuesIn(d, q), keyed)
    BY <1>2, Zenon
  <2> HIDE DEF y, keyed
  <2>9. y \in G!Places /\ y.at = HeaderEnd(d, q) /\ y.due = ValuesIn(d, q)
    BY <1>4, <2>2, <2>3, PlaceIs
  <2> HIDE DEF item
  <2>4. Found(d, y, f[y]) /\ f[y] = g[y]
    BY <1>4, <2>9 DEF q
  <2> DEFINE r == f[y]
  <2>5. Found(d, y, r)
    BY <2>4
  <2> HIDE DEF r
  <2>6. /\ G!Container(item, r).ok = r.ok /\ G!Container(item, r).end = r.end
        /\ G!Container(item, r).nest = r.nest + 1
    BY DEF G!Container
  <2>7. r.ok => q < r.end /\ r.end <= Len(d)
    BY <1>1, <1>4, <2>9, <2>5 DEF Found
  <2>8. r.ok \in BOOLEAN /\ r.end \in Nat /\ r.nest + 1 \in Nat
    BY <2>5 DEF Found
  <2> QED
    BY <2>1, <2>4, <2>6, <2>7, <2>8 DEF r, q
<1>6. CASE h.kind \notin {"array", "map"} /\ h.end > Len(d)
  <2>1. G!First(d, f, x) = G!Broken({item}) /\ G!First(d, g, x) = G!Broken({item})
    BY <1>6 DEF G!First, h, q
  <2> QED
    BY <2>1 DEF G!Broken
<1>7. CASE h.kind \notin {"array", "map"} /\ ~(h.end > Len(d))
  <2> DEFINE whole == [ok |-> TRUE, end |-> h.end, nest |-> 0, items |-> {item}]
  <2>1. G!First(d, f, x) = whole /\ G!First(d, g, x) = whole
    BY <1>7 DEF G!First, h, q
  <2>2. h.end = ItemEnd(d, q)
    BY <1>2, <1>7
  <2>3. ItemEnd(d, q) \in Nat /\ q < ItemEnd(d, q)
    BY <1>1, <1>3, HeaderMoves
  <2>4. ~(ItemEnd(d, q) > Len(d))
    BY <1>7, <2>2
  <2>5. whole.ok /\ whole.end = ItemEnd(d, q) /\ whole.nest = 0
    BY <2>2
  <2> HIDE DEF whole
  <2> QED
    BY <2>1, <2>3, <2>4, <2>5 DEF q
<1> QED
  BY <1>5, <1>6, <1>7

\* So are all of them.
LEMMA ReadIs ==
  ASSUME NEW d \in Seq(Byte), NEW x \in G!Places, NEW f, NEW g,
         x.at < Len(d) => \A y \in G!Places : y.at > x.at => Found(d, y, f[y]) /\ f[y] = g[y]
  PROVE  G!Read(d, f, x) = G!Read(d, g, x) /\ Found(d, x, G!Read(d, f, x))
<1>0. x.at \in Nat /\ x.due \in Nat /\ x.pairs \in BOOLEAN
  BY DEF G!Places
<1>1. CASE x.due = 0
  BY <1>0, <1>1 DEF G!Read, Found
<1>2. CASE x.due > 0 /\ x.at >= Len(d)
  <2>1. G!Read(d, f, x) = G!Broken({}) /\ G!Read(d, g, x) = G!Broken({})
    BY <1>0, <1>2 DEF G!Read
  <2> QED
    BY <2>1 DEF Found, G!Broken
<1>3. CASE x.due > 0 /\ x.at < Len(d) /\ d[x.at+1] = 193
  BY <1>0, <1>3 DEF G!Read, Found, G!Broken
<1>4. CASE x.due > 0 /\ x.at < Len(d) /\ d[x.at+1] # 193
  <2> DEFINE row == G!RowOf(d[x.at+1])
  <2>1. x.at + 1 + row.width = HeaderEnd(d, x.at)
    BY <1>0, <1>4, HeaderIs
  <2> HIDE DEF row
  <2>2. HeaderEnd(d, x.at) \in Nat
    BY <1>0, <1>4, HeaderIs, LenWidthType DEF HeaderEnd
  <2>3. CASE HeaderEnd(d, x.at) > Len(d)
    <3>1. /\ G!Read(d, f, x) = G!Broken({G!Item(row.kind, 0, x)})
          /\ G!Read(d, g, x) = G!Broken({G!Item(row.kind, 0, x)})
      BY <1>0, <1>4, <2>1, <2>3 DEF G!Read, row
    <3> QED
      BY <3>1 DEF G!Broken, Found
  <2>4. CASE ~(HeaderEnd(d, x.at) > Len(d))
    <3>1. HasFirst(d, x)
      BY <1>4, <2>2, <2>4 DEF HasFirst
    <3> DEFINE r == G!First(d, f, x)
               y == G!Place(r.end, x.due - 1, x.pairs)
    <3>2. /\ r = G!First(d, g, x)
          /\ r.ok \in BOOLEAN /\ r.end \in Nat /\ r.nest \in Nat
          /\ r.ok => x.at < r.end /\ r.end <= Len(d)
      BY <1>4, <3>1, FirstIs
    <3>3. /\ G!Read(d, f, x) = IF ~r.ok THEN r ELSE G!Both(r, f[y])
          /\ G!Read(d, g, x) = IF ~r.ok THEN r ELSE G!Both(r, g[y])
      BY <1>0, <1>4, <2>1, <2>4, <3>2 DEF G!Read, row
    <3> HIDE DEF r
    <3>4. CASE ~r.ok
      BY <3>2, <3>3, <3>4 DEF Found
    <3>5. CASE r.ok
      <4>1. y \in G!Places /\ y.at = r.end /\ y.due = x.due - 1
        BY <1>0, <1>4, <3>2, PlaceIs
      <4> HIDE DEF y
      <4>2. Found(d, y, f[y]) /\ f[y] = g[y]
        BY <1>4, <3>2, <3>5, <4>1
      <4> DEFINE s == f[y]
                 b == G!Both(r, s)
      <4>3. b.ok = (r.ok /\ s.ok) /\ b.end = s.end /\ b.nest = G!LargerOf(r.nest, s.nest)
        BY DEF G!Both
      <4>4. Found(d, y, s)
        BY <4>2
      <4> HIDE DEF s, b
      <4>5. b.ok \in BOOLEAN /\ b.end \in Nat /\ b.nest \in Nat
        BY <3>2, <4>3, <4>4 DEF Found, G!LargerOf
      <4>6. b.ok => x.at + x.due <= b.end /\ b.end <= Len(d)
        BY <1>0, <3>2, <3>5, <4>1, <4>3, <4>4 DEF Found
      <4>7. G!Read(d, f, x) = b /\ G!Read(d, g, x) = b
        BY <3>3, <3>5, <4>2 DEF b, s
      <4> QED
        BY <4>5, <4>6, <4>7 DEF Found
    <3> QED
      BY <3>2, <3>4, <3>5
  <2> QED
    BY <2>3, <2>4
<1> QED
  BY <1>0, <1>1, <1>2, <1>3, <1>4

\* A function that reads what lies in the last n bytes of the message, or behind it.
ReadsTail(d, f, n) ==
  /\ f = [x \in G!Places |-> f[x]]
  /\ \A x \in G!Places : Found(d, x, f[x])
  /\ \A x \in G!Places : x.at + n >= Len(d) => f[x] = G!Read(d, f, x)

\* There is one that reads nothing, and with it one that reads a byte more.
LEMMA ReadsNothing ==
  ASSUME NEW d \in Seq(Byte) PROVE \E f : ReadsTail(d, f, 0)
<1> DEFINE f == [x \in G!Places |->
                    IF x.at >= Len(d) THEN G!Read(d, <<>>, x) ELSE G!Broken({})]
<1>1. \A x \in G!Places : x.at \in Nat
  BY DEF G!Places
<1>2. ASSUME NEW x \in G!Places, x.at + 0 >= Len(d)
      PROVE  f[x] = G!Read(d, f, x) /\ Found(d, x, f[x])
  <2>1. x.at >= Len(d) /\ ~(x.at < Len(d))
    BY <1>1, <1>2
  <2>2. f[x] = G!Read(d, <<>>, x)
    BY <2>1
  <2> HIDE DEF f
  <2>3. G!Read(d, f, x) = G!Read(d, <<>>, x) /\ Found(d, x, G!Read(d, f, x))
    BY <2>1, ReadIs
  <2> QED
    BY <2>2, <2>3
<1>3. ASSUME NEW x \in G!Places, ~(x.at + 0 >= Len(d)) PROVE Found(d, x, f[x])
  <2>1. f[x] = G!Broken({})
    BY <1>1, <1>3
  <2> DEFINE r == G!Broken({})
  <2>2. Found(d, x, r)
    BY DEF Found, G!Broken
  <2> HIDE DEF f, r
  <2> QED
    BY <2>1, <2>2 DEF r
<1>4. f = [x \in G!Places |-> f[x]]
  OBVIOUS
<1> HIDE DEF f
<1>5. ReadsTail(d, f, 0)
  BY <1>2, <1>3, <1>4 DEF ReadsTail
<1> QED
  BY <1>5

LEMMA ReadsMore ==
  ASSUME NEW d \in Seq(Byte), NEW n \in Nat, NEW f, ReadsTail(d, f, n)
  PROVE  \E g : ReadsTail(d, g, n + 1)
<1> DEFINE g == [x \in G!Places |-> IF x.at + n >= Len(d) THEN f[x] ELSE G!Read(d, f, x)]
<1>1. \A x \in G!Places : x.at \in Nat
  BY DEF G!Places
<1>2. ASSUME NEW x \in G!Places PROVE g[x] = G!Read(d, f, x)
  <2>1. x.at + n >= Len(d) => f[x] = G!Read(d, f, x)
    BY DEF ReadsTail
  <2> QED
    BY <2>1
<1>3. ASSUME NEW x \in G!Places PROVE Found(d, x, g[x])
  <2>1. \A y \in G!Places : Found(d, y, f[y])
    BY DEF ReadsTail
  <2>2. Found(d, x, G!Read(d, f, x))
    BY <2>1, ReadIs
  <2> QED
    BY <1>2, <2>2
<1>4. ASSUME NEW x \in G!Places, x.at + (n + 1) >= Len(d) PROVE g[x] = G!Read(d, g, x)
  <2>1. ASSUME NEW y \in G!Places, y.at > x.at PROVE Found(d, y, f[y]) /\ f[y] = g[y]
    <3>1. y.at + n >= Len(d)
      BY <1>1, <1>4, <2>1
    <3>2. g[y] = f[y]
      BY <3>1
    <3> QED
      BY <3>2 DEF ReadsTail
  <2> HIDE DEF g
  <2>2. G!Read(d, f, x) = G!Read(d, g, x)
    BY <2>1, ReadIs
  <2> QED
    BY <1>2, <2>2
<1>5. g = [x \in G!Places |-> g[x]]
  OBVIOUS
<1> HIDE DEF g
<1>6. ReadsTail(d, g, n + 1)
  BY <1>3, <1>4, <1>5 DEF ReadsTail
<1> QED
  BY <1>6

\* So there is a function as Parsed.
LEMMA ParsedIs ==
  ASSUME NEW d \in Seq(Byte)
  PROVE  G!Parsed(d) = [x \in G!Places |-> G!Read(d, G!Parsed(d), x)]
<1> DEFINE Not == {n \in Nat : ~ \E f : ReadsTail(d, f, n)}
<1>1. Not = {}
  <2> SUFFICES ASSUME Not # {} PROVE FALSE
    OBVIOUS
  <2>1. PICK m \in Not : \A n \in Not : m <= n
    <3>1. Not \in SUBSET Nat
      OBVIOUS
    <3> HIDE DEF Not
    <3> QED
      BY <3>1, LeastElement
  <2>2. m \in Nat /\ m # 0
    BY <2>1, ReadsNothing
  <2>3. m - 1 \in Nat /\ m - 1 \notin Not /\ (m - 1) + 1 = m
    BY <2>1, <2>2
  <2>4. \E f : ReadsTail(d, f, m - 1)
    BY <2>3
  <2>5. \E f : ReadsTail(d, f, (m - 1) + 1)
    BY <2>3, <2>4, ReadsMore
  <2> QED
    BY <2>1, <2>3, <2>5
<1>2. PICK f : ReadsTail(d, f, Len(d))
  <2>1. Len(d) \in Nat
    OBVIOUS
  <2> QED
    BY <1>1, <2>1
<1>3. \A x \in G!Places : f[x] = G!Read(d, f, x)
  <2>1. \A x \in G!Places : x.at + Len(d) >= Len(d)
    BY DEF G!Places
  <2> QED
    BY <1>2, <2>1 DEF ReadsTail
<1>4. f = [x \in G!Places |-> f[x]]
  BY <1>2 DEF ReadsTail
<1>5. f = [x \in G!Places |-> G!Read(d, f, x)]
  BY <1>3, <1>4
<1>6. \E p : p = [x \in G!Places |-> G!Read(d, p, x)]
  BY <1>5, Zenon
<1> QED
  BY <1>6, Zenon DEF G!Parsed

\* It reads what Read says, wherever that is.
LEMMA ParseReads ==
  ASSUME NEW d \in Seq(Byte), NEW x \in G!Places
  PROVE  /\ G!Parsed(d)[x] = G!Read(d, G!Parsed(d), x)
         /\ Found(d, x, G!Parsed(d)[x])
<1> DEFINE p == G!Parsed(d)
           Bad == {n \in Nat : \E y \in G!Places : y.at + n >= Len(d) /\ ~Found(d, y, p[y])}
<1>1. \A y \in G!Places : p[y] = G!Read(d, p, y)
  <2>1. p = [y \in G!Places |-> G!Read(d, p, y)]
    BY ParsedIs
  <2> HIDE DEF p
  <2> QED
    BY <2>1, Zenon
<1> HIDE DEF p
<1>2. \A y \in G!Places : y.at \in Nat
  BY DEF G!Places
<1>3. Bad = {}
  <2> SUFFICES ASSUME Bad # {} PROVE FALSE
    OBVIOUS
  <2>1. PICK m \in Bad : \A n \in Bad : m <= n
    <3>1. Bad \in SUBSET Nat
      OBVIOUS
    <3> HIDE DEF Bad
    <3> QED
      BY <3>1, LeastElement
  <2>2. PICK y \in G!Places : y.at + m >= Len(d) /\ ~Found(d, y, p[y])
    BY <2>1
  <2>3. ASSUME y.at < Len(d), NEW z \in G!Places, z.at > y.at PROVE Found(d, z, p[z])
    <3>1. m # 0 /\ m \in Nat
      BY <1>2, <2>1, <2>2, <2>3
    <3>2. m - 1 \in Nat /\ m - 1 \notin Bad
      BY <2>1, <3>1
    <3>3. z.at + (m - 1) >= Len(d)
      BY <1>2, <2>2, <2>3, <3>1
    <3> QED
      BY <3>2, <3>3
  <2>4. Found(d, y, G!Read(d, p, y))
    BY <2>3, ReadIs
  <2> QED
    BY <1>1, <2>2, <2>4
<1>4. Found(d, x, p[x])
  <2>1. Len(d) \in Nat /\ x.at + Len(d) >= Len(d)
    BY <1>2
  <2> QED
    BY <1>3, <2>1
<1> QED
  BY <1>1, <1>4 DEF p

-----------------------------------------------------------------------------
(* What Grammar finds at a place.                                          *)

\* The item at x, and what is found at a place and inside a container.
ItemAt(d, x) ==
  G!Item(KindAt(d, x.at),
         IF KindAt(d, x.at) = "scalar" THEN ScalarWidth(d[x.at+1]) ELSE LenAt(d, x.at), x)
RestAt(d, x) == G!Parsed(d)[x]
InnerPlace(d, q) == G!Place(HeaderEnd(d, q), ValuesIn(d, q), KindAt(d, q) = "map")
InnerAt(d, q) == RestAt(d, InnerPlace(d, q))
NextPlace(x, p) == G!Place(p, x.due - 1, x.pairs)

\* The places behind a header and behind a value.
LEMMA InnerIsPlace ==
  ASSUME NEW d \in Seq(Byte), NEW q \in Nat, HasHeader(d, q)
  PROVE  /\ InnerPlace(d, q) \in G!Places
         /\ InnerPlace(d, q).at = HeaderEnd(d, q) /\ InnerPlace(d, q).due = ValuesIn(d, q)
         /\ InnerPlace(d, q).pairs = (KindAt(d, q) = "map")
<1> DEFINE keyed == KindAt(d, q) = "map"
<1>1. keyed \in BOOLEAN
  BY Zenon
<1>2. InnerPlace(d, q) = G!Place(HeaderEnd(d, q), ValuesIn(d, q), keyed)
  BY Zenon DEF InnerPlace
<1>3. HeaderEnd(d, q) \in Nat /\ ValuesIn(d, q) \in Nat
  BY HeaderFacts
<1> HIDE DEF keyed
<1>4. /\ InnerPlace(d, q) \in G!Places
      /\ InnerPlace(d, q).at = HeaderEnd(d, q) /\ InnerPlace(d, q).due = ValuesIn(d, q)
      /\ InnerPlace(d, q).pairs = keyed
  BY <1>1, <1>2, <1>3, PlaceIs
<1> QED
  BY <1>4, Zenon DEF keyed

LEMMA NextIsPlace ==
  ASSUME NEW x \in G!Places, x.due > 0, NEW p \in Nat
  PROVE  /\ NextPlace(x, p) \in G!Places
         /\ NextPlace(x, p).at = p /\ NextPlace(x, p).due = x.due - 1
         /\ NextPlace(x, p).pairs = x.pairs
<1>1. x.due - 1 \in Nat /\ x.pairs \in BOOLEAN
  BY DEF G!Places
<1> QED
  BY <1>1, PlaceIs DEF NextPlace

\* Where the first header is whole, First is read and then the rest.
LEMMA ReadFirst ==
  ASSUME NEW d \in Seq(Byte), NEW x \in G!Places, HasFirst(d, x)
  PROVE  LET first == G!First(d, G!Parsed(d), x)
         IN  RestAt(d, x) = IF ~first.ok THEN first
                            ELSE G!Both(first, RestAt(d, NextPlace(x, first.end)))
<1> DEFINE row == G!RowOf(d[x.at+1])
           p == G!Parsed(d)
           first == G!First(d, p, x)
<1>1. x.at \in Nat /\ x.due \in Nat /\ x.due > 0 /\ x.at < Len(d) /\ d[x.at+1] # 193
      /\ HeaderEnd(d, x.at) <= Len(d)
  BY DEF HasFirst, G!Places
<1>2. x.at + 1 + row.width = HeaderEnd(d, x.at)
  BY <1>1, HeaderIs
<1>3. HeaderEnd(d, x.at) \in Nat
  BY <1>1, HeaderFacts DEF HasHeader
<1>4. RestAt(d, x) = G!Read(d, p, x)
  BY ParseReads DEF RestAt
<1> HIDE DEF row, p
<1>5. ~(x.at + 1 + row.width > Len(d)) /\ ~(x.at >= Len(d)) /\ x.due # 0
  BY <1>1, <1>2, <1>3
<1>6. G!Read(d, p, x) = IF ~first.ok THEN first
                        ELSE G!Both(first, p[G!Place(first.end, x.due - 1, x.pairs)])
  BY <1>1, <1>5, Zenon DEF G!Read, row
<1> QED
  BY <1>4, <1>6, Zenon DEF RestAt, NextPlace, p

\* What First is.
LEMMA FirstKinds ==
  ASSUME NEW d \in Seq(Byte), NEW x \in G!Places, HasFirst(d, x)
  PROVE  LET first == G!First(d, G!Parsed(d), x)
         IN  /\ x.at \in Nat /\ x.due \in Nat /\ HasHeader(d, x.at)
             /\ KindAt(d, x.at) \in {"array", "map"} =>
                  first = G!Container(ItemAt(d, x), InnerAt(d, x.at))
             /\ KindAt(d, x.at) \notin {"array", "map"} =>
                  first = IF ItemEnd(d, x.at) > Len(d) THEN G!Broken({ItemAt(d, x)})
                          ELSE [ok |-> TRUE, end |-> ItemEnd(d, x.at), nest |-> 0,
                                items |-> {ItemAt(d, x)}]
<1> DEFINE p == G!Parsed(d)
           q == x.at
           h == G!HeaderAt(d, q)
<1>1. q \in Nat /\ x.due \in Nat /\ q < Len(d) /\ d[q+1] # 193 /\ HeaderEnd(d, q) <= Len(d)
  BY DEF HasFirst, G!Places
<1>2. /\ h.kind = KindAt(d, q) /\ h.rear = HeaderEnd(d, q)
      /\ h.len = IF KindAt(d, q) = "scalar" THEN ScalarWidth(d[q+1]) ELSE LenAt(d, q)
      /\ KindAt(d, q) \notin {"array", "map"} => h.end = ItemEnd(d, q)
      /\ G!Values(h) = ValuesIn(d, q)
  BY <1>1, HeaderIs
<1>3. HasHeader(d, q)
  BY <1>1 DEF HasHeader
<1> DEFINE item == G!Item(h.kind, h.len, x)
<1>4. item = ItemAt(d, x)
  BY <1>2, Zenon DEF ItemAt
<1> HIDE DEF h, p
<1>5. G!First(d, p, x) =
        IF h.kind \in {"array", "map"}
          THEN G!Container(item, p[G!Place(h.rear, G!Values(h), h.kind = "map")])
        ELSE IF h.end > Len(d) THEN G!Broken({item})
        ELSE [ok |-> TRUE, end |-> h.end, nest |-> 0, items |-> {item}]
  BY Zenon DEF G!First, h
<1> HIDE DEF item
<1>6. ASSUME KindAt(d, q) \in {"array", "map"}
      PROVE  G!First(d, p, x) = G!Container(ItemAt(d, x), InnerAt(d, q))
  <2>1. G!First(d, p, x) =
          G!Container(item, p[G!Place(h.rear, G!Values(h), h.kind = "map")])
    BY <1>2, <1>5, <1>6, Zenon
  <2>2. G!Place(h.rear, G!Values(h), h.kind = "map") = InnerPlace(d, q)
    BY <1>2, Zenon DEF InnerPlace
  <2> QED
    BY <1>4, <2>1, <2>2, Zenon DEF InnerAt, RestAt, p
<1>7. ASSUME KindAt(d, q) \notin {"array", "map"}
      PROVE  G!First(d, p, x) = IF ItemEnd(d, q) > Len(d) THEN G!Broken({ItemAt(d, x)})
                                ELSE [ok |-> TRUE, end |-> ItemEnd(d, q), nest |-> 0,
                                      items |-> {ItemAt(d, x)}]
  BY <1>2, <1>4, <1>5, <1>7, Zenon
<1> QED
  BY <1>1, <1>3, <1>6, <1>7, Zenon DEF p

\* What is found at a place, of which numbers.
LEMMA FoundAt ==
  ASSUME NEW d \in Seq(Byte), NEW x \in G!Places
  PROVE  LET r == RestAt(d, x)
         IN  /\ r.ok \in BOOLEAN /\ r.end \in Nat /\ r.nest \in Nat
             /\ r.ok => x.at + x.due <= r.end /\ (x.at <= Len(d) => r.end <= Len(d))
<1> DEFINE r == RestAt(d, x)
<1>1. Found(d, x, r)
  BY ParseReads DEF RestAt
<1> HIDE DEF r
<1>2. /\ r.ok \in BOOLEAN /\ r.end \in Nat /\ r.nest \in Nat
      /\ r.ok => x.at + x.due <= r.end /\ (x.at <= Len(d) => r.end <= Len(d))
  BY <1>1 DEF Found
<1> QED
  BY <1>2 DEF r

\* Where nothing is due nothing is read.
LEMMA NothingDue ==
  ASSUME NEW d \in Seq(Byte), NEW x \in G!Places, x.due = 0
  PROVE  RestAt(d, x) = [ok |-> TRUE, end |-> x.at, nest |-> 0, items |-> {}]
<1> DEFINE p == G!Parsed(d)
<1>1. RestAt(d, x) = G!Read(d, p, x)
  BY ParseReads DEF RestAt
<1> HIDE DEF p
<1> QED
  BY <1>1 DEF G!Read

\* An item that is whole has a header.
LEMMA ItemHasFirst ==
  ASSUME NEW d \in Seq(Byte), NEW x \in G!Places, x.due > 0, IsItem(d, x.at)
  PROVE  HasFirst(d, x) /\ ItemEnd(d, x.at) \in Nat
<1> DEFINE q == x.at
<1>1. q \in Nat /\ q < Len(d) /\ HasHeader(d, q) /\ KindAt(d, q) # "invalid"
  BY DEF IsItem, HasHeader, G!Places
<1>2. d[q+1] \in Byte /\ HeaderEnd(d, q) \in Nat
  BY <1>1, HeaderFacts
<1>3. d[q+1] # 193
  BY <1>1, <1>2, NeverUsed DEF KindAt
<1>4. KindAt(d, q) = "scalar" => HeaderEnd(d, q) = q + 1
  BY <1>1, <1>2, ScalarNoWidth DEF KindAt, HeaderEnd
<1>5. HeaderEnd(d, q) <= Len(d)
  BY <1>1, <1>4 DEF HasHeader
<1>6. ItemEnd(d, q) \in Nat
  BY <1>1, HeaderMoves
<1> QED
  BY <1>1, <1>3, <1>5, <1>6 DEF HasFirst

\* What is in the first value at x is in all of them.
LEMMA FirstInside ==
  ASSUME NEW d \in Seq(Byte), NEW x \in G!Places, HasFirst(d, x)
  PROVE  LET first == G!First(d, G!Parsed(d), x)
             r == RestAt(d, x)
         IN  (r.ok => first.ok) /\ first.items \subseteq r.items /\ first.nest <= r.nest
                /\ first.nest \in Nat
<1> DEFINE first == G!First(d, G!Parsed(d), x)
           r == RestAt(d, x)
<1>1. /\ first.ok \in BOOLEAN /\ first.end \in Nat /\ first.nest \in Nat
  <2>1. ASSUME NEW y \in G!Places PROVE Found(d, y, G!Parsed(d)[y])
    BY ParseReads
  <2> QED
    BY <2>1, FirstIs
<1>2. r = IF ~first.ok THEN first ELSE G!Both(first, RestAt(d, NextPlace(x, first.end)))
  BY ReadFirst
<1> HIDE DEF first, r
<1>3. ASSUME ~first.ok
      PROVE  (r.ok => first.ok) /\ first.items \subseteq r.items /\ first.nest <= r.nest
  <2>1. r = first
    BY <1>2, <1>3
  <2> QED
    BY <1>1, <2>1
<1>4. ASSUME first.ok
      PROVE  (r.ok => first.ok) /\ first.items \subseteq r.items /\ first.nest <= r.nest
  <2> DEFINE t == RestAt(d, NextPlace(x, first.end))
  <2>1. x.due > 0
    BY DEF HasFirst
  <2>2. t.nest \in Nat
    BY <1>1, <2>1, NextIsPlace, FoundAt
  <2>3. r = G!Both(first, t)
    BY <1>2, <1>4
  <2> HIDE DEF t
  <2>4. r.nest = G!LargerOf(first.nest, t.nest) /\ r.items = first.items \cup t.items
    BY <2>3 DEF G!Both
  <2>5. first.nest <= r.nest
    BY <1>1, <2>2, <2>4 DEF G!LargerOf
  <2>6. first.items \subseteq r.items
    BY <2>4, Zenon
  <2> QED
    BY <1>1, <1>4, <2>5, <2>6
<1>5. /\ (r.ok => first.ok) /\ first.items \subseteq r.items /\ first.nest <= r.nest
      /\ first.nest \in Nat
  BY <1>1, <1>3, <1>4, Zenon
<1> QED
  BY <1>5 DEF first, r

\* Where no whole header is that could be one, nothing is read, but the format byte
\* if it is there.
LEMMA NoFirst ==
  ASSUME NEW d \in Seq(Byte), NEW x \in G!Places, x.due > 0, ~HasFirst(d, x)
  PROVE  /\ x.at >= Len(d) => RestAt(d, x) = G!Broken({})
         /\ x.at < Len(d) => RestAt(d, x) = G!Broken({G!Item(KindAt(d, x.at), 0, x)})
<1> DEFINE p == G!Parsed(d)
           row == G!RowOf(d[x.at+1])
<1>1. x.at \in Nat /\ x.due \in Nat /\ x.due # 0 /\ Len(d) \in Nat
  BY DEF G!Places
<1>2. RestAt(d, x) = G!Read(d, p, x)
  BY ParseReads DEF RestAt
<1> HIDE DEF p
<1>3. CASE x.at >= Len(d)
  <2>1. RestAt(d, x) = G!Broken({})
    BY <1>1, <1>2, <1>3 DEF G!Read
  <2> QED
    BY <1>1, <1>3, <2>1
<1>4. CASE x.at < Len(d) /\ d[x.at+1] = 193
  <2>1. RestAt(d, x) = G!Broken({G!Item("invalid", 0, x)})
    BY <1>1, <1>2, <1>4 DEF G!Read
  <2>2. 193 \in Byte
    BY DEF Byte
  <2>3. KindAt(d, x.at) = "invalid"
    BY <1>4, <2>2, NeverUsed DEF KindAt
  <2> QED
    BY <1>1, <1>4, <2>1, <2>3
<1>5. CASE x.at < Len(d) /\ d[x.at+1] # 193
  <2>1. /\ d[x.at+1] \in Byte /\ row.kind = KindAt(d, x.at)
        /\ x.at + 1 + row.width = HeaderEnd(d, x.at)
    BY <1>1, <1>5, HeaderIs
  <2>2. HeaderEnd(d, x.at) \in Nat
    BY <1>1, <2>1, LenWidthType DEF HeaderEnd
  <2> HIDE DEF row
  <2>3. x.at + 1 + row.width > Len(d)
    BY <1>1, <1>5, <2>1, <2>2 DEF HasFirst
  <2>4. G!Read(d, p, x) = G!Broken({G!Item(row.kind, 0, x)})
    BY <1>1, <1>5, <2>3 DEF G!Read, row
  <2> QED
    BY <1>1, <1>2, <1>5, <2>1, <2>4
<1> QED
  BY <1>1, <1>3, <1>4, <1>5

\* Where an item is cut short, or a container holds more than bytes are left, no value is
\* whole.
LEMMA NotWhole ==
  ASSUME NEW d \in Seq(Byte), NEW x \in G!Places, x.due > 0,
         ~(IsItem(d, x.at) /\ ItemEnd(d, x.at) + ValuesIn(d, x.at) <= Len(d))
  PROVE  ~RestAt(d, x).ok
<1> SUFFICES ASSUME RestAt(d, x).ok PROVE FALSE
  OBVIOUS
<1> DEFINE q == x.at
<1>1. HasFirst(d, x)
  <2> SUFFICES ASSUME ~HasFirst(d, x) PROVE FALSE
    OBVIOUS
  <2>1. x.at >= Len(d) \/ x.at < Len(d)
    BY DEF G!Places
  <2> QED
    BY <2>1, NoFirst DEF G!Broken
<1> DEFINE first == G!First(d, G!Parsed(d), x)
<1>2. first.ok
  BY <1>1, FirstInside
<1>3. q \in Nat /\ HasHeader(d, q) /\ d[q+1] # 193 /\ HeaderEnd(d, q) <= Len(d)
  BY <1>1, FirstKinds DEF HasFirst
<1>4. d[q+1] \in Byte /\ HeaderEnd(d, q) \in Nat
  BY <1>3, HeaderFacts
<1>5. KindAt(d, q) # "invalid"
  BY <1>3, <1>4, NeverUsed DEF KindAt
<1>6. CASE KindAt(d, q) \notin {"array", "map"}
  <2>1. first = IF ItemEnd(d, q) > Len(d) THEN G!Broken({ItemAt(d, x)})
                ELSE [ok |-> TRUE, end |-> ItemEnd(d, q), nest |-> 0, items |-> {ItemAt(d, x)}]
    BY <1>1, <1>6, FirstKinds
  <2> HIDE DEF first
  <2>2. ~(ItemEnd(d, q) > Len(d))
    BY <1>2, <2>1 DEF G!Broken
  <2>3. ItemEnd(d, q) \in Nat
    BY <1>3, HeaderMoves
  <2>4. ValuesIn(d, q) = 0
    BY <1>6 DEF ValuesIn
  <2>5. ItemEnd(d, q) <= Len(d) /\ ItemEnd(d, q) + 0 <= Len(d)
    BY <2>2, <2>3
  <2> QED
    BY <1>3, <1>5, <2>4, <2>5 DEF IsItem
<1>7. CASE KindAt(d, q) \in {"array", "map"}
  <2> DEFINE inner == InnerAt(d, q)
             y == InnerPlace(d, q)
  <2>1. first = G!Container(ItemAt(d, x), inner)
    BY <1>1, <1>7, FirstKinds
  <2>2. y \in G!Places /\ y.at = HeaderEnd(d, q) /\ y.due = ValuesIn(d, q)
    BY <1>3, InnerIsPlace
  <2>3. /\ inner.end \in Nat
        /\ inner.ok => y.at + y.due <= inner.end /\ (y.at <= Len(d) => inner.end <= Len(d))
    BY <2>2, FoundAt DEF InnerAt
  <2> HIDE DEF first, inner, y
  <2>4. inner.ok
    BY <1>2, <2>1 DEF G!Container
  <2>5. ValuesIn(d, q) \in Nat
    BY <1>3, HeaderFacts
  <2>6. HeaderEnd(d, q) + ValuesIn(d, q) <= Len(d)
    BY <1>3, <1>4, <2>2, <2>3, <2>4, <2>5
  <2>7. ItemEnd(d, q) = HeaderEnd(d, q)
    BY <1>4, <1>7 DEF ItemEnd
  <2> QED
    BY <1>3, <1>5, <2>6, <2>7 DEF IsItem
<1> QED
  BY <1>6, <1>7

-----------------------------------------------------------------------------
(* A row is what Grammar reads: its count of values that are due is one    *)
(* place, where Grammar has one inside each container.                     *)

\* Two readings that end together, if they end.
Alike(r, t) == (r.ok <=> t.ok) /\ (r.ok => r.end = t.end)

\* What is found if r is found first and t from there.
Joined(v, r, t) == (v.ok <=> r.ok /\ t.ok) /\ (v.ok => v.end = t.end)

\* What is found of n values in a row.
DueAt(d, p, n) == RestAt(d, G!Place(p, n, FALSE))

LEMMA NoneDue ==
  ASSUME NEW d \in Seq(Byte), NEW q \in Nat, NEW b \in BOOLEAN
  PROVE  RestAt(d, G!Place(q, 0, b)).ok /\ RestAt(d, G!Place(q, 0, b)).end = q
<1> DEFINE x == G!Place(q, 0, b)
<1>1. x \in G!Places /\ x.at = q /\ x.due = 0
  BY PlaceIs
<1> HIDE DEF x
<1>2. RestAt(d, x) = [ok |-> TRUE, end |-> q, nest |-> 0, items |-> {}]
  BY <1>1, NothingDue
<1> QED
  BY <1>2 DEF x

\* A whole item is read first, a container to its end, and then the rest.
LEMMA FirstJoins ==
  ASSUME NEW d \in Seq(Byte), NEW x \in G!Places, HasFirst(d, x)
  PROVE  LET first == G!First(d, G!Parsed(d), x)
         IN  Joined(RestAt(d, x), first, RestAt(d, NextPlace(x, first.end)))
<1> DEFINE first == G!First(d, G!Parsed(d), x)
           t == RestAt(d, NextPlace(x, first.end))
           r == RestAt(d, x)
<1>1. r = IF ~first.ok THEN first ELSE G!Both(first, t)
  BY ReadFirst
<1>2. G!Both(first, t).ok = (first.ok /\ t.ok) /\ G!Both(first, t).end = t.end
  BY DEF G!Both
<1>3. first.ok \in BOOLEAN /\ first.end \in Nat
  <2>1. ASSUME NEW y \in G!Places PROVE Found(d, y, G!Parsed(d)[y])
    BY ParseReads
  <2> QED
    BY <2>1, FirstIs
<1>4. t.ok \in BOOLEAN
  BY <1>3, NextIsPlace, FoundAt DEF HasFirst
<1> HIDE DEF first, t, r
<1>5. Joined(r, first, t)
  BY <1>1, <1>2, <1>3, <1>4 DEF Joined
<1> QED
  BY <1>5 DEF first, t, r

\* Where the first value ends does not depend on what is due behind it.
LEMMA FirstAlike ==
  ASSUME NEW d \in Seq(Byte), NEW x \in G!Places, NEW y \in G!Places, x.at = y.at,
         HasFirst(d, x), HasFirst(d, y)
  PROVE  Alike(G!First(d, G!Parsed(d), x), G!First(d, G!Parsed(d), y))
<1> DEFINE f == G!First(d, G!Parsed(d), x)
           g == G!First(d, G!Parsed(d), y)
<1>1. CASE KindAt(d, x.at) \in {"array", "map"}
  <2>1. f = G!Container(ItemAt(d, x), InnerAt(d, x.at))
        /\ g = G!Container(ItemAt(d, y), InnerAt(d, x.at))
    BY <1>1, FirstKinds
  <2> HIDE DEF f, g
  <2> QED
    BY <2>1 DEF G!Container, Alike, f, g
<1>2. CASE KindAt(d, x.at) \notin {"array", "map"}
  <2> DEFINE e == ItemEnd(d, x.at)
  <2>1. f = (IF e > Len(d) THEN G!Broken({ItemAt(d, x)})
             ELSE [ok |-> TRUE, end |-> e, nest |-> 0, items |-> {ItemAt(d, x)}])
    BY <1>2, FirstKinds
  <2>2. g = (IF e > Len(d) THEN G!Broken({ItemAt(d, y)})
             ELSE [ok |-> TRUE, end |-> e, nest |-> 0, items |-> {ItemAt(d, y)}])
    BY <1>2, FirstKinds
  <2> HIDE DEF f, g, e
  <2>3. Alike(f, g)
    BY <2>1, <2>2 DEF G!Broken, Alike
  <2> QED
    BY <2>3 DEF f, g
<1> QED
  BY <1>1, <1>2

\* Nor does it depend on whether it is a key.
LEMMA RestAlike ==
  ASSUME NEW d \in Seq(Byte), NEW n \in Nat
  PROVE  \A q \in Nat : \A b, c \in BOOLEAN :
           Alike(RestAt(d, G!Place(q, n, b)), RestAt(d, G!Place(q, n, c)))
<1> DEFINE Good(m) == \A q \in Nat : \A b, c \in BOOLEAN :
                        Alike(RestAt(d, G!Place(q, m, b)), RestAt(d, G!Place(q, m, c)))
           Bad == {m \in Nat : ~Good(m)}
<1>1. Good(0)
  <2> SUFFICES ASSUME NEW q \in Nat, NEW b \in BOOLEAN, NEW c \in BOOLEAN
               PROVE  Alike(RestAt(d, G!Place(q, 0, b)), RestAt(d, G!Place(q, 0, c)))
    OBVIOUS
  <2>1. \A e \in BOOLEAN : /\ RestAt(d, G!Place(q, 0, e)).ok
                           /\ RestAt(d, G!Place(q, 0, e)).end = q
    BY NoneDue
  <2> QED
    BY <2>1 DEF Alike
<1>2. ASSUME NEW m \in Nat, m > 0, Good(m - 1) PROVE Good(m)
  <2> SUFFICES ASSUME NEW q \in Nat, NEW b \in BOOLEAN, NEW c \in BOOLEAN
               PROVE  Alike(RestAt(d, G!Place(q, m, b)), RestAt(d, G!Place(q, m, c)))
    OBVIOUS
  <2> DEFINE x == G!Place(q, m, b)
             y == G!Place(q, m, c)
  <2>1. /\ x \in G!Places /\ x.at = q /\ x.due = m /\ x.pairs = b
        /\ y \in G!Places /\ y.at = q /\ y.due = m /\ y.pairs = c
    BY PlaceIs
  <2> HIDE DEF x, y
  <2>2. HasFirst(d, x) <=> HasFirst(d, y)
    BY <2>1 DEF HasFirst
  <2>3. CASE ~HasFirst(d, x)
    <3>1. ~RestAt(d, x).ok /\ ~RestAt(d, y).ok
      <4>1. q >= Len(d) \/ q < Len(d)
        OBVIOUS
      <4> QED
        BY <1>2, <2>1, <2>2, <2>3, <4>1, NoFirst DEF G!Broken
    <3> QED
      BY <3>1 DEF Alike, x, y
  <2>4. CASE HasFirst(d, x)
    <3> DEFINE f == G!First(d, G!Parsed(d), x)
               g == G!First(d, G!Parsed(d), y)
    <3>1. Alike(f, g)
      BY <2>1, <2>2, <2>4, FirstAlike
    <3>2. /\ Joined(RestAt(d, x), f, RestAt(d, NextPlace(x, f.end)))
          /\ Joined(RestAt(d, y), g, RestAt(d, NextPlace(y, g.end)))
      BY <2>1, <2>2, <2>4, FirstJoins
    <3>3. f.end \in Nat
      <4>1. ASSUME NEW z \in G!Places PROVE Found(d, z, G!Parsed(d)[z])
        BY ParseReads
      <4> QED
        BY <2>1, <2>4, <4>1, FirstIs
    <3> HIDE DEF f, g
    <3>4. NextPlace(x, f.end) = G!Place(f.end, m - 1, b)
          /\ NextPlace(y, f.end) = G!Place(f.end, m - 1, c)
      BY <2>1 DEF NextPlace
    <3>5. Alike(RestAt(d, NextPlace(x, f.end)), RestAt(d, NextPlace(y, f.end)))
      BY <1>2, <3>3, <3>4
    <3>6. f.ok => g.end = f.end
      BY <3>1 DEF Alike
    <3>7. Alike(RestAt(d, x), RestAt(d, y))
      BY <3>1, <3>2, <3>5, <3>6, Zenon DEF Alike, Joined
    <3> QED
      BY <3>7 DEF x, y
  <2> QED
    BY <2>3, <2>4
<1> HIDE DEF Good
<1>3. Bad = {}
  <2> SUFFICES ASSUME Bad # {} PROVE FALSE
    OBVIOUS
  <2>1. PICK m \in Bad : \A l \in Bad : m <= l
    <3>1. Bad \in SUBSET Nat
      OBVIOUS
    <3> HIDE DEF Bad
    <3> QED
      BY <3>1, LeastElement
  <2>2. m \in Nat /\ m > 0
    BY <1>1, <2>1
  <2>3. m - 1 \in Nat /\ m - 1 \notin Bad
    BY <2>1, <2>2
  <2> QED
    BY <1>2, <2>1, <2>2, <2>3
<1>4. Good(n)
  BY <1>3
<1> QED
  BY <1>4 DEF Good

\* Of m + n values the first m are read first.
LEMMA DueJoins ==
  ASSUME NEW d \in Seq(Byte), NEW n \in Nat, NEW m \in Nat
  PROVE  \A q \in Nat : Joined(DueAt(d, q, m + n), DueAt(d, q, m),
                               DueAt(d, DueAt(d, q, m).end, n))
<1> DEFINE Good(k) == \A q \in Nat : Joined(DueAt(d, q, k + n), DueAt(d, q, k),
                                            DueAt(d, DueAt(d, q, k).end, n))
           Bad == {k \in Nat : ~Good(k)}
<1>0. ASSUME NEW q \in Nat, NEW k \in Nat
      PROVE  LET x == G!Place(q, k, FALSE)
             IN  /\ x \in G!Places /\ x.at = q /\ x.due = k /\ x.pairs = FALSE
                 /\ DueAt(d, q, k) = RestAt(d, x)
                 /\ DueAt(d, q, k).ok \in BOOLEAN /\ DueAt(d, q, k).end \in Nat
  <2>1. FALSE \in BOOLEAN
    OBVIOUS
  <2> QED
    BY <2>1, PlaceIs, FoundAt DEF DueAt
<1>1. Good(0)
  <2> SUFFICES ASSUME NEW q \in Nat
               PROVE  Joined(DueAt(d, q, 0 + n), DueAt(d, q, 0),
                             DueAt(d, DueAt(d, q, 0).end, n))
    OBVIOUS
  <2>0. FALSE \in BOOLEAN
    OBVIOUS
  <2>1. DueAt(d, q, 0).ok /\ DueAt(d, q, 0).end = q
    BY <2>0, NoneDue DEF DueAt
  <2>2. 0 + n = n
    OBVIOUS
  <2> QED
    BY <2>1, <2>2 DEF Joined
<1>2. ASSUME NEW k \in Nat, k > 0, Good(k - 1) PROVE Good(k)
  <2> SUFFICES ASSUME NEW q \in Nat
               PROVE  Joined(DueAt(d, q, k + n), DueAt(d, q, k),
                             DueAt(d, DueAt(d, q, k).end, n))
    OBVIOUS
  <2> DEFINE x == G!Place(q, k + n, FALSE)
             y == G!Place(q, k, FALSE)
  <2>1. /\ x \in G!Places /\ x.at = q /\ x.due = k + n /\ x.pairs = FALSE
        /\ DueAt(d, q, k + n) = RestAt(d, x)
    <3>1. k + n \in Nat
      OBVIOUS
    <3> HIDE DEF Good, Bad
    <3> QED
      BY <1>0, <3>1
  <2>2. /\ y \in G!Places /\ y.at = q /\ y.due = k /\ y.pairs = FALSE
        /\ DueAt(d, q, k) = RestAt(d, y)
    BY <1>0
  <2> HIDE DEF x, y
  <2>3. HasFirst(d, x) <=> HasFirst(d, y)
    BY <1>2, <2>1, <2>2 DEF HasFirst
  <2>4. CASE ~HasFirst(d, x)
    <3>1. ~RestAt(d, x).ok /\ ~RestAt(d, y).ok
      <4>1. q >= Len(d) \/ q < Len(d)
        OBVIOUS
      <4> QED
        BY <1>2, <2>1, <2>2, <2>3, <2>4, <4>1, NoFirst DEF G!Broken
    <3> QED
      BY <2>1, <2>2, <3>1 DEF Joined
  <2>5. CASE HasFirst(d, x)
    <3> DEFINE f == G!First(d, G!Parsed(d), x)
               g == G!First(d, G!Parsed(d), y)
    <3>1. Alike(f, g)
      BY <2>1, <2>2, <2>3, <2>5, FirstAlike
    <3>2. /\ Joined(RestAt(d, x), f, RestAt(d, NextPlace(x, f.end)))
          /\ Joined(RestAt(d, y), g, RestAt(d, NextPlace(y, g.end)))
      BY <2>1, <2>2, <2>3, <2>5, FirstJoins
    <3>3. f.end \in Nat
      <4>1. ASSUME NEW z \in G!Places PROVE Found(d, z, G!Parsed(d)[z])
        BY ParseReads
      <4> QED
        BY <2>1, <2>5, <4>1, FirstIs
    <3> HIDE DEF f, g
    <3> DEFINE e == f.end
               long == DueAt(d, e, (k - 1) + n)
               short == DueAt(d, e, k - 1)
               rest == DueAt(d, DueAt(d, e, k - 1).end, n)
               behind == DueAt(d, DueAt(d, q, k).end, n)
    <3>4. /\ RestAt(d, NextPlace(x, e)) = long
          /\ RestAt(d, NextPlace(y, e)) = short
      <4>1. (k + n) - 1 = (k - 1) + n
        OBVIOUS
      <4> QED
        BY <2>1, <2>2, <4>1 DEF NextPlace, DueAt
    <3>5. Joined(long, short, rest)
      BY <1>2, <3>3
    <3>6. f.ok => g.end = e /\ g.ok
      BY <3>1 DEF Alike
    <3>7. g.ok => f.ok
      BY <3>1 DEF Alike
    <3>8. Joined(RestAt(d, x), f, long)
      BY <3>2, <3>4
    <3>9. f.ok => Joined(RestAt(d, y), g, short)
      BY <3>2, <3>4, <3>6
    <3>10. RestAt(d, y).ok => g.ok
      BY <3>2 DEF Joined
    <3>11. RestAt(d, y).ok => RestAt(d, y).end = short.end
      BY <3>7, <3>9, <3>10 DEF Joined
    <3>12. RestAt(d, y).ok => behind = rest
      BY <2>2, <3>11
    <3> HIDE DEF long, short, rest, behind, e
    <3>13. Joined(RestAt(d, x), RestAt(d, y), behind)
      BY <3>5, <3>6, <3>7, <3>8, <3>9, <3>10, <3>12, Zenon DEF Joined
    <3> QED
      BY <2>1, <2>2, <3>13 DEF behind
  <2> QED
    BY <2>4, <2>5
<1> HIDE DEF Good
<1>3. Bad = {}
  <2> SUFFICES ASSUME Bad # {} PROVE FALSE
    OBVIOUS
  <2>1. PICK k \in Bad : \A l \in Bad : k <= l
    <3>1. Bad \in SUBSET Nat
      OBVIOUS
    <3> HIDE DEF Bad
    <3> QED
      BY <3>1, LeastElement
  <2>2. k \in Nat /\ k > 0
    BY <1>1, <2>1
  <2>3. k - 1 \in Nat /\ k - 1 \notin Bad
    BY <2>1, <2>2
  <2> QED
    BY <1>2, <2>1, <2>2, <2>3
<1>4. Good(m)
  BY <1>3
<1> QED
  BY <1>4 DEF Good

\* Behind an item as many more values are due as are in it, one less in all.
LEMMA ItemThenRest ==
  ASSUME NEW d \in Seq(Byte), NEW p \in Nat, NEW n \in Nat, n > 0, IsItem(d, p)
  PROVE  Alike(DueAt(d, p, n), DueAt(d, ItemEnd(d, p), n - 1 + ValuesIn(d, p)))
<1> DEFINE x == G!Place(p, n, FALSE)
           e == ItemEnd(d, p)
           v == ValuesIn(d, p)
<1>1. FALSE \in BOOLEAN
  OBVIOUS
<1>2. x \in G!Places /\ x.at = p /\ x.due = n /\ x.pairs = FALSE /\ DueAt(d, p, n) = RestAt(d, x)
  BY <1>1, PlaceIs DEF DueAt
<1>3. e \in Nat /\ v \in Nat /\ ~(e > Len(d)) /\ HasHeader(d, p)
  BY ItemMoves DEF IsItem
<1> HIDE DEF x
<1>4. HasFirst(d, x)
  BY <1>2, ItemHasFirst
<1> DEFINE f == G!First(d, G!Parsed(d), x)
<1>5. Joined(RestAt(d, x), f, RestAt(d, NextPlace(x, f.end)))
  BY <1>2, <1>4, FirstJoins
<1>6. \A r : NextPlace(x, r) = G!Place(r, n - 1, FALSE)
  BY <1>2 DEF NextPlace
<1>7. CASE KindAt(d, p) \notin {"array", "map"}
  <2>1. f = (IF e > Len(d) THEN G!Broken({ItemAt(d, x)})
             ELSE [ok |-> TRUE, end |-> e, nest |-> 0, items |-> {ItemAt(d, x)}])
    BY <1>2, <1>4, <1>7, FirstKinds
  <2>2. v = 0
    BY <1>7 DEF ValuesIn
  <2> HIDE DEF f, e, v
  <2>3. f.ok /\ f.end = e
    BY <1>3, <2>1
  <2>4. RestAt(d, NextPlace(x, f.end)) = DueAt(d, e, n - 1)
    BY <1>6, <2>3 DEF DueAt
  <2>5. n - 1 + v = n - 1
    BY <2>2
  <2>6. Alike(RestAt(d, x), DueAt(d, e, n - 1))
    BY <1>5, <2>3, <2>4 DEF Joined, Alike
  <2> QED
    BY <1>2, <2>5, <2>6 DEF e, v
<1>8. CASE KindAt(d, p) \in {"array", "map"}
  <2> DEFINE keyed == KindAt(d, p) = "map"
             inner == InnerAt(d, p)
             flat == DueAt(d, e, v)
             all == DueAt(d, e, v + (n - 1))
             rest == DueAt(d, inner.end, n - 1)
  <2>1. f = G!Container(ItemAt(d, x), inner)
    BY <1>2, <1>4, <1>8, FirstKinds
  <2>2. e = HeaderEnd(d, p)
    BY <1>3, <1>8, HeaderFacts DEF ItemEnd
  <2>3. keyed \in BOOLEAN
    BY Zenon
  <2>4. inner = RestAt(d, G!Place(e, v, keyed))
    BY <2>2, Zenon DEF InnerAt, InnerPlace
  <2>5. Alike(flat, inner)
    <3> HIDE DEF e, v, keyed
    <3> QED
      BY <1>1, <1>3, <2>3, <2>4, RestAlike DEF DueAt
  <2>6. n - 1 \in Nat
    OBVIOUS
  <2>7. Joined(all, flat, DueAt(d, flat.end, n - 1))
    <3> HIDE DEF e, v
    <3> QED
      BY <1>3, <2>6, DueJoins
  <2>8. f.ok = inner.ok /\ f.end = inner.end
    BY <2>1 DEF G!Container
  <2>9. RestAt(d, NextPlace(x, f.end)) = rest
    BY <1>6, <2>8 DEF DueAt
  <2>10. n - 1 + v = v + (n - 1)
    BY <1>3
  <2>11. Joined(RestAt(d, x), inner, rest)
    <3> HIDE DEF f, inner, rest
    <3> QED
      BY <1>5, <2>8, <2>9 DEF Joined
  <2>12. flat.ok => DueAt(d, flat.end, n - 1) = rest
    BY <2>5 DEF Alike
  <2> HIDE DEF f, inner, rest, flat, all, e, v
  <2>13. Alike(RestAt(d, x), all)
    BY <2>5, <2>7, <2>11, <2>12, Zenon DEF Alike, Joined
  <2> QED
    BY <1>2, <2>10, <2>13 DEF all, e, v
<1> QED
  BY <1>7, <1>8

\* What is due behind a row ends where the value does that the row begins.
LEMMA RowKeeps ==
  ASSUME NEW d \in Seq(Byte), NEW k \in Nat, NEW at, NEW due, IsRow(d, k, at, due)
  PROVE  Alike(DueAt(d, at[0], 1), DueAt(d, at[k], due[k]))
<1> DEFINE Good(i) == Alike(DueAt(d, at[0], 1), DueAt(d, at[i], due[i]))
           Bad == {i \in Nat : i <= k /\ ~Good(i)}
<1>1. /\ at \in [0..k -> Nat] /\ due \in [0..k -> Nat] /\ due[0] = 1
      /\ \A i \in 0..k-1 : /\ IsItem(d, at[i]) /\ due[i] > 0
                           /\ at[i+1] = ItemEnd(d, at[i])
                           /\ due[i+1] = due[i] - 1 + ValuesIn(d, at[i])
  BY DEF IsRow
<1>2. Good(0)
  BY <1>1 DEF Alike
<1>3. ASSUME NEW i \in 0..k-1, Good(i) PROVE Good(i + 1)
  <2>1. at[i] \in Nat /\ due[i] \in Nat
    BY <1>1
  <2>2. Alike(DueAt(d, at[i], due[i]),
              DueAt(d, ItemEnd(d, at[i]), due[i] - 1 + ValuesIn(d, at[i])))
    BY <1>1, <2>1, ItemThenRest
  <2>3. Alike(DueAt(d, at[i], due[i]), DueAt(d, at[i+1], due[i+1]))
    BY <1>1, <2>2
  <2> QED
    BY <1>3, <2>3, Zenon DEF Alike
<1> HIDE DEF Good
<1>4. Bad = {}
  <2> SUFFICES ASSUME Bad # {} PROVE FALSE
    OBVIOUS
  <2>1. PICK m \in Bad : \A l \in Bad : m <= l
    <3>1. Bad \in SUBSET Nat
      OBVIOUS
    <3> HIDE DEF Bad
    <3> QED
      BY <3>1, LeastElement
  <2>2. m \in Nat /\ m > 0 /\ m <= k
    BY <1>2, <2>1
  <2>3. m - 1 \in 0..k-1 /\ m - 1 \notin Bad /\ (m - 1) + 1 = m
    BY <2>1, <2>2
  <2>4. Good(m - 1)
    BY <2>2, <2>3
  <2>5. Good((m - 1) + 1)
    BY <1>3, <2>3, <2>4
  <2> QED
    BY <2>1, <2>3, <2>5
<1>5. Good(k)
  BY <1>4
<1> QED
  BY <1>5 DEF Good

\* Reading from left to right and counting, and the recursive descent that the format's
\* specification describes, find the same values in every message.
THEOREM RowsAreGrammar ==
  ASSUME NEW d \in Seq(Byte), NEW p \in Nat, NEW q \in Nat
  PROVE  IsValue(d, p, q) <=> G!ValueAt(d, p).ok /\ G!ValueAt(d, p).end = q
<1> DEFINE v == DueAt(d, p, 1)
<1>1. v = G!ValueAt(d, p)
  BY DEF DueAt, RestAt, G!ValueAt, G!Parse
<1> HIDE DEF v
<1>2. ASSUME NEW r, NEW n, RowTo(d, p, r, n)
      PROVE  r \in Nat /\ n \in Nat /\ Alike(v, DueAt(d, r, n))
  <2>1. PICK k \in Nat : \E at, due \in [0..k -> Nat] :
          IsRow(d, k, at, due) /\ at[0] = p /\ at[k] = r /\ due[k] = n
    BY <1>2 DEF RowTo
  <2>2. PICK at \in [0..k -> Nat], due \in [0..k -> Nat] :
          IsRow(d, k, at, due) /\ at[0] = p /\ at[k] = r /\ due[k] = n
    BY <2>1
  <2>3. r \in Nat /\ n \in Nat
    BY <2>2
  <2> QED
    BY <2>2, <2>3, RowKeeps DEF v
<1>3. ASSUME NEW r \in Nat PROVE DueAt(d, r, 0).ok /\ DueAt(d, r, 0).end = r
  <2>1. FALSE \in BOOLEAN
    OBVIOUS
  <2> QED
    BY <2>1, NoneDue DEF DueAt
<1>4. ASSUME IsValue(d, p, q) PROVE v.ok /\ v.end = q
  <2>1. RowTo(d, p, q, 0)
    BY <1>4, Zenon DEF IsValue, RowTo
  <2> QED
    BY <1>2, <1>3, <2>1 DEF Alike
<1>5. ASSUME v.ok, v.end = q PROVE IsValue(d, p, q)
  <2> DEFINE Behind == {l \in Nat : \E r, n : RowTo(d, p, r, n) /\ r + l = Len(d)}
  <2>0. ASSUME NEW r, NEW n, RowTo(d, p, r, n), n # 0
        PROVE  /\ IsItem(d, r) /\ ItemEnd(d, r) \in Nat /\ r < ItemEnd(d, r)
               /\ ItemEnd(d, r) <= Len(d)
               /\ RowTo(d, p, ItemEnd(d, r), n - 1 + ValuesIn(d, r))
    <3> DEFINE x == G!Place(r, n, FALSE)
    <3>1. r \in Nat /\ n \in Nat /\ n > 0 /\ DueAt(d, r, n).ok
      BY <1>2, <1>5, <2>0 DEF Alike
    <3>2. FALSE \in BOOLEAN
      OBVIOUS
    <3>3. x \in G!Places /\ x.at = r /\ x.due = n /\ RestAt(d, x).ok
      BY <3>1, <3>2, PlaceIs DEF DueAt
    <3> HIDE DEF x
    <3>4. IsItem(d, r)
      BY <3>1, <3>3, NotWhole
    <3> QED
      BY <2>0, <3>1, <3>4, ItemMoves, RowReads
  <2>1. RowTo(d, p, p, 1)
    BY RowBegins
  <2>2. p < Len(d)
    <3>1. 1 # 0
      OBVIOUS
    <3>2. ItemEnd(d, p) \in Nat /\ p < ItemEnd(d, p) /\ ItemEnd(d, p) <= Len(d)
      BY <2>0, <2>1, <3>1, Zenon
    <3> QED
      BY <3>2
  <2>3. Len(d) - p \in Behind
    BY <2>1, <2>2
  <2>4. PICK m \in Behind : \A l \in Behind : m <= l
    <3>1. Behind \in SUBSET Nat
      OBVIOUS
    <3> HIDE DEF Behind
    <3> QED
      BY <2>3, <3>1, LeastElement
  <2>5. PICK r, n : RowTo(d, p, r, n) /\ r + m = Len(d)
    BY <2>4
  <2>6. n = 0
    <3> SUFFICES ASSUME n # 0 PROVE FALSE
      OBVIOUS
    <3>1. /\ ItemEnd(d, r) \in Nat /\ r < ItemEnd(d, r) /\ ItemEnd(d, r) <= Len(d)
          /\ RowTo(d, p, ItemEnd(d, r), n - 1 + ValuesIn(d, r))
      BY <2>0, <2>5
    <3>2. r \in Nat /\ m \in Nat
      BY <1>2, <2>4, <2>5
    <3>3. Len(d) - ItemEnd(d, r) \in Behind
      BY <3>1
    <3> QED
      BY <2>4, <2>5, <3>1, <3>2, <3>3
  <2>7. v.end = r
    BY <1>2, <1>3, <1>5, <2>5, <2>6 DEF Alike
  <2> QED
    BY <1>5, <2>5, <2>6, <2>7, RowIsValue
<1> QED
  BY <1>1, <1>4, <1>5

\* Where counting finds no end of a value, the recursive descent finds a flaw.
LEMMA NoEndIsAFlaw ==
  ASSUME NEW d \in Seq(Byte), NEW p \in Nat
  PROVE  (\A q \in Nat : ~IsValue(d, p, q)) <=> ~G!ValueAt(d, p).ok
<1>1. G!ValueAt(d, p).end \in Nat
  <2>1. 1 \in Nat /\ FALSE \in BOOLEAN
    OBVIOUS
  <2>2. G!Place(p, 1, FALSE) \in G!Places
    BY <2>1, PlaceIs
  <2>3. G!ValueAt(d, p) = RestAt(d, G!Place(p, 1, FALSE))
    BY DEF G!ValueAt, G!Parse, RestAt
  <2> QED
    BY <2>2, <2>3, FoundAt
<1> QED
  BY <1>1, RowsAreGrammar

=============================================================================
