---------------------------- MODULE EncoderProofs ----------------------------
(***************************************************************************)
(* Proof that Encoder implements Buffer: whatever the jobs are, what an    *)
(* Encoder writes for them are bytes, and it only appends them to its      *)
(* buffer, hands it out and resets it.  That its calls lie in the buffer   *)
(* one behind the other, that each of them is one whole value, and that a  *)
(* call is refused if and only if there is a channel in what it looks at.  *)
(***************************************************************************)
EXTENDS Encoder, BufferProofs, FiniteSetTheorems, SequenceTheorems

\* The format, and what a row of its items is.
W == INSTANCE WireProofs

-----------------------------------------------------------------------------
(* What can be to do: bytes to write, typed values, and loops over what is *)
(* left of them.                                                           *)

Walks == {"Encode", "encodeValue", "encodeField", "encodeInto", "EncodeValue", "EncodeArray"}
Loops == {"Encode", "encodeValue", "EncodeValue"}

ElemTypes == {x.type.elem : x \in Universe} \cup {x.value.type.elem : x \in Universe}

Writes == {Bytes(bs) : bs \in Seq(Byte)}
Walked == {x \in {Value(h, y.type, y.value) : h \in Walks, y \in Universe} : Takes(x.do, x.type)}

ListsOf(h, t) == {Each(h, t, s) : s \in Seq(ValuesOf(t))}
Lists == {x \in UNION {ListsOf(h, t) : h \in Loops, t \in ElemTypes} : Takes(x.how, x.type)}

Names == {S \in SUBSET {n \in Seq(Byte) : Len(n) <= Max16} : IsFiniteSet(S)}
Keyed(t) == UNION {[S -> ValuesOf(t)] : S \in Names}
MapsOf(h, t) == {EachPair(h, t, m) : m \in Keyed(t)}
Maps == {x \in UNION {MapsOf(h, t) : h \in Loops, t \in ElemTypes} : Takes(x.how, x.type)}

\* What is left of a struct are names of fields, each once.
Once(s) == \A i, j \in 1..Len(s) : s[i] = s[j] => i = j
FieldLists(t) == {s \in Seq(DOMAIN t.fields) : Once(s)}
StructsOf(h, y) == {Fields(h, y.type, y.value, s) : s \in FieldLists(y.type)}
Structs == UNION {StructsOf(h, y) : h \in {"encodeValue", "encodeField"},
                                    y \in {z \in Universe : z.type.kind = "Struct"}}

Tasks == Walked \cup Lists \cup Maps \cup Structs
Items == Writes \cup Tasks

\* The inductive invariant.
TodoOK == todo \in Seq(Items)

-----------------------------------------------------------------------------
(* Items are what their constructors make of what they are made from ...   *)

\* The values of a type are those the universe has of it.
LEMMA ValuesFacts ==
  /\ \A t, v : v \in ValuesOf(t) => Typed(t, v) \in Universe
  /\ \A x \in Universe : x = Typed(x.type, x.value) /\ x.value \in ValuesOf(x.type)
<1>1. ASSUME NEW x \in Universe PROVE x = Typed(x.type, x.value)
  BY UniverseAssumption
<1>2. ASSUME NEW t, NEW v \in ValuesOf(t) PROVE Typed(t, v) \in Universe
  <2>1. PICK y \in Universe : y.type = t /\ y.value = v
    BY DEF ValuesOf
  <2> QED
    BY <1>1, <2>1
<1>3. ASSUME NEW x \in Universe PROVE x.value \in ValuesOf(x.type)
  BY DEF ValuesOf
<1> QED
  BY <1>1, <1>2, <1>3

\* So is a value of a type the encoder takes ...
LEMMA ValueTask ==
  ASSUME NEW h \in Walks, NEW t, NEW v \in ValuesOf(t), Takes(h, t)
  PROVE  Value(h, t, v) \in Tasks
<1>1. Typed(t, v) \in Universe /\ Typed(t, v).type = t /\ Typed(t, v).value = v
  BY ValuesFacts DEF Typed
<1>2. Value(h, t, v) \in {Value(g, y.type, y.value) : g \in Walks, y \in Universe}
  BY <1>1
<1>3. Value(h, t, v).do = h /\ Value(h, t, v).type = t
  BY DEF Value
<1>4. Value(h, t, v) \in Walked
  BY <1>2, <1>3 DEF Walked
<1> QED
  BY <1>4 DEF Tasks

\* ... a loop over elements ...
LEMMA EachTask ==
  ASSUME NEW h \in Loops, NEW t \in ElemTypes, NEW s \in Seq(ValuesOf(t)), Takes(h, t)
  PROVE  Each(h, t, s) \in Tasks
<1>1. Each(h, t, s).how = h /\ Each(h, t, s).type = t
  BY DEF Each
<1>2. Each(h, t, s) \in Lists
  <2>1. Each(h, t, s) \in ListsOf(h, t)
    BY DEF ListsOf
  <2>2. Each(h, t, s) \in UNION {ListsOf(g, u) : g \in Loops, u \in ElemTypes}
    BY <2>1
  <2> QED
    BY <1>1, <2>2 DEF Lists
<1> QED
  BY <1>2 DEF Tasks

\* ... a loop over the pairs of a map ...
LEMMA RangeTask ==
  ASSUME NEW h \in Loops, NEW t \in ElemTypes, NEW m \in Keyed(t), Takes(h, t)
  PROVE  EachPair(h, t, m) \in Tasks
<1>1. EachPair(h, t, m).how = h /\ EachPair(h, t, m).type = t
  BY DEF EachPair
<1>2. EachPair(h, t, m) \in Maps
  <2>1. EachPair(h, t, m) \in MapsOf(h, t)
    BY DEF MapsOf
  <2>2. EachPair(h, t, m) \in UNION {MapsOf(g, u) : g \in Loops, u \in ElemTypes}
    BY <2>1
  <2> QED
    BY <1>1, <2>2 DEF Maps
<1> QED
  BY <1>2 DEF Tasks

\* ... and one over the fields of a struct.
LEMMA FieldsTask ==
  ASSUME NEW h \in {"encodeValue", "encodeField"}, NEW t, NEW v \in ValuesOf(t),
         t.kind = "Struct", NEW s \in FieldLists(t)
  PROVE  Fields(h, t, v, s) \in Tasks
<1>1. Typed(t, v) \in Universe /\ Typed(t, v).type = t /\ Typed(t, v).value = v
  BY ValuesFacts DEF Typed
<1>2. PICK y \in Universe : y.type = t /\ y.value = v /\ y.type.kind = "Struct"
  BY <1>1
<1>3. Fields(h, t, v, s) \in Structs
  <2>1. y \in {z \in Universe : z.type.kind = "Struct"}
    BY <1>2
  <2>2. Fields(h, t, v, s) \in StructsOf(h, y)
    BY <1>2 DEF StructsOf
  <2> QED
    BY <2>1, <2>2 DEF Structs
<1> QED
  BY <1>3 DEF Tasks

\* ... and nothing else.
LEMMA TaskCases ==
  ASSUME NEW x \in Tasks
  PROVE  /\ x.do \in Walks \cup {"elements", "pairs", "fields"} /\ x.do # "write"
         /\ x.do \in Walks =>
              /\ x.value \in ValuesOf(x.type) /\ Takes(x.do, x.type)
              /\ Typed(x.type, x.value) \in Universe
         /\ x.do = "elements" =>
              /\ x.how \in Loops /\ Takes(x.how, x.type) /\ x.type \in ElemTypes
              /\ x.left \in Seq(ValuesOf(x.type))
              /\ \A s : [x EXCEPT !.left = s] = Each(x.how, x.type, s)
         /\ x.do = "pairs" =>
              /\ x.how \in Loops /\ Takes(x.how, x.type) /\ x.type \in ElemTypes
              /\ x.left \in Keyed(x.type)
              /\ \A s : [x EXCEPT !.left = s] = EachPair(x.how, x.type, s)
         /\ x.do = "fields" =>
              /\ x.how \in {"encodeValue", "encodeField"} /\ x.type.kind = "Struct"
              /\ x.value \in ValuesOf(x.type) /\ x.left \in FieldLists(x.type)
              /\ \A s : [x EXCEPT !.left = s] = Fields(x.how, x.type, x.value, s)
<1>1. CASE x \in Walked
  <2>1. PICK h \in Walks, y \in Universe : x = Value(h, y.type, y.value) /\ Takes(x.do, x.type)
    BY <1>1 DEF Walked
  <2>2. x.do = h /\ x.type = y.type /\ x.value = y.value
    BY <2>1 DEF Value
  <2>3. x.value \in ValuesOf(x.type) /\ Typed(x.type, x.value) \in Universe
    BY <2>2, ValuesFacts
  <2> QED
    BY <2>1, <2>2, <2>3 DEF Walks
<1>2. CASE x \in Lists
  <2>1. PICK h \in Loops, t \in ElemTypes :
          x \in ListsOf(h, t) /\ Takes(x.how, x.type)
    BY <1>2 DEF Lists
  <2>2. PICK s \in Seq(ValuesOf(t)) : x = Each(h, t, s)
    BY <2>1 DEF ListsOf
  <2> QED
    BY <2>1, <2>2 DEF Each, Walks
<1>3. CASE x \in Maps
  <2>1. PICK h \in Loops, t \in ElemTypes :
          x \in MapsOf(h, t) /\ Takes(x.how, x.type)
    BY <1>3 DEF Maps
  <2>2. PICK m \in Keyed(t) : x = EachPair(h, t, m)
    BY <2>1 DEF MapsOf
  <2> QED
    BY <2>1, <2>2 DEF EachPair, Walks
<1>4. CASE x \in Structs
  <2>1. PICK h \in {"encodeValue", "encodeField"}, y \in {z \in Universe : z.type.kind = "Struct"} :
          x \in StructsOf(h, y)
    BY <1>4 DEF Structs
  <2>2. y \in Universe /\ y.type.kind = "Struct"
    OBVIOUS
  <2>4. PICK s \in FieldLists(y.type) : x = Fields(h, y.type, y.value, s)
    BY <2>1 DEF StructsOf
  <2>3. x.value \in ValuesOf(x.type)
    BY <2>2, <2>4, ValuesFacts DEF Fields
  <2> QED
    BY <2>2, <2>3, <2>4 DEF Fields, Walks
<1> QED
  BY <1>1, <1>2, <1>3, <1>4 DEF Tasks

\* Bytes to write are no task.
LEMMA WriteCases ==
  ASSUME NEW x \in Writes
  PROVE  x.do = "write" /\ x.bytes \in Seq(Byte) /\ x = Bytes(x.bytes)
BY DEF Writes, Bytes

\* The kinds of Go types and of Values that occur, one by one.
LEMMA KindsFacts ==
  /\ Basic \subseteq GoKinds /\ Basic \subseteq TreeKinds
  /\ {"Bytes", "Time", "Interface", "Slice", "Array", "Map", "Ptr", "Struct", "Chan"} \subseteq GoKinds
  /\ \A k \in Basic :
       k \notin {"Bytes", "Time", "Interface", "Slice", "Array", "Map", "Ptr", "Struct", "Chan", "Ext", "Value"}
  /\ GoKinds = Basic \cup {"Bytes", "Time", "Interface", "Slice", "Array", "Map", "Ptr", "Struct", "Chan"}
  /\ TreeKinds = Basic \cup {"Bytes", "Ext", "Slice", "Map"}
  /\ Walks = {"Encode", "encodeValue", "encodeField", "encodeInto", "EncodeValue", "EncodeArray"}
  /\ Loops \subseteq Walks
BY DEF GoKinds, TreeKinds, Kinds, Basic, Ints, Uints, Floats, Walks, Loops

\* Values of a type are what UniverseAssumption says of them.
LEMMA TypeFacts ==
  ASSUME NEW t, NEW v \in ValuesOf(t)
  PROVE  /\ t.elem \in ElemTypes /\ v.type.elem \in ElemTypes
         /\ t.kind \in GoKinds =>
              /\ t.kind \in {"Slice", "Array", "Map", "Ptr"} => t.elem.kind \in GoKinds
              /\ IsSimple(t, v)
              /\ t.kind = "Interface" => v = Nil \/ (v \in Universe /\ v.type.kind \in GoKinds)
              /\ t.kind = "Struct" => IsStruct(t, v)
         /\ t.kind = "Value" => v = Nil \/
              /\ v.type.kind \in TreeKinds
              /\ v.type.kind \in {"Slice", "Map"} => v.type.elem.kind = "Value"
              /\ IsSimple(v.type, v.value)
<1>1. PICK x \in Universe : x.type = t /\ x.value = v
  BY DEF ValuesOf
<1>2. t.elem \in ElemTypes /\ v.type.elem \in ElemTypes
  BY <1>1 DEF ElemTypes
<1> QED
  BY <1>1, <1>2, UniverseAssumption, Zenon

-----------------------------------------------------------------------------
(* What is to do, in values that are still to be written.                   *)

\* The fields of a struct value that are written, by encodeStruct (encode.go) or
\* by encodeInto (struct_encoder.go).
Kept(h, t, v) == IF h = "encodeValue" THEN Present(t, v) ELSE DOMAIN t.fields \ LeftOut(t, v)

\* The names that are left, and how many values a task is: a key and a value for
\* each pair and for each field that is written.
Left(s) == {s[i] : i \in 1..Len(s)}
LeftFields(x) == Left(x.left) \cap Kept(x.how, x.type, x.value)
Due(x) ==
  IF x.do = "elements" THEN Len(x.left)
  ELSE IF x.do = "pairs" THEN 2 * Cardinality(DOMAIN x.left)
  ELSE IF x.do = "fields" THEN 2 * Cardinality(LeftFields(x))
  ELSE 1

\* The tasks s are n values: owed[i] are those of the tasks behind the i-th.
Owes(s, n) ==
  \E owed \in [0..Len(s) -> Nat] :
    /\ owed[Len(s)] = 0
    /\ \A i \in 1..Len(s) : owed[i-1] = Due(s[i]) + owed[i]
    /\ n = owed[0]

\* What is left of the fields of a struct: each name one of its fields.
LEMMA LeftFacts ==
  ASSUME NEW t, NEW v \in ValuesOf(t), t.kind = "Struct", NEW s \in FieldLists(t),
         NEW S \in SUBSET DOMAIN t.fields
  PROVE  IsFiniteSet(Left(s) \cap S) /\ Cardinality(Left(s) \cap S) \in Nat
<1>1. IsFiniteSet(DOMAIN t.fields)
  BY TypeFacts, KindsFacts DEF IsStruct
<1>2. Left(s) \cap S \subseteq DOMAIN t.fields
  OBVIOUS
<1> QED
  BY <1>1, <1>2, FS_Subset, FS_CardinalityType

\* The fields that are written are fields.
LEMMA KeptFields == \A h, t, v : Kept(h, t, v) \in SUBSET DOMAIN t.fields
BY DEF Kept, Present

\* A task is worth some values.
LEMMA DueType == ASSUME NEW x \in Tasks PROVE Due(x) \in Nat
<1>1. CASE x.do = "elements"
  <2>1. x.left \in Seq(ValuesOf(x.type))
    BY <1>1, TaskCases
  <2> QED
    BY <1>1, <2>1 DEF Due
<1>2. CASE x.do = "pairs"
  <2>1. x.left \in Keyed(x.type)
    BY <1>2, TaskCases
  <2>2. PICK S \in Names : x.left \in [S -> ValuesOf(x.type)]
    BY <2>1 DEF Keyed
  <2>3. IsFiniteSet(DOMAIN x.left)
    BY <2>2 DEF Names
  <2> DEFINE n == Cardinality(DOMAIN x.left)
  <2>4. n \in Nat /\ Due(x) = 2 * n
    BY <1>2, <2>3, FS_CardinalityType DEF Due
  <2> QED
    BY <2>4
<1>3. CASE x.do = "fields"
  <2>1. x.type.kind = "Struct" /\ x.value \in ValuesOf(x.type) /\ x.left \in FieldLists(x.type)
    BY <1>3, TaskCases
  <2> DEFINE n == Cardinality(LeftFields(x))
  <2>2. n \in Nat
    BY <2>1, LeftFacts, KeptFields DEF LeftFields
  <2>3. Due(x) = 2 * n
    BY <1>3 DEF Due
  <2> QED
    BY <2>2, <2>3
<1>4. CASE x.do \notin {"elements", "pairs", "fields"}
  BY <1>4 DEF Due
<1> QED
  BY <1>1, <1>2, <1>3, <1>4

\* Nothing to do is no value.
LEMMA OwesNone == \A n : Owes(<<>>, n) <=> n = 0
<1> SUFFICES ASSUME NEW n PROVE Owes(<<>>, n) <=> n = 0
  OBVIOUS
<1> DEFINE owed == [i \in 0..0 |-> 0]
<1>1. owed \in [0..0 -> Nat] /\ owed[0] = 0 /\ Len(<<>>) = 0
  OBVIOUS
<1> HIDE DEF owed
<1>2. \A i \in 1..0 : FALSE
  OBVIOUS
<1>3. n = 0 => Owes(<<>>, n)
  BY <1>1, <1>2 DEF Owes
<1>4. Owes(<<>>, n) => n = 0
  BY <1>1 DEF Owes
<1> QED
  BY <1>3, <1>4

\* One task is what it is worth.
LEMMA OwesOne == ASSUME NEW x, Due(x) \in Nat PROVE Owes(<<x>>, Due(x))
<1> DEFINE owed == [i \in 0..1 |-> IF i = 0 THEN Due(x) ELSE 0]
           s == <<x>>
<1>1. owed \in [0..1 -> Nat] /\ owed[0] = Due(x) /\ owed[1] = 0
  OBVIOUS
<1>2. Len(s) = 1 /\ s[1] = x
  OBVIOUS
<1> HIDE DEF owed, s
<1>3. ASSUME NEW i \in 1..1 PROVE owed[i-1] = Due(s[i]) + owed[i]
  <2>1. i = 1 /\ i - 1 = 0
    OBVIOUS
  <2> QED
    BY <1>1, <1>2, <2>1
<1>4. Owes(s, Due(x))
  BY <1>1, <1>2, <1>3 DEF Owes
<1> QED
  BY <1>4 DEF s

\* Tasks behind others add what they are worth.
LEMMA OwesBoth ==
  ASSUME NEW r \in Seq(Tasks), NEW s \in Seq(Tasks), NEW m, NEW n, Owes(r, m), Owes(s, n)
  PROVE  m \in Nat /\ n \in Nat /\ r \o s \in Seq(Tasks) /\ Owes(r \o s, m + n)
<1> DEFINE k == Len(r)
           l == Len(s)
           q == r \o s
<1>1. PICK ra \in [0..k -> Nat] :
        ra[k] = 0 /\ (\A i \in 1..k : ra[i-1] = Due(r[i]) + ra[i]) /\ m = ra[0]
  BY DEF Owes
<1>2. PICK sa \in [0..l -> Nat] :
        sa[l] = 0 /\ (\A i \in 1..l : sa[i-1] = Due(s[i]) + sa[i]) /\ n = sa[0]
  BY DEF Owes
<1>3. /\ k \in Nat /\ l \in Nat /\ Len(q) = k + l /\ q \in Seq(Tasks)
      /\ \A i \in 1..k : q[i] = r[i]
      /\ \A i \in k+1..k+l : q[i] = s[i-k]
  BY Concatenation
<1> HIDE DEF k, l, q
<1>4. /\ m \in Nat /\ n \in Nat /\ 0 \in 0..k /\ 0 \in 0..l
      /\ \A i \in 0..k : ra[i] \in Nat
      /\ \A i \in 0..l : sa[i] \in Nat
  BY <1>1, <1>2, <1>3
<1> DEFINE owed == [i \in 0..k+l |-> IF i < k THEN ra[i] + n ELSE sa[i-k]]
<1>5. \A i \in 0..k+l : owed[i] \in Nat
  <2> SUFFICES ASSUME NEW i \in 0..k+l PROVE owed[i] \in Nat
    OBVIOUS
  <2>1. i < k => i \in 0..k
    BY <1>3
  <2>2. ~(i < k) => i - k \in 0..l
    BY <1>3
  <2> QED
    BY <1>4, <2>1, <2>2
<1>6. owed \in [0..k+l -> Nat]
  BY <1>5
<1>7. ASSUME NEW i \in 0..l PROVE owed[k+i] = sa[i]
  <2> DEFINE j == k + i
  <2>1. j \in 0..k+l /\ ~(j < k) /\ j - k = i
    BY <1>3
  <2> HIDE DEF j
  <2>2. owed[j] = sa[j-k]
    BY <2>1
  <2> QED
    BY <2>1, <2>2 DEF j
<1>8. ASSUME NEW i \in 0..k PROVE owed[i] = ra[i] + n
  <2>1. CASE i = k
    <3>1. owed[k+0] = sa[0] /\ k + 0 = k
      BY <1>3, <1>4, <1>7
    <3> QED
      BY <1>1, <1>2, <1>4, <2>1, <3>1
  <2>2. CASE i # k
    <3>1. i < k /\ i \in 0..k+l
      BY <1>3, <2>2
    <3> QED
      BY <3>1
  <2> QED
    BY <2>1, <2>2
<1> HIDE DEF owed
<1>9. ASSUME NEW i \in 1..k+l PROVE owed[i-1] = Due(q[i]) + owed[i]
  <2>1. CASE i <= k
    <3>1. i \in 1..k /\ i \in 0..k /\ i - 1 \in 0..k
      BY <1>3, <2>1
    <3>2. owed[i-1] = ra[i-1] + n /\ owed[i] = ra[i] + n /\ q[i] = r[i]
      BY <1>3, <1>8, <3>1
    <3>3. ra[i-1] = Due(q[i]) + ra[i] /\ ra[i] \in Nat
      BY <1>1, <1>4, <3>1, <3>2
    <3>4. Due(q[i]) \in Int
      BY <3>1, <3>2, DueType, ElementOfSeq DEF k
    <3> QED
      BY <1>4, <3>2, <3>3, <3>4
  <2>2. CASE i > k
    <3> DEFINE j == i - k
    <3>1. j \in 1..l /\ j \in 0..l /\ j - 1 \in 0..l /\ i \in k+1..k+l
          /\ i = k + j /\ i - 1 = k + (j - 1)
      BY <1>3, <2>2
    <3>2. q[i] = s[j]
      BY <1>3, <3>1
    <3> HIDE DEF j
    <3>3. owed[i] = sa[j] /\ owed[i-1] = sa[j-1]
      BY <1>7, <3>1
    <3> QED
      BY <1>2, <3>1, <3>2, <3>3
  <2> QED
    BY <1>3, <2>1, <2>2
<1>10. owed[0] = m + n /\ owed[k+l] = 0
  <2>1. l \in 0..l
    BY <1>3
  <2> QED
    BY <1>1, <1>2, <1>4, <1>7, <1>8, <2>1
<1>11. Owes(q, m + n)
  BY <1>3, <1>6, <1>9, <1>10 DEF Owes
<1> QED
  BY <1>3, <1>4, <1>11 DEF q

\* What is left behind the first task is worth what the first is not.
LEMMA OwesRest ==
  ASSUME NEW s \in Seq(Tasks), s # <<>>, NEW n, Owes(s, n)
  PROVE  \E m \in Nat : Owes(Tail(s), m) /\ n = Due(s[1]) + m
<1> DEFINE l == Len(s) - 1
           r == Tail(s)
<1>1. /\ l \in Nat /\ Len(s) = l + 1 /\ Len(r) = l
      /\ \A i \in 1..l : r[i] = s[i+1]
  OBVIOUS
<1>2. PICK sa \in [0..l+1 -> Nat] :
        sa[l+1] = 0 /\ (\A i \in 1..l+1 : sa[i-1] = Due(s[i]) + sa[i]) /\ n = sa[0]
  BY <1>1 DEF Owes
<1> HIDE DEF l, r
<1> DEFINE owed == [i \in 0..l |-> sa[i+1]]
<1>3. \A i \in 0..l : i + 1 \in 0..l+1
  BY <1>1
<1>4. owed \in [0..l -> Nat] /\ \A i \in 0..l : owed[i] = sa[i+1]
  BY <1>3
<1> HIDE DEF owed
<1>5. ASSUME NEW i \in 1..l PROVE owed[i-1] = Due(r[i]) + owed[i]
  <2>1. i \in 0..l /\ i - 1 \in 0..l /\ i + 1 \in 1..l+1 /\ i - 1 + 1 = i /\ i + 1 - 1 = i
    BY <1>1
  <2>2. owed[i] = sa[i+1] /\ owed[i-1] = sa[i] /\ r[i] = s[i+1]
    BY <1>1, <1>4, <2>1
  <2> QED
    BY <1>2, <2>1, <2>2
<1>6. 0 \in 0..l /\ l \in 0..l /\ 1 \in 1..l+1 /\ 0 + 1 = 1 /\ 1 - 1 = 0
  BY <1>1
<1>7. owed[l] = 0 /\ owed[0] \in Nat /\ n = Due(s[1]) + owed[0]
  BY <1>2, <1>4, <1>6
<1>8. Owes(r, owed[0])
  BY <1>1, <1>4, <1>5, <1>7 DEF Owes
<1> QED
  BY <1>7, <1>8 DEF r

-----------------------------------------------------------------------------
(* What is written before anything else is done: one item of the format.    *)

\* The bytes of some writes in a row, four at most.
WriteLists == {s \in Seq(Writes) : Len(s) <= 4}
Nth(ws, i) == IF i \in 1..Len(ws) THEN ws[i].bytes ELSE <<>>
Text(ws)   == Nth(ws, 1) \o (Nth(ws, 2) \o (Nth(ws, 3) \o Nth(ws, 4)))

\* They are one whole item, which opens k values.
Heads(ws, k) == ws \in WriteLists /\ W!IsWhole(Text(ws), k)

\* The format is about the bytes that the buffer has.
LEMMA SameBytes == W!Byte = Byte
BY DEF W!Byte, Byte

\* Nothing in front of a list or behind it.
LEMMA EmptyEnds ==
  ASSUME NEW S, NEW s \in Seq(S)
  PROVE  s \o <<>> = s /\ <<>> \o s = s
BY ConcatEmptySeq

\* Four writes at most.
LEMMA WriteListIs == \A ws : ws \in WriteLists <=> ws \in Seq(Writes) /\ Len(ws) <= 4
BY Zenon DEF WriteLists

\* What writes have in them, one by one.
LEMMA NthType ==
  ASSUME NEW ws \in WriteLists
  PROVE  /\ \A i \in Nat : Nth(ws, i) \in Seq(Byte)
         /\ Text(ws) \in Seq(Byte)
<1>1. ASSUME NEW i \in Nat PROVE Nth(ws, i) \in Seq(Byte)
  <2>1. CASE i \in 1..Len(ws)
    <3>1. ws[i] \in Writes
      BY <2>1, ElementOfSeq DEF WriteLists
    <3> QED
      BY <2>1, <3>1, WriteCases DEF Nth
  <2>2. CASE i \notin 1..Len(ws)
    BY <2>2 DEF Nth
  <2> QED
    BY <2>1, <2>2
<1>2. /\ Nth(ws, 1) \in Seq(Byte) /\ Nth(ws, 2) \in Seq(Byte)
      /\ Nth(ws, 3) \in Seq(Byte) /\ Nth(ws, 4) \in Seq(Byte)
  BY <1>1
<1>3. Nth(ws, 3) \o Nth(ws, 4) \in Seq(Byte)
  BY <1>2, Concatenation
<1>4. Nth(ws, 2) \o (Nth(ws, 3) \o Nth(ws, 4)) \in Seq(Byte)
  BY <1>2, <1>3, Concatenation
<1>5. Text(ws) \in Seq(Byte)
  BY <1>2, <1>4, Concatenation DEF Text
<1> QED
  BY <1>1, <1>5

\* Writes in a row are written one behind the other.
LEMMA TextOf ==
  /\ \A b \in Seq(Byte) : <<Bytes(b)>> \in WriteLists /\ Text(<<Bytes(b)>>) = b
  /\ \A b \in Seq(Byte), c \in Seq(Byte) :
       <<Bytes(b), Bytes(c)>> \in WriteLists /\ Text(<<Bytes(b), Bytes(c)>>) = b \o c
  /\ \A b \in Seq(Byte), c \in Seq(Byte), d \in Seq(Byte) :
       /\ <<Bytes(b), Bytes(c), Bytes(d)>> \in WriteLists
       /\ Text(<<Bytes(b), Bytes(c), Bytes(d)>>) = b \o (c \o d)
<1>1. \A b \in Seq(Byte) : Bytes(b) \in Writes /\ Bytes(b).bytes = b
  BY DEF Writes, Bytes
<1>2. <<>> \o <<>> = <<>> /\ \A s \in Seq(Byte) : s \o <<>> = s
  BY EmptyEnds, EmptySeq
<1>3. ASSUME NEW b \in Seq(Byte)
      PROVE  <<Bytes(b)>> \in WriteLists /\ Text(<<Bytes(b)>>) = b
  <2> DEFINE x1 == Bytes(b)
  <2>1. x1 \in Writes /\ x1.bytes = b
    BY <1>1
  <2> HIDE DEF x1
  <2> DEFINE ws == <<x1>>
  <2>2. ws \in Seq(Writes) /\ Len(ws) = 1 /\ Len(ws) <= 4 /\ ws[1] = x1
    BY <2>1
  <2> HIDE DEF ws
  <2>3. Nth(ws, 1) = b /\ Nth(ws, 2) = <<>> /\ Nth(ws, 3) = <<>> /\ Nth(ws, 4) = <<>>
    BY <2>1, <2>2 DEF Nth
  <2>4. Text(ws) = b
    BY <1>2, <2>3 DEF Text
  <2>5. ws \in WriteLists
    BY <2>2, WriteListIs
  <2> QED
    BY <2>4, <2>5 DEF ws, x1
<1>4. ASSUME NEW b \in Seq(Byte), NEW c \in Seq(Byte)
      PROVE  <<Bytes(b), Bytes(c)>> \in WriteLists /\ Text(<<Bytes(b), Bytes(c)>>) = b \o c
  <2> DEFINE x1 == Bytes(b)  x2 == Bytes(c)
  <2>1. x1 \in Writes /\ x1.bytes = b /\ x2 \in Writes /\ x2.bytes = c
    BY <1>1
  <2> HIDE DEF x1, x2
  <2> DEFINE ws == <<x1, x2>>
  <2>2. ws \in Seq(Writes) /\ Len(ws) = 2 /\ Len(ws) <= 4 /\ ws[1] = x1 /\ ws[2] = x2
    BY <2>1
  <2> HIDE DEF ws
  <2>3. Nth(ws, 1) = b /\ Nth(ws, 2) = c /\ Nth(ws, 3) = <<>> /\ Nth(ws, 4) = <<>>
    BY <2>1, <2>2 DEF Nth
  <2>4. Text(ws) = b \o c
    BY <1>2, <2>3 DEF Text
  <2>5. ws \in WriteLists
    BY <2>2, WriteListIs
  <2> QED
    BY <2>4, <2>5 DEF ws, x1, x2
<1>5. ASSUME NEW b \in Seq(Byte), NEW c \in Seq(Byte), NEW d \in Seq(Byte)
      PROVE  /\ <<Bytes(b), Bytes(c), Bytes(d)>> \in WriteLists
             /\ Text(<<Bytes(b), Bytes(c), Bytes(d)>>) = b \o (c \o d)
  <2> DEFINE x1 == Bytes(b)  x2 == Bytes(c)  x3 == Bytes(d)
  <2>1. x1 \in Writes /\ x1.bytes = b /\ x2 \in Writes /\ x2.bytes = c
        /\ x3 \in Writes /\ x3.bytes = d
    BY <1>1
  <2> HIDE DEF x1, x2, x3
  <2> DEFINE ws == <<x1, x2, x3>>
  <2>2. ws \in Seq(Writes) /\ Len(ws) = 3 /\ Len(ws) <= 4 /\ ws[1] = x1 /\ ws[2] = x2 /\ ws[3] = x3
    BY <2>1
  <2> HIDE DEF ws
  <2>3. Nth(ws, 1) = b /\ Nth(ws, 2) = c /\ Nth(ws, 3) = d /\ Nth(ws, 4) = <<>>
    BY <2>1, <2>2 DEF Nth
  <2>4. Text(ws) = b \o (c \o d)
    BY <1>2, <2>3 DEF Text
  <2>5. ws \in WriteLists
    BY <2>2, WriteListIs
  <2> QED
    BY <2>4, <2>5 DEF ws, x1, x2, x3
<1> QED
  BY <1>3, <1>4, <1>5

\* Writes whose bytes are one whole item.
LEMMA HeadsOf ==
  ASSUME NEW k
  PROVE  /\ \A b \in Seq(Byte) : W!IsWhole(b, k) => Heads(<<Bytes(b)>>, k)
         /\ \A b, c \in Seq(Byte) : W!IsWhole(b \o c, k) => Heads(<<Bytes(b), Bytes(c)>>, k)
         /\ \A b, c, d \in Seq(Byte) :
              W!IsWhole(b \o (c \o d), k) => Heads(<<Bytes(b), Bytes(c), Bytes(d)>>, k)
         /\ \A b, c, d, e \in Seq(Byte) :
              W!IsWhole(b \o (c \o (d \o e)), k)
                => Heads(<<Bytes(b), Bytes(c), Bytes(d), Bytes(e)>>, k)
<1>1. ASSUME NEW b \in Seq(Byte), W!IsWhole(b, k) PROVE Heads(<<Bytes(b)>>, k)
  <2>1. <<Bytes(b)>> \in WriteLists /\ Text(<<Bytes(b)>>) = b
    BY TextOf
  <2> QED
    BY <1>1, <2>1 DEF Heads
<1>2. ASSUME NEW b \in Seq(Byte), NEW c \in Seq(Byte), W!IsWhole(b \o c, k)
      PROVE  Heads(<<Bytes(b), Bytes(c)>>, k)
  <2>1. <<Bytes(b), Bytes(c)>> \in WriteLists /\ Text(<<Bytes(b), Bytes(c)>>) = b \o c
    BY TextOf
  <2> QED
    BY <1>2, <2>1 DEF Heads
<1>3. ASSUME NEW b \in Seq(Byte), NEW c \in Seq(Byte), NEW d \in Seq(Byte),
             W!IsWhole(b \o (c \o d), k)
      PROVE  Heads(<<Bytes(b), Bytes(c), Bytes(d)>>, k)
  <2>1. /\ <<Bytes(b), Bytes(c), Bytes(d)>> \in WriteLists
        /\ Text(<<Bytes(b), Bytes(c), Bytes(d)>>) = b \o (c \o d)
    BY TextOf
  <2> QED
    BY <1>3, <2>1 DEF Heads
<1>4. ASSUME NEW b \in Seq(Byte), NEW c \in Seq(Byte), NEW d \in Seq(Byte), NEW e \in Seq(Byte),
             W!IsWhole(b \o (c \o (d \o e)), k)
      PROVE  Heads(<<Bytes(b), Bytes(c), Bytes(d), Bytes(e)>>, k)
  <2> DEFINE x1 == Bytes(b)  x2 == Bytes(c)  x3 == Bytes(d)  x4 == Bytes(e)
  <2>1. /\ x1 \in Writes /\ x1.bytes = b /\ x2 \in Writes /\ x2.bytes = c
        /\ x3 \in Writes /\ x3.bytes = d /\ x4 \in Writes /\ x4.bytes = e
    BY DEF Writes, Bytes
  <2> HIDE DEF x1, x2, x3, x4
  <2> DEFINE ws == <<x1, x2, x3, x4>>
  <2>2. /\ ws \in Seq(Writes) /\ Len(ws) = 4 /\ Len(ws) <= 4
        /\ ws[1] = x1 /\ ws[2] = x2 /\ ws[3] = x3 /\ ws[4] = x4
    BY <2>1
  <2> HIDE DEF ws
  <2>3. Nth(ws, 1) = b /\ Nth(ws, 2) = c /\ Nth(ws, 3) = d /\ Nth(ws, 4) = e
    BY <2>1, <2>2 DEF Nth
  <2>4. Text(ws) = b \o (c \o (d \o e))
    BY <2>3 DEF Text
  <2>5. ws \in WriteLists
    BY <2>2, WriteListIs
  <2>6. Heads(ws, k)
    BY <1>4, <2>4, <2>5 DEF Heads
  <2> QED
    BY <2>6 DEF ws, x1, x2, x3, x4
<1> QED
  BY <1>1, <1>2, <1>3, <1>4

\* The first of a list and the others.
LEMMA FirstOf ==
  ASSUME NEW S, NEW s \in Seq(S), s # <<>> PROVE s[1] \in S /\ Tail(s) \in Seq(S)
OBVIOUS

\* The first of some writes, and the others.
LEMMA TextRest ==
  ASSUME NEW ws \in WriteLists, ws # <<>>
  PROVE  /\ ws[1] \in Writes /\ Tail(ws) \in WriteLists
         /\ Text(ws) = ws[1].bytes \o Text(Tail(ws))
<1> DEFINE r == Tail(ws)
<1>1. ws \in Seq(Writes) /\ Len(ws) <= 4
  BY WriteListIs
<1>2. /\ Len(ws) \in 1..4 /\ ws[1] \in Writes
      /\ r \in Seq(Writes) /\ Len(r) = Len(ws) - 1
      /\ \A i \in 1..Len(r) : r[i] = ws[i+1]
  <2>1. Len(ws) \in Nat /\ Len(ws) # 0
    BY <1>1, EmptySeq
  <2> DEFINE n == Len(ws)
  <2>2. n \in Nat /\ n # 0 /\ n <= 4
    BY <1>1, <2>1
  <2> HIDE DEF n
  <2>5. n \in 1..4
    BY <2>2
  <2>3. ws[1] \in Writes /\ r \in Seq(Writes)
    BY <1>1, FirstOf
  <2>4. Len(r) = Len(ws) - 1 /\ \A i \in 1..Len(r) : r[i] = ws[i+1]
    BY <1>1, <2>1
  <2> QED
    BY <2>3, <2>4, <2>5 DEF n
<1> HIDE DEF r
<1>3. r \in WriteLists
  <2>1. Len(r) <= 4
    BY <1>2
  <2> QED
    BY <1>2, <2>1, WriteListIs
<1>4. ASSUME NEW i \in 1..4 PROVE Nth(r, i) = Nth(ws, i + 1)
  <2>1. i \in 1..Len(r) <=> i + 1 \in 1..Len(ws)
    BY <1>2
  <2> QED
    BY <1>2, <2>1 DEF Nth
<1>5. /\ Nth(r, 1) = Nth(ws, 2) /\ Nth(r, 2) = Nth(ws, 3) /\ Nth(r, 3) = Nth(ws, 4)
      /\ Nth(r, 4) = Nth(ws, 5)
  BY <1>4
<1>6. Nth(ws, 5) = <<>> /\ Nth(ws, 1) = ws[1].bytes
  BY <1>2 DEF Nth
<1>7. Nth(ws, 4) \o <<>> = Nth(ws, 4)
  BY NthType, EmptyEnds
<1> QED
  BY <1>2, <1>3, <1>5, <1>6, <1>7 DEF Text, r

\* A number, nil or a bool: the format byte, and a payload of its width.
LEMMA ScalarWrites ==
  ASSUME NEW f \in Byte, NEW s \in Seq(Byte), W!Kind(f) = "scalar", Len(s) = W!ScalarWidth(f)
  PROVE  /\ Heads(<<Bytes(<<f>>), Bytes(s)>>, 0)
         /\ s = <<>> => Heads(<<Bytes(<<f>>)>>, 0)
<1> DEFINE b == <<f>> \o s
<1>1. <<f>> \in Seq(Byte) /\ b \in Seq(Byte) /\ b # <<>> /\ b[1] = f /\ Len(b) = 1 + Len(s)
  OBVIOUS
<1>2. s = <<>> => b = <<f>>
  BY <1>1, EmptyEnds
<1> HIDE DEF b
<1>3. W!IsWhole(b, 0)
  BY <1>1, SameBytes, W!ScalarIsWhole
<1>4. /\ <<Bytes(<<f>>), Bytes(s)>> \in WriteLists /\ Text(<<Bytes(<<f>>), Bytes(s)>>) = b
      /\ <<Bytes(<<f>>)>> \in WriteLists /\ Text(<<Bytes(<<f>>)>>) = <<f>>
  BY <1>1, TextOf DEF b
<1> QED
  BY <1>2, <1>3, <1>4 DEF Heads

\* Anything else: the format byte, what says the length, and what has that length.
LEMMA SizedWrites ==
  ASSUME NEW f \in Byte, NEW h \in Seq(Byte), NEW n \in Nat, NEW s \in Seq(Byte),
         W!SaysLength(f, h, n), W!Kind(f) \in {"str", "bin", "ext", "array", "map"},
         Len(s) = IF W!Kind(f) \in {"str", "bin"} THEN n
                  ELSE IF W!Kind(f) = "ext" THEN 1 + n ELSE 0,
         NEW k, k = IF W!Kind(f) = "array" THEN n ELSE IF W!Kind(f) = "map" THEN 2 * n ELSE 0
  PROVE  /\ Heads(<<Bytes(<<f>>), Bytes(h), Bytes(s)>>, k)
         /\ Heads(<<Bytes(<<f>> \o (h \o s))>>, k)
         /\ h = <<>> => Heads(<<Bytes(<<f>>), Bytes(s)>>, k)
         /\ s = <<>> => Heads(<<Bytes(<<f>>), Bytes(h)>>, k)
         /\ h = <<>> /\ s = <<>> => Heads(<<Bytes(<<f>>)>>, k)
         /\ \A u, v \in Seq(Byte) : s = u \o v =>
              /\ Heads(<<Bytes(<<f>>), Bytes(h), Bytes(u), Bytes(v)>>, k)
              /\ h = <<>> => Heads(<<Bytes(<<f>>), Bytes(u), Bytes(v)>>, k)
<1> DEFINE g == <<f>>
           b == g \o (h \o s)
           x == Bytes(g)
<1>1. g \in Seq(Byte) /\ h \o s \in Seq(Byte) /\ b \in Seq(Byte)
  BY Concatenation
<1>2. W!IsWhole(b, k)
  BY SameBytes, W!SizedIsWhole
<1> HIDE DEF g
<1>3. /\ h = <<>> => h \o s = s
      /\ s = <<>> => h \o s = h
      /\ g \o <<>> = g
  BY <1>1, EmptyEnds
<1>4. ASSUME NEW u \in Seq(Byte), NEW v \in Seq(Byte), s = u \o v
      PROVE  /\ Heads(<<x, Bytes(h), Bytes(u), Bytes(v)>>, k)
             /\ h = <<>> => Heads(<<x, Bytes(u), Bytes(v)>>, k)
  <2>1. W!IsWhole(g \o (h \o (u \o v)), k) /\ (h = <<>> => W!IsWhole(g \o (u \o v), k))
    BY <1>2, <1>3, <1>4
  <2> QED
    BY <1>1, <2>1, HeadsOf, Zenon
<1>5. /\ W!IsWhole(g \o (h \o s), k)
      /\ h = <<>> => W!IsWhole(g \o s, k)
      /\ s = <<>> => W!IsWhole(g \o h, k)
      /\ h = <<>> /\ s = <<>> => W!IsWhole(g, k)
  BY <1>2, <1>3
<1>6. /\ Heads(<<x, Bytes(h), Bytes(s)>>, k) /\ Heads(<<Bytes(b)>>, k)
      /\ h = <<>> => Heads(<<x, Bytes(s)>>, k)
      /\ s = <<>> => Heads(<<x, Bytes(h)>>, k)
      /\ h = <<>> /\ s = <<>> => Heads(<<x>>, k)
  BY <1>1, <1>5, HeadsOf, Zenon
<1> QED
  BY <1>4, <1>6 DEF g

\* A header: it opens the values it counts.
LEMMA HeaderWrites ==
  ASSUME NEW f \in Byte, NEW h \in Seq(Byte), NEW n \in Nat, W!SaysLength(f, h, n)
  PROVE  /\ W!Kind(f) = "array" => Heads(<<Bytes(<<f>>), Bytes(h)>>, n)
         /\ W!Kind(f) = "array" /\ h = <<>> => Heads(<<Bytes(<<f>>)>>, n)
         /\ W!Kind(f) = "map" => Heads(<<Bytes(<<f>>), Bytes(h)>>, 2 * n)
         /\ W!Kind(f) = "map" /\ h = <<>> => Heads(<<Bytes(<<f>>)>>, 2 * n)
<1> DEFINE none  == <<>>
           opens == IF W!Kind(f) = "array" THEN n ELSE IF W!Kind(f) = "map" THEN 2 * n ELSE 0
<1>1. none \in Seq(Byte) /\ Len(none) = 0 /\ none = <<>>
  OBVIOUS
<1> HIDE DEF none
<1>2. ASSUME W!Kind(f) \in {"array", "map"}
      PROVE  /\ Heads(<<Bytes(<<f>>), Bytes(h)>>, opens)
             /\ h = <<>> => Heads(<<Bytes(<<f>>)>>, opens)
  <2>1. /\ W!Kind(f) \in {"str", "bin", "ext", "array", "map"}
        /\ opens = IF W!Kind(f) = "array" THEN n ELSE IF W!Kind(f) = "map" THEN 2 * n ELSE 0
        /\ Len(none) = IF W!Kind(f) \in {"str", "bin"} THEN n
                    ELSE IF W!Kind(f) = "ext" THEN 1 + n ELSE 0
    BY <1>1, <1>2
  <2> DEFINE g == <<f>>
  <2>2. g \in Seq(Byte) /\ h \o none \in Seq(Byte)
    BY <1>1
  <2>3. W!IsWhole(g \o (h \o none), opens)
    BY <1>1, <2>1, SameBytes, W!SizedIsWhole
  <2>4. h \o none = h /\ g \o <<>> = g
    BY <1>1, <2>2, EmptyEnds
  <2> HIDE DEF opens, g
  <2>5. W!IsWhole(g \o h, opens) /\ (h = <<>> => W!IsWhole(g, opens))
    BY <2>3, <2>4
  <2>6. Heads(<<Bytes(g), Bytes(h)>>, opens) /\ (h = <<>> => Heads(<<Bytes(g)>>, opens))
    BY <2>2, <2>5, HeadsOf, Zenon
  <2> QED
    BY <2>6 DEF g
<1> QED
  BY <1>2

\* Numbers of 16 bits have two bytes, those up to 255 one.
LEMMA ByteFacts ==
  /\ \A n \in Nat : n <= 255 => n \in Byte /\ <<n>> \in Seq(Byte)
  /\ \A n \in Nat : n <= Max16 => BigEndian16(n) \in Seq(Byte) /\ Len(BigEndian16(n)) = 2
<1>1. ASSUME NEW n \in Nat, n <= 255 PROVE n \in Byte /\ <<n>> \in Seq(Byte)
  <2>1. n \in Byte
    BY <1>1 DEF Byte
  <2> QED
    BY <2>1
<1>2. ASSUME NEW n \in Nat, n <= Max16
      PROVE  BigEndian16(n) \in Seq(Byte) /\ Len(BigEndian16(n)) = 2
  <2>1. n \div 256 \in Byte /\ n % 256 \in Byte
    BY <1>2, SMT DEF Max16, Byte
  <2> QED
    BY <2>1 DEF BigEndian16
<1> QED
  BY <1>1, <1>2

\* The formats of numbers, nil and bools ...
LEMMA ScalarFormats ==
  ASSUME NEW f \in Byte
  PROVE  /\ f <= 127 \/ f >= 224 \/ f \in {192, 194, 195} \cup 202..211 => W!Kind(f) = "scalar"
         /\ f <= 127 \/ f >= 224 \/ f \in {192, 194, 195} => W!ScalarWidth(f) = 0
         /\ f \in {204, 208} => W!ScalarWidth(f) = 1
         /\ f \in {205, 209} => W!ScalarWidth(f) = 2
         /\ f = 202 => W!ScalarWidth(f) = 4
         /\ f = 203 => W!ScalarWidth(f) = 8
<1>1. f \in W!Byte /\ f \in Nat
  BY SameBytes DEF Byte
<1>2. f <= 127 \/ f >= 224 \/ f \in {192, 194, 195} \cup 202..211 => W!Kind(f) = "scalar"
  BY <1>1, W!KindOf
<1> QED
  BY <1>1, <1>2 DEF W!ScalarWidth

\* ... and those of everything that has a length.
LEMMA SizedFormats ==
  ASSUME NEW f \in Byte
  PROVE  /\ f \in 128..143 \cup {222} => W!Kind(f) = "map"
         /\ f \in 144..159 \cup {220} => W!Kind(f) = "array"
         /\ f \in 160..191 \cup {217, 218} => W!Kind(f) = "str"
         /\ f \in {196, 197} => W!Kind(f) = "bin"
         /\ f \in {199, 200} \cup 212..216 => W!Kind(f) = "ext"
         /\ f \in 128..191 \cup 212..216 => W!LenWidth(f) = 0
         /\ f \in {196, 199, 217} => W!LenWidth(f) = 1
         /\ f \in {197, 200, 218, 220, 222} => W!LenWidth(f) = 2
         /\ f \in 128..143 => W!FixLen(f) = f - 128
         /\ f \in 144..159 => W!FixLen(f) = f - 144
         /\ f \in 160..191 => W!FixLen(f) = f - 160
         /\ f \in 212..216 => W!FixLen(f) = W!FixExtLen[f - 211]
<1>1. f \in W!Byte /\ f \in Nat
  BY SameBytes DEF Byte
<1>2. /\ f \in 128..143 \cup {222} => W!Kind(f) = "map"
      /\ f \in 144..159 \cup {220} => W!Kind(f) = "array"
      /\ f \in 160..191 \cup {217, 218} => W!Kind(f) = "str"
      /\ f \in {196, 197} => W!Kind(f) = "bin"
      /\ f \in {199, 200} \cup 212..216 => W!Kind(f) = "ext"
  BY <1>1, W!KindOf
<1>3. /\ f \in 128..191 \cup 212..216 => W!LenWidth(f) = 0
      /\ f \in {196, 199, 217} => W!LenWidth(f) = 1
      /\ f \in {197, 200, 218, 220, 222} => W!LenWidth(f) = 2
  BY <1>1 DEF W!LenWidth
<1>4. /\ W!isFixmap(f)   <=> 128 <= f /\ f <= 143
      /\ W!isFixarray(f) <=> 144 <= f /\ f <= 159
      /\ W!isFixstr(f)   <=> 160 <= f /\ f <= 191
  BY <1>1, W!Ranges
<1>5. f \in 128..143 => W!FixLen(f) = f - 128
  BY <1>1, <1>4 DEF W!FixLen
<1>6. f \in 144..159 => W!FixLen(f) = f - 144
  BY <1>1, <1>4 DEF W!FixLen
<1>7. f \in 160..191 => W!FixLen(f) = f - 160
  BY <1>1, <1>4 DEF W!FixLen
<1>8. f \in 212..216 => W!FixLen(f) = W!FixExtLen[f - 211]
  BY <1>1, <1>4 DEF W!FixLen, W!FixExt
<1> QED
  BY <1>2, <1>3, <1>5, <1>6, <1>7, <1>8

\* EncodeUint, EncodeInt: a format byte and the bytes of the number.
LEMMA UintHeads ==
  ASSUME NEW n \in Nat, n <= Max16 PROVE Heads(EncodeUint(n), 0)
<1>1. CASE n <= 127
  <2>1. n \in Byte /\ W!Kind(n) = "scalar" /\ W!ScalarWidth(n) = 0
    BY <1>1, ByteFacts, ScalarFormats
  <2>2. <<>> \in Seq(Byte) /\ Len(<<>>) = 0
    OBVIOUS
  <2>3. Heads(<<Bytes(<<n>>)>>, 0)
    BY <2>1, <2>2, ScalarWrites
  <2> QED
    BY <1>1, <2>3 DEF EncodeUint
<1>2. CASE 127 < n /\ n <= 255
  <2>1. 204 \in Byte /\ W!Kind(204) = "scalar" /\ W!ScalarWidth(204) = 1
    BY ByteFacts, ScalarFormats
  <2>2. <<n>> \in Seq(Byte) /\ Len(<<n>>) = 1
    BY <1>2, ByteFacts
  <2>3. Heads(<<Bytes(<<204>>), Bytes(<<n>>)>>, 0)
    BY <2>1, <2>2, ScalarWrites
  <2> QED
    BY <1>2, <2>3 DEF EncodeUint
<1>3. CASE 255 < n
  <2>1. 205 \in Byte /\ W!Kind(205) = "scalar" /\ W!ScalarWidth(205) = 2
    BY ByteFacts, ScalarFormats
  <2>2. BigEndian16(n) \in Seq(Byte) /\ Len(BigEndian16(n)) = 2
    BY <1>3, ByteFacts
  <2>3. Heads(<<Bytes(<<205>>), Bytes(BigEndian16(n))>>, 0)
    BY <2>1, <2>2, ScalarWrites
  <2> QED
    BY <1>3, <2>3 DEF EncodeUint
<1> QED
  BY <1>1, <1>2, <1>3

\* The same of numbers that may be negative.
LEMMA IntHeads ==
  ASSUME NEW n \in Int, Min16 <= n, n <= Max16 PROVE Heads(EncodeInt(n), 0)
<1>1. CASE n >= 0
  <2>1. EncodeInt(n) = EncodeUint(n) /\ n \in Nat
    BY <1>1 DEF EncodeInt
  <2> QED
    BY <2>1, UintHeads
<1>2. CASE n < 0 /\ n >= -32
  <2>1. 256 + n \in Nat /\ 256 + n <= 255 /\ 256 + n >= 224
    BY <1>2
  <2>2. 256 + n \in Byte /\ W!Kind(256 + n) = "scalar" /\ W!ScalarWidth(256 + n) = 0
    BY <2>1, ByteFacts, ScalarFormats
  <2>3. <<>> \in Seq(Byte) /\ Len(<<>>) = 0
    OBVIOUS
  <2>4. Heads(<<Bytes(<<256 + n>>)>>, 0)
    BY <2>2, <2>3, ScalarWrites
  <2> QED
    BY <1>2, <2>4 DEF EncodeInt
<1>3. CASE n < -32 /\ n >= -128
  <2>1. 208 \in Byte /\ W!Kind(208) = "scalar" /\ W!ScalarWidth(208) = 1
    BY ByteFacts, ScalarFormats
  <2>2. 256 + n \in Nat /\ 256 + n <= 255
    BY <1>3
  <2>3. <<256 + n>> \in Seq(Byte) /\ Len(<<256 + n>>) = 1
    BY <2>2, ByteFacts
  <2>4. Heads(<<Bytes(<<208>>), Bytes(<<256 + n>>)>>, 0)
    BY <2>1, <2>3, ScalarWrites
  <2> QED
    BY <1>3, <2>4 DEF EncodeInt
<1>4. CASE n < -128
  <2> DEFINE m == 65536 + n
  <2>1. 209 \in Byte /\ W!Kind(209) = "scalar" /\ W!ScalarWidth(209) = 2
    BY ByteFacts, ScalarFormats
  <2>2. EncodeInt(n) = <<Bytes(<<209>>), Bytes(BigEndian16(m))>>
    BY <1>4 DEF EncodeInt
  <2>3. m \in Nat /\ m <= Max16
    BY <1>4 DEF Min16, Max16
  <2> HIDE DEF m
  <2>4. BigEndian16(m) \in Seq(Byte) /\ Len(BigEndian16(m)) = 2
    BY <2>3, ByteFacts
  <2>5. Heads(<<Bytes(<<209>>), Bytes(BigEndian16(m))>>, 0)
    BY <2>1, <2>4, ScalarWrites
  <2> QED
    BY <2>2, <2>5
<1> QED
  BY <1>1, <1>2, <1>3, <1>4

\* EncodeString: a length and what has that length; in one write or more.
LEMMA StringHeads ==
  ASSUME NEW s, IsShort(s)
  PROVE  Heads(EncodeString(s), 0) /\ Heads(preEncodeString(s), 0)
<1> DEFINE n == Len(s)
<1>1. s \in Seq(Byte) /\ n \in Nat /\ n <= Max16
  BY SMT DEF IsShort
<1>2. /\ n <= 31 => /\ EncodeString(s) = <<Bytes(<<160 + n>>), Bytes(s)>>
                    /\ preEncodeString(s) = <<Bytes(<<160 + n>> \o s)>>
      /\ 31 < n /\ n <= 255 => /\ EncodeString(s) = <<Bytes(<<217>>), Bytes(<<n>>), Bytes(s)>>
                               /\ preEncodeString(s) = <<Bytes(<<217, n>> \o s)>>
      /\ 255 < n => /\ EncodeString(s) = <<Bytes(<<218>>), Bytes(BigEndian16(n)), Bytes(s)>>
                    /\ preEncodeString(s) = <<Bytes((<<218>> \o BigEndian16(n)) \o s)>>
  BY <1>1 DEF EncodeString, preEncodeString
<1> HIDE DEF n
<1>3. CASE n <= 31
  <2> DEFINE f == 160 + n
             h == <<>>
  <2>1. f \in 160..191 /\ f \in Byte /\ f - 160 = n
    BY <1>1, <1>3 DEF Byte
  <2>2. EncodeString(s) = <<Bytes(<<f>>), Bytes(s)>> /\ preEncodeString(s) = <<Bytes(<<f>> \o s)>>
    BY <1>2, <1>3
  <2> HIDE DEF f
  <2>3. W!Kind(f) = "str" /\ W!LenWidth(f) = 0 /\ W!FixLen(f) = n
    BY <2>1, SizedFormats
  <2>4. h \in Seq(Byte) /\ W!SaysLength(f, h, n) /\ h \o s = s
    BY <1>1, <2>3, EmptyEnds DEF W!SaysLength
  <2>5. Len(s) = n
    BY DEF n
  <2>6. Heads(<<Bytes(<<f>>), Bytes(s)>>, 0) /\ Heads(<<Bytes(<<f>> \o (h \o s))>>, 0)
    BY <1>1, <2>1, <2>3, <2>4, <2>5, SizedWrites
  <2> QED
    BY <2>2, <2>4, <2>6
<1>4. CASE 31 < n /\ n <= 255
  <2> DEFINE h == <<n>>
             f == 217
             g == <<f>>
  <2>1. f \in Byte /\ h \in Seq(Byte)
    BY <1>1, <1>4, ByteFacts
  <2>2. W!Kind(f) = "str" /\ W!LenWidth(f) = 1
    BY <2>1, SizedFormats
  <2>3. W!SaysLength(f, h, n) /\ Len(s) = n
    BY <2>2 DEF W!SaysLength, n
  <2>4. <<217, n>> = g \o h
    OBVIOUS
  <2>5. /\ EncodeString(s) = <<Bytes(g), Bytes(h), Bytes(s)>>
        /\ preEncodeString(s) = <<Bytes((g \o h) \o s)>>
    BY <1>2, <1>4, <2>4
  <2> HIDE DEF h, f
  <2>6. Heads(<<Bytes(g), Bytes(h), Bytes(s)>>, 0) /\ Heads(<<Bytes(g \o (h \o s))>>, 0)
    BY <1>1, <2>1, <2>2, <2>3, SizedWrites
  <2>7. g \in Seq(Byte)
    BY <2>1
  <2>8. (g \o h) \o s = g \o (h \o s)
    BY <1>1, <2>1, <2>7, ConcatAssociative
  <2> QED
    BY <2>5, <2>6, <2>8
<1>5. CASE 255 < n
  <2> DEFINE h == BigEndian16(n)
             f == 218
             g == <<f>>
  <2>1. f \in Byte /\ h \in Seq(Byte)
    BY <1>1, ByteFacts
  <2>2. W!Kind(f) = "str" /\ W!LenWidth(f) = 2
    BY <2>1, SizedFormats
  <2>3. W!SaysLength(f, h, n) /\ Len(s) = n
    BY <2>2 DEF W!SaysLength, BigEndian16, n
  <2>5. /\ EncodeString(s) = <<Bytes(g), Bytes(h), Bytes(s)>>
        /\ preEncodeString(s) = <<Bytes((g \o h) \o s)>>
    BY <1>2, <1>5
  <2> HIDE DEF h, f
  <2>6. Heads(<<Bytes(g), Bytes(h), Bytes(s)>>, 0) /\ Heads(<<Bytes(g \o (h \o s))>>, 0)
    BY <1>1, <2>1, <2>2, <2>3, SizedWrites
  <2>7. g \in Seq(Byte)
    BY <2>1
  <2>8. (g \o h) \o s = g \o (h \o s)
    BY <1>1, <2>1, <2>7, ConcatAssociative
  <2> QED
    BY <2>5, <2>6, <2>8
<1> QED
  BY <1>1, <1>3, <1>4, <1>5

\* EncodeBinary: as a string, without a short header; nil is empty.
LEMMA BinaryHeads ==
  ASSUME NEW b, b = Nil \/ IsShort(b) PROVE Heads(EncodeBinary(b), 0)
<1> DEFINE s == IF b = Nil THEN <<>> ELSE b
           n == Len(s)
<1>1. s \in Seq(Byte) /\ n \in Nat /\ n <= Max16
  <2>1. CASE b = Nil
    BY <2>1, SMT DEF Max16
  <2>2. CASE b # Nil
    BY <2>2, SMT DEF IsShort
  <2> QED
    BY <2>1, <2>2
<1>2. EncodeBinary(b) = IF n <= 255 THEN <<Bytes(<<196>>), Bytes(<<n>>), Bytes(s)>>
                        ELSE <<Bytes(<<197>>), Bytes(BigEndian16(n)), Bytes(s)>>
  BY DEF EncodeBinary
<1>3. Len(s) = n
  OBVIOUS
<1> HIDE DEF n, s
<1>4. CASE n <= 255
  <2> DEFINE f == 196
             h == <<n>>
  <2>1. f \in Byte /\ h \in Seq(Byte)
    BY <1>1, <1>4, ByteFacts
  <2>2. W!Kind(f) = "bin" /\ W!LenWidth(f) = 1
    BY <2>1, SizedFormats
  <2>3. W!SaysLength(f, h, n)
    BY <2>2 DEF W!SaysLength
  <2>4. EncodeBinary(b) = <<Bytes(<<f>>), Bytes(h), Bytes(s)>>
    BY <1>2, <1>4
  <2> HIDE DEF h, f
  <2> QED
    BY <1>1, <1>3, <2>1, <2>2, <2>3, <2>4, SizedWrites
<1>5. CASE 255 < n
  <2> DEFINE f == 197
             h == BigEndian16(n)
  <2>1. f \in Byte /\ h \in Seq(Byte)
    BY <1>1, ByteFacts
  <2>2. W!Kind(f) = "bin" /\ W!LenWidth(f) = 2
    BY <2>1, SizedFormats
  <2>3. W!SaysLength(f, h, n)
    BY <2>2 DEF W!SaysLength, BigEndian16
  <2>4. EncodeBinary(b) = <<Bytes(<<f>>), Bytes(h), Bytes(s)>>
    BY <1>1, <1>2, <1>5
  <2> HIDE DEF h, f
  <2> QED
    BY <1>1, <1>3, <2>1, <2>2, <2>3, <2>4, SizedWrites
<1> QED
  BY <1>1, <1>4, <1>5

\* EncodeArrayHeader, EncodeMapHeader: they open the values they count.
LEMMA HeaderHeads ==
  ASSUME NEW n \in Nat, n <= Max16
  PROVE  Heads(EncodeArrayHeader(n), n) /\ Heads(EncodeMapHeader(n), 2 * n)
<1>1. CASE n <= 15
  <2> DEFINE a == 144 + n
             m == 128 + n
             len == <<>>
  <2>1. /\ a \in 144..159 /\ a \in Byte /\ a - 144 = n
        /\ m \in 128..143 /\ m \in Byte /\ m - 128 = n
        /\ len \in Seq(Byte) /\ len = <<>>
    BY <1>1 DEF Byte
  <2>2. EncodeArrayHeader(n) = <<Bytes(<<a>>)>> /\ EncodeMapHeader(n) = <<Bytes(<<m>>)>>
    BY <1>1 DEF EncodeArrayHeader, EncodeMapHeader
  <2> HIDE DEF a, m, len
  <2>3. /\ W!Kind(a) = "array" /\ W!LenWidth(a) = 0 /\ W!FixLen(a) = n
        /\ W!Kind(m) = "map" /\ W!LenWidth(m) = 0 /\ W!FixLen(m) = n
    BY <2>1, SizedFormats
  <2>4. W!SaysLength(a, len, n) /\ W!SaysLength(m, len, n)
    BY <2>1, <2>3 DEF W!SaysLength
  <2>5. Heads(<<Bytes(<<a>>)>>, n)
    BY <2>1, <2>3, <2>4, HeaderWrites
  <2>6. Heads(<<Bytes(<<m>>)>>, 2 * n)
    BY <2>1, <2>3, <2>4, HeaderWrites
  <2> QED
    BY <2>2, <2>5, <2>6
<1>2. CASE 15 < n
  <2> DEFINE a == 220
             m == 222
             len == BigEndian16(n)
  <2>1. a \in Byte /\ m \in Byte /\ len \in Seq(Byte)
    BY ByteFacts
  <2>2. /\ W!Kind(a) = "array" /\ W!LenWidth(a) = 2
        /\ W!Kind(m) = "map" /\ W!LenWidth(m) = 2
    BY <2>1, SizedFormats
  <2>3. W!SaysLength(a, len, n) /\ W!SaysLength(m, len, n)
    BY <2>2 DEF W!SaysLength, BigEndian16
  <2>4. /\ EncodeArrayHeader(n) = <<Bytes(<<a>>), Bytes(len)>>
        /\ EncodeMapHeader(n) = <<Bytes(<<m>>), Bytes(len)>>
    BY <1>2 DEF EncodeArrayHeader, EncodeMapHeader
  <2> HIDE DEF len, a, m
  <2>5. Heads(<<Bytes(<<a>>), Bytes(len)>>, n)
    BY <2>1, <2>2, <2>3, HeaderWrites
  <2>6. Heads(<<Bytes(<<m>>), Bytes(len)>>, 2 * n)
    BY <2>1, <2>2, <2>3, HeaderWrites
  <2> QED
    BY <2>4, <2>5, <2>6
<1> QED
  BY <1>1, <1>2

\* Writes in a row are one list.
LEMMA OneAndTwo ==
  ASSUME NEW x \in Writes, NEW y \in Writes, NEW z \in Writes
  PROVE  <<x>> \o <<y, z>> = <<x, y, z>>
<1> DEFINE p == <<x>>
           r == <<y, z>>
           q == <<x, y, z>>
           c == p \o r
<1>1. /\ p \in Seq(Writes) /\ Len(p) = 1 /\ p[1] = x
      /\ r \in Seq(Writes) /\ Len(r) = 2 /\ r[1] = y /\ r[2] = z
      /\ q \in Seq(Writes) /\ Len(q) = 3 /\ q[1] = x /\ q[2] = y /\ q[3] = z
  OBVIOUS
<1> HIDE DEF p, r, q
<1>2. /\ c \in Seq(Writes) /\ Len(c) = Len(p) + Len(r)
      /\ \A i \in 1..Len(p) : c[i] = p[i]
      /\ \A i \in Len(p) + 1 .. Len(p) + Len(r) : c[i] = r[i - Len(p)]
  BY <1>1, Concatenation
<1> HIDE DEF c
<1>3. Len(c) = 3 /\ c[1] = x /\ c[2] = r[2-1] /\ c[3] = r[3-1]
  BY <1>1, <1>2
<1>4. c[2] = y /\ c[3] = z
  BY <1>1, <1>3
<1>5. ASSUME NEW i \in 1..3 PROVE c[i] = q[i]
  <2>1. i = 1 \/ i = 2 \/ i = 3
    OBVIOUS
  <2> QED
    BY <1>1, <1>3, <1>4, <2>1
<1>6. c = q
  BY <1>1, <1>2, <1>3, <1>5, SeqEqual
<1> QED
  BY <1>6 DEF c, p, r, q

\* So are two and two.
LEMMA TwoAndTwo ==
  ASSUME NEW x \in Writes, NEW y \in Writes, NEW z \in Writes, NEW w \in Writes
  PROVE  <<x, y>> \o <<z, w>> = <<x, y, z, w>>
<1> DEFINE p == <<x, y>>
           r == <<z, w>>
           q == <<x, y, z, w>>
           c == p \o r
<1>1. /\ p \in Seq(Writes) /\ Len(p) = 2 /\ p[1] = x /\ p[2] = y
      /\ r \in Seq(Writes) /\ Len(r) = 2 /\ r[1] = z /\ r[2] = w
      /\ q \in Seq(Writes) /\ Len(q) = 4 /\ q[1] = x /\ q[2] = y /\ q[3] = z /\ q[4] = w
  OBVIOUS
<1> HIDE DEF p, r, q
<1>2. /\ c \in Seq(Writes) /\ Len(c) = Len(p) + Len(r)
      /\ \A i \in 1..Len(p) : c[i] = p[i]
      /\ \A i \in Len(p) + 1 .. Len(p) + Len(r) : c[i] = r[i - Len(p)]
  BY <1>1, Concatenation
<1> HIDE DEF c
<1>3. Len(c) = 4 /\ c[1] = x /\ c[2] = y /\ c[3] = r[3-2] /\ c[4] = r[4-2]
  BY <1>1, <1>2
<1>4. c[3] = z /\ c[4] = w
  BY <1>1, <1>3
<1>5. ASSUME NEW i \in 1..4 PROVE c[i] = q[i]
  <2>1. i = 1 \/ i = 2 \/ i = 3 \/ i = 4
    OBVIOUS
  <2> QED
    BY <1>1, <1>3, <1>4, <2>1
<1>6. c = q
  BY <1>1, <1>2, <1>3, <1>5, SeqEqual
<1> QED
  BY <1>6 DEF c, p, r, q

\* EncodeExt: the format or the length, the type and the data.
LEMMA ExtHeads ==
  ASSUME NEW type \in Byte, NEW s \in Seq(Byte), Len(s) <= Max16
  PROVE  Heads(EncodeExt(type, s), 0)
<1> DEFINE n == Len(s)
           u == <<type>>
           both == u \o s
<1>1. n \in Nat /\ n <= Max16 /\ u \in Seq(Byte) /\ both \in Seq(Byte) /\ Len(both) = 1 + n
  OBVIOUS
<1>2. EncodeExt(type, s) = (IF n \in {1, 2, 4, 8, 16} THEN <<Bytes(<<fixExt(n)>>)>>
                            ELSE IF n <= 255 THEN <<Bytes(<<199>>), Bytes(<<n>>)>>
                            ELSE <<Bytes(<<200>>), Bytes(BigEndian16(n))>>)
                           \o <<Bytes(u), Bytes(s)>>
  BY DEF EncodeExt
<1>3. both = u \o s
  OBVIOUS
<1> HIDE DEF n, u, both
<1>4. /\ \A b \in Seq(Byte) : Bytes(b) \in Writes
      /\ Bytes(u) \in Writes /\ Bytes(s) \in Writes
  BY <1>1 DEF Writes
\* What the three have in common.
<1>5. ASSUME NEW f \in Byte, NEW h \in Seq(Byte), W!Kind(f) = "ext", W!SaysLength(f, h, n)
      PROVE  /\ Heads(<<Bytes(<<f>>), Bytes(h), Bytes(u), Bytes(s)>>, 0)
             /\ h = <<>> => Heads(<<Bytes(<<f>>), Bytes(u), Bytes(s)>>, 0)
  <2>1. /\ W!Kind(f) \in {"str", "bin", "ext", "array", "map"}
        /\ Len(both) = IF W!Kind(f) \in {"str", "bin"} THEN n
                       ELSE IF W!Kind(f) = "ext" THEN 1 + n ELSE 0
        /\ 0 = IF W!Kind(f) = "array" THEN n ELSE IF W!Kind(f) = "map" THEN 2 * n ELSE 0
    BY <1>1, <1>5
  <2>2. \A v, w \in Seq(Byte) : both = v \o w =>
          /\ Heads(<<Bytes(<<f>>), Bytes(h), Bytes(v), Bytes(w)>>, 0)
          /\ h = <<>> => Heads(<<Bytes(<<f>>), Bytes(v), Bytes(w)>>, 0)
    BY <1>1, <1>5, <2>1, SizedWrites
  <2> QED
    BY <1>1, <1>3, <2>2
<1>6. CASE n \in {1, 2, 4, 8, 16}
  <2> DEFINE f == fixExt(n)
             h == <<>>
  <2>1. f \in 212..216 /\ f \in Byte /\ W!FixExtLen[f - 211] = n
    <3>1. CASE n = 1
      BY <3>1 DEF fixExt, W!FixExtLen, Byte
    <3>2. CASE n = 2
      BY <3>2 DEF fixExt, W!FixExtLen, Byte
    <3>3. CASE n = 4
      BY <3>3 DEF fixExt, W!FixExtLen, Byte
    <3>4. CASE n = 8
      BY <3>4 DEF fixExt, W!FixExtLen, Byte
    <3>5. CASE n = 16
      BY <3>5 DEF fixExt, W!FixExtLen, Byte
    <3> QED
      BY <1>6, <3>1, <3>2, <3>3, <3>4, <3>5
  <2>2. EncodeExt(type, s) = <<Bytes(<<f>>), Bytes(u), Bytes(s)>>
    <3>1. EncodeExt(type, s) = <<Bytes(<<f>>)>> \o <<Bytes(u), Bytes(s)>>
      BY <1>2, <1>6
    <3>2. Bytes(<<f>>) \in Writes
      <4>1. <<f>> \in Seq(Byte)
        BY <2>1
      <4> QED
        BY <1>4, <2>1, <4>1
    <3> QED
      BY <1>4, <3>1, <3>2, OneAndTwo
  <2>3. h \in Seq(Byte) /\ h = <<>>
    OBVIOUS
  <2> HIDE DEF f, h
  <2>4. W!Kind(f) = "ext" /\ W!LenWidth(f) = 0 /\ W!FixLen(f) = n
    BY <2>1, SizedFormats
  <2>5. W!SaysLength(f, h, n)
    BY <2>3, <2>4 DEF W!SaysLength
  <2> QED
    BY <1>5, <2>1, <2>2, <2>3, <2>4, <2>5
<1>7. CASE n \notin {1, 2, 4, 8, 16} /\ n <= 255
  <2> DEFINE f == 199
             h == <<n>>
  <2>1. f \in Byte /\ h \in Seq(Byte)
    BY <1>1, <1>7, ByteFacts
  <2>2. W!Kind(f) = "ext" /\ W!LenWidth(f) = 1
    BY <2>1, SizedFormats
  <2>3. W!SaysLength(f, h, n)
    BY <2>2 DEF W!SaysLength
  <2>4. EncodeExt(type, s) = <<Bytes(<<f>>), Bytes(h), Bytes(u), Bytes(s)>>
    <3> DEFINE b1 == Bytes(<<f>>)  b2 == Bytes(h)  b3 == Bytes(u)  b4 == Bytes(s)
    <3>1. EncodeExt(type, s) = <<b1, b2>> \o <<b3, b4>>
      BY <1>2, <1>7
    <3>2. <<f>> \in Seq(Byte)
      BY <2>1
    <3>3. b1 \in Writes /\ b2 \in Writes /\ b3 \in Writes /\ b4 \in Writes
      BY <1>4, <2>1, <3>2
    <3> HIDE DEF b1, b2, b3, b4
    <3>4. <<b1, b2>> \o <<b3, b4>> = <<b1, b2, b3, b4>>
      BY <3>3, TwoAndTwo
    <3> QED
      BY <3>1, <3>4 DEF b1, b2, b3, b4
  <2> HIDE DEF f, h
  <2> QED
    BY <1>5, <2>1, <2>2, <2>3, <2>4
<1>8. CASE n \notin {1, 2, 4, 8, 16} /\ 255 < n
  <2> DEFINE f == 200
             h == BigEndian16(n)
  <2>1. f \in Byte /\ h \in Seq(Byte)
    BY <1>1, ByteFacts
  <2>2. W!Kind(f) = "ext" /\ W!LenWidth(f) = 2
    BY <2>1, SizedFormats
  <2>3. W!SaysLength(f, h, n)
    BY <2>2 DEF W!SaysLength, BigEndian16
  <2>4. EncodeExt(type, s) = <<Bytes(<<f>>), Bytes(h), Bytes(u), Bytes(s)>>
    <3> DEFINE b1 == Bytes(<<f>>)  b2 == Bytes(h)  b3 == Bytes(u)  b4 == Bytes(s)
    <3>1. EncodeExt(type, s) = <<b1, b2>> \o <<b3, b4>>
      BY <1>1, <1>2, <1>8
    <3>2. <<f>> \in Seq(Byte)
      BY <2>1
    <3>3. b1 \in Writes /\ b2 \in Writes /\ b3 \in Writes /\ b4 \in Writes
      BY <1>4, <2>1, <3>2
    <3> HIDE DEF b1, b2, b3, b4
    <3>4. <<b1, b2>> \o <<b3, b4>> = <<b1, b2, b3, b4>>
      BY <3>3, TwoAndTwo
    <3> QED
      BY <3>1, <3>4 DEF b1, b2, b3, b4
  <2> HIDE DEF f, h
  <2> QED
    BY <1>5, <2>1, <2>2, <2>3, <2>4
<1> QED
  BY <1>1, <1>6, <1>7, <1>8

\* nil.
LEMMA NilHeads == Heads(EncodeNil, 0)
<1> DEFINE s == <<>>
           f == 192
<1>1. s \in Seq(Byte) /\ Len(s) = 0 /\ s = <<>> /\ f \in Byte
  BY ByteFacts
<1>2. W!Kind(f) = "scalar" /\ W!ScalarWidth(f) = 0
  BY <1>1, ScalarFormats
<1>3. EncodeNil = <<Bytes(<<f>>)>>
  BY DEF EncodeNil
<1> HIDE DEF s, f
<1> QED
  BY <1>1, <1>2, <1>3, ScalarWrites

\* Values of basic kinds.
LEMMA BasicHeads ==
  ASSUME NEW k \in Basic, NEW v, IsBasic(k, v) PROVE Heads(EncodeBasic(k, v), 0)
<1>1. CASE k = "Bool"
  <2> DEFINE f == IF v = 0 THEN 194 ELSE 195
             s == <<>>
  <2>1. EncodeBasic(k, v) = <<Bytes(<<f>>)>>
    BY <1>1, SMT DEF EncodeBasic, Ints, Uints
  <2>2. f \in {194, 195} /\ f \in Byte /\ s \in Seq(Byte) /\ s = <<>> /\ Len(s) = 0
    BY ByteFacts
  <2> HIDE DEF f, s
  <2>3. W!Kind(f) = "scalar" /\ W!ScalarWidth(f) = 0
    BY <2>2, ScalarFormats
  <2> QED
    BY <2>1, <2>2, <2>3, ScalarWrites
<1>2. CASE k \in Ints
  <2>1. EncodeBasic(k, v) = EncodeInt(v)
    BY <1>2, SMT DEF EncodeBasic, Ints, Uints
  <2>2. v \in Int /\ Min16 <= v /\ v <= Max16
    BY <1>2, Zenon DEF IsBasic
  <2> QED
    BY <2>1, <2>2, IntHeads, Zenon
<1>3. CASE k \in Uints
  <2>1. EncodeBasic(k, v) = EncodeUint(v)
    BY <1>3, SMT DEF EncodeBasic, Ints, Uints
  <2>2. v \in Nat /\ v <= Max16
    <3>1. v \in 0..Max16
      BY <1>3, Zenon DEF IsBasic
    <3>2. Max16 \in Nat
      BY DEF Max16
    <3> QED
      BY <3>1, <3>2
  <2> QED
    BY <2>1, <2>2, UintHeads, Zenon
<1>4. CASE k \in Floats
  <2>1. v \in Seq(Byte) /\ Len(v) = IF k = "Float32" THEN 4 ELSE 8
    BY <1>4, SMT DEF IsBasic
  <2> DEFINE f == IF k = "Float32" THEN 202 ELSE 203
  <2>2. EncodeBasic(k, v) = <<Bytes(<<f>>), Bytes(v)>>
    BY <1>4, SMT DEF EncodeBasic, Ints, Uints, Floats
  <2>3. f \in Byte /\ f = IF k = "Float32" THEN 202 ELSE 203
    BY ByteFacts
  <2> HIDE DEF f
  <2>4. W!Kind(f) = "scalar" /\ W!ScalarWidth(f) = Len(v)
    BY <2>1, <2>3, ScalarFormats
  <2> QED
    BY <2>1, <2>2, <2>3, <2>4, ScalarWrites
<1>5. CASE k = "String"
  <2>1. EncodeBasic(k, v) = EncodeString(v) /\ IsShort(v)
    BY <1>5, SMT DEF EncodeBasic, IsBasic, Ints, Uints
  <2> QED
    BY <2>1, StringHeads
<1> QED
  BY <1>1, <1>2, <1>3, <1>4, <1>5 DEF Basic

-----------------------------------------------------------------------------
(* What there is to do for a value, in values that are to be written.      *)

\* Writes that are nothing or one whole item, and tasks: they stand for n values.
Stands(items, n) ==
  \E ws \in WriteLists, rest \in Seq(Tasks) :
    /\ items = ws \o rest
    /\ \/ ws = <<>> /\ Owes(rest, n)
       \/ n >= 1 /\ \E k \in Nat : Heads(ws, k) /\ Owes(rest, n - 1 + k)

\* One and one.
LEMMA OneAndOne == ASSUME NEW S, NEW x \in S, NEW y \in S PROVE <<x>> \o <<y>> = <<x, y>>
<1> DEFINE p == <<x>>
           r == <<y>>
           q == <<x, y>>
           c == p \o r
<1>1. /\ p \in Seq(S) /\ Len(p) = 1 /\ p[1] = x
      /\ r \in Seq(S) /\ Len(r) = 1 /\ r[1] = y
      /\ q \in Seq(S) /\ Len(q) = 2 /\ q[1] = x /\ q[2] = y
  OBVIOUS
<1> HIDE DEF p, r, q
<1>2. /\ c \in Seq(S) /\ Len(c) = Len(p) + Len(r)
      /\ \A i \in 1..Len(p) : c[i] = p[i]
      /\ \A i \in Len(p) + 1 .. Len(p) + Len(r) : c[i] = r[i - Len(p)]
  BY <1>1, Concatenation
<1> HIDE DEF c
<1>3. Len(c) = 2 /\ c[1] = x /\ c[2] = r[2-1]
  BY <1>1, <1>2
<1>4. c[2] = y
  BY <1>1, <1>3
<1>5. ASSUME NEW i \in 1..2 PROVE c[i] = q[i]
  <2>1. i = 1 \/ i = 2
    OBVIOUS
  <2> QED
    BY <1>1, <1>3, <1>4, <2>1
<1>6. c = q
  BY <1>1, <1>2, <1>3, <1>5, SeqEqual
<1> QED
  BY <1>6 DEF c, p, r, q

\* They are items.
LEMMA StandsItems ==
  ASSUME NEW items, NEW n, Stands(items, n) PROVE items \in Seq(Items)
<1>1. PICK ws \in WriteLists, rest \in Seq(Tasks) : items = ws \o rest
  BY DEF Stands
<1>2. ws \in Seq(Items) /\ rest \in Seq(Items)
  BY WriteListIs DEF Items
<1> QED
  BY <1>1, <1>2

\* Nothing to do.
LEMMA StandsNothing == Stands(<<>>, 0)
<1> DEFINE none == <<>>
<1>1. none \in WriteLists /\ none \in Seq(Tasks) /\ none = <<>> /\ none = none \o none
  <2>1. none \in Seq(Writes) /\ Len(none) <= 4 /\ none \in Seq(Tasks) /\ none = none \o none
    BY EmptyEnds
  <2> QED
    BY <2>1, WriteListIs
<1>2. Owes(none, 0)
  BY OwesNone
<1> HIDE DEF none
<1>3. Stands(none, 0)
  BY <1>1, <1>2, Zenon DEF Stands
<1> QED
  BY <1>3 DEF none

\* One item that opens no values ...
LEMMA StandsHeads == ASSUME NEW ws, Heads(ws, 0) PROVE Stands(ws, 1)
<1> DEFINE none == <<>>
<1>1. ws \in WriteLists /\ none \in Seq(Tasks) /\ ws = ws \o none
  <2>1. ws \in WriteLists /\ ws \in Seq(Writes) /\ none \in Seq(Tasks)
    BY WriteListIs DEF Heads
  <2> QED
    BY <2>1, EmptyEnds
<1>2. Owes(none, 1 - 1 + 0) /\ 1 >= 1 /\ 0 \in Nat
  BY OwesNone
<1> HIDE DEF none
<1> QED
  BY <1>1, <1>2 DEF Stands

\* ... one that opens what the task behind it is worth ...
LEMMA StandsLoop ==
  ASSUME NEW ws, NEW x \in Tasks, Heads(ws, Due(x)) PROVE Stands(ws \o <<x>>, 1)
<1> DEFINE rest == <<x>>
           k == Due(x)
<1>1. ws \in WriteLists /\ rest \in Seq(Tasks) /\ k \in Nat
  BY DueType DEF Heads
<1>2. Owes(rest, 1 - 1 + k) /\ 1 >= 1
  <2>1. Owes(rest, k) /\ 1 - 1 + k = k
    BY <1>1, OwesOne
  <2> QED
    BY <2>1
<1> HIDE DEF rest, k
<1>3. Heads(ws, k)
  BY DEF k
<1>4. Stands(ws \o rest, 1)
  BY <1>1, <1>2, <1>3 DEF Stands
<1> QED
  BY <1>4 DEF rest

\* ... a task ...
LEMMA StandsTask == ASSUME NEW x \in Tasks PROVE Stands(<<x>>, Due(x))
<1> DEFINE rest == <<x>>
           none == <<>>
<1>1. rest \in Seq(Tasks) /\ Owes(rest, Due(x))
  BY DueType, OwesOne
<1> HIDE DEF rest
<1>2. none \in WriteLists /\ none = <<>> /\ rest = none \o rest
  <2>1. none \in Seq(Writes) /\ Len(none) <= 4 /\ rest = none \o rest
    BY <1>1, EmptyEnds
  <2> QED
    BY <2>1, WriteListIs
<1> HIDE DEF none
<1>3. Stands(rest, Due(x))
  BY <1>1, <1>2 DEF Stands
<1> QED
  BY <1>3 DEF rest

\* Two tasks are worth what both are ...
LEMMA OwesTwo ==
  ASSUME NEW x \in Tasks, NEW y \in Tasks
  PROVE  /\ <<x, y>> \in Seq(Tasks) /\ Owes(<<x, y>>, Due(x) + Due(y))
         /\ Due(x) \in Nat /\ Due(y) \in Nat
<1> DEFINE p == <<x>>
           r == <<y>>
<1>1. p \in Seq(Tasks) /\ r \in Seq(Tasks)
  OBVIOUS
<1>2. Due(x) \in Nat /\ Due(y) \in Nat /\ Owes(p, Due(x)) /\ Owes(r, Due(y))
  BY DueType, OwesOne
<1>3. p \o r = <<x, y>>
  BY OneAndOne
<1> HIDE DEF p, r
<1>4. p \o r \in Seq(Tasks) /\ Owes(p \o r, Due(x) + Due(y))
  BY <1>1, <1>2, OwesBoth
<1> QED
  BY <1>2, <1>3, <1>4

\* ... with nothing written in front of them, too.
LEMMA StandsTwo ==
  ASSUME NEW x \in Tasks, NEW y \in Tasks PROVE Stands(<<x, y>>, Due(x) + Due(y))
<1> DEFINE rest == <<x, y>>
           none == <<>>
<1>1. rest \in Seq(Tasks) /\ Owes(rest, Due(x) + Due(y))
  BY OwesTwo
<1> HIDE DEF rest
<1>2. none \in WriteLists /\ none = <<>> /\ rest = none \o rest
  <2>1. none \in Seq(Writes) /\ Len(none) <= 4 /\ rest = none \o rest
    BY <1>1, EmptyEnds
  <2> QED
    BY <2>1, WriteListIs
<1> HIDE DEF none
<1>3. Stands(rest, Due(x) + Due(y))
  BY <1>1, <1>2 DEF Stands
<1> QED
  BY <1>3 DEF rest

\* A key, its value and what is left behind them.
LEMMA StandsPair ==
  ASSUME NEW ws, Heads(ws, 0), NEW x \in Tasks, NEW y \in Tasks, Due(x) = 1
  PROVE  /\ Stands(ws \o <<x, y>>, Due(y) + 2)
         /\ Stands(ws \o <<x>> \o <<y>>, Due(y) + 2)
<1> DEFINE rest == <<x, y>>
           n == Due(y) + 2
           p == <<x>>
           r == <<y>>
<1>1. ws \in WriteLists /\ rest \in Seq(Tasks) /\ Due(y) \in Nat
  BY OwesTwo DEF Heads
<1>2. Owes(rest, n - 1 + 0) /\ n >= 1 /\ 0 \in Nat
  <2>1. Owes(rest, Due(x) + Due(y)) /\ Due(x) + Due(y) = n - 1 + 0
    BY <1>1, OwesTwo
  <2> QED
    BY <1>1, <2>1
<1>3. /\ ws \in Seq(Items) /\ p \in Seq(Items) /\ r \in Seq(Items) /\ p \o r = rest
  BY WriteListIs, OneAndOne DEF Heads, Items
<1> HIDE DEF rest, n, p, r
<1>4. Stands(ws \o rest, n)
  BY <1>1, <1>2 DEF Stands
<1>5. ws \o p \o r = ws \o rest
  <2>1. \A a, b, c \in Seq(Items) : (a \o b) \o c = a \o (b \o c)
    BY ConcatAssociative
  <2>2. ws \in Seq(Items) /\ p \in Seq(Items) /\ r \in Seq(Items)
    BY <1>3
  <2>3. (ws \o p) \o r = ws \o (p \o r)
    BY <2>1, <2>2, Zenon
  <2> QED
    BY <1>3, <2>3, Zenon
<1> QED
  BY <1>4, <1>5 DEF rest, n, p, r

-----------------------------------------------------------------------------
(* What there is to do for a value is worth one value.                      *)

\* What the tasks are worth.
LEMMA DueFacts ==
  /\ \A h \in Walks : \A t, v : Due(Value(h, t, v)) = 1
  /\ \A h, t, s : Due(Each(h, t, s)) = Len(s)
  /\ \A h, t, m : Due(EachPair(h, t, m)) = 2 * Cardinality(DOMAIN m)
  /\ \A h, t, v, s : Due(Fields(h, t, v, s)) = 2 * Cardinality(Left(s) \cap Kept(h, t, v))
<1>1. ASSUME NEW h \in Walks, NEW t, NEW v PROVE Due(Value(h, t, v)) = 1
  BY DEF Due, Value, Walks
<1>2. ASSUME NEW h, NEW t, NEW s PROVE Due(Each(h, t, s)) = Len(s)
  BY DEF Due, Each
<1>3. ASSUME NEW h, NEW t, NEW m PROVE Due(EachPair(h, t, m)) = 2 * Cardinality(DOMAIN m)
  BY DEF Due, EachPair
<1>4. ASSUME NEW h, NEW t, NEW v, NEW s
      PROVE  Due(Fields(h, t, v, s)) = 2 * Cardinality(Left(s) \cap Kept(h, t, v))
  BY DEF Due, Fields, LeftFields
<1> QED
  BY <1>1, <1>2, <1>3, <1>4

\* Another walk over a value.
LEMMA StandsWalk ==
  ASSUME NEW h \in Walks, NEW t, NEW v \in ValuesOf(t), Takes(h, t)
  PROVE  Stands(<<Value(h, t, v)>>, 1)
<1> DEFINE x == Value(h, t, v)
<1>1. x \in Tasks /\ Due(x) = 1
  BY ValueTask, DueFacts
<1> HIDE DEF x
<1>2. Stands(<<x>>, 1)
  BY <1>1, StandsTask
<1> QED
  BY <1>2 DEF x

\* The elements of a slice, the pairs of a map and the fields of a struct, as the
\* loops over them take them; a nil slice or map has none.
LEMMA ListIs ==
  ASSUME NEW t, NEW v, v = Nil \/ IsListOf(t, v), NEW s, s = IF v = Nil THEN <<>> ELSE v
  PROVE  s \in Seq(ValuesOf(t)) /\ Len(s) \in Nat /\ Len(s) <= Max16
<1>1. CASE v = Nil
  BY <1>1, SMT DEF Max16
<1>2. CASE v # Nil
  BY <1>2, SMT DEF IsListOf
<1> QED
  BY <1>1, <1>2

LEMMA MapIs ==
  ASSUME NEW t, NEW v, v = Nil \/ IsMapOf(t, v), NEW m, m = IF v = Nil THEN <<>> ELSE v
  PROVE  m \in Keyed(t) /\ Cardinality(DOMAIN m) \in Nat /\ Cardinality(DOMAIN m) <= Max16
<1> DEFINE n == Cardinality(DOMAIN m)
<1>1. /\ m \in [DOMAIN m -> ValuesOf(t)] /\ DOMAIN m \in Names
      /\ IsFiniteSet(DOMAIN m) /\ n <= Max16
  <2>1. CASE v = Nil
    <3>1. m = <<>> /\ DOMAIN m = {}
      <4>1. m = <<>>
        BY <2>1
      <4>2. DOMAIN <<>> = {}
        OBVIOUS
      <4> QED
        BY <4>1, <4>2
    <3>2. m \in [DOMAIN m -> ValuesOf(t)]
      <4>1. <<>> \in [{} -> ValuesOf(t)]
        OBVIOUS
      <4> QED
        BY <3>1, <4>1
    <3>3. IsFiniteSet(DOMAIN m) /\ n = 0
      BY <3>1, FS_EmptySet
    <3>4. DOMAIN m \in Names
      BY <3>1, <3>3, Zenon DEF Names
    <3> QED
      BY <3>2, <3>3, <3>4, SMT DEF Max16
  <2>2. CASE v # Nil
    <3>1. m = v /\ IsMapOf(t, v)
      BY <2>2
    <3>2. DOMAIN m \in Names
      BY <3>1 DEF IsMapOf, IsShort, Names
    <3> QED
      BY <3>1, <3>2 DEF IsMapOf
  <2> QED
    BY <2>1, <2>2
<1>2. n \in Nat
  BY <1>1, FS_CardinalityType
<1>3. m \in UNION {[ns -> ValuesOf(t)] : ns \in Names}
  BY <1>1
<1> QED
  BY <1>1, <1>2, <1>3 DEF Keyed

LEMMA OrderIs ==
  ASSUME NEW t, NEW v \in ValuesOf(t), t.kind = "Struct"
  PROVE  t.order \in FieldLists(t) /\ Left(t.order) = DOMAIN t.fields
<1> DEFINE s == t.order
<1>1. IsStruct(t, v)
  BY TypeFacts, KindsFacts
<1>2. /\ s \in Seq(DOMAIN t.fields) /\ Once(s)
      /\ \A f \in DOMAIN t.fields : \E i \in 1..Len(s) : s[i] = f
  BY <1>1 DEF IsStruct, Once
<1> HIDE DEF s
<1>3. s \in FieldLists(t)
  BY <1>2 DEF FieldLists
<1>4. Left(s) \subseteq DOMAIN t.fields
  BY <1>2, ElementOfSeq DEF Left
<1>5. DOMAIN t.fields \subseteq Left(s)
  BY <1>2 DEF Left
<1> QED
  BY <1>3, <1>4, <1>5 DEF s

LEMMA KeptCount ==
  ASSUME NEW h, NEW t, NEW v \in ValuesOf(t), t.kind = "Struct"
  PROVE  Cardinality(Kept(h, t, v)) \in Nat /\ Cardinality(Kept(h, t, v)) <= Max16
<1> DEFINE names == Kept(h, t, v)
<1>1. IsStruct(t, v)
  BY TypeFacts, KindsFacts
<1>2. IsFiniteSet(DOMAIN t.fields) /\ Cardinality(DOMAIN t.fields) <= Max16
  BY <1>1 DEF IsStruct
<1>3. names \in SUBSET DOMAIN t.fields
  BY KeptFields
<1> HIDE DEF names
<1>4. /\ IsFiniteSet(names) /\ Cardinality(names) <= Cardinality(DOMAIN t.fields)
      /\ Cardinality(DOMAIN t.fields) \in Nat /\ Cardinality(names) \in Nat
  BY <1>2, <1>3, FS_Subset, FS_CardinalityType
<1>5. Cardinality(names) \in Nat /\ Cardinality(names) <= Max16
  BY <1>2, <1>4, SMT DEF Max16
<1> QED
  BY <1>5 DEF names

\* The type byte of an extension and its data.
LEMMA ExtIs ==
  ASSUME NEW x \in Seq(Byte), Len(x) >= 1, Len(x) - 1 <= Max16
  PROVE  x[1] \in Byte /\ Tail(x) \in Seq(Byte) /\ Len(Tail(x)) <= Max16
<1>1. x # <<>>
  OBVIOUS
<1>2. Tail(x) \in Seq(Byte) /\ Len(Tail(x)) = Len(x) - 1 /\ x[1] \in Byte
  BY <1>1
<1> QED
  BY <1>2

\* A slice or an array: a header and the loop over its elements.
LEMMA StandsElements ==
  ASSUME NEW h \in Loops, NEW t, NEW v, t.elem \in ElemTypes, Takes(h, t.elem),
         v = Nil \/ IsListOf(t.elem, v)
  PROVE  Stands(Elements(h, t, v), 1)
<1> DEFINE s == IF v = Nil THEN <<>> ELSE v
           x == Each(h, t.elem, s)
           n == Len(s)
<1>1. s \in Seq(ValuesOf(t.elem)) /\ n \in Nat /\ n <= Max16
  BY ListIs
<1>2. Elements(h, t, v) = EncodeArrayHeader(n) \o <<x>>
  BY DEF Elements
<1> HIDE DEF n, s
<1>3. x \in Tasks /\ Due(x) = n
  BY <1>1, EachTask, DueFacts DEF n
<1> HIDE DEF x
<1>4. Heads(EncodeArrayHeader(n), Due(x))
  BY <1>1, <1>3, HeaderHeads
<1> QED
  BY <1>2, <1>3, <1>4, StandsLoop

\* A map: a header and the loop over its pairs.
LEMMA StandsPairs ==
  ASSUME NEW h \in Loops, NEW t, NEW v, t.elem \in ElemTypes, Takes(h, t.elem),
         v = Nil \/ IsMapOf(t.elem, v)
  PROVE  Stands(Pairs(h, t, v), 1)
<1> DEFINE m == IF v = Nil THEN <<>> ELSE v
           x == EachPair(h, t.elem, m)
           n == Cardinality(DOMAIN m)
<1>1. m \in Keyed(t.elem) /\ n \in Nat /\ n <= Max16
  BY MapIs
<1>2. Pairs(h, t, v) = EncodeMapHeader(n) \o <<x>>
  BY DEF Pairs
<1> HIDE DEF m
<1>3. x \in Tasks /\ Due(x) = 2 * n
  BY <1>1, RangeTask, DueFacts
<1> HIDE DEF n, x
<1>4. Heads(EncodeMapHeader(n), Due(x))
  BY <1>1, <1>3, HeaderHeads
<1> QED
  BY <1>2, <1>3, <1>4, StandsLoop

\* A struct: a header for the fields that are written and the loop over all of them.
LEMMA StandsStruct ==
  ASSUME NEW h \in {"encodeValue", "encodeField"}, NEW t, NEW v \in ValuesOf(t),
         t.kind = "Struct"
  PROVE  Stands(EncodeMapHeader(Cardinality(Kept(h, t, v))) \o <<Fields(h, t, v, t.order)>>, 1)
<1> DEFINE names == Kept(h, t, v)
           n == Cardinality(names)
           s == t.order
           x == Fields(h, t, v, s)
<1>1. n \in Nat /\ n <= Max16
  BY KeptCount
<1>2. s \in FieldLists(t) /\ Left(s) = DOMAIN t.fields
  BY OrderIs
<1> HIDE DEF s
<1>3. x \in Tasks /\ Due(x) = 2 * n
  <2>1. Left(s) \cap names = names
    BY <1>2, KeptFields
  <2>2. Due(x) = 2 * Cardinality(Left(s) \cap names)
    BY DueFacts
  <2>3. x \in Tasks
    BY <1>2, FieldsTask
  <2> QED
    BY <2>1, <2>2, <2>3
<1> HIDE DEF n, x
<1>4. Heads(EncodeMapHeader(n), Due(x))
  BY <1>1, <1>3, HeaderHeads
<1>5. Stands(EncodeMapHeader(n) \o <<x>>, 1)
  BY <1>3, <1>4, StandsLoop
<1> QED
  BY <1>5 DEF n, x, s

-----------------------------------------------------------------------------
(* The walks.                                                               *)

\* Encode: its fast paths, and encodeValue for all others.
LEMMA EncodeStands ==
  ASSUME NEW t, NEW v \in ValuesOf(t), t.kind \in GoKinds
  PROVE  Stands(Encode(t, v), 1)
<1> DEFINE k == t.kind
<1>1. /\ t.elem \in ElemTypes /\ IsSimple(t, v)
      /\ k \in {"Slice", "Array", "Map", "Ptr"} => t.elem.kind \in GoKinds
      /\ k = "Interface" => v = Nil \/ (v \in Universe /\ v.type.kind \in GoKinds)
  BY TypeFacts
<1>2. CASE k = "Interface" /\ v = Nil
  <2>1. Encode(t, v) = EncodeNil
    BY <1>2, KindsFacts DEF Encode
  <2> QED
    BY <2>1, NilHeads, StandsHeads
<1>3. CASE k = "Interface" /\ v # Nil
  <2>1. Encode(t, v) = <<Value("Encode", v.type, v.value)>>
    BY <1>3, KindsFacts DEF Encode
  <2>2. v.value \in ValuesOf(v.type) /\ Takes("Encode", v.type)
    BY <1>1, <1>3, ValuesFacts DEF Takes
  <2> QED
    BY <2>1, <2>2, StandsWalk, KindsFacts
<1>4. CASE k \in Basic
  <2>1. Encode(t, v) = EncodeBasic(k, v)
    BY <1>4, KindsFacts DEF Encode
  <2>2. IsBasic(k, v)
    BY <1>1, <1>4 DEF IsSimple
  <2> QED
    BY <1>4, <2>1, <2>2, BasicHeads, StandsHeads
<1>5. CASE k = "Bytes"
  <2>1. Encode(t, v) = EncodeBinary(v)
    BY <1>5, KindsFacts DEF Encode
  <2>2. v = Nil \/ IsShort(v)
    BY <1>1, <1>5 DEF IsSimple
  <2> QED
    BY <2>1, <2>2, BinaryHeads, StandsHeads
<1>6. CASE k = "Map" /\ t.elem.kind = "Interface"
  <2>1. Encode(t, v) = Pairs("Encode", t, v)
    BY <1>6, KindsFacts DEF Encode
  <2>2. v = Nil \/ IsMapOf(t.elem, v)
    BY <1>1, <1>6 DEF IsSimple
  <2>3. Takes("Encode", t.elem) /\ "Encode" \in Loops
    BY <1>1, <1>6 DEF Takes, Loops
  <2> QED
    BY <1>1, <2>1, <2>2, <2>3, StandsPairs
<1>7. CASE k = "Slice" /\ t.elem.kind = "Interface"
  <2>1. Encode(t, v) = Elements("Encode", t, v)
    BY <1>7, KindsFacts DEF Encode
  <2>2. v = Nil \/ IsListOf(t.elem, v)
    BY <1>1, <1>7 DEF IsSimple
  <2>3. Takes("Encode", t.elem) /\ "Encode" \in Loops
    BY <1>1, <1>7 DEF Takes, Loops
  <2> QED
    BY <1>1, <2>1, <2>2, <2>3, StandsElements
<1>8. CASE /\ k # "Interface" /\ k \notin Basic /\ k # "Bytes"
           /\ ~(k = "Map" /\ t.elem.kind = "Interface")
           /\ ~(k = "Slice" /\ t.elem.kind = "Interface")
  <2>1. Encode(t, v) = <<Value("encodeValue", t, v)>>
    BY <1>8 DEF Encode
  <2>2. Takes("encodeValue", t) /\ "encodeValue" \in Walks
    BY KindsFacts DEF Takes
  <2> QED
    BY <2>1, <2>2, StandsWalk
<1> QED
  BY <1>2, <1>3, <1>4, <1>5, <1>6, <1>7, <1>8

\* encodeValue, for each kind it has a case for.
LEMMA encodeValueStands ==
  ASSUME NEW t, NEW v \in ValuesOf(t), t.kind \in GoKinds, ~Unsupported(t)
  PROVE  Stands(encodeValue(t, v), 1)
<1> DEFINE k == t.kind
<1>1. /\ t.elem \in ElemTypes /\ IsSimple(t, v)
      /\ k \in {"Slice", "Array", "Map", "Ptr"} => t.elem.kind \in GoKinds
      /\ k = "Interface" => v = Nil \/ (v \in Universe /\ v.type.kind \in GoKinds)
  BY TypeFacts
<1>2. CASE k \in {"Ptr", "Interface", "Slice", "Bytes", "Map"} /\ v = Nil
  <2>1. encodeValue(t, v) = EncodeNil
    BY <1>2, KindsFacts DEF encodeValue
  <2> QED
    BY <2>1, NilHeads, StandsHeads
<1>3. CASE k = "Ptr" /\ v # Nil
  <2>1. encodeValue(t, v) = <<Value("encodeValue", t.elem, v[1])>>
    BY <1>3, KindsFacts DEF encodeValue
  <2>2. IsListOf(t.elem, v) /\ Len(v) = 1
    BY <1>1, <1>3 DEF IsSimple
  <2>3. v[1] \in ValuesOf(t.elem)
    BY <2>2 DEF IsListOf
  <2>4. Takes("encodeValue", t.elem) /\ "encodeValue" \in Walks
    BY <1>1, <1>3, KindsFacts DEF Takes
  <2> QED
    BY <2>1, <2>3, <2>4, StandsWalk
<1>4. CASE k = "Interface" /\ v # Nil
  <2>1. encodeValue(t, v) = <<Value("encodeValue", v.type, v.value)>>
    BY <1>4, KindsFacts DEF encodeValue
  <2>2. v.value \in ValuesOf(v.type) /\ Takes("encodeValue", v.type)
    BY <1>1, <1>4, ValuesFacts DEF Takes
  <2> QED
    BY <2>1, <2>2, StandsWalk, KindsFacts
<1>5. CASE k = "Bytes" /\ v # Nil
  <2>1. encodeValue(t, v) = EncodeBinary(v)
    BY <1>5, KindsFacts DEF encodeValue
  <2>2. v = Nil \/ IsShort(v)
    BY <1>1, <1>5 DEF IsSimple
  <2> QED
    BY <2>1, <2>2, BinaryHeads, StandsHeads
<1>6. CASE (k = "Slice" /\ v # Nil) \/ k = "Array"
  <2>1. encodeValue(t, v) = Elements("encodeValue", t, v)
    BY <1>6, KindsFacts DEF encodeValue
  <2>2. v = Nil \/ IsListOf(t.elem, v)
    BY <1>1, <1>6 DEF IsSimple
  <2>3. Takes("encodeValue", t.elem) /\ "encodeValue" \in Loops
    BY <1>1, <1>6 DEF Takes, Loops
  <2> QED
    BY <1>1, <2>1, <2>2, <2>3, StandsElements
<1>7. CASE k = "Map" /\ v # Nil
  <2>1. encodeValue(t, v) = Pairs("encodeValue", t, v)
    BY <1>7, KindsFacts DEF encodeValue
  <2>2. v = Nil \/ IsMapOf(t.elem, v)
    BY <1>1, <1>7 DEF IsSimple
  <2>3. Takes("encodeValue", t.elem) /\ "encodeValue" \in Loops
    BY <1>1, <1>7 DEF Takes, Loops
  <2> QED
    BY <1>1, <2>1, <2>2, <2>3, StandsPairs
<1>8. CASE k = "Struct"
  <2>1. encodeValue(t, v) = EncodeMapHeader(Cardinality(Kept("encodeValue", t, v)))
                            \o <<Fields("encodeValue", t, v, t.order)>>
    BY <1>8, KindsFacts DEF encodeValue, Kept
  <2> QED
    BY <1>8, <2>1, StandsStruct
<1>9. CASE k = "Time"
  <2>1. encodeValue(t, v) = EncodeMapHeader(0)
    BY <1>9, KindsFacts DEF encodeValue
  <2>2. Heads(EncodeMapHeader(0), 2 * 0) /\ 2 * 0 = 0
    BY HeaderHeads DEF Max16
  <2> QED
    BY <2>1, <2>2, StandsHeads
<1>10. CASE k \in Basic
  <2>1. encodeValue(t, v) = EncodeBasic(k, v)
    BY <1>10, KindsFacts DEF encodeValue
  <2>2. IsBasic(k, v)
    BY <1>1, <1>10 DEF IsSimple
  <2> QED
    BY <1>10, <2>1, <2>2, BasicHeads, StandsHeads
<1> QED
  BY <1>2, <1>3, <1>4, <1>5, <1>6, <1>7, <1>8, <1>9, <1>10, KindsFacts DEF Unsupported

\* encodeField of a StructEncoder: its fast paths, and Encode for all others.
LEMMA encodeFieldStands ==
  ASSUME NEW t, NEW v \in ValuesOf(t), t.kind \in GoKinds
  PROVE  Stands(encodeField(t, v), 1)
<1> DEFINE k == t.kind
<1>1. /\ t.elem \in ElemTypes /\ IsSimple(t, v)
      /\ k \in {"Slice", "Array", "Map", "Ptr"} => t.elem.kind \in GoKinds
  BY TypeFacts
<1>2. CASE k \in Basic
  <2>1. encodeField(t, v) = EncodeBasic(k, v)
    BY <1>2, KindsFacts DEF encodeField
  <2>2. IsBasic(k, v)
    BY <1>1, <1>2 DEF IsSimple
  <2> QED
    BY <1>2, <2>1, <2>2, BasicHeads, StandsHeads
<1>3. CASE k = "Bytes"
  <2>1. encodeField(t, v) = EncodeBinary(v)
    BY <1>3, KindsFacts DEF encodeField
  <2>2. v = Nil \/ IsShort(v)
    BY <1>1, <1>3 DEF IsSimple
  <2> QED
    BY <2>1, <2>2, BinaryHeads, StandsHeads
<1>4. CASE k = "Slice"
  <2>1. encodeField(t, v) = Elements("Encode", t, v)
    BY <1>4, KindsFacts DEF encodeField
  <2>2. v = Nil \/ IsListOf(t.elem, v)
    BY <1>1, <1>4 DEF IsSimple
  <2>3. Takes("Encode", t.elem) /\ "Encode" \in Loops
    BY <1>1, <1>4 DEF Takes, Loops
  <2> QED
    BY <1>1, <2>1, <2>2, <2>3, StandsElements
<1>5. CASE k = "Map"
  <2>1. encodeField(t, v) = Pairs("Encode", t, v)
    BY <1>5, KindsFacts DEF encodeField
  <2>2. v = Nil \/ IsMapOf(t.elem, v)
    BY <1>1, <1>5 DEF IsSimple
  <2>3. Takes("Encode", t.elem) /\ "Encode" \in Loops
    BY <1>1, <1>5 DEF Takes, Loops
  <2> QED
    BY <1>1, <2>1, <2>2, <2>3, StandsPairs
<1>6. CASE k \in {"Struct", "Time"} \/ (k = "Ptr" /\ v # Nil)
  <2>1. encodeField(t, v) = <<Value("Encode", t, v)>>
    BY <1>6, KindsFacts DEF encodeField
  <2>2. Takes("Encode", t) /\ "Encode" \in Walks
    BY KindsFacts DEF Takes
  <2> QED
    BY <2>1, <2>2, StandsWalk
<1>7. CASE k \in {"Interface", "Array", "Chan"} \/ (k = "Ptr" /\ v = Nil)
  <2>1. encodeField(t, v) = EncodeNil
    BY <1>7, KindsFacts DEF encodeField
  <2> QED
    BY <2>1, NilHeads, StandsHeads
<1> QED
  BY <1>2, <1>3, <1>4, <1>5, <1>6, <1>7, KindsFacts

\* EncodeValue, for each type a Value can have.
LEMMA EncodeValueStands ==
  ASSUME NEW t, NEW v \in ValuesOf(t), t.kind = "Value"
  PROVE  Stands(EncodeValue(v), 1)
<1> DEFINE k == v.type.kind
           e == v.type.elem
<1>1. /\ e \in ElemTypes
      /\ v # Nil => /\ k \in TreeKinds /\ IsSimple(v.type, v.value)
                    /\ k \in {"Slice", "Map"} => e.kind = "Value"
  BY TypeFacts
<1>2. CASE v = Nil
  <2>1. EncodeValue(v) = EncodeNil
    BY <1>2 DEF EncodeValue
  <2> QED
    BY <2>1, NilHeads, StandsHeads
<1>3. CASE v # Nil /\ k \in Basic
  <2>1. EncodeValue(v) = EncodeBasic(k, v.value)
    BY <1>3, KindsFacts DEF EncodeValue
  <2>2. IsBasic(k, v.value)
    BY <1>1, <1>3 DEF IsSimple
  <2> QED
    BY <1>3, <2>1, <2>2, BasicHeads, StandsHeads
<1>4. CASE v # Nil /\ k = "Bytes"
  <2>1. EncodeValue(v) = EncodeBinary(v.value)
    BY <1>4, KindsFacts DEF EncodeValue
  <2>2. v.value = Nil \/ IsShort(v.value)
    BY <1>1, <1>4 DEF IsSimple
  <2> QED
    BY <2>1, <2>2, BinaryHeads, StandsHeads
<1>5. CASE v # Nil /\ k = "Ext"
  <2> DEFINE x == v.value
  <2>1. EncodeValue(v) = EncodeExt(x[1], Tail(x))
    BY <1>5, KindsFacts DEF EncodeValue
  <2>2. x \in Seq(Byte) /\ Len(x) >= 1 /\ Len(x) - 1 <= Max16
    BY <1>1, <1>5 DEF IsSimple
  <2>3. x[1] \in Byte /\ Tail(x) \in Seq(Byte) /\ Len(Tail(x)) <= Max16
    BY <2>2, ExtIs
  <2> QED
    BY <2>1, <2>3, ExtHeads, StandsHeads
<1>6. CASE v # Nil /\ k = "Slice"
  <2>1. EncodeValue(v) = Elements("EncodeValue", v.type, v.value)
    BY <1>6, KindsFacts DEF EncodeValue
  <2>2. v.value = Nil \/ IsListOf(e, v.value)
    BY <1>1, <1>6 DEF IsSimple
  <2>3. Takes("EncodeValue", e) /\ "EncodeValue" \in Loops
    BY <1>1, <1>6 DEF Takes, Loops
  <2> QED
    BY <1>1, <2>1, <2>2, <2>3, StandsElements
<1>7. CASE v # Nil /\ k = "Map"
  <2>1. EncodeValue(v) = Pairs("EncodeValue", v.type, v.value)
    BY <1>7, KindsFacts DEF EncodeValue
  <2>2. v.value = Nil \/ IsMapOf(e, v.value)
    BY <1>1, <1>7 DEF IsSimple
  <2>3. Takes("EncodeValue", e) /\ "EncodeValue" \in Loops
    BY <1>1, <1>7 DEF Takes, Loops
  <2> QED
    BY <1>1, <2>1, <2>2, <2>3, StandsPairs
<1> QED
  BY <1>1, <1>2, <1>3, <1>4, <1>5, <1>6, <1>7, KindsFacts
-----------------------------------------------------------------------------
(* What a step does with the task at the head of those that are to do.      *)

\* The step ends the call, or what it puts in place of the task is worth as much.
Replaced ==
  Fail("ErrUnsupportedType") \/ (\E items : Replace(items) /\ Stands(items, Due(head)))

\* What is done next is an item, and so is all that follows.
LEMMA HeadItem ==
  ASSUME TodoOK, NEW do, Running(do)
  PROVE  /\ head \in Items /\ head.do = do /\ todo # <<>> /\ Tail(todo) \in Seq(Items)
         /\ do # "write" => head \in Tasks
<1>1. todo \in Seq(Items) /\ todo # <<>> /\ head.do = do
  BY DEF TodoOK, Running
<1>2. head \in Items /\ Tail(todo) \in Seq(Items)
  BY <1>1 DEF head
<1>3. do # "write" => head \in Tasks
  BY <1>1, <1>2, WriteCases DEF Items
<1> QED
  BY <1>1, <1>2, <1>3

\* The others of a list.
LEMMA RestOf ==
  ASSUME NEW S, NEW s \in Seq(S), s # <<>> PROVE Len(s) = 1 + Len(Tail(s))
OBVIOUS

\* The next element, and the loop over the others.
LEMMA NextElementStands == ASSUME TodoOK, NextElement PROVE head \in Tasks /\ Replaced
<1> DEFINE t == head.type
           s == head.left
           x == Value(head.how, t, s[1])
           y == Each(head.how, t, Tail(s))
<1>1. /\ head \in Tasks /\ head.do = "elements"
      /\ Replace(IF s = <<>> THEN <<>> ELSE <<x, [head EXCEPT !.left = Tail(s)]>>)
  BY HeadItem DEF NextElement
<1>2. /\ head.how \in Loops /\ Takes(head.how, t) /\ t \in ElemTypes /\ s \in Seq(ValuesOf(t))
      /\ [head EXCEPT !.left = Tail(s)] = y
  BY <1>1, TaskCases
<1>3. Due(head) = Len(s)
  BY <1>1 DEF Due
<1>4. CASE s = <<>>
  <2>1. Replace(<<>>) /\ Due(head) = 0
    BY <1>1, <1>3, <1>4
  <2> QED
    BY <1>1, <2>1, StandsNothing DEF Replaced
<1>5. CASE s # <<>>
  <2>1. s[1] \in ValuesOf(t) /\ Tail(s) \in Seq(ValuesOf(t)) /\ Len(s) = 1 + Len(Tail(s))
    BY <1>2, <1>5, FirstOf, RestOf, Zenon
  <2>2. x \in Tasks /\ Due(x) = 1
    BY <1>2, <2>1, ValueTask, DueFacts, KindsFacts
  <2>3. y \in Tasks /\ Due(y) = Len(Tail(s))
    BY <1>2, <2>1, EachTask, DueFacts
  <2>4. Replace(<<x, y>>)
    BY <1>1, <1>2, <1>5
  <2> HIDE DEF x, y
  <2>5. Stands(<<x, y>>, Due(x) + Due(y)) /\ Due(x) + Due(y) = Due(head)
    BY <1>3, <2>1, <2>2, <2>3, StandsTwo
  <2> QED
    BY <1>1, <2>4, <2>5 DEF Replaced
<1> QED
  BY <1>4, <1>5

\* The first of a list and the others.
LEMMA LeftFirst ==
  ASSUME NEW S, NEW s \in Seq(S), s # <<>> PROVE Left(s) = Left(Tail(s)) \cup {s[1]}
<1> DEFINE r == Tail(s)
           l == Len(r)
<1>1. /\ r \in Seq(S) /\ l \in Nat /\ Len(s) = l + 1
      /\ \A i \in 1..l : r[i] = s[i+1]
  OBVIOUS
<1> HIDE DEF r, l
<1>2. ASSUME NEW i \in 1..Len(s) PROVE s[i] \in Left(r) \cup {s[1]}
  <2>1. CASE i = 1
    BY <2>1
  <2>2. CASE i # 1
    <3>1. i-1 \in 1..l /\ (i-1)+1 = i
      BY <1>1, <2>2
    <3>2. s[i] = r[i-1]
      BY <1>1, <3>1
    <3> QED
      BY <3>1, <3>2 DEF Left, l
  <2> QED
    BY <2>1, <2>2
<1>3. ASSUME NEW i \in 1..l PROVE r[i] \in Left(s)
  <2>1. i+1 \in 1..Len(s) /\ r[i] = s[i+1]
    BY <1>1
  <2> QED
    BY <2>1 DEF Left
<1>4. s[1] \in Left(s)
  <2>1. 1 \in 1..Len(s)
    BY <1>1
  <2> QED
    BY <2>1 DEF Left
<1>5. Left(s) \subseteq Left(r) \cup {s[1]}
  BY <1>2 DEF Left
<1>6. Left(r) \cup {s[1]} \subseteq Left(s)
  BY <1>3, <1>4 DEF Left, l
<1> QED
  BY <1>5, <1>6 DEF r

\* What is left behind the first of some fields, of which some are written.
LEMMA LeftRest ==
  ASSUME NEW S, NEW s \in Seq(S), Once(s), s # <<>>, NEW K, IsFiniteSet(Left(s) \cap K)
  PROVE  /\ s[1] \in S /\ Tail(s) \in Seq(S) /\ Once(Tail(s))
         /\ s[1] \notin K =>
              Cardinality(Left(s) \cap K) = Cardinality(Left(Tail(s)) \cap K)
         /\ s[1] \in K =>
              Cardinality(Left(s) \cap K) = Cardinality(Left(Tail(s)) \cap K) + 1
<1> DEFINE n == s[1]
           r == Tail(s)
           l == Len(r)
<1>1. /\ n \in S /\ r \in Seq(S) /\ l \in Nat /\ Len(s) = l + 1
      /\ \A i \in 1..l : r[i] = s[i+1]
  OBVIOUS
<1> HIDE DEF n, r, l
<1>2. \A i \in 1..l : i + 1 \in 1..Len(s)
  BY <1>1
<1>3. Once(r)
  <2> SUFFICES ASSUME NEW i \in 1..l, NEW j \in 1..l, r[i] = r[j] PROVE i = j
    BY DEF Once, l
  <2>1. s[i+1] = s[j+1] /\ i + 1 \in 1..Len(s) /\ j + 1 \in 1..Len(s)
    BY <1>1, <1>2
  <2>2. i + 1 = j + 1
    BY <2>1 DEF Once
  <2> QED
    BY <2>2
<1>4. n \notin Left(r)
  <2> SUFFICES ASSUME NEW i \in 1..l, r[i] = n PROVE FALSE
    BY DEF Left, l
  <2>1. s[i+1] = s[1] /\ i + 1 \in 1..Len(s) /\ 1 \in 1..Len(s)
    BY <1>1, <1>2 DEF n
  <2>2. i + 1 = 1
    BY <2>1 DEF Once
  <2> QED
    BY <2>2
<1>5. Left(s) = Left(r) \cup {n}
  BY LeftFirst DEF n, r
<1>6. n \notin K => Cardinality(Left(s) \cap K) = Cardinality(Left(r) \cap K)
  <2>1. n \notin K => Left(s) \cap K = Left(r) \cap K
    BY <1>5
  <2> QED
    BY <2>1
<1>7. n \in K => Cardinality(Left(s) \cap K) = Cardinality(Left(r) \cap K) + 1
  <2> DEFINE A == Left(r) \cap K
  <2> SUFFICES ASSUME n \in K PROVE Cardinality(Left(s) \cap K) = Cardinality(A) + 1
    OBVIOUS
  <2>1. Left(s) \cap K = A \cup {n} /\ n \notin A /\ A \subseteq Left(s) \cap K
    BY <1>4, <1>5
  <2>2. IsFiniteSet(A)
    BY <2>1, FS_Subset
  <2> HIDE DEF A
  <2>3. Cardinality(A \cup {n}) = Cardinality(A) + 1
    BY <2>1, <2>2, FS_AddElement
  <2> QED
    BY <2>1, <2>3
<1> QED
  BY <1>1, <1>3, <1>6, <1>7 DEF n, r

\* The next field, its name in front of it if it is written, and the loop over the
\* others.
LEMMA NextFieldStands == ASSUME TodoOK, NextField PROVE head \in Tasks /\ Replaced
<1> DEFINE t == head.type
           v == head.value
           h == head.how
           s == head.left
           n == s[1]
           K == Kept(h, t, v)
           x == Value(h, t.fields[n], v[n])
           y == Fields(h, t, v, Tail(s))
           r == [head EXCEPT !.left = Tail(@)]
<1>1. head \in Tasks /\ head.do = "fields"
  <2>1. Running("fields")
    BY DEF NextField
  <2> QED
    BY <2>1, HeadItem
<1>2. /\ h \in {"encodeValue", "encodeField"} /\ t.kind = "Struct"
      /\ v \in ValuesOf(t) /\ s \in FieldLists(t)
      /\ [head EXCEPT !.left = Tail(s)] = y
  BY <1>1, TaskCases
<1>3. /\ s \in Seq(DOMAIN t.fields) /\ Once(s)
      /\ K \in SUBSET DOMAIN t.fields
      /\ IsFiniteSet(Left(s) \cap K) /\ Cardinality(Left(s) \cap K) \in Nat
      /\ Due(head) = 2 * Cardinality(Left(s) \cap K)
  <2>1. s \in Seq(DOMAIN t.fields) /\ Once(s)
    BY <1>2 DEF FieldLists
  <2>2. K \in SUBSET DOMAIN t.fields
    BY KeptFields
  <2>3. IsFiniteSet(Left(s) \cap K) /\ Cardinality(Left(s) \cap K) \in Nat
    BY <1>2, <2>2, LeftFacts
  <2>4. Due(head) = 2 * Cardinality(Left(s) \cap K)
    BY <1>1 DEF Due, LeftFields
  <2> QED
    BY <2>1, <2>2, <2>3, <2>4
<1>4. CASE s = <<>>
  <2>1. Replace(<<>>)
    BY <1>4 DEF NextField
  <2>2. Left(s) \cap K = {}
    BY <1>4 DEF Left
  <2>3. Due(head) = 0
    BY <1>3, <2>2, FS_EmptySet
  <2> QED
    BY <1>1, <2>1, <2>3, StandsNothing DEF Replaced
<1>5. CASE s # <<>>
  <2>1. /\ n \in DOMAIN t.fields /\ Tail(s) \in Seq(DOMAIN t.fields) /\ Once(Tail(s))
        /\ n \notin K => Cardinality(Left(s) \cap K) = Cardinality(Left(Tail(s)) \cap K)
        /\ n \in K => Cardinality(Left(s) \cap K) = Cardinality(Left(Tail(s)) \cap K) + 1
    <3> DEFINE S == DOMAIN t.fields
    <3>1. s \in Seq(S) /\ Once(s) /\ s # <<>> /\ IsFiniteSet(Left(s) \cap K)
      BY <1>3, <1>5
    <3> HIDE DEF S, K, s
    <3>2. n \in S /\ Tail(s) \in Seq(S) /\ Once(Tail(s))
      BY <3>1, LeftRest
    <3>3. n \notin K => Cardinality(Left(s) \cap K) = Cardinality(Left(Tail(s)) \cap K)
      BY <3>1, LeftRest
    <3>4. n \in K => Cardinality(Left(s) \cap K) = Cardinality(Left(Tail(s)) \cap K) + 1
      BY <3>1, LeftRest
    <3> QED
      BY <3>2, <3>3, <3>4 DEF S
  <2>2. Tail(s) \in FieldLists(t)
    BY <2>1 DEF FieldLists
  <2>3. y \in Tasks /\ Due(y) = 2 * Cardinality(Left(Tail(s)) \cap K) /\ Due(y) \in Nat
    BY <1>2, <2>2, FieldsTask, DueFacts, DueType
  <2>4. CASE n \notin K
    <3>1. Replace(<<r>>)
      BY <1>2, <1>5, <2>1, <2>4, Zenon DEF NextField, Kept
    <3>2. r = y /\ Due(y) = Due(head)
      BY <1>2, <1>3, <2>1, <2>3, <2>4
    <3> HIDE DEF y, r
    <3>3. Replace(<<y>>) /\ Stands(<<y>>, Due(y))
      BY <2>3, <3>1, <3>2, StandsTask
    <3> QED
      BY <1>1, <3>2, <3>3 DEF Replaced
  <2>5. CASE n \in K
    <3>1. IsShort(n) /\ t.fields[n].kind \in GoKinds /\ v[n] \in ValuesOf(t.fields[n])
      <4>1. IsStruct(t, v)
        BY <1>2, TypeFacts, KindsFacts
      <4> QED
        BY <2>1, <4>1 DEF IsStruct
    <3>2. x \in Tasks /\ Due(x) = 1
      <4>1. Takes(h, t.fields[n]) /\ h \in Walks
        BY <1>2, <3>1 DEF Takes, Walks
      <4> QED
        BY <3>1, <4>1, ValueTask, DueFacts
    <3>3. Heads(EncodeString(n), 0) /\ Heads(preEncodeString(n), 0)
      BY <3>1, StringHeads
    <3>4. \/ Replace(EncodeString(n) \o <<x>> \o <<r>>)
          \/ Replace(preEncodeString(n) \o <<x>> \o <<r>>)
      BY <1>2, <1>5, <2>5, Zenon DEF NextField, Kept
    <3>5. r = y /\ Due(y) + 2 = Due(head)
      <4> DEFINE c == Cardinality(Left(Tail(s)) \cap K)
      <4>1. Due(head) = 2 * (c + 1) /\ Due(y) = 2 * c
        BY <1>3, <2>1, <2>3, <2>5
      <4>2. c \in Nat
        BY <1>2, <1>3, <2>2, LeftFacts
      <4> HIDE DEF c
      <4>3. Due(y) + 2 = Due(head)
        BY <4>1, <4>2
      <4> QED
        BY <1>2, <4>3
    <3> HIDE DEF x, y, r
    <3>6. PICK ws : Heads(ws, 0) /\ Replace(ws \o <<x>> \o <<y>>)
      BY <3>3, <3>4, <3>5
    <3>7. Stands(ws \o <<x>> \o <<y>>, Due(head))
      BY <2>3, <3>2, <3>5, <3>6, StandsPair
    <3> QED
      BY <1>1, <3>6, <3>7 DEF Replaced
  <2> QED
    BY <2>4, <2>5
<1> QED
  BY <1>4, <1>5

\* Some pair, its key in front of it, and the loop over the others.
LEMMA NextPairStands == ASSUME TodoOK, NextPair PROVE head \in Tasks /\ Replaced
<1> DEFINE t == head.type
           m == head.left
           n == Cardinality(DOMAIN m)
<1>1. head \in Tasks /\ head.do = "pairs"
  <2>1. Running("pairs")
    BY DEF NextPair
  <2> QED
    BY <2>1, HeadItem
<1>2. /\ head.how \in Loops /\ Takes(head.how, t) /\ t \in ElemTypes /\ m \in Keyed(t)
      /\ \A l : [head EXCEPT !.left = l] = EachPair(head.how, t, l)
  BY <1>1, TaskCases
<1>3. Due(head) = 2 * n
  BY <1>1 DEF Due
<1>4. CASE m = <<>>
  <2>1. Replace(<<>>)
    BY <1>4 DEF NextPair
  <2>2. DOMAIN m = {}
    <3>1. DOMAIN <<>> = {}
      OBVIOUS
    <3> QED
      BY <1>4, <3>1
  <2>3. n = 0 /\ Due(head) = 0
    BY <1>3, <2>2, FS_EmptySet
  <2> QED
    BY <1>1, <2>1, <2>3, StandsNothing DEF Replaced
<1>5. CASE m # <<>>
  <2>1. PICK k \in DOMAIN m :
          Replace(EncodeString(k) \o
                  <<Value(head.how, t, m[k]),
                    [head EXCEPT !.left = [z \in DOMAIN m \ {k} |-> m[z]]]>>)
    BY <1>5 DEF NextPair
  <2> DEFINE l == [z \in DOMAIN m \ {k} |-> m[z]]
             x == Value(head.how, t, m[k])
             y == EachPair(head.how, t, l)
  <2>2. PICK ns \in Names : m \in [ns -> ValuesOf(t)]
    BY <1>2 DEF Keyed
  <2>3. ns \in SUBSET {s \in Seq(Byte) : Len(s) <= Max16} /\ IsFiniteSet(ns) /\ DOMAIN m = ns
    BY <2>2 DEF Names
  <2>4. IsShort(k) /\ m[k] \in ValuesOf(t) /\ l \in [ns \ {k} -> ValuesOf(t)]
    BY <2>2, <2>3 DEF IsShort
  <2>5. l \in Keyed(t) /\ DOMAIN l = ns \ {k}
    <3>1. ns \ {k} \in Names
      <4>1. IsFiniteSet(ns \ {k}) /\ ns \ {k} \in SUBSET {s \in Seq(Byte) : Len(s) <= Max16}
        BY <2>3, FS_Subset
      <4> QED
        BY <4>1, Zenon DEF Names
    <3> HIDE DEF l
    <3> QED
      BY <2>4, <3>1 DEF Keyed
  <2>6. n = Cardinality(ns \ {k}) + 1 /\ Cardinality(ns \ {k}) \in Nat
    <3>1. IsFiniteSet(ns \ {k}) /\ k \in ns
      BY <2>3, FS_Subset
    <3>2. Cardinality(ns \ {k}) = Cardinality(ns) - 1
      BY <2>3, <3>1, FS_RemoveElement
    <3>3. Cardinality(ns) \in Nat /\ Cardinality(ns \ {k}) \in Nat
      BY <2>3, <3>1, FS_CardinalityType
    <3> QED
      BY <2>3, <3>2, <3>3
  <2>7. x \in Tasks /\ Due(x) = 1
    BY <1>2, <2>4, ValueTask, DueFacts, KindsFacts
  <2>8. y \in Tasks /\ Due(y) = 2 * Cardinality(ns \ {k})
    <3>1. y \in Tasks
      BY <1>2, <2>5, RangeTask
    <3>2. Due(y) = 2 * Cardinality(DOMAIN l)
      BY DueFacts
    <3> QED
      BY <2>5, <3>1, <3>2
  <2>9. Heads(EncodeString(k), 0)
    BY <2>4, StringHeads
  <2>10. Replace(EncodeString(k) \o <<x, y>>)
    <3>1. [head EXCEPT !.left = l] = y
      BY <1>2
    <3> QED
      BY <2>1, <3>1
  <2> HIDE DEF l, x, y, n
  <2>11. Due(y) + 2 = Due(head)
    BY <1>3, <2>6, <2>8
  <2>12. Stands(EncodeString(k) \o <<x, y>>, Due(y) + 2)
    BY <2>7, <2>8, <2>9, StandsPair
  <2> QED
    BY <1>1, <2>10, <2>11, <2>12 DEF Replaced
<1> QED
  BY <1>4, <1>5

\* A walk that goes on with a value.
LEMMA WalkStands ==
  ASSUME TodoOK,
         EncodeAny \/ EncodeReflect \/ EncodeInto \/ EncodeField \/ EncodeTree \/ EncodeArray
  PROVE  head \in Tasks /\ Replaced
<1> DEFINE t == head.type
           v == head.value
<1>1. ASSUME NEW do \in Walks, Running(do)
      PROVE  head \in Tasks /\ Due(head) = 1 /\ v \in ValuesOf(t) /\ Takes(do, t)
  <2>1. head \in Tasks /\ head.do = do
    BY <1>1, HeadItem DEF Walks
  <2> QED
    BY <2>1, TaskCases DEF Due, Walks
<1>2. CASE EncodeAny
  <2>1. Running("Encode") /\ Replace(Encode(t, v)) /\ "Encode" \in Walks
    BY <1>2 DEF EncodeAny, Walks
  <2>2. head \in Tasks /\ Due(head) = 1 /\ v \in ValuesOf(t) /\ t.kind \in GoKinds
    BY <1>1, <2>1 DEF Takes
  <2> QED
    BY <2>1, <2>2, EncodeStands DEF Replaced
<1>3. CASE EncodeReflect
  <2>1. Running("encodeValue") /\ "encodeValue" \in Walks
    BY <1>3 DEF EncodeReflect, Walks
  <2>2. head \in Tasks /\ Due(head) = 1 /\ v \in ValuesOf(t) /\ t.kind \in GoKinds
    BY <1>1, <2>1 DEF Takes
  <2>3. CASE Unsupported(t)
    BY <1>3, <2>2, <2>3 DEF EncodeReflect, Replaced
  <2>4. CASE ~Unsupported(t)
    <3>1. Replace(encodeValue(t, v))
      BY <1>3, <2>4 DEF EncodeReflect
    <3> QED
      BY <2>2, <2>4, <3>1, encodeValueStands DEF Replaced
  <2> QED
    BY <2>3, <2>4
<1>4. CASE EncodeInto
  <2>1. Running("encodeInto") /\ Replace(encodeInto(t, v)) /\ "encodeInto" \in Walks
    BY <1>4 DEF EncodeInto, Walks
  <2>2. head \in Tasks /\ Due(head) = 1 /\ v \in ValuesOf(t) /\ t.kind = "Struct"
    BY <1>1, <2>1 DEF Takes
  <2>3. Stands(encodeInto(t, v), 1)
    <3>1. encodeInto(t, v) = EncodeMapHeader(Cardinality(Kept("encodeField", t, v)))
                             \o <<Fields("encodeField", t, v, t.order)>>
      BY DEF encodeInto, Kept
    <3> QED
      BY <2>2, <3>1, StandsStruct
  <2> QED
    BY <2>1, <2>2, <2>3 DEF Replaced
<1>5. CASE EncodeField
  <2>1. Running("encodeField") /\ Replace(encodeField(t, v)) /\ "encodeField" \in Walks
    BY <1>5 DEF EncodeField, Walks
  <2>2. head \in Tasks /\ Due(head) = 1 /\ v \in ValuesOf(t) /\ t.kind \in GoKinds
    BY <1>1, <2>1 DEF Takes
  <2> QED
    BY <2>1, <2>2, encodeFieldStands DEF Replaced
<1>6. CASE EncodeTree
  <2>1. Running("EncodeValue") /\ Replace(EncodeValue(v)) /\ "EncodeValue" \in Walks
    BY <1>6 DEF EncodeTree, Walks
  <2>2. head \in Tasks /\ Due(head) = 1 /\ v \in ValuesOf(t) /\ t.kind = "Value"
    BY <1>1, <2>1 DEF Takes
  <2> QED
    BY <2>1, <2>2, EncodeValueStands DEF Replaced
<1>7. CASE EncodeArray
  <2>1. Running("EncodeArray") /\ Replace(Elements("Encode", t, v)) /\ "EncodeArray" \in Walks
    BY <1>7 DEF EncodeArray, Walks
  <2>2. /\ head \in Tasks /\ Due(head) = 1 /\ v \in ValuesOf(t)
        /\ t.kind = "Slice" /\ t.elem.kind \in GoKinds
    BY <1>1, <2>1 DEF Takes
  <2>3. t.elem \in ElemTypes /\ (v = Nil \/ IsListOf(t.elem, v))
    BY <2>2, TypeFacts, KindsFacts DEF IsSimple
  <2>4. Takes("Encode", t.elem) /\ "Encode" \in Loops
    BY <2>2 DEF Takes, Loops
  <2> QED
    BY <2>1, <2>2, <2>3, <2>4, StandsElements DEF Replaced
<1> QED
  BY <1>2, <1>3, <1>4, <1>5, <1>6, <1>7

\* Every step but a write and the last.
LEMMA StepStands == ASSUME TodoOK, Step, ~Write, ~Return PROVE head \in Tasks /\ Replaced
BY WalkStands, NextElementStands, NextFieldStands, NextPairStands DEF Step

-----------------------------------------------------------------------------
(* Whatever an Encoder does, there are only items to do.                   *)

\* Every step leaves items: TodoOK is inductive.
LEMMA TodoKept == TodoOK /\ [Next]_vars => TodoOK'
<1> SUFFICES ASSUME TodoOK, [Next]_vars PROVE TodoOK'
  OBVIOUS
<1>1. CASE Write
  <2>1. Tail(todo) \in Seq(Items) /\ todo' = Tail(todo)
    BY <1>1, HeadItem DEF Write
  <2> QED
    BY <2>1 DEF TodoOK
<1>2. CASE Step /\ ~Write /\ ~Return
  <2>1. Replaced /\ todo \in Seq(Items)
    BY <1>2, StepStands DEF TodoOK
  <2>2. CASE Fail("ErrUnsupportedType")
    BY <2>2 DEF Fail, TodoOK
  <2>3. CASE \E items : Replace(items) /\ Stands(items, Due(head))
    <3>1. PICK items : Replace(items) /\ Stands(items, Due(head))
      BY <2>3
    <3>2. todo # <<>> /\ todo' = items \o Tail(todo)
      <4>1. \E do : Running(do)
        BY <1>2 DEF Step, EncodeAny, EncodeReflect, EncodeInto, EncodeField, EncodeTree,
                    EncodeArray, NextElement, NextField, NextPair
      <4> QED
        BY <3>1, <4>1 DEF Running, Replace
    <3>3. items \in Seq(Items) /\ Tail(todo) \in Seq(Items)
      BY <2>1, <3>1, <3>2, StandsItems
    <3> QED
      BY <3>2, <3>3 DEF TodoOK
  <2> QED
    BY <2>1, <2>2, <2>3 DEF Replaced
<1>3. CASE Return \/ Reset \/ Hold \/ UNCHANGED vars
  BY <1>3 DEF Return, Reset, Hold, vars, TodoOK
<1>4. CASE \E j \in IF calls = 0 THEN Jobs ELSE NextJobs : Call(j)
  <2>1. PICK j \in Jobs \cup NextJobs : todo' = <<Value(j.how, j.type, j.value)>>
    BY <1>4 DEF Call, Begin
  <2>2. /\ j.how \in Walks /\ Takes(j.how, j.type) /\ Typed(j.type, j.value) \in Universe
    BY JobsAssumption, KindsFacts
  <2>3. j.value \in ValuesOf(j.type)
    <3>1. Typed(j.type, j.value).type = j.type /\ Typed(j.type, j.value).value = j.value
      BY DEF Typed
    <3> QED
      BY <2>2, <3>1, ValuesFacts
  <2> QED
    BY <2>1, <2>2, <2>3, ValueTask DEF TodoOK, Items
<1> QED
  BY <1>1, <1>2, <1>3, <1>4 DEF Next, Step

\* What an Encoder writes are bytes, whatever the values are and however a walk
\* goes through them: no length, number or name is cut to a byte that is none.
THEOREM WritesAreBytes == Spec => []WritesBytes
<1>1. Init => TodoOK
  BY DEF Init, TodoOK
<1>2. TodoOK => WritesBytes
  <2> SUFFICES ASSUME TodoOK, todo # <<>>, head.do = "write" PROVE head.bytes \in Seq(Byte)
    BY DEF WritesBytes
  <2>1. head \in Items
    BY DEF TodoOK, head
  <2> QED
    BY <2>1, TaskCases, WriteCases DEF Items
<1> QED
  BY <1>1, <1>2, TodoKept, PTL DEF Spec

-----------------------------------------------------------------------------
(* Whatever an Encoder does to its buffer, it does through Buffer.         *)

WrittenOK == written \in Seq(Byte)

\* The bytes that a write appends are the ones Buffer sees appended.
LEMMA WriteAppends ==
  ASSUME WrittenOK, NEW bs \in Seq(Byte), WriteBytes(bs)
  PROVE  WriteSome /\ WrittenOK'
<1>1. written' = written \o bs /\ written \in Seq(Byte)
  BY DEF WriteBytes, WrittenOK
<1>2. /\ written' \in Seq(Byte) /\ Len(written') = Len(written) + Len(bs)
      /\ \A i \in Len(written) + 1 .. Len(written) + Len(bs) :
           written'[i] = bs[i - Len(written)]
  BY <1>1, Concatenation
<1>3. Appended = bs
  <2> DEFINE m == Len(written)
             n == Len(bs)
  <2>1. m \in Nat /\ n \in Nat /\ Len(written') = m + n
    BY <1>1, <1>2
  <2>2. Appended = [i \in 1..n |-> written'[i + m]]
    <3>1. /\ SubSeq(written', m + 1, m + n) \in Seq(Byte)
          /\ Len(SubSeq(written', m + 1, m + n)) = n
          /\ \A i \in 1..n : SubSeq(written', m + 1, m + n)[i] = written'[i + m]
      BY <1>2, <2>1
    <3>2. Appended = SubSeq(written', m + 1, m + n)
      BY <2>1 DEF Appended
    <3> QED
      BY <3>1, <3>2
  <2>3. \A i \in 1..n : written'[i + m] = bs[i]
    <3> TAKE i \in 1..n
    <3>1. i + m \in m + 1 .. m + n /\ i + m - m = i
      BY <2>1
    <3> QED
      BY <1>2, <3>1
  <2>4. bs = [i \in 1..n |-> bs[i]]
    OBVIOUS
  <2> QED
    BY <2>2, <2>3, <2>4
<1> QED
  BY <1>2, <1>3 DEF WriteSome, WrittenOK

\* A step of a walk writes the bytes at its head, or leaves the buffer alone.
LEMMA StepWrites ==
  ASSUME Step PROVE Write \/ UNCHANGED buffer
  BY DEF Step, EncodeAny, EncodeReflect, EncodeInto, EncodeField, EncodeTree,
         EncodeArray, NextElement, NextField, NextPair, Return, Replace, Fail

\* Every step of an Encoder is one of its buffer, or none.
LEMMA StepImplements ==
  ASSUME WrittenOK, WritesBytes, [Next]_vars
  PROVE  [BufferNext]_buffer /\ WrittenOK'
<1>1. CASE Write
  <2>1. todo # <<>> /\ head.do = "write" /\ WriteBytes(head.bytes)
    BY <1>1 DEF Write, Running
  <2>2. head.bytes \in Seq(Byte)
    BY <2>1 DEF WritesBytes
  <2> QED
    BY <2>1, <2>2, WriteAppends DEF BufferNext
<1>2. CASE Reset
  BY <1>2 DEF Reset, ResetBuffer, BufferNext, WrittenOK
<1>3. CASE Hold
  BY <1>3 DEF Hold, HoldBytes, BufferNext, WrittenOK
<1>4. CASE UNCHANGED buffer
  BY <1>4 DEF buffer, WrittenOK
<1>5. CASE \E j \in IF calls = 0 THEN Jobs ELSE NextJobs : Call(j)
  BY <1>4, <1>5 DEF Call
<1>6. CASE Step
  BY <1>1, <1>4, <1>6, StepWrites
<1>7. CASE UNCHANGED vars
  BY <1>4, <1>7 DEF vars, buffer
<1> QED
  BY <1>2, <1>3, <1>5, <1>6, <1>7 DEF Next

\* An Encoder implements Buffer: nothing but what is appended, and Reset, changes
\* what it holds.
THEOREM EncoderImplementsBuffer == Spec => BufferSpec
<1>1. Init => BufferInit /\ WrittenOK
  BY DEF Init, BufferInit, WrittenOK
<1>2. WrittenOK /\ WritesBytes /\ [Next]_vars => [BufferNext]_buffer /\ WrittenOK'
  BY StepImplements
<1> QED
  BY <1>1, <1>2, WritesAreBytes, PTL DEF Spec, BufferSpec

\* So it has what is proved of Buffer: no byte is lost, no slice that Bytes has
\* returned changes.
THEOREM EncoderKeepsBytes == Spec => [](NothingIsLost /\ HeldIsKept)
  BY EncoderImplementsBuffer, NothingLost, HeldKept, PTL

-----------------------------------------------------------------------------
(* The calls of an Encoder.                                                *)

\* Where the i-th of some calls ended.
EndOf(s, i) == IF i = 0 THEN 0 ELSE s[i].to

CallOK ==
  /\ job \in Jobs \cup NextJobs \cup {Nil} /\ mark \in Nat
  /\ sent \in Seq([job : Jobs \cup NextJobs \cup {Nil}, from : Nat, to : Nat])

\* The inductive invariant: the calls that succeeded lie one behind the other,
\* and behind them there is only what the call that runs has written.
CallsInv ==
  /\ CallOK
  /\ ~broken =>
       /\ \A i \in 1..Len(sent) : EndOf(sent, i - 1) = sent[i].from
       /\ EndOf(sent, Len(sent)) = IF status = "running" THEN mark ELSE buf.len

\* A step within a call adds no call and ends none, but it may fail.
LEMMA StepWithin ==
  ASSUME Step, ~Return
  PROVE  UNCHANGED <<job, mark, sent>> /\ status = "running"
         /\ (broken' \/ (status' = status /\ broken' = broken))
<1>1. \A do : Running(do) => UNCHANGED <<job, mark, sent>> /\ status = "running"
  BY DEF Running
<1>2. \E do : Running(do)
  BY DEF Step, Write, EncodeAny, EncodeReflect, EncodeInto, EncodeField, EncodeTree,
         EncodeArray, NextElement, NextField, NextPair
<1>3. broken' \/ UNCHANGED <<status, broken>>
  <2>1. CASE Write
    BY <2>1 DEF Write
  <2>2. CASE EncodeReflect
    <3>1. (\E e : Fail(e)) \/ (\E items : Replace(items))
      BY <2>2 DEF EncodeReflect
    <3> QED
      BY <3>1 DEF Fail, Replace
  <2>3. CASE EncodeAny \/ EncodeInto \/ EncodeField \/ EncodeTree \/ EncodeArray
    <3>1. \E items : Replace(items)
      BY <2>3 DEF EncodeAny, EncodeInto, EncodeField, EncodeTree, EncodeArray
    <3> QED
      BY <3>1 DEF Replace
  <2>4. CASE NextElement \/ NextField \/ NextPair
    <3>1. \E items : Replace(items)
      BY <2>4, Zenon DEF NextElement, NextField, NextPair
    <3> QED
      BY <3>1 DEF Replace
  <2> QED
    BY <2>1, <2>2, <2>3, <2>4 DEF Step
<1> QED
  BY <1>1, <1>2, <1>3

\* Every step keeps the calls one behind the other: CallsInv is inductive.
LEMMA CallsKept == BufferOK /\ CallsInv /\ [Next]_vars => CallsInv'
<1> SUFFICES ASSUME BufferOK, CallsInv, [Next]_vars PROVE CallsInv'
  OBVIOUS
<1> DEFINE n == Len(sent)
<1>1. buf.len \in Nat
  BY DEF BufferOK
<1>2. CASE Step /\ ~Return
  <2>1. /\ UNCHANGED <<job, mark, sent>> /\ status = "running"
        /\ broken' \/ (status' = status /\ broken' = broken)
    BY <1>2, StepWithin
  <2> QED
    BY <2>1 DEF CallsInv, CallOK, EndOf
<1>3. CASE Return
  <2> DEFINE call == [job |-> job, from |-> mark, to |-> buf.len]
  <2>1. /\ status = "running" /\ status' = "ok" /\ sent' = Append(sent, call)
        /\ UNCHANGED <<buf, job, mark, broken>>
    BY <1>3 DEF Return, buffer
  <2>2. /\ call \in [job : Jobs \cup NextJobs \cup {Nil}, from : Nat, to : Nat]
        /\ call.from = mark /\ call.to = buf.len
    BY <1>1 DEF CallsInv, CallOK
  <2> HIDE DEF call
  <2>3. n \in Nat /\ Len(sent') = n + 1 /\ sent'[n+1] = call /\ \A i \in 1..n : sent'[i] = sent[i]
    BY <2>1, <2>2 DEF CallsInv, CallOK
  <2>4. CallOK'
    BY <2>1, <2>2 DEF CallsInv, CallOK
  <2> HIDE DEF n
  <2>5. ASSUME ~broken PROVE \A i \in 1..n+1 : EndOf(sent', i - 1) = sent'[i].from
    <3>1. ASSUME NEW i \in 1..n PROVE EndOf(sent', i - 1) = sent'[i].from
      <4>1. EndOf(sent, i - 1) = sent[i].from
        BY <2>5 DEF CallsInv, n
      <4>2. i - 1 = 0 \/ i - 1 \in 1..n
        BY <2>3
      <4> QED
        BY <2>3, <4>1, <4>2 DEF EndOf
    <3>2. EndOf(sent', n) = mark
      <4>1. EndOf(sent, n) = mark
        BY <2>1, <2>5 DEF CallsInv, n
      <4>2. n = 0 \/ n \in 1..n
        BY <2>3
      <4> QED
        BY <2>3, <4>1, <4>2 DEF EndOf
    <3>3. n + 1 - 1 = n /\ \A i \in 1..n+1 : i \in 1..n \/ i = n + 1
      BY <2>3
    <3> QED
      BY <2>2, <2>3, <3>1, <3>2, <3>3
  <2>6. EndOf(sent', n + 1) = buf.len
    <3>1. n + 1 # 0
      BY <2>3
    <3> QED
      BY <2>2, <2>3, <3>1 DEF EndOf
  <2> QED
    BY <2>1, <2>3, <2>4, <2>5, <2>6 DEF CallsInv
<1>4. CASE \E j \in IF calls = 0 THEN Jobs ELSE NextJobs : Call(j)
  <2>1. /\ job' \in Jobs \cup NextJobs /\ mark' = buf.len /\ status' = "running"
        /\ status # "running" /\ UNCHANGED <<sent, broken>>
    BY <1>4 DEF Call, Begin
  <2> QED
    BY <1>1, <2>1 DEF CallsInv, CallOK, EndOf
<1>5. CASE Reset
  <2>1. /\ job' = job /\ mark' = 0 /\ sent' = <<>> /\ status' = "idle" /\ buf'.len = 0
    BY <1>5 DEF Reset, ResetBuffer, BufferOK
  <2>2. Len(sent') = 0 /\ CallOK'
    BY <2>1 DEF CallsInv, CallOK
  <2> QED
    BY <2>1, <2>2 DEF CallsInv, EndOf
<1>6. CASE Hold \/ UNCHANGED vars
  <2>1. UNCHANGED <<job, mark, sent, status, broken, buf>>
    BY <1>6 DEF Hold, HoldBytes, vars
  <2> QED
    BY <2>1 DEF CallsInv, CallOK, EndOf
<1> QED
  BY <1>2, <1>3, <1>4, <1>5, <1>6 DEF Next

\* CallsInv is an invariant.
LEMMA CallsWell == Spec => []CallsInv
<1>1. Init => CallsInv
  BY DEF Init, BufferInit, CallsInv, CallOK, EndOf
<1> QED
  BY <1>1, CallsKept, EncoderImplementsBuffer, BufferTypes, PTL DEF Spec

\* A call appends its bytes right behind those of the call before it, and what the
\* buffer holds after a call that succeeded is what the calls have written; a call
\* that fails leaves some of its own behind, until Reset.
THEOREM CallsAreAppended == Spec => []CallsFillBuffer
<1>1. CallsInv => CallsFillBuffer
  <2> SUFFICES ASSUME CallsInv, status # "running", ~broken, NEW i \in 0..Len(sent)
               PROVE  EndOf(sent, i) = IF i = Len(sent) THEN buf.len ELSE sent[i+1].from
    BY DEF CallsFillBuffer, EndOf
  <2> DEFINE n == Len(sent)
  <2>1. n \in Nat /\ EndOf(sent, n) = buf.len /\ \A k \in 1..n : EndOf(sent, k - 1) = sent[k].from
    BY DEF CallsInv, CallOK
  <2> HIDE DEF n
  <2>2. i \in 0..n
    BY DEF n
  <2>3. i = n \/ (i + 1 \in 1..n /\ i + 1 - 1 = i)
    BY <2>1, <2>2
  <2>4. CASE i = n
    BY <2>1, <2>4 DEF n
  <2>5. CASE i # n
    BY <2>1, <2>3, <2>5 DEF n
  <2> QED
    BY <2>4, <2>5
<1> QED
  BY <1>1, CallsWell, PTL

-----------------------------------------------------------------------------
(* Each call is one value.                                                  *)

\* The calls that succeeded are whole values.
SentAreValues == \A i \in 1..Len(sent) : W!IsValue(written, sent[i].from, sent[i].to)

\* What the call that runs has written are whole items, once the item that is being
\* written is finished, and what it has still to do is what they ask for.
RowOK ==
  status = "running" =>
    \E ws \in WriteLists, rest \in Seq(Tasks), n \in Nat :
      /\ todo = ws \o rest /\ Owes(rest, n)
      /\ W!RowTo(written \o Text(ws), mark, Len(written \o Text(ws)), n)

\* The inductive invariant.
ValuesInv == SentAreValues /\ RowOK

\* No writes are no bytes.
LEMMA NoText == <<>> \in WriteLists /\ Text(<<>>) = <<>>
<1> DEFINE ws == <<>>
<1>1. ws \in Seq(Writes) /\ Len(ws) = 0 /\ Len(ws) <= 4
  OBVIOUS
<1>2. ws \in WriteLists
  BY <1>1, WriteListIs
<1>3. Len(ws) = 0 /\ \A i \in 1..Len(ws) : FALSE
  BY <1>1
<1> HIDE DEF ws
<1>4. Nth(ws, 1) = <<>> /\ Nth(ws, 2) = <<>> /\ Nth(ws, 3) = <<>> /\ Nth(ws, 4) = <<>>
  BY <1>3 DEF Nth
<1>5. <<>> \o <<>> = <<>>
  BY EmptyEnds, EmptySeq
<1>6. Text(ws) = <<>>
  BY <1>4, <1>5 DEF Text
<1> QED
  BY <1>2, <1>6 DEF ws

\* Between items there are only tasks to do.
LEMMA RowOfTasks ==
  ASSUME WrittenOK, NEW rest \in Seq(Tasks), NEW n \in Nat, Owes(rest, n), todo = rest,
         W!RowTo(written, mark, Len(written), n)
  PROVE  RowOK
<1> DEFINE ws == <<>>
<1>1. ws \in WriteLists /\ Text(ws) = <<>> /\ ws \o rest = rest
  BY NoText, EmptyEnds
<1> HIDE DEF ws
<1>2. written \o Text(ws) = written
  BY <1>1, EmptyEnds DEF WrittenOK
<1> QED
  BY <1>1, <1>2 DEF RowOK

\* What is written next is the first of the writes that are to do ...
LEMMA HeadWrites ==
  ASSUME NEW ws \in WriteLists, NEW rest \in Seq(Tasks), todo = ws \o rest, todo # <<>>
  PROVE  /\ ws # <<>> => /\ head = ws[1] /\ head.do = "write" /\ head.bytes \in Seq(Byte)
                         /\ Tail(todo) = Tail(ws) \o rest
         /\ ws = <<>> => todo = rest /\ rest # <<>> /\ head = rest[1] /\ head.do # "write"
<1>1. ws \in Seq(Writes) /\ ws \in Seq(Items) /\ rest \in Seq(Items)
  BY WriteListIs DEF Items
<1>2. ASSUME ws # <<>>
      PROVE  /\ head = ws[1] /\ head.do = "write" /\ head.bytes \in Seq(Byte)
             /\ Tail(todo) = Tail(ws) \o rest
  <2>1. ws[1] \in Writes
    BY <1>1, <1>2
  <2>2. (ws \o rest)[1] = ws[1] /\ Tail(ws \o rest) = Tail(ws) \o rest
    BY <1>1, <1>2
  <2> QED
    BY <2>1, <2>2, WriteCases DEF head
<1>3. ASSUME ws = <<>>
      PROVE  todo = rest /\ rest # <<>> /\ head = rest[1] /\ head.do # "write"
  <2>1. todo = rest
    BY <1>3, EmptyEnds
  <2>2. rest[1] \in Tasks
    BY <2>1
  <2> QED
    BY <2>1, <2>2, TaskCases DEF head
<1> QED
  BY <1>2, <1>3

\* ... after which there is as much in the row as before.
LEMMA WriteGoesOn == ASSUME WrittenOK, ValuesInv, Write PROVE ValuesInv'
<1> DEFINE b == head.bytes
           d == written
<1>1. /\ status = "running" /\ todo # <<>> /\ head.do = "write" /\ todo' = Tail(todo)
      /\ written' = d \o b /\ UNCHANGED <<status, mark, sent>>
  BY DEF Write, Running, WriteBytes
<1>2. PICK ws \in WriteLists, rest \in Seq(Tasks), n \in Nat :
        /\ todo = ws \o rest /\ Owes(rest, n)
        /\ W!RowTo(d \o Text(ws), mark, Len(d \o Text(ws)), n)
  BY <1>1 DEF ValuesInv, RowOK
<1>3. ws # <<>> /\ head = ws[1] /\ b \in Seq(Byte) /\ todo' = Tail(ws) \o rest
  BY <1>1, <1>2, HeadWrites
<1> HIDE DEF b, d
<1>4. Tail(ws) \in WriteLists /\ Text(ws) = b \o Text(Tail(ws))
  BY <1>3, TextRest DEF b
<1> DEFINE more == Text(Tail(ws))
<1>5. d \in Seq(Byte) /\ b \in Seq(Byte) /\ more \in Seq(Byte)
  BY <1>3, <1>4, NthType DEF WrittenOK, d
<1> HIDE DEF more
<1>6. (d \o b) \o more = d \o (b \o more)
  BY <1>5, ConcatAssociative
<1>7. written' \o more = d \o Text(ws)
  BY <1>1, <1>4, <1>6 DEF more
<1>8. W!RowTo(written' \o more, mark, Len(written' \o more), n)
  BY <1>2, <1>7
<1>9. RowOK'
  BY <1>1, <1>2, <1>3, <1>4, <1>8 DEF RowOK, more
<1>10. SentAreValues'
  <2> SUFFICES ASSUME NEW i \in 1..Len(sent)
               PROVE  W!IsValue(d \o b, sent[i].from, sent[i].to)
    BY <1>1 DEF SentAreValues
  <2>1. W!IsValue(d, sent[i].from, sent[i].to)
    BY DEF ValuesInv, SentAreValues, d
  <2> QED
    BY <1>5, <2>1, SameBytes, W!ValueStays
<1> QED
  BY <1>1, <1>9, <1>10 DEF ValuesInv

\* A task is replaced by what is worth as much: an item of n values is followed by
\* what these are made from.
LEMMA ReplaceKeeps ==
  ASSUME WrittenOK, ValuesInv, status = "running", todo # <<>>, head \in Tasks,
         NEW items, Replace(items), Stands(items, Due(head)), UNCHANGED mark
  PROVE  RowOK'
<1> DEFINE d == written
           m == Due(head)
<1>1. PICK ws \in WriteLists, rest \in Seq(Tasks), n \in Nat :
        /\ todo = ws \o rest /\ Owes(rest, n)
        /\ W!RowTo(d \o Text(ws), mark, Len(d \o Text(ws)), n)
  BY DEF ValuesInv, RowOK
<1>2. /\ ws = <<>> /\ todo = rest /\ rest # <<>> /\ head = rest[1]
  <2>1. head.do # "write"
    BY TaskCases
  <2> QED
    BY <1>1, <2>1, HeadWrites
<1> HIDE DEF d
<1>3. d \in Seq(Byte) /\ d \o Text(ws) = d
  <2>1. d \in Seq(Byte) /\ Text(ws) = <<>>
    BY <1>2, NoText DEF WrittenOK, d
  <2> QED
    BY <2>1, EmptyEnds
<1>4. W!RowTo(d, mark, Len(d), n)
  BY <1>1, <1>3
<1> DEFINE more == Tail(rest)
<1>5. more \in Seq(Tasks) /\ todo' = items \o more /\ written' = d
  BY <1>1, <1>2 DEF Replace, buffer, d
<1>6. PICK k \in Nat : Owes(more, k) /\ n = m + k
  BY <1>1, <1>2, OwesRest
<1> HIDE DEF more
<1>7. m \in Nat
  BY DueType
<1>8. PICK us \in WriteLists, new \in Seq(Tasks) :
        /\ items = us \o new
        /\ \/ us = <<>> /\ Owes(new, m)
           \/ m >= 1 /\ \E l \in Nat : Heads(us, l) /\ Owes(new, m - 1 + l)
  BY DEF Stands
<1> HIDE DEF m
<1>9. todo' = us \o (new \o more)
  <2>1. us \in Seq(Items) /\ new \in Seq(Items) /\ more \in Seq(Items)
    BY <1>5, WriteListIs DEF Items
  <2>2. (us \o new) \o more = us \o (new \o more)
    BY <2>1, ConcatAssociative
  <2> QED
    BY <1>5, <1>8, <2>2
<1>10. CASE us = <<>> /\ Owes(new, m)
  <2>1. new \o more \in Seq(Tasks) /\ Owes(new \o more, n)
    BY <1>5, <1>6, <1>10, OwesBoth
  <2>2. d \o Text(us) = d
    BY <1>3, <1>10, NoText, EmptyEnds
  <2>3. W!RowTo(written' \o Text(us), mark', Len(written' \o Text(us)), n)
    BY <1>4, <1>5, <2>2
  <2> QED
    BY <1>8, <1>9, <2>1, <2>3 DEF RowOK
<1>11. CASE m >= 1 /\ \E l \in Nat : Heads(us, l) /\ Owes(new, m - 1 + l)
  <2>1. PICK l \in Nat : Heads(us, l) /\ Owes(new, m - 1 + l)
    BY <1>11
  <2>2. n - 1 + l \in Nat /\ n > 0 /\ (m - 1 + l) + k = n - 1 + l
    BY <1>6, <1>7, <1>11
  <2>3. new \o more \in Seq(Tasks) /\ Owes(new \o more, n - 1 + l)
    BY <1>5, <1>6, <2>1, <2>2, OwesBoth
  <2>4. Text(us) \in Seq(Byte) /\ W!IsWhole(Text(us), l)
    BY <2>1, NthType DEF Heads
  <2>5. W!RowTo(d \o Text(us), mark, Len(d \o Text(us)), n - 1 + l)
    BY <1>3, <1>4, <2>2, <2>4, SameBytes, W!RowAppends
  <2> QED
    BY <1>5, <1>8, <1>9, <2>2, <2>3, <2>5 DEF RowOK
<1> QED
  BY <1>8, <1>10, <1>11

\* A call that has nothing more to do has written one value.
LEMMA ReturnKeeps ==
  ASSUME BufferOK, NothingIsLost, CallOK, ValuesInv, Return PROVE ValuesInv'
<1> DEFINE call == [job |-> job, from |-> mark, to |-> buf.len]
           d == written
<1>1. /\ status = "running" /\ todo = <<>> /\ status' = "ok" /\ sent' = Append(sent, call)
      /\ written' = d
  BY DEF Return, buffer
<1>2. PICK ws \in WriteLists, rest \in Seq(Tasks), n \in Nat :
        /\ todo = ws \o rest /\ Owes(rest, n)
        /\ W!RowTo(d \o Text(ws), mark, Len(d \o Text(ws)), n)
  BY <1>1 DEF ValuesInv, RowOK
<1>3. ws = <<>> /\ rest = <<>>
  <2>1. ws \in Seq(Items) /\ rest \in Seq(Items)
    BY WriteListIs DEF Items
  <2>2. Len(ws \o rest) = Len(ws) + Len(rest) /\ Len(ws) \in Nat /\ Len(rest) \in Nat
    BY <2>1
  <2>3. Len(ws \o rest) = 0
    BY <1>1, <1>2
  <2>4. Len(ws) = 0 /\ Len(rest) = 0
    BY <2>2, <2>3
  <2> QED
    BY <2>1, <2>4, EmptySeq
<1>4. n = 0
  BY <1>2, <1>3, OwesNone
<1> HIDE DEF d
<1>5. d \in Seq(Byte) /\ d \o Text(ws) = d
  <2>1. d \in Seq(Byte) /\ Text(ws) = <<>>
    BY <1>3, NoText DEF BufferOK, d
  <2> QED
    BY <2>1, EmptyEnds
<1>6. W!IsValue(d, mark, Len(d))
  BY <1>2, <1>4, <1>5, W!RowIsValue
<1>7. Len(d) = buf.len
  <2>1. Contents \in Seq(Byte) /\ Len(Contents) = buf.len
    BY Views DEF BufferOK, Contents, Cap
  <2> QED
    BY <2>1 DEF NothingIsLost, d
<1>8. SentAreValues'
  <2>1. call.from = mark /\ call.to = Len(d) /\ call \in [job : {job}, from : {mark}, to : {buf.len}]
    BY <1>7
  <2> HIDE DEF call
  <2>2. /\ Len(sent') = Len(sent) + 1 /\ sent'[Len(sent) + 1] = call
        /\ \A i \in 1..Len(sent) : sent'[i] = sent[i]
    BY <1>1 DEF CallOK
  <2> SUFFICES ASSUME NEW i \in 1..Len(sent')
               PROVE  W!IsValue(d, sent'[i].from, sent'[i].to)
    BY <1>1 DEF SentAreValues
  <2>3. i \in 1..Len(sent) \/ i = Len(sent) + 1
    BY <2>2 DEF CallOK
  <2>4. CASE i \in 1..Len(sent)
    <3>1. W!IsValue(d, sent[i].from, sent[i].to)
      BY <2>4 DEF ValuesInv, SentAreValues, d
    <3> QED
      BY <2>2, <2>4, <3>1
  <2>5. CASE i = Len(sent) + 1
    BY <1>6, <2>1, <2>2, <2>5
  <2> QED
    BY <2>3, <2>4, <2>5
<1>9. RowOK'
  BY <1>1 DEF RowOK
<1> QED
  BY <1>8, <1>9 DEF ValuesInv

\* What the calls have written, one value each, is written: ValuesInv is inductive.
LEMMA ValuesKept ==
  BufferOK /\ NothingIsLost /\ CallOK /\ TodoOK /\ ValuesInv /\ [Next]_vars => ValuesInv'
<1> SUFFICES ASSUME BufferOK, NothingIsLost, CallOK, TodoOK, ValuesInv, [Next]_vars
             PROVE  ValuesInv'
  OBVIOUS
<1>1. WrittenOK
  BY DEF BufferOK, WrittenOK
<1>2. CASE Write
  BY <1>1, <1>2, WriteGoesOn
<1>3. CASE Return
  BY <1>3, ReturnKeeps
<1>4. CASE Step /\ ~Write /\ ~Return
  <2>1. head \in Tasks /\ Replaced
    BY <1>4, StepStands
  <2>2. UNCHANGED <<written, mark, sent>> /\ status = "running" /\ todo # <<>>
    <3>1. UNCHANGED <<mark, sent>> /\ status = "running" /\ UNCHANGED buffer
      BY <1>4, StepWithin, StepWrites
    <3>2. \E do : Running(do)
      BY <1>4 DEF Step, EncodeAny, EncodeReflect, EncodeInto, EncodeField, EncodeTree,
                  EncodeArray, NextElement, NextField, NextPair
    <3> QED
      BY <3>1, <3>2 DEF Running, buffer
  <2>3. SentAreValues'
    BY <2>2 DEF ValuesInv, SentAreValues
  <2>4. RowOK'
    <3>1. CASE Fail("ErrUnsupportedType")
      BY <3>1 DEF Fail, RowOK
    <3>2. CASE \E items : Replace(items) /\ Stands(items, Due(head))
      BY <1>1, <2>1, <2>2, <3>2, ReplaceKeeps
    <3> QED
      BY <2>1, <3>1, <3>2 DEF Replaced
  <2> QED
    BY <2>3, <2>4 DEF ValuesInv
<1>5. CASE \E j \in IF calls = 0 THEN Jobs ELSE NextJobs : Call(j)
  <2>1. PICK j \in Jobs \cup NextJobs : Call(j)
    BY <1>5
  <2> DEFINE x == Value(j.how, j.type, j.value)
             d == written
  <2>2. todo' = <<x>> /\ mark' = buf.len /\ UNCHANGED <<written, sent>>
    BY <2>1 DEF Call, Begin, buffer
  <2>3. x \in Tasks /\ Due(x) = 1
    <3>1. j.how \in Walks /\ Takes(j.how, j.type) /\ Typed(j.type, j.value) \in Universe
      BY JobsAssumption, KindsFacts
    <3>2. j.value \in ValuesOf(j.type)
      <4>1. Typed(j.type, j.value).type = j.type /\ Typed(j.type, j.value).value = j.value
        BY DEF Typed
      <4> QED
        BY <3>1, <4>1, ValuesFacts
    <3> QED
      BY <3>1, <3>2, ValueTask, DueFacts
  <2> HIDE DEF x, d
  <2>4. d \in Seq(Byte) /\ Len(d) = buf.len /\ buf.len \in Nat
    <3>1. Contents \in Seq(Byte) /\ Len(Contents) = buf.len
      BY Views DEF BufferOK, Contents, Cap
    <3> QED
      BY <3>1 DEF NothingIsLost, BufferOK, d
  <2> DEFINE rest == <<x>>
             none == <<>>
  <2>5. rest \in Seq(Tasks) /\ Owes(rest, 1) /\ rest = todo'
    BY <2>2, <2>3, OwesOne
  <2>6. none \in WriteLists /\ none \o rest = rest /\ d \o Text(none) = d
    BY <2>4, <2>5, NoText, EmptyEnds
  <2> HIDE DEF rest, none
  <2>7. W!RowTo(d \o Text(none), mark', Len(d \o Text(none)), 1)
    BY <2>2, <2>4, <2>6, W!RowBegins
  <2>8. RowOK'
    <3>1. todo' = none \o rest /\ written' = d /\ 1 \in Nat
      BY <2>2, <2>5, <2>6 DEF d
    <3> QED
      BY <2>5, <2>6, <2>7, <3>1 DEF RowOK
  <2>9. SentAreValues'
    BY <2>2 DEF ValuesInv, SentAreValues
  <2> QED
    BY <2>8, <2>9 DEF ValuesInv
<1>6. CASE Reset
  <2>1. sent' = <<>> /\ status' = "idle"
    BY <1>6 DEF Reset
  <2>2. Len(sent') = 0
    BY <2>1
  <2> QED
    BY <2>1, <2>2 DEF ValuesInv, SentAreValues, RowOK
<1>7. CASE Hold \/ UNCHANGED vars
  <2>1. UNCHANGED <<todo, status, mark, sent, written>>
    BY <1>7 DEF Hold, HoldBytes, vars
  <2> QED
    BY <2>1 DEF ValuesInv, SentAreValues, RowOK
<1> QED
  BY <1>2, <1>3, <1>4, <1>5, <1>6, <1>7 DEF Next

\* Between the marks of a call that succeeded lies a whole value.
LEMMA SentIsValue ==
  ASSUME BufferOK, NothingIsLost, CallsInv, ValuesInv, NEW i \in 1..Len(sent)
  PROVE  /\ Contents \in Seq(Byte) /\ sent[i].from \in Nat /\ sent[i].to \in Nat
         /\ W!IsValue(Contents, sent[i].from, sent[i].to)
<1>1. Contents \in Seq(Byte)
  BY DEF BufferOK, NothingIsLost
<1>2. sent[i].from \in Nat /\ sent[i].to \in Nat
  <2>1. sent \in Seq([job : Jobs \cup NextJobs \cup {Nil}, from : Nat, to : Nat])
    BY DEF CallsInv, CallOK
  <2>2. sent[i] \in [job : Jobs \cup NextJobs \cup {Nil}, from : Nat, to : Nat]
    BY <2>1, ElementOfSeq
  <2> QED
    BY <2>2
<1>3. W!IsValue(Contents, sent[i].from, sent[i].to)
  BY DEF ValuesInv, SentAreValues, NothingIsLost
<1> QED
  BY <1>1, <1>2, <1>3

LEMMA ValuesInvariance == Spec => [](BufferOK /\ NothingIsLost /\ CallsInv /\ ValuesInv)
<1>1. Init => ValuesInv /\ TodoOK
  <2> SUFFICES ASSUME Init PROVE ValuesInv /\ TodoOK
    OBVIOUS
  <2>1. sent = <<>> /\ Len(sent) = 0 /\ status = "idle" /\ todo = <<>>
    BY DEF Init
  <2> QED
    BY <2>1 DEF ValuesInv, SentAreValues, RowOK, TodoOK
<1>2. CallsInv => CallOK
  BY DEF CallsInv
<1> QED
  BY <1>1, <1>2, CallsWell, TodoKept, ValuesKept, EncoderImplementsBuffer, BufferTypes,
     NothingLost, PTL DEF Spec

\* Every call that succeeds appends exactly one whole value of the format, whatever
\* it was given to encode and by whichever walk: the header of every array and map
\* counts what follows it, with fields left out or not.  No call before or after
\* it, failed or not, changes that, until Reset.
THEOREM CallsAreValues ==
  Spec => [](\A i \in 1..Len(sent) :
               /\ W!IsValue(Contents, sent[i].from, sent[i].to)
               /\ \A q \in Nat : W!IsValue(Contents, sent[i].from, q) => q = sent[i].to)
<1> DEFINE Single ==
      \A i \in 1..Len(sent) :
        /\ W!IsValue(Contents, sent[i].from, sent[i].to)
        /\ \A q \in Nat : W!IsValue(Contents, sent[i].from, q) => q = sent[i].to
<1>1. BufferOK /\ NothingIsLost /\ CallsInv /\ ValuesInv => Single
  <2> SUFFICES ASSUME BufferOK, NothingIsLost, CallsInv, ValuesInv, NEW i \in 1..Len(sent)
               PROVE  /\ W!IsValue(Contents, sent[i].from, sent[i].to)
                      /\ \A q \in Nat : W!IsValue(Contents, sent[i].from, q) => q = sent[i].to
    OBVIOUS
  <2> DEFINE d == Contents
             from == sent[i].from
             to == sent[i].to
  <2>1. d \in Seq(Byte) /\ from \in Nat /\ to \in Nat /\ W!IsValue(d, from, to)
    BY SentIsValue
  <2> HIDE DEF d, from, to
  <2>2. \A q \in Nat : W!IsValue(d, from, q) => q = to
    BY <2>1, SameBytes, W!ValuesEndOnce
  <2> QED
    BY <2>1, <2>2 DEF d, from, to
<1> QED
  BY <1>1, ValuesInvariance, PTL

\* And it is a value for who reads it by the format's own specification, by recursive
\* descent and with a table that shares nothing with the code: everything is there and
\* the last byte of it is the last one that the call has written.
THEOREM CallsAreGrammatical ==
  Spec => [](\A i \in 1..Len(sent) :
               /\ W!G!ValueAt(Contents, sent[i].from).ok
               /\ W!G!ValueAt(Contents, sent[i].from).end = sent[i].to)
<1> DEFINE Parsed ==
      \A i \in 1..Len(sent) :
        /\ W!G!ValueAt(Contents, sent[i].from).ok
        /\ W!G!ValueAt(Contents, sent[i].from).end = sent[i].to
<1>1. BufferOK /\ NothingIsLost /\ CallsInv /\ ValuesInv => Parsed
  <2> SUFFICES ASSUME BufferOK, NothingIsLost, CallsInv, ValuesInv, NEW i \in 1..Len(sent)
               PROVE  /\ W!G!ValueAt(Contents, sent[i].from).ok
                      /\ W!G!ValueAt(Contents, sent[i].from).end = sent[i].to
    OBVIOUS
  <2> DEFINE d == Contents
             from == sent[i].from
             to == sent[i].to
  <2>1. d \in Seq(Byte) /\ from \in Nat /\ to \in Nat /\ W!IsValue(d, from, to)
    BY SentIsValue
  <2> HIDE DEF d, from, to
  <2>2. W!G!ValueAt(d, from).ok /\ W!G!ValueAt(d, from).end = to
    BY <2>1, SameBytes, W!RowsAreGrammar
  <2> QED
    BY <2>2 DEF d, from, to
<1> QED
  BY <1>1, ValuesInvariance, PTL

-----------------------------------------------------------------------------
(* What an Encoder refuses: a value in which it meets a channel.           *)

\* The task x has still to come to one, or one of the tasks s.
TaskMeets(x) ==
  \/ x.do \in Walks /\ Meets(x.do, x.type, x.value)
  \/ x.do = "elements" /\ \E v \in Left(x.left) : Meets(x.how, x.type, v)
  \/ x.do = "pairs" /\ \E n \in DOMAIN x.left : Meets(x.how, x.type, x.left[n])
  \/ x.do = "fields" /\ \E n \in Left(x.left) : Meets(x.how, x.type.fields[n], x.value[n])
Met(s) == \E i \in 1..Len(s) : TaskMeets(s[i])

\* The inductive invariant.
RefusalInv ==
  /\ status \in {"idle", "running", "ok", "ErrUnsupportedType"}
  /\ status = "running" => (Met(todo) <=> Refusable(job))
  /\ status = "ok" => ~Refusable(job)
  /\ status = "ErrUnsupportedType" => Refusable(job)
  /\ status \in {"running", "ErrUnsupportedType"} => job \in Jobs \cup NextJobs

-----------------------------------------------------------------------------
(* A value has a channel if it is one or if one of its parts has one.      *)

\* The parts of a value are values of the types that its own type gives them.
LEMMA PartTypes ==
  ASSUME NEW t, NEW v \in ValuesOf(t), t.kind \in GoKinds
  PROVE  /\ t.kind = "Interface" /\ v # Nil => v.value \in ValuesOf(v.type)
         /\ t.kind \in {"Ptr", "Slice", "Array", "Map"} /\ v # Nil =>
              \A i \in DOMAIN v : v[i] \in ValuesOf(t.elem)
         /\ t.kind = "Struct" => \A n \in DOMAIN t.fields : v[n] \in ValuesOf(t.fields[n])
<1>1. ASSUME t.kind = "Interface", v # Nil PROVE v.value \in ValuesOf(v.type)
  BY <1>1, TypeFacts, ValuesFacts
<1>2. ASSUME t.kind \in {"Ptr", "Slice", "Array"}, v # Nil, NEW i \in DOMAIN v
      PROVE  v[i] \in ValuesOf(t.elem)
  <2>1. IsListOf(t.elem, v)
    BY <1>2, TypeFacts DEF IsSimple
  <2>2. v \in Seq(ValuesOf(t.elem)) /\ i \in 1..Len(v)
    BY <1>2, <2>1 DEF IsListOf
  <2> QED
    BY <2>2, ElementOfSeq
<1>3. ASSUME t.kind = "Map", v # Nil, NEW i \in DOMAIN v PROVE v[i] \in ValuesOf(t.elem)
  <2>1. IsMapOf(t.elem, v)
    BY <1>3, TypeFacts DEF IsSimple
  <2> QED
    BY <1>3, <2>1 DEF IsMapOf
<1>4. ASSUME t.kind = "Struct", NEW n \in DOMAIN t.fields PROVE v[n] \in ValuesOf(t.fields[n])
  <2>1. IsStruct(t, v)
    BY <1>4, TypeFacts
  <2> QED
    BY <1>4, <2>1 DEF IsStruct
<1> QED
  BY <1>1, <1>2, <1>3, <1>4

\* They are values too.
LEMMA PartsFacts ==
  ASSUME NEW x \in Universe
  PROVE  /\ PartsOf(x) \subseteq Universe
         /\ x.type.kind = "Interface" =>
              \A y : y \in PartsOf(x) <=> x.value # Nil /\ y = Typed(x.value.type, x.value.value)
         /\ x.type.kind \in {"Ptr", "Slice", "Array", "Map"} =>
              \A y : y \in PartsOf(x) <=>
                       x.value # Nil /\ \E i \in DOMAIN x.value : y = Typed(x.type.elem, x.value[i])
         /\ x.type.kind = "Struct" =>
              \A y : y \in PartsOf(x) <=>
                       \E n \in DOMAIN x.type.fields : y = Typed(x.type.fields[n], x.value[n])
         /\ x.type.kind \notin {"Interface", "Ptr", "Slice", "Array", "Map", "Struct"} =>
              PartsOf(x) = {}
<1> DEFINE t == x.type
           v == x.value
           k == t.kind
<1>1. v \in ValuesOf(t) /\ \A u, w : w \in ValuesOf(u) => Typed(u, w) \in Universe
  BY ValuesFacts
<1>2. ASSUME k = "Interface"
      PROVE  \A y : y \in PartsOf(x) <=> v # Nil /\ y = Typed(v.type, v.value)
  <2>1. v # Nil => PartsOf(x) = {Typed(v.type, v.value)}
    BY <1>2 DEF PartsOf
  <2>2. v = Nil => PartsOf(x) = {}
    BY <1>2 DEF PartsOf
  <2> QED
    BY <2>1, <2>2
<1>3. ASSUME k \in {"Ptr", "Slice", "Array", "Map"}
      PROVE  \A y : y \in PartsOf(x) <=> v # Nil /\ \E i \in DOMAIN v : y = Typed(t.elem, v[i])
  <2>1. v # Nil => PartsOf(x) = {Typed(t.elem, v[i]) : i \in DOMAIN v}
    BY <1>3 DEF PartsOf
  <2>2. v = Nil => PartsOf(x) = {}
    BY <1>3 DEF PartsOf
  <2> QED
    BY <2>1, <2>2
<1>4. ASSUME k = "Struct"
      PROVE  \A y : y \in PartsOf(x) <=> \E n \in DOMAIN t.fields : y = Typed(t.fields[n], v[n])
  <2>1. PartsOf(x) = {Typed(t.fields[n], v[n]) : n \in DOMAIN t.fields}
    BY <1>4 DEF PartsOf
  <2> QED
    BY <2>1
<1>5. ASSUME k \notin {"Interface", "Ptr", "Slice", "Array", "Map", "Struct"}
      PROVE  PartsOf(x) = {}
  BY <1>5 DEF PartsOf
<1>6. ASSUME NEW y \in PartsOf(x) PROVE y \in Universe
  <2>1. k \in {"Interface", "Ptr", "Slice", "Array", "Map", "Struct"} /\ k \in GoKinds
    BY <1>5, <1>6, KindsFacts
  <2>2. CASE k = "Interface"
    BY <1>1, <1>2, <1>6, <2>1, <2>2, PartTypes
  <2>3. CASE k \in {"Ptr", "Slice", "Array", "Map"}
    <3>1. v # Nil
      BY <1>3, <1>6, <2>3
    <3>2. PICK i \in DOMAIN v : y = Typed(t.elem, v[i])
      BY <1>3, <1>6, <2>3
    <3>3. v[i] \in ValuesOf(t.elem)
      BY <1>1, <2>1, <2>3, <3>1, PartTypes
    <3> QED
      BY <1>1, <3>2, <3>3
  <2>4. CASE k = "Struct"
    <3>1. PICK n \in DOMAIN t.fields : y = Typed(t.fields[n], v[n])
      BY <1>4, <1>6, <2>4
    <3>2. v[n] \in ValuesOf(t.fields[n])
      BY <1>1, <2>1, <2>4, PartTypes
    <3> QED
      BY <1>1, <3>1, <3>2
  <2> QED
    BY <2>1, <2>2, <2>3, <2>4
<1> QED
  BY <1>2, <1>3, <1>4, <1>5, <1>6

\* A way from x into it, part by part, that ends at a channel: what ChanIn says is
\* that there is one.
WayToChan(s, x) ==
  /\ Len(s) >= 1 /\ s[1] = x
  /\ \A i \in 1..Len(s)-1 : s[i+1] \in PartsOf(s[i])
  /\ s[Len(s)].type.kind = "Chan"
HasWay(x) == \E s \in Seq(Universe) : WayToChan(s, x)

\* A way goes on from the part it comes to first ...
LEMMA WayGoesOn ==
  ASSUME NEW s \in Seq(Universe), NEW x, WayToChan(s, x), x.type.kind # "Chan"
  PROVE  \E y \in PartsOf(x) : HasWay(y)
<1> DEFINE r == Tail(s)
           y == s[2]
           l == Len(r)
<1>1. Len(s) \in Nat /\ Len(s) >= 1 /\ s[1] = x
  BY DEF WayToChan
<1>2. Len(s) # 1
  BY <1>1 DEF WayToChan
<1> DEFINE m == Len(s)
<1>0. m \in Nat /\ m >= 2 /\ 2 \in 1..m /\ 1 \in 1..m-1
  <2>1. m \in Nat /\ m >= 1 /\ m # 1
    BY <1>1, <1>2
  <2> HIDE DEF m
  <2> QED
    BY <2>1
<1>3. /\ r \in Seq(Universe) /\ l = m - 1 /\ l \in Nat /\ l >= 1
      /\ \A i \in 1..l : r[i] = s[i+1]
  <2>1. s # <<>>
    BY <1>0
  <2>2. r \in Seq(Universe) /\ l = m - 1 /\ l \in Nat /\ \A i \in 1..l : r[i] = s[i+1]
    BY <2>1
  <2> HIDE DEF m, l
  <2>3. l >= 1
    BY <1>0, <2>2
  <2> QED
    BY <2>2, <2>3
<1>4. y \in Universe /\ y \in PartsOf(x)
  <2>1. 2 \in 1..Len(s) /\ 1 \in 1..Len(s)-1
    BY <1>0
  <2>2. s[1+1] \in PartsOf(s[1])
    BY <2>1 DEF WayToChan
  <2> QED
    BY <1>1, <2>1, <2>2, ElementOfSeq
<1> HIDE DEF r, l
<1>5. r[1] = y
  <2>1. 1 \in 1..l /\ 1 + 1 = 2
    BY <1>3
  <2> QED
    BY <1>3, <2>1
<1>6. ASSUME NEW i \in 1..l-1 PROVE r[i+1] \in PartsOf(r[i])
  <2>1. i \in 1..l /\ i+1 \in 1..l /\ i+1 \in 1..Len(s)-1
    BY <1>1, <1>3
  <2>2. r[i] = s[i+1] /\ r[i+1] = s[(i+1)+1] /\ s[(i+1)+1] \in PartsOf(s[i+1])
    BY <1>3, <2>1 DEF WayToChan
  <2> QED
    BY <2>2
<1>7. r[l].type.kind = "Chan"
  <2>1. l \in 1..l /\ l + 1 = Len(s)
    BY <1>1, <1>3
  <2>2. r[l] = s[Len(s)]
    BY <1>3, <2>1
  <2> QED
    BY <2>2 DEF WayToChan
<1>8. WayToChan(r, y)
  BY <1>3, <1>5, <1>6, <1>7 DEF WayToChan, l
<1> QED
  BY <1>3, <1>4, <1>8 DEF HasWay

\* ... and from what it is a part of, there is a way too.
LEMMA WayGoesBack ==
  ASSUME NEW x \in Universe, NEW y \in PartsOf(x), NEW r \in Seq(Universe), WayToChan(r, y)
  PROVE  HasWay(x)
<1> DEFINE p == <<x>>
           s == p \o r
           l == Len(r)
<1>1. p \in Seq(Universe) /\ Len(p) = 1 /\ p[1] = x
  OBVIOUS
<1>2. l \in Nat /\ l >= 1 /\ r[1] = y
  BY DEF WayToChan
<1> HIDE DEF p, l
<1>3. /\ s \in Seq(Universe) /\ Len(s) = 1 + l
      /\ \A i \in 1..1 : s[i] = p[i]
      /\ \A i \in 1+1 .. 1+l : s[i] = r[i-1]
  <2>1. /\ s \in Seq(Universe) /\ Len(s) = Len(p) + Len(r)
        /\ \A i \in 1..Len(p) : s[i] = p[i]
        /\ \A i \in Len(p) + 1 .. Len(p) + Len(r) : s[i] = r[i - Len(p)]
    BY <1>1, Concatenation
  <2> HIDE DEF s
  <2> QED
    BY <1>1, <2>1 DEF l
<1> HIDE DEF s
<1>4. s[1] = x
  BY <1>1, <1>3
<1>5. \A i \in 1..l : s[i+1] = r[i]
  <2> SUFFICES ASSUME NEW i \in 1..l PROVE s[i+1] = r[i]
    OBVIOUS
  <2>1. i+1 \in 1+1 .. 1+l /\ (i+1)-1 = i
    BY <1>2
  <2> QED
    BY <1>3, <2>1
<1>6. ASSUME NEW i \in 1..Len(s)-1 PROVE s[i+1] \in PartsOf(s[i])
  <2>1. CASE i = 1
    <3>1. s[i+1] = r[1]
      BY <1>2, <1>5, <2>1
    <3> QED
      BY <1>2, <1>4, <2>1, <3>1
  <2>2. CASE i # 1
    <3>1. i-1 \in 1..l-1 /\ i-1 \in 1..l /\ (i-1)+1 = i /\ i \in 1..l
      BY <1>2, <1>3, <2>2
    <3>2. s[i] = r[i-1] /\ s[i+1] = r[i]
      BY <1>5, <3>1
    <3>3. r[(i-1)+1] \in PartsOf(r[i-1])
      BY <3>1 DEF WayToChan, l
    <3> QED
      BY <3>1, <3>2, <3>3
  <2> QED
    BY <2>1, <2>2
<1>7. s[Len(s)].type.kind = "Chan"
  <2>1. l \in 1..l /\ l + 1 = Len(s)
    BY <1>2, <1>3
  <2>2. s[Len(s)] = r[l]
    BY <1>5, <2>1
  <2> QED
    BY <2>2 DEF WayToChan, l
<1>8. Len(s) >= 1
  BY <1>2, <1>3
<1>9. WayToChan(s, x)
  BY <1>4, <1>6, <1>7, <1>8 DEF WayToChan
<1> QED
  BY <1>3, <1>9 DEF HasWay

\* ... so that there is a function as ChanIn, and HasChan can be found out level by
\* level.
LEMMA WayUnfolds ==
  ASSUME NEW x \in Universe
  PROVE  HasWay(x) <=> x.type.kind = "Chan" \/ \E y \in PartsOf(x) : HasWay(y)
<1>1. ASSUME x.type.kind = "Chan" PROVE HasWay(x)
  <2> DEFINE s == <<x>>
  <2>1. s \in Seq(Universe) /\ Len(s) = 1 /\ s[1] = x
    OBVIOUS
  <2> HIDE DEF s
  <2>2. WayToChan(s, x)
    BY <1>1, <2>1 DEF WayToChan
  <2> QED
    BY <2>1, <2>2 DEF HasWay
<1>2. ASSUME HasWay(x), x.type.kind # "Chan" PROVE \E y \in PartsOf(x) : HasWay(y)
  BY <1>2, WayGoesOn DEF HasWay
<1>3. ASSUME NEW y \in PartsOf(x), HasWay(y) PROVE HasWay(x)
  <2>1. PICK r \in Seq(Universe) : WayToChan(r, y)
    BY <1>3 DEF HasWay
  <2> QED
    BY <1>3, <2>1, WayGoesBack
<1> QED
  BY <1>1, <1>2, <1>3

LEMMA ChanInIs ==
  ChanIn = [x \in Universe |-> x.type.kind = "Chan" \/ \E y \in PartsOf(x) : ChanIn[y]]
<1> DEFINE g == [x \in Universe |-> HasWay(x)]
           Below(f, x) == x.type.kind = "Chan" \/ \E y \in PartsOf(x) : f[y]
<1>1. ASSUME NEW x \in Universe PROVE HasWay(x) = Below(g, x)
  <2>1. \A y \in PartsOf(x) : y \in Universe
    BY PartsFacts
  <2>2. \A y \in Universe : g[y] = HasWay(y)
    OBVIOUS
  <2> HIDE DEF g
  <2>3. (\E y \in PartsOf(x) : HasWay(y)) <=> (\E y \in PartsOf(x) : g[y])
    BY <2>1, <2>2, Zenon
  <2>4. HasWay(x) <=> Below(g, x)
    BY <2>3, WayUnfolds, Zenon
  <2>5. HasWay(x) \in BOOLEAN
    BY Zenon DEF HasWay
  <2>6. Below(g, x) \in BOOLEAN
    BY Zenon
  <2> DEFINE way == HasWay(x)
             below == Below(g, x)
  <2>7. way \in BOOLEAN /\ below \in BOOLEAN /\ (way <=> below)
    BY <2>4, <2>5, <2>6, Zenon
  <2> HIDE DEF Below, way, below
  <2>8. way = below
    BY <2>7, SMT
  <2> QED
    BY <2>8, Zenon DEF way, below
<1>2. g = [x \in Universe |-> Below(g, x)]
  <2> DEFINE h == g
  <2>1. \A x \in Universe : HasWay(x) = Below(h, x)
    BY <1>1, Zenon
  <2>2. h = [x \in Universe |-> HasWay(x)]
    OBVIOUS
  <2> HIDE DEF h, Below
  <2>3. h = [x \in Universe |-> Below(h, x)]
    BY <2>1, <2>2, Zenon
  <2> QED
    BY <2>3 DEF h
<1>3. \E f : f = [x \in Universe |-> Below(f, x)]
  BY <1>2, Zenon
<1> QED
  BY <1>3, Zenon DEF ChanIn

LEMMA ChanUnfolds ==
  ASSUME NEW x \in Universe
  PROVE  ChanIn[x] <=> x.type.kind = "Chan" \/ \E y \in PartsOf(x) : ChanIn[y]
<1> DEFINE B(z) == z.type.kind = "Chan" \/ \E y \in PartsOf(z) : ChanIn[y]
<1>1. ChanIn = [z \in Universe |-> B(z)]
  BY ChanInIs, Zenon
<1> HIDE DEF B
<1>2. ChanIn[x] = B(x)
  BY <1>1, Zenon
<1> QED
  BY <1>2, Zenon DEF B

\* Whether a value has a channel, kind by kind.
LEMMA ChanFacts ==
  ASSUME NEW t, NEW v \in ValuesOf(t), t.kind \in GoKinds
  PROVE  /\ t.kind \in Basic \cup {"Bytes", "Time"} => ~HasChan(t, v)
         /\ t.kind = "Chan" => HasChan(t, v)
         /\ t.kind = "Interface" => (HasChan(t, v) <=> v # Nil /\ HasChan(v.type, v.value))
         /\ t.kind \in {"Ptr", "Slice", "Array", "Map"} =>
              (HasChan(t, v) <=> v # Nil /\ \E i \in DOMAIN v : HasChan(t.elem, v[i]))
         /\ t.kind = "Struct" =>
              (HasChan(t, v) <=> \E n \in DOMAIN t.fields : HasChan(t.fields[n], v[n]))
<1> DEFINE x == Typed(t, v)
           Below == \E y \in PartsOf(x) : ChanIn[y]
<1>1. x \in Universe /\ x.type = t /\ x.value = v
  BY ValuesFacts DEF Typed
<1>2. HasChan(t, v) <=> t.kind = "Chan" \/ Below
  BY <1>1, ChanUnfolds DEF HasChan
<1>3. \A u, w : HasChan(u, w) <=> ChanIn[Typed(u, w)]
  BY DEF HasChan
<1> HIDE DEF x
<1>4. ASSUME t.kind \in Basic \cup {"Bytes", "Time"} PROVE ~HasChan(t, v)
  <2>1. t.kind \notin {"Chan", "Interface", "Ptr", "Slice", "Array", "Map", "Struct"}
    BY <1>4, KindsFacts
  <2>2. PartsOf(x) = {}
    BY <1>1, <2>1, PartsFacts
  <2> QED
    BY <1>2, <2>1, <2>2
<1>5. ASSUME t.kind = "Interface" PROVE HasChan(t, v) <=> v # Nil /\ HasChan(v.type, v.value)
  <2>1. \A y : y \in PartsOf(x) <=> v # Nil /\ y = Typed(v.type, v.value)
    BY <1>1, <1>5, PartsFacts
  <2> QED
    BY <1>2, <1>3, <1>5, <2>1
<1>6. ASSUME t.kind \in {"Ptr", "Slice", "Array", "Map"}
      PROVE  HasChan(t, v) <=> v # Nil /\ \E i \in DOMAIN v : HasChan(t.elem, v[i])
  <2>1. \A y : y \in PartsOf(x) <=> v # Nil /\ \E i \in DOMAIN v : y = Typed(t.elem, v[i])
    BY <1>1, <1>6, PartsFacts
  <2>2. t.kind # "Chan"
    BY <1>6
  <2> QED
    BY <1>2, <1>3, <2>1, <2>2
<1>7. ASSUME t.kind = "Struct"
      PROVE  HasChan(t, v) <=> \E n \in DOMAIN t.fields : HasChan(t.fields[n], v[n])
  <2>1. \A y : y \in PartsOf(x) <=> \E n \in DOMAIN t.fields : y = Typed(t.fields[n], v[n])
    BY <1>1, <1>7, PartsFacts
  <2> QED
    BY <1>2, <1>3, <1>7, <2>1
<1> QED
  BY <1>2, <1>4, <1>5, <1>6, <1>7

\* What is left out of a struct has none.
LEMMA EmptyHasNone ==
  ASSUME NEW t, NEW v \in ValuesOf(t), t.kind \in GoKinds, isEmptyValue(t, v) \/ isEmptyField(t, v)
  PROVE  ~HasChan(t, v)
<1> DEFINE k == t.kind
<1>1. k \in GoKinds /\ (k \in Basic => k \notin {"Ptr", "Slice", "Array", "Map", "Interface", "Bytes"})
  BY KindsFacts
<1>2. CASE k \in Basic
  BY <1>2, ChanFacts
<1>3. CASE k = "Bytes"
  BY <1>3, ChanFacts
<1>4. CASE k \in {"Slice", "Map"}
  <2>1. v = Nil \/ DOMAIN v = {} \/ v = <<>>
    BY <1>1, <1>4 DEF isEmptyValue, isEmptyField
  <2>2. v = Nil \/ DOMAIN v = {}
    <3>1. DOMAIN <<>> = {}
      OBVIOUS
    <3> QED
      BY <2>1, <3>1
  <2> QED
    BY <1>4, <2>2, ChanFacts
<1>5. CASE k \in {"Ptr", "Interface"}
  <2>1. v = Nil
    BY <1>1, <1>5 DEF isEmptyValue, isEmptyField
  <2> QED
    BY <1>5, <2>1, ChanFacts
<1>6. CASE k = "Array"
  <2>1. v = <<>>
    BY <1>1, <1>6 DEF isEmptyValue, isEmptyField
  <2>2. DOMAIN <<>> = {}
    OBVIOUS
  <2>3. DOMAIN v = {}
    BY <2>1, <2>2
  <2> QED
    BY <1>6, <2>3, ChanFacts
<1>7. ASSUME k \notin Basic, k \notin {"Bytes", "Slice", "Map", "Ptr", "Interface", "Array"}
      PROVE  FALSE
  BY <1>7, Zenon DEF isEmptyValue, isEmptyField
<1> QED
  BY <1>2, <1>3, <1>4, <1>5, <1>6, <1>7

-----------------------------------------------------------------------------
(* What is to do meets a channel if one of the tasks does.                 *)

\* Lists of tasks meet what each of them meets; writes meet none.
LEMMA MetBoth ==
  ASSUME NEW s \in Seq(Items), NEW r \in Seq(Items) PROVE Met(s \o r) <=> Met(s) \/ Met(r)
<1> DEFINE c == s \o r
           m == Len(s)
           n == Len(r)
<1>1. m \in Nat /\ n \in Nat /\ Len(c) = m + n
  OBVIOUS
<1>2. \A i \in 1..m : c[i] = s[i]
  BY Concatenation
<1>3. \A i \in m+1..m+n : c[i] = r[i-m]
  BY Concatenation
<1> HIDE DEF c, m, n
<1>4. ASSUME NEW i \in 1..m, TaskMeets(s[i]) PROVE Met(c)
  <2>1. i \in 1..Len(c) /\ TaskMeets(c[i])
    BY <1>1, <1>2, <1>4
  <2> QED
    BY <2>1 DEF Met
<1>5. ASSUME NEW i \in 1..n, TaskMeets(r[i]) PROVE Met(c)
  <2>1. i+m \in m+1..m+n /\ (i+m)-m = i /\ i+m \in 1..Len(c)
    BY <1>1
  <2>2. TaskMeets(c[i+m])
    BY <1>3, <1>5, <2>1
  <2> QED
    BY <2>1, <2>2 DEF Met
<1>6. ASSUME NEW i \in 1..Len(c), TaskMeets(c[i]) PROVE Met(s) \/ Met(r)
  <2>1. CASE i <= m
    <3>1. i \in 1..m /\ TaskMeets(s[i])
      BY <1>1, <1>2, <1>6, <2>1
    <3> QED
      BY <3>1 DEF Met, m
  <2>2. CASE ~(i <= m)
    <3>1. i \in m+1..m+n /\ i-m \in 1..n
      BY <1>1, <2>2
    <3>2. TaskMeets(r[i-m])
      BY <1>3, <1>6, <3>1
    <3> QED
      BY <3>1, <3>2 DEF Met, n
  <2> QED
    BY <2>1, <2>2
<1>7. Met(s) \/ Met(r) => Met(c)
  BY <1>4, <1>5 DEF Met, m, n
<1>8. Met(c) => Met(s) \/ Met(r)
  BY <1>6 DEF Met
<1> QED
  BY <1>7, <1>8 DEF c

LEMMA MetOne == ASSUME NEW x PROVE Met(<<x>>) <=> TaskMeets(x)
<1> DEFINE s == <<x>>
<1>1. Len(s) = 1 /\ s[1] = x
  OBVIOUS
<1> HIDE DEF s
<1>2. \A i \in 1..Len(s) : i = 1
  BY <1>1
<1>3. 1 \in 1..Len(s)
  BY <1>1
<1> QED
  BY <1>1, <1>2, <1>3 DEF Met, s

LEMMA MetNone == ~Met(<<>>)
<1> DEFINE s == <<>>
<1>1. Len(s) = 0
  OBVIOUS
<1> HIDE DEF s
<1> QED
  BY <1>1 DEF Met, s

LEMMA MetWrites == ASSUME NEW ws \in WriteLists PROVE ws \in Seq(Items) /\ ~Met(ws)
<1>1. ws \in Seq(Writes)
  BY WriteListIs
<1>2. ASSUME NEW i \in 1..Len(ws) PROVE ~TaskMeets(ws[i])
  <2>1. ws[i] \in Writes
    BY <1>1, ElementOfSeq
  <2>2. ws[i].do = "write"
    BY <2>1, WriteCases
  <2> QED
    BY <2>2, KindsFacts DEF TaskMeets
<1>3. ws \in Seq(Items)
  BY <1>1 DEF Items
<1> QED
  BY <1>2, <1>3 DEF Met

\* What each task meets.
LEMMA MeetsFacts ==
  /\ \A h \in Walks : \A t, v : TaskMeets(Value(h, t, v)) <=> Meets(h, t, v)
  /\ \A h, t, s : TaskMeets(Each(h, t, s)) <=> \E v \in Left(s) : Meets(h, t, v)
  /\ \A h, t, m : TaskMeets(EachPair(h, t, m)) <=> \E n \in DOMAIN m : Meets(h, t, m[n])
  /\ \A h, t, v, s : TaskMeets(Fields(h, t, v, s)) <=> \E n \in Left(s) : Meets(h, t.fields[n], v[n])
<1>1. ASSUME NEW h \in Walks, NEW t, NEW v PROVE TaskMeets(Value(h, t, v)) <=> Meets(h, t, v)
  <2> DEFINE x == Value(h, t, v)
  <2>1. x.do = h /\ x.type = t /\ x.value = v
    BY DEF Value
  <2>2. h \notin {"elements", "pairs", "fields"}
    BY KindsFacts
  <2> HIDE DEF x
  <2> QED
    BY <2>1, <2>2, Zenon DEF TaskMeets, x
<1>2. ASSUME NEW h, NEW t, NEW s
      PROVE  TaskMeets(Each(h, t, s)) <=> \E v \in Left(s) : Meets(h, t, v)
  <2> DEFINE x == Each(h, t, s)
  <2>1. x.do = "elements" /\ x.how = h /\ x.type = t /\ x.left = s
    BY DEF Each
  <2>2. x.do \notin Walks \cup {"pairs", "fields"}
    BY <2>1, KindsFacts
  <2> HIDE DEF x
  <2> QED
    BY <2>1, <2>2 DEF TaskMeets, x
<1>3. ASSUME NEW h, NEW t, NEW m
      PROVE  TaskMeets(EachPair(h, t, m)) <=> \E n \in DOMAIN m : Meets(h, t, m[n])
  <2> DEFINE x == EachPair(h, t, m)
  <2>1. x.do = "pairs" /\ x.how = h /\ x.type = t /\ x.left = m
    BY DEF EachPair
  <2>2. x.do \notin Walks \cup {"elements", "fields"}
    BY <2>1, KindsFacts
  <2> HIDE DEF x
  <2> QED
    BY <2>1, <2>2 DEF TaskMeets, x
<1>4. ASSUME NEW h, NEW t, NEW v, NEW s
      PROVE  TaskMeets(Fields(h, t, v, s)) <=> \E n \in Left(s) : Meets(h, t.fields[n], v[n])
  <2> DEFINE x == Fields(h, t, v, s)
  <2>1. x.do = "fields" /\ x.how = h /\ x.type = t /\ x.value = v /\ x.left = s
    BY DEF Fields
  <2>2. x.do \notin Walks \cup {"elements", "pairs"}
    BY <2>1, KindsFacts
  <2> HIDE DEF x
  <2> QED
    BY <2>1, <2>2 DEF TaskMeets, x
<1> QED
  BY <1>1, <1>2, <1>3, <1>4

\* Writes, and a task behind them.
LEMMA MetBehind ==
  ASSUME NEW ws \in WriteLists, NEW x \in Tasks PROVE Met(ws \o <<x>>) <=> TaskMeets(x)
<1>1. ws \in Seq(Items) /\ ~Met(ws) /\ <<x>> \in Seq(Items)
  BY MetWrites DEF Items
<1> QED
  BY <1>1, MetBoth, MetOne

-----------------------------------------------------------------------------
(* What there is to do for a value meets what the walk over it meets.      *)

\* A slice, an array.
LEMMA MetElements ==
  ASSUME NEW h \in Loops, NEW t, NEW v, t.elem \in ElemTypes, Takes(h, t.elem),
         v = Nil \/ IsListOf(t.elem, v)
  PROVE  Met(Elements(h, t, v)) <=> v # Nil /\ \E i \in DOMAIN v : Meets(h, t.elem, v[i])
<1> DEFINE s == IF v = Nil THEN <<>> ELSE v
           x == Each(h, t.elem, s)
           n == Len(s)
<1>1. s \in Seq(ValuesOf(t.elem)) /\ n \in Nat /\ n <= Max16
  BY ListIs
<1>2. Elements(h, t, v) = EncodeArrayHeader(n) \o <<x>>
  BY DEF Elements
<1>3. \A w : w \in Left(s) <=> v # Nil /\ \E i \in DOMAIN v : w = v[i]
  <2>1. CASE v = Nil
    <3>1. Left(<<>>) = {}
      BY DEF Left
    <3> QED
      BY <2>1, <3>1
  <2>2. CASE v # Nil
    <3>1. v \in Seq(ValuesOf(t.elem)) /\ s = v
      BY <2>2 DEF IsListOf
    <3>2. DOMAIN v = 1..Len(v)
      BY <3>1
    <3> QED
      BY <2>2, <3>1, <3>2 DEF Left
  <2> QED
    BY <2>1, <2>2
<1> HIDE DEF s
<1>4. x \in Tasks /\ (TaskMeets(x) <=> \E w \in Left(s) : Meets(h, t.elem, w))
  BY <1>1, EachTask, MeetsFacts
<1>5. EncodeArrayHeader(n) \in WriteLists
  BY <1>1, HeaderHeads DEF Heads
<1> HIDE DEF n, x
<1>6. Met(Elements(h, t, v)) <=> TaskMeets(x)
  BY <1>2, <1>4, <1>5, MetBehind
<1>7. (\E w \in Left(s) : Meets(h, t.elem, w))
        <=> v # Nil /\ \E i \in DOMAIN v : Meets(h, t.elem, v[i])
  BY <1>3
<1> QED
  BY <1>4, <1>6, <1>7

\* A map.
LEMMA MetPairs ==
  ASSUME NEW h \in Loops, NEW t, NEW v, t.elem \in ElemTypes, Takes(h, t.elem),
         v = Nil \/ IsMapOf(t.elem, v)
  PROVE  Met(Pairs(h, t, v)) <=> v # Nil /\ \E i \in DOMAIN v : Meets(h, t.elem, v[i])
<1> DEFINE m == IF v = Nil THEN <<>> ELSE v
           x == EachPair(h, t.elem, m)
           n == Cardinality(DOMAIN m)
<1>1. m \in Keyed(t.elem) /\ n \in Nat /\ n <= Max16
  BY MapIs
<1>2. Pairs(h, t, v) = EncodeMapHeader(n) \o <<x>>
  BY DEF Pairs
<1>3. (\E i \in DOMAIN m : Meets(h, t.elem, m[i]))
        <=> v # Nil /\ \E i \in DOMAIN v : Meets(h, t.elem, v[i])
  <2>1. CASE v = Nil
    <3>1. m = <<>>
      BY <2>1
    <3>2. DOMAIN <<>> = {}
      OBVIOUS
    <3>3. DOMAIN m = {}
      BY <3>1, <3>2
    <3> HIDE DEF m
    <3> QED
      BY <2>1, <3>3
  <2>2. CASE v # Nil
    <3>1. m = v
      BY <2>2
    <3> HIDE DEF m
    <3> QED
      BY <2>2, <3>1
  <2> QED
    BY <2>1, <2>2
<1> HIDE DEF m
<1>4. x \in Tasks /\ (TaskMeets(x) <=> \E i \in DOMAIN m : Meets(h, t.elem, m[i]))
  BY <1>1, RangeTask, MeetsFacts
<1>5. EncodeMapHeader(n) \in WriteLists
  BY <1>1, HeaderHeads DEF Heads
<1> HIDE DEF n, x
<1>6. Met(Pairs(h, t, v)) <=> TaskMeets(x)
  BY <1>2, <1>4, <1>5, MetBehind
<1> QED
  BY <1>3, <1>4, <1>6

\* A struct.
LEMMA MetStruct ==
  ASSUME NEW h \in {"encodeValue", "encodeField"}, NEW t, NEW v \in ValuesOf(t),
         t.kind = "Struct"
  PROVE  Met(EncodeMapHeader(Cardinality(Kept(h, t, v))) \o <<Fields(h, t, v, t.order)>>)
           <=> \E n \in DOMAIN t.fields : Meets(h, t.fields[n], v[n])
<1> DEFINE s == t.order
           x == Fields(h, t, v, s)
           n == Cardinality(Kept(h, t, v))
<1>1. n \in Nat /\ n <= Max16 /\ s \in FieldLists(t) /\ Left(s) = DOMAIN t.fields
  BY KeptCount, OrderIs
<1> HIDE DEF s
<1>2. x \in Tasks /\ (TaskMeets(x) <=> \E f \in Left(s) : Meets(h, t.fields[f], v[f]))
  BY <1>1, FieldsTask, MeetsFacts
<1>3. EncodeMapHeader(n) \in WriteLists
  BY <1>1, HeaderHeads DEF Heads
<1> HIDE DEF n, x
<1>4. Met(EncodeMapHeader(n) \o <<x>>) <=> TaskMeets(x)
  BY <1>2, <1>3, MetBehind
<1>5. Met(EncodeMapHeader(n) \o <<x>>) <=> \E f \in DOMAIN t.fields : Meets(h, t.fields[f], v[f])
  BY <1>1, <1>2, <1>4
<1> QED
  BY <1>5 DEF n, x, s

\* Another walk.
LEMMA MetWalk ==
  ASSUME NEW h \in Walks, NEW t, NEW v PROVE Met(<<Value(h, t, v)>>) <=> Meets(h, t, v)
BY MetOne, MeetsFacts

\* One item and nothing else meets none.
LEMMA MetHeads == ASSUME NEW ws, NEW k, Heads(ws, k) PROVE ~Met(ws)
BY MetWrites DEF Heads

\* Which walks look into a value, and which do not.
LEMMA LooksInto ==
  /\ \A h \in {"Encode", "encodeValue", "EncodeArray"} : \A t, v : Meets(h, t, v) <=> HasChan(t, v)
  /\ \A t, v : Meets("encodeField", t, v) <=> FieldHasChan(t, v)
  /\ \A t, v : Meets("encodeInto", t, v) <=> \E n \in DOMAIN t.fields : FieldHasChan(t.fields[n], v[n])
  /\ \A t, v : ~Meets("EncodeValue", t, v)
BY DEF Meets

\* Encode.
LEMMA EncodeMeets ==
  ASSUME NEW t, NEW v \in ValuesOf(t), t.kind \in GoKinds
  PROVE  Met(Encode(t, v)) <=> HasChan(t, v)
<1> DEFINE k == t.kind
<1>1. /\ t.elem \in ElemTypes /\ IsSimple(t, v)
      /\ k \in {"Slice", "Array", "Map", "Ptr"} => t.elem.kind \in GoKinds
      /\ k = "Interface" => v = Nil \/ (v \in Universe /\ v.type.kind \in GoKinds)
  BY TypeFacts
<1>2. CASE k = "Interface" /\ v = Nil
  <2>1. Encode(t, v) = EncodeNil /\ ~HasChan(t, v)
    BY <1>2, KindsFacts, ChanFacts DEF Encode
  <2> QED
    BY <2>1, NilHeads, MetHeads
<1>3. CASE k = "Interface" /\ v # Nil
  <2>1. Encode(t, v) = <<Value("Encode", v.type, v.value)>>
    BY <1>3, KindsFacts DEF Encode
  <2>2. HasChan(t, v) <=> HasChan(v.type, v.value)
    BY <1>3, ChanFacts
  <2> QED
    BY <2>1, <2>2, MetWalk, LooksInto, KindsFacts
<1>4. CASE k \in Basic
  <2>1. Encode(t, v) = EncodeBasic(k, v) /\ ~HasChan(t, v)
    BY <1>4, KindsFacts, ChanFacts DEF Encode
  <2>2. IsBasic(k, v)
    BY <1>1, <1>4 DEF IsSimple
  <2> QED
    BY <1>4, <2>1, <2>2, BasicHeads, MetHeads
<1>5. CASE k = "Bytes"
  <2>1. Encode(t, v) = EncodeBinary(v) /\ ~HasChan(t, v)
    BY <1>5, KindsFacts, ChanFacts DEF Encode
  <2>2. v = Nil \/ IsShort(v)
    BY <1>1, <1>5 DEF IsSimple
  <2> QED
    BY <2>1, <2>2, BinaryHeads, MetHeads
<1>6. CASE k = "Map" /\ t.elem.kind = "Interface"
  <2>1. Encode(t, v) = Pairs("Encode", t, v)
    BY <1>6, KindsFacts DEF Encode
  <2>2. v = Nil \/ IsMapOf(t.elem, v)
    BY <1>1, <1>6 DEF IsSimple
  <2>3. Takes("Encode", t.elem) /\ "Encode" \in Loops
    BY <1>1, <1>6 DEF Takes, Loops
  <2>4. HasChan(t, v) <=> v # Nil /\ \E i \in DOMAIN v : HasChan(t.elem, v[i])
    BY <1>6, ChanFacts
  <2> QED
    BY <1>1, <2>1, <2>2, <2>3, <2>4, MetPairs, LooksInto
<1>7. CASE k = "Slice" /\ t.elem.kind = "Interface"
  <2>1. Encode(t, v) = Elements("Encode", t, v)
    BY <1>7, KindsFacts DEF Encode
  <2>2. v = Nil \/ IsListOf(t.elem, v)
    BY <1>1, <1>7 DEF IsSimple
  <2>3. Takes("Encode", t.elem) /\ "Encode" \in Loops
    BY <1>1, <1>7 DEF Takes, Loops
  <2>4. HasChan(t, v) <=> v # Nil /\ \E i \in DOMAIN v : HasChan(t.elem, v[i])
    BY <1>7, ChanFacts
  <2> QED
    BY <1>1, <2>1, <2>2, <2>3, <2>4, MetElements, LooksInto
<1>8. CASE /\ k # "Interface" /\ k \notin Basic /\ k # "Bytes"
           /\ ~(k = "Map" /\ t.elem.kind = "Interface")
           /\ ~(k = "Slice" /\ t.elem.kind = "Interface")
  <2>1. Encode(t, v) = <<Value("encodeValue", t, v)>>
    BY <1>8 DEF Encode
  <2> QED
    BY <2>1, MetWalk, LooksInto, KindsFacts
<1> QED
  BY <1>2, <1>3, <1>4, <1>5, <1>6, <1>7, <1>8

\* encodeValue, for all but what it has no case for.
LEMMA encodeValueMeets ==
  ASSUME NEW t, NEW v \in ValuesOf(t), t.kind \in GoKinds, ~Unsupported(t)
  PROVE  Met(encodeValue(t, v)) <=> HasChan(t, v)
<1> DEFINE k == t.kind
<1>1. /\ t.elem \in ElemTypes /\ IsSimple(t, v)
      /\ k \in {"Slice", "Array", "Map", "Ptr"} => t.elem.kind \in GoKinds
      /\ k = "Interface" => v = Nil \/ (v \in Universe /\ v.type.kind \in GoKinds)
  BY TypeFacts
<1>2. CASE k \in {"Ptr", "Interface", "Slice", "Bytes", "Map"} /\ v = Nil
  <2>1. encodeValue(t, v) = EncodeNil /\ ~HasChan(t, v)
    BY <1>2, KindsFacts, ChanFacts DEF encodeValue
  <2> QED
    BY <2>1, NilHeads, MetHeads
<1>3. CASE k = "Ptr" /\ v # Nil
  <2>1. encodeValue(t, v) = <<Value("encodeValue", t.elem, v[1])>>
    BY <1>3, KindsFacts DEF encodeValue
  <2>2. DOMAIN v = {1}
    <3>1. IsListOf(t.elem, v) /\ Len(v) = 1
      BY <1>1, <1>3 DEF IsSimple
    <3>2. DOMAIN v = 1..Len(v) /\ 1..1 = {1}
      BY <3>1 DEF IsListOf
    <3> QED
      BY <3>1, <3>2
  <2>3. HasChan(t, v) <=> HasChan(t.elem, v[1])
    BY <1>3, <2>2, ChanFacts
  <2> QED
    BY <2>1, <2>3, MetWalk, LooksInto, KindsFacts
<1>4. CASE k = "Interface" /\ v # Nil
  <2>1. encodeValue(t, v) = <<Value("encodeValue", v.type, v.value)>>
    BY <1>4, KindsFacts DEF encodeValue
  <2>2. HasChan(t, v) <=> HasChan(v.type, v.value)
    BY <1>4, ChanFacts
  <2> QED
    BY <2>1, <2>2, MetWalk, LooksInto, KindsFacts
<1>5. CASE k = "Bytes" /\ v # Nil
  <2>1. encodeValue(t, v) = EncodeBinary(v) /\ ~HasChan(t, v)
    BY <1>5, KindsFacts, ChanFacts DEF encodeValue
  <2>2. v = Nil \/ IsShort(v)
    BY <1>1, <1>5 DEF IsSimple
  <2> QED
    BY <2>1, <2>2, BinaryHeads, MetHeads
<1>6. CASE (k = "Slice" /\ v # Nil) \/ k = "Array"
  <2>1. encodeValue(t, v) = Elements("encodeValue", t, v)
    BY <1>6, KindsFacts DEF encodeValue
  <2>2. v = Nil \/ IsListOf(t.elem, v)
    BY <1>1, <1>6 DEF IsSimple
  <2>3. Takes("encodeValue", t.elem) /\ "encodeValue" \in Loops
    BY <1>1, <1>6 DEF Takes, Loops
  <2>4. HasChan(t, v) <=> v # Nil /\ \E i \in DOMAIN v : HasChan(t.elem, v[i])
    BY <1>6, ChanFacts
  <2> QED
    BY <1>1, <2>1, <2>2, <2>3, <2>4, MetElements, LooksInto
<1>7. CASE k = "Map" /\ v # Nil
  <2>1. encodeValue(t, v) = Pairs("encodeValue", t, v)
    BY <1>7, KindsFacts DEF encodeValue
  <2>2. v = Nil \/ IsMapOf(t.elem, v)
    BY <1>1, <1>7 DEF IsSimple
  <2>3. Takes("encodeValue", t.elem) /\ "encodeValue" \in Loops
    BY <1>1, <1>7 DEF Takes, Loops
  <2>4. HasChan(t, v) <=> v # Nil /\ \E i \in DOMAIN v : HasChan(t.elem, v[i])
    BY <1>7, ChanFacts
  <2> QED
    BY <1>1, <2>1, <2>2, <2>3, <2>4, MetPairs, LooksInto
<1>8. CASE k = "Struct"
  <2>1. encodeValue(t, v) = EncodeMapHeader(Cardinality(Kept("encodeValue", t, v)))
                            \o <<Fields("encodeValue", t, v, t.order)>>
    BY <1>8, KindsFacts DEF encodeValue, Kept
  <2>2. HasChan(t, v) <=> \E n \in DOMAIN t.fields : HasChan(t.fields[n], v[n])
    BY <1>8, ChanFacts
  <2>3. Met(encodeValue(t, v)) <=>
          \E n \in DOMAIN t.fields : Meets("encodeValue", t.fields[n], v[n])
    BY <1>8, <2>1, MetStruct
  <2> QED
    BY <2>2, <2>3, LooksInto
<1>9. CASE k = "Time"
  <2>1. encodeValue(t, v) = EncodeMapHeader(0) /\ ~HasChan(t, v)
    BY <1>9, KindsFacts, ChanFacts DEF encodeValue
  <2>2. Heads(EncodeMapHeader(0), 2 * 0)
    BY HeaderHeads DEF Max16
  <2> QED
    BY <2>1, <2>2, MetHeads
<1>10. CASE k \in Basic
  <2>1. encodeValue(t, v) = EncodeBasic(k, v) /\ ~HasChan(t, v)
    BY <1>10, KindsFacts, ChanFacts DEF encodeValue
  <2>2. IsBasic(k, v)
    BY <1>1, <1>10 DEF IsSimple
  <2> QED
    BY <1>10, <2>1, <2>2, BasicHeads, MetHeads
<1> QED
  BY <1>2, <1>3, <1>4, <1>5, <1>6, <1>7, <1>8, <1>9, <1>10, KindsFacts DEF Unsupported

\* encodeField, which writes nil for what it has no case for.
LEMMA encodeFieldMeets ==
  ASSUME NEW t, NEW v \in ValuesOf(t), t.kind \in GoKinds
  PROVE  Met(encodeField(t, v)) <=> FieldHasChan(t, v)
<1> DEFINE k == t.kind
<1>1. /\ t.elem \in ElemTypes /\ IsSimple(t, v)
      /\ k \in {"Slice", "Array", "Map", "Ptr"} => t.elem.kind \in GoKinds
  BY TypeFacts
<1>2. CASE k \in Basic
  <2>1. encodeField(t, v) = EncodeBasic(k, v) /\ ~HasChan(t, v)
    BY <1>2, KindsFacts, ChanFacts DEF encodeField
  <2>2. IsBasic(k, v)
    BY <1>1, <1>2 DEF IsSimple
  <2> QED
    BY <1>2, <2>1, <2>2, BasicHeads, MetHeads DEF FieldHasChan
<1>3. CASE k = "Bytes"
  <2>1. encodeField(t, v) = EncodeBinary(v) /\ ~HasChan(t, v)
    BY <1>3, KindsFacts, ChanFacts DEF encodeField
  <2>2. v = Nil \/ IsShort(v)
    BY <1>1, <1>3 DEF IsSimple
  <2> QED
    BY <2>1, <2>2, BinaryHeads, MetHeads DEF FieldHasChan
<1>4. CASE k = "Slice"
  <2>1. encodeField(t, v) = Elements("Encode", t, v)
    BY <1>4, KindsFacts DEF encodeField
  <2>2. v = Nil \/ IsListOf(t.elem, v)
    BY <1>1, <1>4 DEF IsSimple
  <2>3. Takes("Encode", t.elem) /\ "Encode" \in Loops
    BY <1>1, <1>4 DEF Takes, Loops
  <2>4. FieldHasChan(t, v) <=> v # Nil /\ \E i \in DOMAIN v : HasChan(t.elem, v[i])
    BY <1>4, ChanFacts DEF FieldHasChan
  <2> QED
    BY <1>1, <2>1, <2>2, <2>3, <2>4, MetElements, LooksInto
<1>5. CASE k = "Map"
  <2>1. encodeField(t, v) = Pairs("Encode", t, v)
    BY <1>5, KindsFacts DEF encodeField
  <2>2. v = Nil \/ IsMapOf(t.elem, v)
    BY <1>1, <1>5 DEF IsSimple
  <2>3. Takes("Encode", t.elem) /\ "Encode" \in Loops
    BY <1>1, <1>5 DEF Takes, Loops
  <2>4. FieldHasChan(t, v) <=> v # Nil /\ \E i \in DOMAIN v : HasChan(t.elem, v[i])
    BY <1>5, ChanFacts DEF FieldHasChan
  <2> QED
    BY <1>1, <2>1, <2>2, <2>3, <2>4, MetPairs, LooksInto
<1>6. CASE k \in {"Struct", "Time"} \/ (k = "Ptr" /\ v # Nil)
  <2>1. encodeField(t, v) = <<Value("Encode", t, v)>>
    BY <1>6, KindsFacts DEF encodeField
  <2>2. FieldHasChan(t, v) <=> HasChan(t, v)
    BY <1>6 DEF FieldHasChan
  <2> QED
    BY <2>1, <2>2, MetWalk, LooksInto, KindsFacts
<1>7. CASE k \in {"Interface", "Array", "Chan"} \/ (k = "Ptr" /\ v = Nil)
  <2>1. encodeField(t, v) = EncodeNil
    BY <1>7, KindsFacts DEF encodeField
  <2>2. ~FieldHasChan(t, v)
    BY <1>7, ChanFacts DEF FieldHasChan
  <2> QED
    BY <2>1, <2>2, NilHeads, MetHeads
<1> QED
  BY <1>2, <1>3, <1>4, <1>5, <1>6, <1>7, KindsFacts

\* EncodeValue: in a Value there is nothing but Values.
LEMMA EncodeValueMeets ==
  ASSUME NEW t, NEW v \in ValuesOf(t), t.kind = "Value" PROVE ~Met(EncodeValue(v))
<1> DEFINE k == v.type.kind
           e == v.type.elem
<1>1. /\ e \in ElemTypes
      /\ v # Nil => /\ k \in TreeKinds /\ IsSimple(v.type, v.value)
                    /\ k \in {"Slice", "Map"} => e.kind = "Value"
  BY TypeFacts
<1>2. CASE v = Nil
  <2>1. EncodeValue(v) = EncodeNil
    BY <1>2 DEF EncodeValue
  <2> QED
    BY <2>1, NilHeads, MetHeads
<1>3. CASE v # Nil /\ k \in Basic
  <2>1. EncodeValue(v) = EncodeBasic(k, v.value)
    BY <1>3, KindsFacts DEF EncodeValue
  <2>2. IsBasic(k, v.value)
    BY <1>1, <1>3 DEF IsSimple
  <2> QED
    BY <1>3, <2>1, <2>2, BasicHeads, MetHeads
<1>4. CASE v # Nil /\ k = "Bytes"
  <2>1. EncodeValue(v) = EncodeBinary(v.value)
    BY <1>4, KindsFacts DEF EncodeValue
  <2>2. v.value = Nil \/ IsShort(v.value)
    BY <1>1, <1>4 DEF IsSimple
  <2> QED
    BY <2>1, <2>2, BinaryHeads, MetHeads
<1>5. CASE v # Nil /\ k = "Ext"
  <2> DEFINE x == v.value
  <2>1. EncodeValue(v) = EncodeExt(x[1], Tail(x))
    BY <1>5, KindsFacts DEF EncodeValue
  <2>2. x \in Seq(Byte) /\ Len(x) >= 1 /\ Len(x) - 1 <= Max16
    BY <1>1, <1>5 DEF IsSimple
  <2>3. x[1] \in Byte /\ Tail(x) \in Seq(Byte) /\ Len(Tail(x)) <= Max16
    BY <2>2, ExtIs
  <2> QED
    BY <2>1, <2>3, ExtHeads, MetHeads
<1>6. CASE v # Nil /\ k = "Slice"
  <2>1. EncodeValue(v) = Elements("EncodeValue", v.type, v.value)
    BY <1>6, KindsFacts DEF EncodeValue
  <2>2. v.value = Nil \/ IsListOf(e, v.value)
    BY <1>1, <1>6 DEF IsSimple
  <2>3. Takes("EncodeValue", e) /\ "EncodeValue" \in Loops
    BY <1>1, <1>6 DEF Takes, Loops
  <2> QED
    BY <1>1, <2>1, <2>2, <2>3, MetElements, LooksInto
<1>7. CASE v # Nil /\ k = "Map"
  <2>1. EncodeValue(v) = Pairs("EncodeValue", v.type, v.value)
    BY <1>7, KindsFacts DEF EncodeValue
  <2>2. v.value = Nil \/ IsMapOf(e, v.value)
    BY <1>1, <1>7 DEF IsSimple
  <2>3. Takes("EncodeValue", e) /\ "EncodeValue" \in Loops
    BY <1>1, <1>7 DEF Takes, Loops
  <2> QED
    BY <1>1, <2>1, <2>2, <2>3, MetPairs, LooksInto
<1> QED
  BY <1>1, <1>2, <1>3, <1>4, <1>5, <1>6, <1>7, KindsFacts

-----------------------------------------------------------------------------
(* No step loses sight of a channel, and none comes to one that is not     *)
(* there.                                                                  *)

\* The call ends at a channel, or what is put in place of the task meets what the
\* task would meet.
Passed ==
  \/ Fail("ErrUnsupportedType") /\ TaskMeets(head)
  \/ \E items \in Seq(Items) : Replace(items) /\ (Met(items) <=> TaskMeets(head))

\* Two tasks meet what either meets, and writes in front of them nothing.
LEMMA MetPair ==
  ASSUME NEW ws \in WriteLists, NEW x \in Tasks, NEW y \in Tasks
  PROVE  /\ <<x, y>> \in Seq(Items) /\ (Met(<<x, y>>) <=> TaskMeets(x) \/ TaskMeets(y))
         /\ ws \o <<x, y>> \in Seq(Items)
         /\ Met(ws \o <<x, y>>) <=> TaskMeets(x) \/ TaskMeets(y)
<1>1. <<x>> \in Seq(Items) /\ <<y>> \in Seq(Items) /\ <<x>> \o <<y>> = <<x, y>>
  BY OneAndOne DEF Items
<1>2. Met(<<x>> \o <<y>>) <=> TaskMeets(x) \/ TaskMeets(y)
  BY <1>1, MetBoth, MetOne
<1> DEFINE one == <<x>>
           two == <<y>>
           c == <<x, y>>
<1>3. c \in Seq(Items) /\ (Met(c) <=> TaskMeets(x) \/ TaskMeets(y))
  <2>1. one \o two = c
    BY <1>1
  <2>2. Met(one \o two) <=> TaskMeets(x) \/ TaskMeets(y)
    BY <1>2
  <2>3. c \in Seq(Items)
    <3>1. x \in Items /\ y \in Items
      BY DEF Items
    <3> QED
      BY <3>1
  <2> HIDE DEF one, two, c
  <2> QED
    BY <2>1, <2>2, <2>3
<1> HIDE DEF c
<1>4. ws \in Seq(Items) /\ ~Met(ws)
  BY MetWrites
<1>5. ws \o c \in Seq(Items) /\ (Met(ws \o c) <=> TaskMeets(x) \/ TaskMeets(y))
  BY <1>3, <1>4, MetBoth
<1> QED
  BY <1>3, <1>5 DEF c

LEMMA NextElementPasses == ASSUME TodoOK, NextElement PROVE Passed
<1> DEFINE t == head.type
           h == head.how
           s == head.left
           x == Value(h, t, s[1])
           y == Each(h, t, Tail(s))
<1>1. /\ head \in Tasks /\ head.do = "elements"
      /\ Replace(IF s = <<>> THEN <<>> ELSE <<x, [head EXCEPT !.left = Tail(s)]>>)
  BY HeadItem DEF NextElement
<1>2. /\ h \in Loops /\ Takes(h, t) /\ t \in ElemTypes /\ s \in Seq(ValuesOf(t))
      /\ [head EXCEPT !.left = Tail(s)] = y
  BY <1>1, TaskCases
<1>3. TaskMeets(head) <=> \E v \in Left(s) : Meets(h, t, v)
  BY <1>1, KindsFacts DEF TaskMeets
<1>4. CASE s = <<>>
  <2>1. Replace(<<>>) /\ Left(<<>>) = {} /\ <<>> \in Seq(Items)
    BY <1>1, <1>4 DEF Left
  <2>2. ~TaskMeets(head)
    BY <1>3, <1>4, <2>1
  <2> QED
    BY <2>1, <2>2, MetNone DEF Passed
<1>5. CASE s # <<>>
  <2>1. s[1] \in ValuesOf(t) /\ Tail(s) \in Seq(ValuesOf(t)) /\ Left(s) = Left(Tail(s)) \cup {s[1]}
    BY <1>2, <1>5, FirstOf, LeftFirst, Zenon
  <2>2. x \in Tasks /\ (TaskMeets(x) <=> Meets(h, t, s[1]))
    BY <1>2, <2>1, ValueTask, MeetsFacts, KindsFacts
  <2>3. y \in Tasks /\ (TaskMeets(y) <=> \E v \in Left(Tail(s)) : Meets(h, t, v))
    BY <1>2, <2>1, EachTask, MeetsFacts
  <2>4. Replace(<<x, y>>)
    BY <1>1, <1>2, <1>5
  <2> HIDE DEF x, y
  <2>5. <<x, y>> \in Seq(Items) /\ (Met(<<x, y>>) <=> TaskMeets(x) \/ TaskMeets(y))
    BY <2>2, <2>3, NoText, MetPair
  <2>6. TaskMeets(head) <=> TaskMeets(x) \/ TaskMeets(y)
    BY <1>3, <2>1, <2>2, <2>3
  <2> QED
    BY <2>4, <2>5, <2>6 DEF Passed
<1> QED
  BY <1>4, <1>5

\* A field that is left out is empty.
LEMMA LeftOutMeetsNone ==
  ASSUME NEW h \in {"encodeValue", "encodeField"}, NEW t, NEW v \in ValuesOf(t),
         t.kind = "Struct", NEW n \in DOMAIN t.fields, n \notin Kept(h, t, v)
  PROVE  ~Meets(h, t.fields[n], v[n])
<1>1. IsStruct(t, v)
  BY TypeFacts, KindsFacts
<1>2. t.fields[n].kind \in GoKinds /\ v[n] \in ValuesOf(t.fields[n])
  BY <1>1 DEF IsStruct
<1>3. isEmptyValue(t.fields[n], v[n]) \/ isEmptyField(t.fields[n], v[n])
  BY Zenon DEF Kept, Present, LeftOut
<1>4. ~HasChan(t.fields[n], v[n])
  BY <1>2, <1>3, EmptyHasNone
<1> QED
  BY <1>4, LooksInto DEF FieldHasChan

LEMMA NextFieldPasses == ASSUME TodoOK, NextField PROVE Passed
<1> DEFINE t == head.type
           v == head.value
           h == head.how
           s == head.left
           n == s[1]
           K == Kept(h, t, v)
           x == Value(h, t.fields[n], v[n])
           y == Fields(h, t, v, Tail(s))
           r == [head EXCEPT !.left = Tail(@)]
<1>1. head \in Tasks /\ head.do = "fields"
  <2>1. Running("fields")
    BY DEF NextField
  <2> QED
    BY <2>1, HeadItem
<1>2. /\ h \in {"encodeValue", "encodeField"} /\ t.kind = "Struct"
      /\ v \in ValuesOf(t) /\ s \in FieldLists(t)
      /\ [head EXCEPT !.left = Tail(s)] = y
  BY <1>1, TaskCases
<1>3. TaskMeets(head) <=> \E f \in Left(s) : Meets(h, t.fields[f], v[f])
  BY <1>1, KindsFacts DEF TaskMeets
<1>4. CASE s = <<>>
  <2>1. Replace(<<>>) /\ Left(<<>>) = {} /\ <<>> \in Seq(Items)
    BY <1>4 DEF NextField, Left
  <2>2. ~TaskMeets(head)
    BY <1>3, <1>4, <2>1
  <2> QED
    BY <2>1, <2>2, MetNone DEF Passed
<1>5. CASE s # <<>>
  <2>1. /\ n \in DOMAIN t.fields /\ Tail(s) \in FieldLists(t)
        /\ Left(s) = Left(Tail(s)) \cup {n}
    <3> DEFINE S == DOMAIN t.fields
    <3>1. s \in Seq(S) /\ Once(s) /\ s # <<>> /\ IsFiniteSet(Left(s) \cap {})
      <4>1. Left(s) \cap {} = {}
        OBVIOUS
      <4> QED
        BY <1>2, <1>5, <4>1, FS_EmptySet DEF FieldLists
    <3> HIDE DEF S, s
    <3>2. n \in S /\ Tail(s) \in Seq(S) /\ Once(Tail(s))
      BY <3>1, LeftRest
    <3>3. Left(s) = Left(Tail(s)) \cup {n}
      BY <3>1, LeftFirst
    <3> QED
      BY <3>2, <3>3 DEF S, FieldLists
  <2>2. y \in Tasks /\ (TaskMeets(y) <=> \E f \in Left(Tail(s)) : Meets(h, t.fields[f], v[f]))
    BY <1>2, <2>1, FieldsTask, MeetsFacts
  <2>3. TaskMeets(head) <=> Meets(h, t.fields[n], v[n]) \/ TaskMeets(y)
    BY <1>3, <2>1, <2>2
  <2>4. CASE n \notin K
    <3>1. Replace(<<r>>) /\ r = y
      BY <1>2, <1>5, <2>1, <2>4, Zenon DEF NextField, Kept
    <3>2. ~Meets(h, t.fields[n], v[n])
      BY <1>2, <2>1, <2>4, LeftOutMeetsNone
    <3> HIDE DEF y, r
    <3>3. Replace(<<y>>) /\ <<y>> \in Seq(Items) /\ (Met(<<y>>) <=> TaskMeets(y))
      BY <2>2, <3>1, MetOne DEF Items
    <3> QED
      BY <2>3, <3>2, <3>3 DEF Passed
  <2>5. CASE n \in K
    <3>1. IsShort(n) /\ t.fields[n].kind \in GoKinds /\ v[n] \in ValuesOf(t.fields[n])
      <4>1. IsStruct(t, v)
        BY <1>2, TypeFacts, KindsFacts
      <4> QED
        BY <2>1, <4>1 DEF IsStruct
    <3>2. x \in Tasks /\ (TaskMeets(x) <=> Meets(h, t.fields[n], v[n]))
      <4>1. Takes(h, t.fields[n]) /\ h \in Walks
        BY <1>2, <3>1 DEF Takes, Walks
      <4> QED
        BY <3>1, <4>1, ValueTask, MeetsFacts
    <3>3. EncodeString(n) \in WriteLists /\ preEncodeString(n) \in WriteLists
      BY <3>1, StringHeads DEF Heads
    <3>4. \/ Replace(EncodeString(n) \o <<x>> \o <<r>>)
          \/ Replace(preEncodeString(n) \o <<x>> \o <<r>>)
      BY <1>2, <1>5, <2>5, Zenon DEF NextField, Kept
    <3>5. r = y
      BY <1>2
    <3> HIDE DEF x, y, r
    <3>6. PICK ws \in WriteLists : Replace(ws \o <<x>> \o <<y>>)
      BY <3>3, <3>4, <3>5
    <3>7. ws \o <<x>> \o <<y>> = ws \o <<x, y>>
      <4>1. ws \in Seq(Items) /\ <<x>> \in Seq(Items) /\ <<y>> \in Seq(Items)
        BY <2>2, <3>2, MetWrites DEF Items
      <4>2. (ws \o <<x>>) \o <<y>> = ws \o (<<x>> \o <<y>>)
        BY <4>1, ConcatAssociative
      <4> QED
        BY <2>2, <3>2, <4>2, OneAndOne
    <3>8. /\ ws \o <<x, y>> \in Seq(Items)
          /\ Met(ws \o <<x, y>>) <=> TaskMeets(x) \/ TaskMeets(y)
      BY <2>2, <3>2, MetPair
    <3> QED
      BY <2>3, <3>2, <3>6, <3>7, <3>8 DEF Passed
  <2> QED
    BY <2>4, <2>5
<1> QED
  BY <1>4, <1>5

LEMMA NextPairPasses == ASSUME TodoOK, NextPair PROVE Passed
<1> DEFINE t == head.type
           h == head.how
           m == head.left
<1>1. head \in Tasks /\ head.do = "pairs"
  <2>1. Running("pairs")
    BY DEF NextPair
  <2> QED
    BY <2>1, HeadItem
<1>2. /\ h \in Loops /\ Takes(h, t) /\ t \in ElemTypes /\ m \in Keyed(t)
      /\ \A l : [head EXCEPT !.left = l] = EachPair(h, t, l)
  BY <1>1, TaskCases
<1>3. TaskMeets(head) <=> \E i \in DOMAIN m : Meets(h, t, m[i])
  BY <1>1, KindsFacts DEF TaskMeets
<1>4. CASE m = <<>>
  <2>1. Replace(<<>>) /\ <<>> \in Seq(Items)
    BY <1>4 DEF NextPair
  <2>2. DOMAIN m = {}
    <3>1. DOMAIN <<>> = {}
      OBVIOUS
    <3> QED
      BY <1>4, <3>1
  <2>3. ~TaskMeets(head)
    BY <1>3, <2>2
  <2> QED
    BY <2>1, <2>3, MetNone DEF Passed
<1>5. CASE m # <<>>
  <2>1. PICK k \in DOMAIN m :
          Replace(EncodeString(k) \o
                  <<Value(h, t, m[k]), [head EXCEPT !.left = [z \in DOMAIN m \ {k} |-> m[z]]]>>)
    BY <1>5 DEF NextPair
  <2> DEFINE l == [z \in DOMAIN m \ {k} |-> m[z]]
             x == Value(h, t, m[k])
             y == EachPair(h, t, l)
  <2>2. PICK ns \in Names : m \in [ns -> ValuesOf(t)]
    BY <1>2 DEF Keyed
  <2>3. ns \in SUBSET {s \in Seq(Byte) : Len(s) <= Max16} /\ IsFiniteSet(ns) /\ DOMAIN m = ns
    BY <2>2 DEF Names
  <2>4. IsShort(k) /\ m[k] \in ValuesOf(t) /\ l \in [ns \ {k} -> ValuesOf(t)]
    BY <2>2, <2>3 DEF IsShort
  <2>5. l \in Keyed(t) /\ DOMAIN l = DOMAIN m \ {k} /\ \A i \in DOMAIN l : l[i] = m[i]
    <3>1. ns \ {k} \in Names
      <4>1. IsFiniteSet(ns \ {k}) /\ ns \ {k} \in SUBSET {s \in Seq(Byte) : Len(s) <= Max16}
        BY <2>3, FS_Subset
      <4> QED
        BY <4>1, Zenon DEF Names
    <3>2. DOMAIN l = DOMAIN m \ {k} /\ \A i \in DOMAIN l : l[i] = m[i]
      OBVIOUS
    <3> HIDE DEF l
    <3> QED
      BY <2>4, <3>1, <3>2 DEF Keyed
  <2>6. x \in Tasks /\ (TaskMeets(x) <=> Meets(h, t, m[k]))
    BY <1>2, <2>4, ValueTask, MeetsFacts, KindsFacts
  <2>7. y \in Tasks /\ (TaskMeets(y) <=> \E i \in DOMAIN l : Meets(h, t, l[i]))
    BY <1>2, <2>5, RangeTask, MeetsFacts
  <2>8. EncodeString(k) \in WriteLists
    BY <2>4, StringHeads DEF Heads
  <2>9. Replace(EncodeString(k) \o <<x, y>>)
    <3>1. [head EXCEPT !.left = l] = y
      BY <1>2
    <3> QED
      BY <2>1, <3>1
  <2> HIDE DEF l, x, y
  <2>10. /\ EncodeString(k) \o <<x, y>> \in Seq(Items)
         /\ Met(EncodeString(k) \o <<x, y>>) <=> TaskMeets(x) \/ TaskMeets(y)
    BY <2>6, <2>7, <2>8, MetPair
  <2>11. TaskMeets(head) <=> TaskMeets(x) \/ TaskMeets(y)
    BY <1>3, <2>5, <2>6, <2>7
  <2> QED
    BY <2>9, <2>10, <2>11 DEF Passed
<1> QED
  BY <1>4, <1>5

LEMMA WalkPasses ==
  ASSUME TodoOK,
         EncodeAny \/ EncodeReflect \/ EncodeInto \/ EncodeField \/ EncodeTree \/ EncodeArray
  PROVE  Passed
<1> DEFINE t == head.type
           v == head.value
<1>1. ASSUME NEW do \in Walks, Running(do)
      PROVE  /\ v \in ValuesOf(t) /\ Takes(do, t)
             /\ TaskMeets(head) <=> Meets(do, t, v)
  <2>1. head \in Tasks /\ head.do = do
    BY <1>1, HeadItem DEF Walks
  <2>2. v \in ValuesOf(t) /\ Takes(do, t)
    BY <2>1, TaskCases
  <2>3. TaskMeets(head) <=> Meets(do, t, v)
    BY <2>1, KindsFacts DEF TaskMeets
  <2> QED
    BY <2>2, <2>3
<1>2. CASE EncodeAny
  <2>1. Running("Encode") /\ Replace(Encode(t, v)) /\ "Encode" \in Walks
    BY <1>2 DEF EncodeAny, Walks
  <2>2. v \in ValuesOf(t) /\ t.kind \in GoKinds /\ (TaskMeets(head) <=> HasChan(t, v))
    BY <1>1, <2>1, LooksInto DEF Takes
  <2>3. Encode(t, v) \in Seq(Items) /\ (Met(Encode(t, v)) <=> HasChan(t, v))
    BY <2>2, EncodeStands, StandsItems, EncodeMeets
  <2> QED
    BY <2>1, <2>2, <2>3 DEF Passed
<1>3. CASE EncodeReflect
  <2>1. Running("encodeValue") /\ "encodeValue" \in Walks
    BY <1>3 DEF EncodeReflect, Walks
  <2>2. v \in ValuesOf(t) /\ t.kind \in GoKinds /\ (TaskMeets(head) <=> HasChan(t, v))
    BY <1>1, <2>1, LooksInto DEF Takes
  <2>3. CASE Unsupported(t)
    <3>1. HasChan(t, v)
      BY <2>2, <2>3, ChanFacts DEF Unsupported
    <3> QED
      BY <1>3, <2>2, <2>3, <3>1 DEF EncodeReflect, Passed
  <2>4. CASE ~Unsupported(t)
    <3>1. Replace(encodeValue(t, v))
      BY <1>3, <2>4 DEF EncodeReflect
    <3>2. encodeValue(t, v) \in Seq(Items) /\ (Met(encodeValue(t, v)) <=> HasChan(t, v))
      BY <2>2, <2>4, encodeValueStands, StandsItems, encodeValueMeets
    <3> QED
      BY <2>2, <3>1, <3>2 DEF Passed
  <2> QED
    BY <2>3, <2>4
<1>4. CASE EncodeInto
  <2>1. Running("encodeInto") /\ Replace(encodeInto(t, v)) /\ "encodeInto" \in Walks
    BY <1>4 DEF EncodeInto, Walks
  <2>2. /\ v \in ValuesOf(t) /\ t.kind = "Struct"
        /\ TaskMeets(head) <=> \E n \in DOMAIN t.fields : FieldHasChan(t.fields[n], v[n])
    BY <1>1, <2>1, LooksInto DEF Takes
  <2>3. encodeInto(t, v) = EncodeMapHeader(Cardinality(Kept("encodeField", t, v)))
                           \o <<Fields("encodeField", t, v, t.order)>>
    BY DEF encodeInto, Kept
  <2>4. encodeInto(t, v) \in Seq(Items)
    BY <2>2, <2>3, StandsStruct, StandsItems
  <2>5. Met(encodeInto(t, v)) <=> \E n \in DOMAIN t.fields : Meets("encodeField", t.fields[n], v[n])
    BY <2>2, <2>3, MetStruct
  <2>6. Met(encodeInto(t, v)) <=> TaskMeets(head)
    BY <2>2, <2>5, LooksInto
  <2> QED
    BY <2>1, <2>4, <2>6 DEF Passed
<1>5. CASE EncodeField
  <2>1. Running("encodeField") /\ Replace(encodeField(t, v)) /\ "encodeField" \in Walks
    BY <1>5 DEF EncodeField, Walks
  <2>2. v \in ValuesOf(t) /\ t.kind \in GoKinds /\ (TaskMeets(head) <=> FieldHasChan(t, v))
    BY <1>1, <2>1, LooksInto DEF Takes
  <2>3. encodeField(t, v) \in Seq(Items) /\ (Met(encodeField(t, v)) <=> FieldHasChan(t, v))
    BY <2>2, encodeFieldStands, StandsItems, encodeFieldMeets
  <2> QED
    BY <2>1, <2>2, <2>3 DEF Passed
<1>6. CASE EncodeTree
  <2>1. Running("EncodeValue") /\ Replace(EncodeValue(v)) /\ "EncodeValue" \in Walks
    BY <1>6 DEF EncodeTree, Walks
  <2>2. v \in ValuesOf(t) /\ t.kind = "Value" /\ ~TaskMeets(head)
    BY <1>1, <2>1, LooksInto DEF Takes
  <2>3. EncodeValue(v) \in Seq(Items) /\ ~Met(EncodeValue(v))
    BY <2>2, EncodeValueStands, StandsItems, EncodeValueMeets
  <2> QED
    BY <2>1, <2>2, <2>3 DEF Passed
<1>7. CASE EncodeArray
  <2>1. Running("EncodeArray") /\ Replace(Elements("Encode", t, v)) /\ "EncodeArray" \in Walks
    BY <1>7 DEF EncodeArray, Walks
  <2>2. /\ v \in ValuesOf(t) /\ t.kind = "Slice" /\ t.elem.kind \in GoKinds
        /\ TaskMeets(head) <=> HasChan(t, v)
    BY <1>1, <2>1, LooksInto DEF Takes
  <2>3. t.elem \in ElemTypes /\ (v = Nil \/ IsListOf(t.elem, v)) /\ t.kind \in GoKinds
    BY <2>2, TypeFacts, KindsFacts DEF IsSimple
  <2>4. Takes("Encode", t.elem) /\ "Encode" \in Loops
    BY <2>2 DEF Takes, Loops
  <2>5. Elements("Encode", t, v) \in Seq(Items)
    BY <2>3, <2>4, StandsElements, StandsItems
  <2>6. Met(Elements("Encode", t, v)) <=> HasChan(t, v)
    <3>1. HasChan(t, v) <=> v # Nil /\ \E i \in DOMAIN v : HasChan(t.elem, v[i])
      BY <2>2, <2>3, ChanFacts
    <3>2. Met(Elements("Encode", t, v)) <=> v # Nil /\ \E i \in DOMAIN v : Meets("Encode", t.elem, v[i])
      BY <2>3, <2>4, MetElements
    <3> QED
      BY <3>1, <3>2, LooksInto
  <2> QED
    BY <2>1, <2>2, <2>5, <2>6 DEF Passed
<1> QED
  BY <1>2, <1>3, <1>4, <1>5, <1>6, <1>7

\* Every step but a write and the last.
LEMMA StepPasses == ASSUME TodoOK, Step, ~Write, ~Return PROVE Passed
BY WalkPasses, NextElementPasses, NextFieldPasses, NextPairPasses DEF Step

\* RefusalInv is inductive.
LEMMA RefusalKept == TodoOK /\ RefusalInv /\ [Next]_vars => RefusalInv'
<1> SUFFICES ASSUME TodoOK, RefusalInv, [Next]_vars PROVE RefusalInv'
  OBVIOUS
<1>1. ASSUME todo # <<>>
      PROVE  /\ Tail(todo) \in Seq(Items)
             /\ Met(todo) <=> TaskMeets(head) \/ Met(Tail(todo))
  <2>1. todo \in Seq(Items) /\ head \in Items /\ Tail(todo) \in Seq(Items)
    BY <1>1 DEF TodoOK, head
  <2>2. todo = <<head>> \o Tail(todo) /\ <<head>> \in Seq(Items)
    BY <1>1, <2>1 DEF head
  <2> DEFINE one == <<head>>
             more == Tail(todo)
  <2>3. one \in Seq(Items) /\ more \in Seq(Items) /\ todo = one \o more
    BY <2>1, <2>2
  <2>4. Met(one) <=> TaskMeets(head)
    BY MetOne
  <2> HIDE DEF one, more
  <2>5. Met(todo) <=> TaskMeets(head) \/ Met(more)
    BY <2>3, <2>4, MetBoth
  <2> QED
    BY <2>1, <2>5 DEF more
<1>2. CASE Write
  <2>1. /\ status = "running" /\ todo # <<>> /\ head.do = "write" /\ todo' = Tail(todo)
        /\ status' = status /\ job' = job
    BY <1>2 DEF Write, Running
  <2>2. ~TaskMeets(head)
    BY <2>1, KindsFacts DEF TaskMeets
  <2>3. Met(todo') <=> Refusable(job)
    BY <1>1, <2>1, <2>2 DEF RefusalInv
  <2> QED
    BY <2>1, <2>3 DEF RefusalInv
<1>3. CASE Step /\ ~Write /\ ~Return
  <2>1. status = "running" /\ todo # <<>> /\ job' = job
    <3>1. \E do : Running(do)
      BY <1>3 DEF Step, EncodeAny, EncodeReflect, EncodeInto, EncodeField, EncodeTree,
                  EncodeArray, NextElement, NextField, NextPair
    <3> QED
      BY <3>1 DEF Running
  <2>2. Met(todo) <=> Refusable(job)
    BY <2>1 DEF RefusalInv
  <2>3. CASE Fail("ErrUnsupportedType") /\ TaskMeets(head)
    <3>1. Refusable(job) /\ status' = "ErrUnsupportedType"
      BY <1>1, <2>1, <2>2, <2>3 DEF Fail
    <3> QED
      BY <2>1, <3>1 DEF RefusalInv
  <2>4. CASE \E items \in Seq(Items) : Replace(items) /\ (Met(items) <=> TaskMeets(head))
    <3>1. PICK items \in Seq(Items) : Replace(items) /\ (Met(items) <=> TaskMeets(head))
      BY <2>4
    <3>2. todo' = items \o Tail(todo) /\ status' = status
      BY <3>1 DEF Replace
    <3>3. Met(todo') <=> Met(todo)
      BY <1>1, <2>1, <3>1, <3>2, MetBoth
    <3> QED
      BY <2>1, <2>2, <3>2, <3>3 DEF RefusalInv
  <2> QED
    BY <1>3, <2>3, <2>4, StepPasses DEF Passed
<1>4. CASE Return
  <2>1. status = "running" /\ todo = <<>> /\ status' = "ok" /\ job' = job
    BY <1>4 DEF Return
  <2>2. ~Refusable(job)
    BY <2>1, MetNone DEF RefusalInv
  <2> QED
    BY <2>1, <2>2 DEF RefusalInv
<1>5. CASE \E j \in IF calls = 0 THEN Jobs ELSE NextJobs : Call(j)
  <2>1. PICK j \in Jobs \cup NextJobs :
          todo' = <<Value(j.how, j.type, j.value)>> /\ job' = j /\ status' = "running"
    BY <1>5 DEF Call, Begin
  <2>2. j.how \in Walks
    BY JobsAssumption, KindsFacts
  <2>3. Met(todo') <=> Refusable(job')
    BY <2>1, <2>2, MetWalk DEF Refusable
  <2> QED
    BY <2>1, <2>3 DEF RefusalInv
<1>6. CASE Reset
  <2>1. status' = "idle"
    BY <1>6 DEF Reset
  <2> QED
    BY <2>1 DEF RefusalInv
<1>7. CASE Hold \/ UNCHANGED vars
  <2>1. UNCHANGED <<todo, status, job>>
    BY <1>7 DEF Hold, vars
  <2> QED
    BY <2>1 DEF RefusalInv, Met, TaskMeets, Refusable
<1> QED
  BY <1>2, <1>3, <1>4, <1>5, <1>6, <1>7 DEF Next

\* What a walk meets is there.
LEMMA MetIsThere ==
  ASSUME NEW j \in Jobs \cup NextJobs, Refusable(j) PROVE HasChan(j.type, j.value)
<1> DEFINE t == j.type
           v == j.value
<1>1. /\ j.how \in {"Encode", "encodeInto", "EncodeValue", "EncodeArray"}
      /\ Takes(j.how, t) /\ Typed(t, v) \in Universe
  BY JobsAssumption
<1>2. v \in ValuesOf(t)
  <2> HIDE DEF t, v
  <2> QED
    BY <1>1 DEF ValuesOf, Typed
<1>3. Meets(j.how, t, v)
  BY DEF Refusable
<1> HIDE DEF t, v
<1>4. CASE j.how \in {"Encode", "EncodeArray"}
  <2>1. HasChan(t, v)
    BY <1>3, <1>4, LooksInto
  <2> QED
    BY <2>1 DEF t, v
<1>5. CASE j.how = "EncodeValue"
  BY <1>3, <1>5, LooksInto
<1>6. CASE j.how = "encodeInto"
  <2>1. t.kind = "Struct" /\ t.kind \in GoKinds
    BY <1>1, <1>6, KindsFacts DEF Takes
  <2>2. \E n \in DOMAIN t.fields : HasChan(t.fields[n], v[n])
    BY <1>3, <1>6, LooksInto DEF FieldHasChan
  <2>3. HasChan(t, v)
    BY <1>2, <2>1, <2>2, ChanFacts
  <2> QED
    BY <2>3 DEF t, v
<1> QED
  BY <1>1, <1>4, <1>5, <1>6

\* A call is refused only if there is a channel in what it was given to encode,
\* however deep, and whenever its walk looks at one: below a nil pointer, in an empty
\* slice or in a field that is left out there is none, and StructEncoder looks into
\* no field that encodeField has no case for.
THEOREM RefusesWhatItMeets == Spec => []RefusedIfUnsupported
<1>1. Init => TodoOK /\ RefusalInv
  BY DEF Init, TodoOK, RefusalInv
<1>2. RefusalInv => RefusedIfUnsupported
  BY MetIsThere DEF RefusalInv, RefusedIfUnsupported
<1> QED
  BY <1>1, <1>2, TodoKept, RefusalKept, PTL DEF Spec

\* A call begins at the end of what there is and only adds to it.
MarkOK == mark <= buf.len

LEMMA MarkKept == BufferOK /\ CallsInv /\ WritesBytes /\ MarkOK /\ [Next]_vars => MarkOK'
<1> SUFFICES ASSUME BufferOK, CallsInv, WritesBytes, mark <= buf.len, [Next]_vars
             PROVE  mark' <= buf'.len
  BY DEF MarkOK
<1>1. buf.len \in Nat /\ mark \in Nat
  BY DEF BufferOK, CallsInv, CallOK
<1>2. CASE Write
  <2>1. todo # <<>> /\ head.do = "write" /\ WriteBytes(head.bytes) /\ mark' = mark
    BY <1>2 DEF Write, Running
  <2>2. head.bytes \in Seq(Byte)
    BY <2>1 DEF WritesBytes
  <2>3. buf'.len = buf.len + Len(head.bytes)
    BY <2>1 DEF WriteBytes, BufferOK
  <2> QED
    BY <1>1, <2>1, <2>2, <2>3
<1>3. CASE Step /\ ~Write
  <2>1. UNCHANGED buffer
    BY <1>3, StepWrites
  <2>2. mark' = mark
    BY <1>3, StepWithin DEF Return
  <2> QED
    BY <2>1, <2>2 DEF buffer
<1>4. CASE \E j \in IF calls = 0 THEN Jobs ELSE NextJobs : Call(j)
  BY <1>1, <1>4 DEF Call, buffer
<1>5. CASE Reset
  BY <1>5 DEF Reset, ResetBuffer, BufferOK
<1>6. CASE Hold \/ UNCHANGED vars
  BY <1>6 DEF Hold, HoldBytes, vars
<1> QED
  BY <1>2, <1>3, <1>4, <1>5, <1>6 DEF Next

\* The encoder keeps to its types: its buffer, what it writes to it, where a call
\* began, and the results there are.
THEOREM EncoderTypes == Spec => []TypeOK
<1>1. Init => TodoOK /\ RefusalInv /\ MarkOK
  BY DEF Init, BufferInit, TodoOK, RefusalInv, MarkOK
<1>2. BufferOK /\ MarkOK /\ WritesBytes /\ RefusalInv => TypeOK
  BY DEF MarkOK, RefusalInv, TypeOK
<1> QED
  BY <1>1, <1>2, TodoKept, RefusalKept, MarkKept, CallsWell, WritesAreBytes,
     EncoderImplementsBuffer, BufferTypes, PTL DEF Spec
=============================================================================
