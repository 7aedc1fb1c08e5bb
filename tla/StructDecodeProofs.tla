-------------------------- MODULE StructDecodeProofs --------------------------
(***************************************************************************)
(* What holds of StructDecode for every configuration, every set of types  *)
(* and every message, however often a destination is used again.           *)
(***************************************************************************)
EXTENDS StructDecode, FiniteSetTheorems, WireProofs

-----------------------------------------------------------------------------
(* The inductive invariant.                                                *)

\* The types a walk reads, and those it opens a frame for.
ReadTypes  == Types \cup {Of("Value"), Of("Any"), Of("Key"), Of("String"), Struct(<<>>)}
FrameTypes == Types \cup {Of("Value"), Of("Any"), Struct(<<>>)} \cup {Ptr(t) : t \in Types}
Containers == {"Ptr", "Slice", "Array", "Map", "Struct", "Value", "Any"}

Places == Seq(Seq(Byte) \cup Seq(Int))
Frames == [type : FrameTypes, size : Nat, left : Nat, keyed : BOOLEAN,
           field : SUBSET Seq(Byte), into : SUBSET Places, from : Nat, counted : BOOLEAN]

Contents(d) == \A x \in DOMAIN d : d[x] \in Seq(Byte)

\* A set of one element or none.
AtMostOne(S) == \A x, y \in S : x = y

Vars ==
  /\ data \in Seq(Byte) /\ pos \in Nat /\ pos <= Len(data)
  /\ walk \in {"reflect", "cached", "plain"} /\ root \in Types
  /\ status \in {"running", "ok"} \cup Errors
  /\ stack \in Seq(Frames) /\ (stack # <<>>) = (status = "running")
  /\ Contents(dst)
  /\ calls \in 1..MaxCalls

\* The innermost frame remembers a field only of a struct, and of that one.
FrameOK(f) ==
  /\ f.type.kind \in Containers
  /\ f.field # {} => f.type.kind = "Struct" /\ f.field \subseteq DOMAIN f.type.fields
  /\ AtMostOne(f.field) /\ AtMostOne(f.into)

FramesOK == \A i \in 1..Len(stack) : FrameOK(stack[i])

\* The frame below an open one counts the value that is being read.
Waiting == \A i \in 1..Len(stack) - 1 : stack[i].left > 0

\* The depth is the number of frames that enterContainer counted; a call leaves
\* nothing behind but the count that was refused.
Counted(s) == {i \in 1..Len(s) : s[i].counted}
DepthIsOpen ==
  /\ depth = IF status = "running" THEN Cardinality(Counted(stack))
             ELSE IF status = "ErrMaxDepthExceeded" THEN 1 ELSE 0
  /\ status = "running" /\ depth > 0 => depth <= MaxDepth

\* The bottom frame counts the value the caller asked for until it is read.
BottomStays == stack # <<>> => stack[1] = Bottom

IInv == Vars /\ FramesOK /\ Waiting /\ DepthIsOpen /\ BottomStays

\* Containers that decodeReflect opened without counting them, among the first n
\* frames, and those that may still follow them.
Uncounted(s, n) == {i \in 1..n : ~s[i].counted /\ s[i].type.kind # "Ptr"}
StructUpTo(s, n) == \E i \in 1..n : s[i].type.kind = "Struct"
ToCome(s, n) ==
  IF ~StructUpTo(s, n) /\ s[n].type.kind \in {"Slice", "Array", "Map", "Ptr"}
    THEN OuterLevels[s[n].type.elem] ELSE 0
LevelsLeft ==
  walk = "reflect" =>
    \A n \in 1..Len(stack) :
      Cardinality(Uncounted(stack, n)) + ToCome(stack, n) <= OuterLevels[root]

\* The frames of an array helper: what the caller passes, and the slice.
PlainFrames ==
  walk = "plain" =>
    /\ root.kind = "Slice" /\ root.elem.kind \in Basic
    /\ Len(stack) <= 2
    /\ Len(stack) = 2 => stack[2].type = root

LInv == LevelsLeft /\ PlainFrames

-----------------------------------------------------------------------------
(* What a step knows of the state it starts in.                            *)

\* A call that runs has an innermost frame.
LEMMA TopFacts ==
  ASSUME IInv, status = "running"
  PROVE  /\ Len(stack) \in Nat /\ Len(stack) >= 1 /\ Len(stack) \in 1..Len(stack)
         /\ top \in Frames /\ FrameOK(top)
<1>1. stack \in Seq(Frames) /\ stack # <<>>
  BY DEF IInv, Vars
<1>2. Len(stack) \in Nat /\ Len(stack) >= 1 /\ Len(stack) \in 1..Len(stack)
  BY <1>1
<1>3. top \in Frames
  BY <1>1, <1>2, ElementOfSeq DEF top
<1>4. FrameOK(top)
  BY <1>2 DEF IInv, FramesOK, top
<1> QED
  BY <1>2, <1>3, <1>4

\* The depth is a number, then.
LEMMA DepthType ==
  ASSUME IInv, status = "running" PROVE depth \in Nat
<1>1. Counted(stack) \subseteq 1..Len(stack) /\ Len(stack) \in Int
  BY TopFacts DEF Counted
<1>2. IsFiniteSet(1..Len(stack))
  BY <1>1, FS_Interval
<1>3. Cardinality(Counted(stack)) \in Nat
  BY <1>1, <1>2, FS_Subset, FS_CardinalityType
<1> QED
  BY <1>3 DEF IInv, DepthIsOpen

\* What the reads know of the item at pos.
LEMMA ItemFacts ==
  ASSUME IInv, HasBytes(pos, 1)
  PROVE  /\ format \in Byte
         /\ pos \in Nat /\ Len(data) \in Nat /\ pos + 1 <= Len(data)
         /\ ScalarWidth(format) \in Nat
         /\ body \in Nat /\ pos + 1 <= body
         /\ LenReadable => body <= Len(data) /\ itemLen \in Nat /\ Values \in Nat
<1>1. data \in Seq(Byte) /\ pos \in Nat /\ Len(data) \in Nat /\ pos + 1 <= Len(data)
  BY DEF IInv, Vars, HasBytes
<1>2. format \in Byte
  <2>1. pos + 1 \in 1..Len(data)
    BY <1>1
  <2> QED
    BY <1>1, <2>1, ElementOfSeq DEF format
<1>3. LenWidth(format) \in Nat /\ ScalarWidth(format) \in Nat
  BY <1>2, LenWidthType, ScalarWidthType
<1>4. body \in Nat /\ pos + 1 <= body
  BY <1>1, <1>3 DEF body
<1>5. ASSUME LenReadable
      PROVE  body <= Len(data) /\ itemLen \in Nat /\ Values \in Nat
  <2>1. pos + 1 + LenWidth(format) <= Len(data)
    BY <1>5 DEF LenReadable, HasBytes
  <2>2. itemLen \in Nat
    BY <1>1, <1>2, <2>1, ItemLenType DEF itemLen
  <2> QED
    BY <2>1, <2>2 DEF body, Values
<1> QED
  BY <1>1, <1>2, <1>3, <1>4, <1>5

\* Only a field that the key named is read, so one at most.
LEMMA FieldFacts ==
  ASSUME IInv, status = "running"
  PROVE  Field \subseteq top.field /\ AtMostOne(Field)
<1>1. Field \subseteq top.field
  BY DEF Field
<1>2. AtMostOne(top.field)
  BY TopFacts DEF FrameOK
<1> QED
  BY <1>1, <1>2 DEF AtMostOne

\* A value has one place to be stored, or none.
LEMMA TargetFacts ==
  ASSUME IInv, status = "running"
  PROVE  Target \in SUBSET Places /\ AtMostOne(Target)
<1>1. /\ top.into \in SUBSET Places /\ AtMostOne(top.into)
      /\ top.field \in SUBSET Seq(Byte) /\ top.size \in Nat /\ top.left \in Nat
  BY TopFacts DEF FrameOK, Frames
<1>2. Field \subseteq Seq(Byte) /\ AtMostOne(Field)
  BY <1>1, FieldFacts
<1>3. Nth \in Int
  BY <1>1 DEF Nth
<1>4. <<Nth>> \in Seq(Int)
  BY <1>3
<1>6. CASE Target = {}
  BY <1>6 DEF AtMostOne
<1>7. CASE Target = top.into
  BY <1>1, <1>7
<1>8. CASE Target = {Append(place, n) : place \in top.into, n \in Field}
  <2>1. \A place \in top.into, n \in Field : Append(place, n) \in Places
    BY <1>1, <1>2 DEF Places
  <2>2. Target \in SUBSET Places
    <3> SUFFICES ASSUME NEW x \in Target PROVE x \in Places
      OBVIOUS
    <3>1. PICK p \in top.into, m \in Field : x = Append(p, m)
      BY <1>8
    <3> QED
      BY <2>1, <3>1
  <2>3. AtMostOne(Target)
    <3> SUFFICES ASSUME NEW x \in Target, NEW y \in Target PROVE x = y
      BY DEF AtMostOne
    <3>1. PICK p \in top.into, m \in Field : x = Append(p, m)
      BY <1>8
    <3>2. PICK q \in top.into, n \in Field : y = Append(q, n)
      BY <1>8
    <3>3. p = q /\ m = n
      BY <1>1, <1>2 DEF AtMostOne
    <3> QED
      BY <3>1, <3>2, <3>3
  <2> QED
    BY <2>2, <2>3
<1>9. CASE Target = {Append(place, <<Nth>>) : place \in {x \in top.into : HasRoom}}
  <2>1. \A place \in top.into : Append(place, <<Nth>>) \in Places
    BY <1>1, <1>4 DEF Places
  <2>2. Target \in SUBSET Places
    BY <1>9, <2>1
  <2>3. AtMostOne(Target)
    <3> SUFFICES ASSUME NEW x \in Target, NEW y \in Target PROVE x = y
      BY DEF AtMostOne
    <3>1. PICK p \in top.into : x = Append(p, <<Nth>>)
      BY <1>9
    <3>2. PICK q \in top.into : y = Append(q, <<Nth>>)
      BY <1>9
    <3>3. p = q
      BY <1>1 DEF AtMostOne
    <3> QED
      BY <3>1, <3>2, <3>3
  <2> QED
    BY <2>2, <2>3
<1> QED
  BY <1>6, <1>7, <1>8, <1>9 DEF Target

\* What a walk stores are bytes of the message.
LEMMA BytesType ==
  ASSUME IInv, NEW p \in Nat, NEW q \in Nat, q <= Len(data)
  PROVE  Bytes(p, q) \in Seq(Byte)
<1>1. data \in Seq(Byte) /\ Len(data) \in Nat
  BY DEF IInv, Vars
<1>2. \A i \in p + 1 .. q : data[i] \in Byte
  <2> TAKE i \in p + 1 .. q
  <2>1. i \in 1..Len(data)
    BY <1>1
  <2> QED
    BY <1>1, <2>1, ElementOfSeq
<1>3. p + 1 \in Int /\ q \in Int
  OBVIOUS
<1> QED
  BY <1>2, <1>3, SubSeqProperties DEF Bytes

\* Storing what was read leaves a destination a destination.
LEMMA AssignType ==
  ASSUME IInv, NEW new, Contents(new)
  PROVE  Contents(Assign(new))
<1>1. Contents(dst)
  BY DEF IInv, Vars
<1> QED
  BY <1>1 DEF Contents, Assign

-----------------------------------------------------------------------------
(* Which types are read.                                                   *)

\* A value is read as one of the caller's types, or as any value; what stands at
\* a key is read as a key or a string, or skipped.
LEMMA TypeFacts ==
  ASSUME IInv, status = "running"
  PROVE  /\ ~AtKey => Type \in Types \cup {Of("Value"), Of("Any")}
         /\ Type \in ReadTypes
<1>1. top \in Frames /\ FrameOK(top)
  BY TopFacts
<1>2. top.type \in FrameTypes /\ top.type.kind \in Containers
  BY <1>1 DEF Frames, FrameOK
<1>3. top.type.kind \in {"Value", "Any"} => top.type \in {Of("Value"), Of("Any")}
  BY <1>2, TypesAssumption
     DEF FrameTypes, Of, Ptr, Struct, Kinds, Basic, Ints, Uints, Floats
<1>4. top.type.kind \in {"Slice", "Array", "Map", "Ptr"} => top.type.elem \in Types
  BY <1>2, TypesAssumption DEF FrameTypes, Of, Ptr, Struct
<1>5. InStruct /\ Field # {} => FieldType \in Types
  <2> SUFFICES ASSUME InStruct, Field # {} PROVE FieldType \in Types
    OBVIOUS
  <2> DEFINE n == CHOOSE x \in Field : TRUE
             t == top.type.fields[n]
  <2>1. n \in DOMAIN top.type.fields
    <3>1. n \in Field
      OBVIOUS
    <3>2. n \in top.field
      BY <3>1 DEF Field
    <3> HIDE DEF n
    <3> QED
      BY <1>1, <3>2 DEF FrameOK
  <2>2. top.type \in Types
    <3>1. top.type.kind = "Struct"
      BY DEF InStruct
    <3>2. top.type # Struct(<<>>)
      BY <2>1 DEF Struct
    <3> QED
      BY <1>2, <3>1, <3>2 DEF FrameTypes, Of, Ptr
  <2>3. t \in Types
    <3> HIDE DEF n
    <3>1. top.type.kind = "Struct"
      BY DEF InStruct
    <3> QED
      BY <2>1, <2>2, <3>1, TypesAssumption
  <2>4. FieldType = IF t.kind = "Ptr" /\ ~Reflecting THEN t.elem ELSE t
    BY DEF FieldType
  <2> HIDE DEF t
  <2> QED
    BY <2>3, <2>4, TypesAssumption
<1>6. ValueType \in Types \cup {Of("Value"), Of("Any")}
  <2>1. CASE InStruct
    BY <2>1, <1>5 DEF ValueType, InStruct
  <2>2. CASE ~InStruct
    BY <2>2, <1>2, <1>3, <1>4 DEF ValueType, InStruct, Containers
  <2> QED
    BY <2>1, <2>2
<1>7. KeyType \in ReadTypes
  BY DEF KeyType, ReadTypes, InStruct
<1> QED
  BY <1>6, <1>7 DEF Type, ReadTypes

\* Read turns an interface and a time into what is read for them.
LEMMA ReadFacts ==
  ASSUME IInv, status = "running"
  PROVE  /\ Read(Type) \in ReadTypes
         /\ Read(Type).kind = "Key" => AtKey
         /\ Read(Type).kind \in {"Slice", "Array", "Map", "Ptr"} =>
              ~AtKey /\ Read(Type) = Type /\ Type \in Types
<1>1. Type \in ReadTypes /\ (~AtKey => Type \in Types \cup {Of("Value"), Of("Any")})
  BY TypeFacts
<1>2. Read(Type) \in {Type, Of("Value"), Of("Any"), Struct(<<>>)}
  BY DEF Read
<1>3. Read(Type) \in ReadTypes
  BY <1>1, <1>2 DEF ReadTypes
<1>4. ASSUME Read(Type).kind = "Key" PROVE AtKey
  <2>1. Read(Type) = Type
    BY <1>2, <1>4 DEF Of, Struct
  <2>2. Type \notin Types
    BY <1>4, <2>1, TypesAssumption DEF Kinds, Basic, Ints, Uints, Floats
  <2> QED
    BY <1>1, <1>4, <2>1, <2>2 DEF Of
<1>5. ASSUME Read(Type).kind \in {"Slice", "Array", "Map", "Ptr"}
      PROVE  ~AtKey /\ Read(Type) = Type /\ Type \in Types
  <2>1. Read(Type) = Type
    BY <1>2, <1>5 DEF Of, Struct
  <2>2. ~AtKey
    <3>1. KeyType.kind \in {"Value", "String", "Key"}
      BY DEF KeyType, Of
    <3> QED
      BY <1>5, <2>1, <3>1 DEF Type
  <2>3. Type \in Types
    BY <1>1, <1>5, <2>1, <2>2 DEF Of
  <2> QED
    BY <2>1, <2>2, <2>3
<1> QED
  BY <1>3, <1>4, <1>5

-----------------------------------------------------------------------------
(* The shapes a step can have.                                             *)

InData(p) == p \in Nat /\ pos <= p /\ p <= Len(data)

\* The call ends with an error; the deferred leaveContainer calls take off what
\* the open frames have counted.
Fails ==
  \E e \in Errors, p \in Nat :
    /\ InData(p)
    /\ status' = e /\ pos' = p /\ stack' = <<>> /\ dst' = dst
    /\ depth' = IF e = "ErrMaxDepthExceeded" THEN 1 ELSE 0

\* A value has been read, or passed over.
Reads ==
  /\ ~AtEnd
  /\ \E p, d : InData(p) /\ Contents(d) /\ Done(stack, p, d)
  /\ depth' = depth

\* A key has been read.
ReadsKey ==
  /\ ~AtEnd /\ AtKey
  /\ pos' \in Nat /\ pos' <= Len(data) /\ pos < pos'
  /\ \E f \in SUBSET Seq(Byte) :
       /\ AtMostOne(f)
       /\ f # {} => InStruct /\ f \subseteq DOMAIN top.type.fields
       /\ stack' = [stack EXCEPT ![Len(stack)] = [top EXCEPT !.left = @ - 1, !.field = f]]
  /\ UNCHANGED <<status, depth, dst>>

\* A container has been opened, or a pointer is followed.
Opens ==
  /\ ~AtEnd
  /\ pos' \in Nat /\ pos' <= Len(data)
  /\ \E t \in Wanted, n \in Nat, pairs \in BOOLEAN, from \in Nat :
       LET count == t.kind # "Ptr" /\ Tracked(t)
       IN  /\ t.kind \in Containers
           /\ stack' = Append(stack, Frame(t, n, pairs, Target, from, count))
           /\ t.kind = "Ptr" => n > 0
           /\ IF t.kind = "Ptr" /\ OutsideStructs THEN pos' = pos ELSE pos < pos'
           /\ depth' = IF count THEN depth + 1 ELSE depth
           /\ count => depth + 1 <= MaxDepth
  /\ UNCHANGED <<status, dst>>

\* A container has been left.
Closes ==
  /\ AtEnd
  /\ \E d : Contents(d) /\ Done(SubSeq(stack, 1, Len(stack) - 1), pos, d)
  /\ depth' = IF top.counted THEN depth - 1 ELSE depth

Shaped == Fails \/ Reads \/ ReadsKey \/ Opens \/ Closes

\* The value at pos was looked at: it has a format byte, unless what is wanted is
\* a pointer that decodeReflect follows first.
LEMMA WantedFacts ==
  ASSUME NEW t \in Wanted
  PROVE  /\ status = "running" /\ ~AtEnd /\ t = Read(Type)
         /\ HasBytes(pos, 1) \/ (OutsideStructs /\ Type.kind = "Ptr")
BY DEF Wanted, AtType, AtValue

\* An error return: at an inner struct's key decodeIntoStruct goes on.
LEMMA FailShape ==
  ASSUME IInv, status = "running", ~AtEnd,
         NEW e \in Errors, NEW p \in Nat, InData(p), NEW d,
         d = depth + (IF e = "ErrMaxDepthExceeded" THEN 1 ELSE 0),
         Fail(e, p, d)
  PROVE  Fails \/ Reads
<1>1. CASE ErrorsSwallowed
  <2>1. Done(stack, p, dst) /\ depth' = depth
    BY <1>1 DEF Fail
  <2>2. Contents(dst)
    BY DEF IInv, Vars
  <2> QED
    BY <2>1, <2>2 DEF Reads
<1>2. CASE ~ErrorsSwallowed
  <2>1. status' = e /\ pos' = p /\ stack' = <<>> /\ dst' = dst /\ depth' = d - Open
    BY <1>2 DEF Fail
  <2>2. depth = Open
    BY DEF IInv, DepthIsOpen, Open, Counted
  <2>3. depth \in Nat
    BY DepthType
  <2>4. depth' = IF e = "ErrMaxDepthExceeded" THEN 1 ELSE 0
    BY <2>1, <2>2, <2>3
  <2> QED
    BY <2>1, <2>4 DEF Fails
<1> QED
  BY <1>1, <1>2

\* The same for the errors of everything but enterContainer.
LEMMA ErrorShape ==
  ASSUME IInv, status = "running", ~AtEnd,
         NEW e \in Errors \ {"ErrMaxDepthExceeded"}, NEW p \in Nat, InData(p),
         Fail(e, p, depth)
  PROVE  Fails \/ Reads
<1>1. depth \in Nat
  BY DepthType
<1>2. depth = depth + (IF e = "ErrMaxDepthExceeded" THEN 1 ELSE 0)
  BY <1>1
<1> QED
  BY <1>2, FailShape

\* Only a pointer outside structs is wanted before its format byte is there.
LEMMA WantedBytes ==
  ASSUME NEW t \in Wanted, t.kind # "Ptr"
  PROVE  HasBytes(pos, 1)
<1>1. CASE OutsideStructs /\ Type.kind = "Ptr"
  <2>1. Read(Type) = Type
    BY <1>1 DEF Read
  <2> QED
    BY <1>1, <2>1, WantedFacts
<1> QED
  BY <1>1, WantedFacts

\* The values of a format's kind that is refused or accepted.
LEMMA CheckFacts ==
  ASSUME NEW t, kind \in {"str", "bin", "ext", "array", "map"}
  PROVE  /\ Check(t) # "nil" => Check(t) \in Errors \ {"ErrMaxDepthExceeded"}
         /\ Check(t) = "nil" /\ t.kind # "Map" => HasBytes(body, Values)
<1>1. \A k \in {"str", "bin", "ext", "array", "map"} :
        TooLong(k) \in Errors \ {"ErrMaxDepthExceeded"} /\ TooLong(k) # "nil"
  BY DEF TooLong, Errors
<1> DEFINE k == IF t.kind = "Bytes" /\ (OutsideStructs \/ ~Reflecting) THEN "bin" ELSE kind
<1>2. k \in {"str", "bin", "ext", "array", "map"}
  OBVIOUS
<1>3. TooLong(k) \in Errors \ {"ErrMaxDepthExceeded"} /\ TooLong(k) # "nil"
  BY <1>1, <1>2
<1>4. Check(t) = IF t.kind = "Map" /\ top.type.kind = "Map" /\ ~Reflecting THEN "nil"
                 ELSE IF itemLen > Limit(k) THEN TooLong(k)
                 ELSE IF ~HasBytes(body, Values) THEN "ErrUnexpectedEOF"
                 ELSE "nil"
  BY DEF Check
<1> HIDE DEF k
<1> QED
  BY <1>3, <1>4 DEF Errors

\* Storing what was read keeps the destination typed.
LEMMA StoreType ==
  ASSUME IInv, NEW p \in Nat, p <= Len(data)
  PROVE  Contents(Store(p))
<1>1. pos \in Nat
  BY DEF IInv, Vars
<1>2. Bytes(pos, p) \in Seq(Byte)
  BY <1>1, BytesType
<1>3. Contents([x \in Target |-> Bytes(pos, p)])
  BY <1>2 DEF Contents
<1> QED
  BY <1>3, AssignType DEF Store

\* What a container is opened for.
LEMMA OpenedTypes ==
  ASSUME IInv, NEW t \in Wanted, Accepted(t), ~AnyByteWillDo(t), t.kind # "Time",
         kind \in {"array", "map"}, HasBytes(pos, 1)
  PROVE  t.kind \in Containers
<1>1. status = "running" /\ t = Read(Type)
  BY WantedFacts
<1>2. t \in ReadTypes
  BY <1>1, ReadFacts
<1>3. t.kind \in Kinds \cup {"Value", "Any", "Key"}
  BY <1>2, TypesAssumption DEF ReadTypes, Of, Struct, Kinds, Basic
<1>4. t.kind # "Interface"
  BY <1>1 DEF Read, Of, Struct
<1>5. format \in Byte
  BY ItemFacts
<1>6. kind # "scalar" => ~IntFormat /\ ~UintFormat /\ ~FloatFormat /\ format \notin {194, 195}
  <2>1. ASSUME \/ isPositiveFixint(format) \/ isNegativeFixint(format)
               \/ format \in 202..211 \/ format \in {194, 195}
        PROVE  kind = "scalar"
    BY <1>5, <2>1, ScalarKinds DEF kind
  <2>2. IntFormat => Fixint \/ format \in 202..211
    BY DEF IntFormat
  <2>3. UintFormat => Fixint \/ format \in 202..211
    BY DEF UintFormat, Fixint
  <2>4. FloatFormat => Fixint \/ format \in 202..211
    BY DEF FloatFormat
  <2> QED
    BY <2>1, <2>2, <2>3, <2>4 DEF Fixint
<1>7. t.kind \notin Ints \cup Uints \cup Floats \cup {"Bool", "Key", "String", "Bytes"}
  <2>1. ~IntFormat /\ ~UintFormat /\ ~FloatFormat /\ format \notin {194, 195}
    BY <1>6
  <2>2. ASSUME t.kind \in Ints PROVE FALSE
    BY <2>1, <2>2 DEF Accepted, Ints, Uints, Floats
  <2>3. ASSUME t.kind \in Uints PROVE FALSE
    BY <2>1, <2>3 DEF Accepted, Ints, Uints, Floats
  <2>4. ASSUME t.kind \in Floats PROVE FALSE
    BY <2>1, <2>4 DEF Accepted, Ints, Uints, Floats
  <2>5. ASSUME t.kind \in {"Bool", "Key", "String", "Bytes"} PROVE FALSE
    BY <2>1, <2>5 DEF Accepted, Ints, Uints, Floats
  <2> QED
    BY <2>2, <2>3, <2>4, <2>5
<1> QED
  BY <1>3, <1>4, <1>7 DEF Kinds, Basic, Containers

-----------------------------------------------------------------------------
(* The shape of each action.                                               *)

\* A value that was read up to p.
LEMMA ReadShape ==
  ASSUME IInv, status = "running", ~AtEnd, NEW p \in Nat, pos <= p, p <= Len(data),
         NEW d, Contents(d), Done(stack, p, d), UNCHANGED depth
  PROVE  Reads
BY DEF Reads, InData

\* decodeReflect at an array.
LEMMA UnsupportedTypeShape == IInv /\ UnsupportedType => Fails \/ Reads
<1> SUFFICES ASSUME IInv, UnsupportedType PROVE Fails \/ Reads
  OBVIOUS
<1>1. /\ status = "running" /\ ~AtEnd /\ Fail("ErrUnsupportedType", pos, depth)
      /\ pos \in Nat /\ InData(pos)
  BY DEF UnsupportedType, Reading, AtType, IInv, Vars, InData
<1> QED
  BY <1>1, ErrorShape DEF Errors

\* The message is at its end.
LEMMA NoFormatByteShape == IInv /\ NoFormatByte => Fails \/ Reads
<1> SUFFICES ASSUME IInv, NoFormatByte PROVE Fails \/ Reads
  OBVIOUS
<1>1. /\ status = "running" /\ ~AtEnd /\ Fail("ErrUnexpectedEOF", pos, depth)
      /\ pos \in Nat /\ InData(pos)
  BY DEF NoFormatByte, Reading, IInv, Vars, InData
<1> QED
  BY <1>1, ErrorShape DEF Errors

\* A nil, which resets what is stored.
LEMMA ReadNilShape == IInv /\ ReadNil => Reads
<1> SUFFICES ASSUME IInv, ReadNil PROVE Reads
  OBVIOUS
<1> DEFINE d == IF Reflecting /\ ~OutsideStructs
                  THEN Assign([x \in Target \cup Below(Target) |-> <<>>]) ELSE dst
<1>1. status = "running" /\ ~AtEnd /\ HasBytes(pos, 1)
      /\ Done(stack, pos + 1, d) /\ UNCHANGED depth
  BY DEF ReadNil, Reading, AtNil, AtValue
<1>2. pos + 1 \in Nat /\ pos <= pos + 1 /\ pos + 1 <= Len(data)
  BY <1>1, ItemFacts
<1>3. Contents(d)
  <2>1. Contents([x \in Target \cup Below(Target) |-> <<>>])
    BY DEF Contents
  <2>2. Contents(dst)
    BY DEF IInv, Vars
  <2> QED
    BY <2>1, <2>2, AssignType
<1> HIDE DEF d
<1> QED
  BY <1>1, <1>2, <1>3, ReadShape

\* A format byte the type is not read from.
LEMMA MismatchShape ==
  ASSUME IInv, NEW t \in Wanted, Mismatch(t)
  PROVE  Fails \/ Reads
<1> DEFINE e == IF t.kind \in {"Value", "Any"} \/ (AtKey /\ OutsideStructs /\ top.type.kind = "Any")
                  THEN "ErrInvalidFormat" ELSE "ErrTypeMismatch"
<1>1. status = "running" /\ ~AtEnd /\ Fail(e, pos + 1, depth)
  BY WantedFacts DEF Mismatch
<1>2. t.kind # "Ptr"
  BY DEF Mismatch, Accepted, Ints, Uints, Floats
<1>3. pos + 1 \in Nat /\ InData(pos + 1)
  BY <1>2, WantedBytes, ItemFacts DEF InData
<1>4. e \in Errors \ {"ErrMaxDepthExceeded"}
  BY DEF Errors
<1> HIDE DEF e
<1> QED
  BY <1>1, <1>3, <1>4, ErrorShape

\* A bool of decodeNestedStruct.
LEMMA NestedBoolShape ==
  ASSUME IInv, NEW t \in Wanted, NestedBool(t)
  PROVE  Reads
<1> DEFINE d == IF format \in {194, 195} THEN Assign([x \in Target |-> <<format>>]) ELSE dst
<1>1. status = "running" /\ ~AtEnd /\ Done(stack, pos + 1, d) /\ UNCHANGED depth
  BY WantedFacts DEF NestedBool
<1>2. t.kind # "Ptr"
  BY DEF NestedBool, AnyByteWillDo
<1>3. HasBytes(pos, 1)
  BY <1>2, WantedBytes
<1>4. /\ pos + 1 \in Nat /\ pos <= pos + 1 /\ pos + 1 <= Len(data)
      /\ format \in Byte
  BY <1>3, ItemFacts
<1>5. Contents(d)
  <2>1. <<format>> \in Seq(Byte)
    BY <1>4
  <2>2. Contents([x \in Target |-> <<format>>])
    BY <2>1 DEF Contents
  <2>3. Contents(dst)
    BY DEF IInv, Vars
  <2> QED
    BY <2>2, <2>3, AssignType
<1> HIDE DEF d
<1> QED
  BY <1>1, <1>4, <1>5, ReadShape

\* A number, a bool or a nil with its payload.
LEMMA ScalarShape ==
  ASSUME IInv, NEW t \in Wanted, Scalar(t)
  PROVE  Fails \/ Reads
<1> DEFINE end == pos + 1 + ScalarWidth(format)
<1>1. status = "running" /\ ~AtEnd /\ t.kind # "Ptr"
  BY WantedFacts DEF Scalar, ReadingKind
<1>2. /\ pos \in Nat /\ Len(data) \in Nat /\ pos + 1 <= Len(data)
      /\ ScalarWidth(format) \in Nat
  BY <1>1, WantedBytes, ItemFacts
<1>3. end \in Nat /\ pos <= end /\ (HasBytes(end, 0) => end <= Len(data))
  BY <1>2 DEF HasBytes
<1>4. IF HasBytes(end, 0) THEN Done(stack, end, Store(end)) /\ UNCHANGED depth
      ELSE Fail("ErrUnexpectedEOF", pos + 1, depth)
  BY DEF Scalar
<1> HIDE DEF end
<1>5. CASE HasBytes(end, 0)
  BY <1>1, <1>3, <1>4, <1>5, StoreType, ReadShape
<1>6. CASE ~HasBytes(end, 0)
  <2>1. pos + 1 \in Nat /\ InData(pos + 1)
    BY <1>2 DEF InData
  <2> QED
    BY <1>1, <1>4, <1>6, <2>1, ErrorShape DEF Errors
<1> QED
  BY <1>5, <1>6

\* What a length that cannot be read is reported as.
LEMMA NoLengthFacts ==
  ASSUME NEW t
  PROVE  NoLength(t) \in Errors /\ NoLength(t) # "ErrMaxDepthExceeded"
BY DEF NoLength, Errors

\* A length that is refused.
LEMMA BadLengthShape ==
  ASSUME IInv, NEW t \in Wanted, BadLength(t)
  PROVE  Fails \/ Reads
<1>1. /\ status = "running" /\ ~AtEnd /\ t.kind # "Ptr"
      /\ kind \in {"str", "bin", "ext", "array", "map"}
  BY WantedFacts DEF BadLength, ReadingKind
<1>2. /\ pos \in Nat /\ Len(data) \in Nat /\ pos + 1 <= Len(data)
      /\ body \in Nat /\ pos + 1 <= body /\ (LenReadable => body <= Len(data))
  BY <1>1, WantedBytes, ItemFacts
<1>3. CASE Fail(NoLength(t), pos + 1, depth)
  <2>1. pos + 1 \in Nat /\ InData(pos + 1)
    BY <1>2 DEF InData
  <2> QED
    BY <1>1, <1>3, <2>1, ErrorShape, NoLengthFacts
<1>4. CASE LenReadable /\ Check(t) # "nil" /\ Fail(Check(t), body, depth)
  <2>1. body \in Nat /\ InData(body)
    BY <1>2, <1>4 DEF InData
  <2>2. Check(t) \in Errors \ {"ErrMaxDepthExceeded"}
    BY <1>1, <1>4, CheckFacts
  <2> QED
    BY <1>1, <1>4, <2>1, <2>2, ErrorShape
<1> QED
  BY <1>3, <1>4 DEF BadLength

\* What GoodLength says of the item.
LEMMA GoodLengthFacts ==
  ASSUME IInv, NEW t \in Wanted, NEW kinds, GoodLength(t, kinds),
         kinds \subseteq {"str", "bin", "ext", "array", "map"}
  PROVE  /\ status = "running" /\ ~AtEnd /\ Accepted(t) /\ kind \in kinds
         /\ ~AnyByteWillDo(t) /\ t.kind \notin {"Ptr", "Time"} /\ HasBytes(pos, 1)
         /\ pos \in Nat /\ Len(data) \in Nat /\ body \in Nat /\ pos + 1 <= body
         /\ body <= Len(data) /\ itemLen \in Nat /\ Values \in Nat
         /\ t.kind # "Map" => HasBytes(body, Values)
<1>1. /\ status = "running" /\ ~AtEnd /\ Accepted(t) /\ kind \in kinds
      /\ ~AnyByteWillDo(t) /\ t.kind \notin {"Ptr", "Time"}
      /\ LenReadable /\ Check(t) = "nil"
  BY WantedFacts DEF GoodLength, ReadingKind
<1>2. HasBytes(pos, 1)
  BY <1>1, WantedBytes
<1>3. t.kind # "Map" => HasBytes(body, Values)
  BY <1>1, CheckFacts
<1> QED
  BY <1>1, <1>2, <1>3, ItemFacts

\* A string or binary that was let in is in the message.
LEMMA TextFits ==
  ASSUME IInv, NEW t \in Wanted, GoodLength(t, {"str", "bin"})
  PROVE  /\ body + itemLen \in Nat /\ body + itemLen <= Len(data)
         /\ pos + 1 <= body + itemLen
<1>1. /\ kind \in {"str", "bin"} /\ Accepted(t)
      /\ pos \in Nat /\ body \in Nat /\ pos + 1 <= body /\ itemLen \in Nat
      /\ t.kind # "Map" => HasBytes(body, Values)
  BY GoodLengthFacts
<1>2. t.kind # "Map"
  BY <1>1 DEF Accepted, Ints, Uints, Floats
<1>3. HasBytes(body, itemLen)
  BY <1>1, <1>2 DEF Values
<1> QED
  BY <1>1, <1>3 DEF HasBytes

\* A key, looked up in the struct it is a key of.
LEMMA KeyShape ==
  ASSUME IInv, NEW t \in Wanted, Key(t)
  PROVE  ReadsKey
<1> DEFINE f == IF InStruct THEN {Bytes(body, pos')} \cap DOMAIN top.type.fields ELSE {}
<1>1. GoodLength(t, {"str", "bin"})
  BY DEF Key, GoodLength, ReadingKind
<1>2. /\ status = "running" /\ ~AtEnd /\ pos \in Nat /\ body \in Nat
      /\ Len(data) \in Nat /\ body <= Len(data)
  BY <1>1, GoodLengthFacts
<1>3. pos' = body + itemLen /\ pos' \in Nat /\ pos' <= Len(data) /\ pos < pos'
  BY <1>1, <1>2, TextFits DEF Key
<1>4. AtKey
  BY <1>2, WantedFacts, ReadFacts DEF Key
<1>5. Bytes(body, pos') \in Seq(Byte)
  BY <1>2, <1>3, BytesType
<1>6. f \in SUBSET Seq(Byte) /\ AtMostOne(f)
  BY <1>5 DEF AtMostOne
<1>7. f # {} => InStruct /\ f \subseteq DOMAIN top.type.fields
  OBVIOUS
<1>8. stack' = [stack EXCEPT ![Len(stack)].left = @ - 1, ![Len(stack)].field = f]
  BY DEF Key
<1> HIDE DEF f
<1>9. stack' = [stack EXCEPT ![Len(stack)] = [top EXCEPT !.left = @ - 1, !.field = f]]
  <2>1. Len(stack) \in DOMAIN stack
    BY <1>2, TopFacts DEF IInv, Vars
  <2> QED
    BY <1>8, <2>1 DEF top
<1>10. UNCHANGED <<status, depth, dst>>
  BY DEF Key
<1> QED
  BY <1>2, <1>3, <1>4, <1>6, <1>7, <1>9, <1>10 DEF ReadsKey

\* A string or a binary.
LEMMA StringOrBinaryShape ==
  ASSUME IInv, NEW t \in Wanted, StringOrBinary(t)
  PROVE  Reads
<1>1. /\ GoodLength(t, {"str", "bin"}) /\ UNCHANGED depth
      /\ Done(stack, body + itemLen, Store(body + itemLen))
  BY DEF StringOrBinary
<1>2. status = "running" /\ ~AtEnd /\ pos \in Nat
  BY <1>1, GoodLengthFacts
<1>3. /\ body + itemLen \in Nat /\ body + itemLen <= Len(data)
      /\ pos + 1 <= body + itemLen
  BY <1>1, TextFits
<1>4. pos <= body + itemLen
  BY <1>2, <1>3
<1> QED
  BY <1>1, <1>2, <1>3, <1>4, StoreType, ReadShape

\* An extension, which is checked without its type byte.
LEMMA ExtensionShape ==
  ASSUME IInv, NEW t \in Wanted, Extension(t)
  PROVE  Fails \/ Reads
<1> DEFINE end == body + 1 + itemLen
           p == IF HasBytes(body, 1) THEN body + 1 ELSE body
<1>1. /\ GoodLength(t, {"ext"})
      /\ IF HasBytes(end, 0) THEN Done(stack, end, Store(end)) /\ UNCHANGED depth
         ELSE Fail("ErrUnexpectedEOF", p, depth)
  BY DEF Extension
<1>2. /\ status = "running" /\ ~AtEnd /\ pos \in Nat /\ body \in Nat
      /\ Len(data) \in Nat /\ pos + 1 <= body /\ body <= Len(data) /\ itemLen \in Nat
  BY <1>1, GoodLengthFacts
<1>3. end \in Nat /\ pos <= end /\ (HasBytes(end, 0) => end <= Len(data))
  BY <1>2 DEF HasBytes
<1>4. p \in Nat /\ InData(p)
  BY <1>2 DEF HasBytes, InData
<1> HIDE DEF end, p
<1>5. CASE HasBytes(end, 0)
  BY <1>1, <1>2, <1>3, <1>5, StoreType, ReadShape
<1>6. CASE ~HasBytes(end, 0)
  BY <1>1, <1>2, <1>4, <1>6, ErrorShape DEF Errors
<1> QED
  BY <1>5, <1>6

\* A timestamp: six ways out, all of them in the message.
LEMMA TimestampShape ==
  ASSUME IInv, NEW t \in Wanted, Timestamp(t)
  PROVE  Fails \/ Reads
<1> DEFINE end == body + 1 + itemLen
           p == IF itemLen = 12 /\ HasBytes(body, 5) THEN body + 5 ELSE body + 1
<1>1. status = "running" /\ ~AtEnd /\ t.kind # "Ptr"
  BY WantedFacts DEF Timestamp
<1>2. /\ pos \in Nat /\ Len(data) \in Nat /\ pos + 1 <= Len(data)
      /\ body \in Nat /\ pos + 1 <= body
      /\ LenReadable => body <= Len(data) /\ itemLen \in Nat
  BY <1>1, WantedBytes, ItemFacts
<1>3. CASE Fail("ErrUnexpectedEOF", pos + 1, depth)
  <2>1. pos + 1 \in Nat /\ InData(pos + 1)
    BY <1>2 DEF InData
  <2> QED
    BY <1>1, <1>3, <2>1, ErrorShape DEF Errors
<1>4. CASE LenReadable /\ Fail("ErrTypeMismatch", body, depth)
  <2>1. InData(body)
    BY <1>2, <1>4 DEF InData
  <2> QED
    BY <1>1, <1>2, <1>4, <2>1, ErrorShape DEF Errors
<1>5. CASE /\ LenReadable
           /\ IF ~HasBytes(body, 1) THEN Fail("ErrUnexpectedEOF", body, depth)
              ELSE IF data[body+1] # 255 THEN Fail("ErrTypeMismatch", body + 1, depth)
              ELSE IF HasBytes(end, 0) THEN Done(stack, end, Store(end)) /\ UNCHANGED depth
              ELSE Fail("ErrUnexpectedEOF", p, depth)
  <2>1. body \in Nat /\ InData(body)
    BY <1>2, <1>5 DEF InData
  <2>2. HasBytes(body, 1) => body + 1 \in Nat /\ InData(body + 1) /\ p \in Nat /\ InData(p)
    BY <1>2, <1>5 DEF InData, HasBytes
  <2>3. end \in Nat /\ pos <= end /\ (HasBytes(end, 0) => end <= Len(data))
    BY <1>2, <1>5 DEF HasBytes
  <2> HIDE DEF end, p
  <2>4. CASE ~HasBytes(body, 1)
    BY <1>1, <1>5, <2>1, <2>4, ErrorShape DEF Errors
  <2>5. CASE HasBytes(body, 1) /\ data[body+1] # 255
    BY <1>1, <1>5, <2>2, <2>5, ErrorShape DEF Errors
  <2>6. CASE HasBytes(body, 1) /\ data[body+1] = 255 /\ HasBytes(end, 0)
    BY <1>1, <1>5, <2>3, <2>6, StoreType, ReadShape
  <2>7. CASE HasBytes(body, 1) /\ data[body+1] = 255 /\ ~HasBytes(end, 0)
    BY <1>1, <1>5, <2>2, <2>7, ErrorShape DEF Errors
  <2> QED
    BY <2>4, <2>5, <2>6, <2>7
<1> QED
  BY <1>3, <1>4, <1>5 DEF Timestamp

\* A container, which enterContainer refuses or lets in.
LEMMA OpenShape ==
  ASSUME IInv, NEW t \in Wanted, OpenContainer(t)
  PROVE  Fails \/ Reads \/ Opens
<1>1. GoodLength(t, {"array", "map"})
  BY DEF OpenContainer
<1>2. /\ status = "running" /\ ~AtEnd /\ Accepted(t) /\ kind \in {"array", "map"}
      /\ ~AnyByteWillDo(t) /\ t.kind # "Ptr" /\ t.kind # "Time" /\ HasBytes(pos, 1)
      /\ pos \in Nat /\ Len(data) \in Nat /\ body \in Nat /\ pos + 1 <= body
      /\ body <= Len(data) /\ Values \in Nat
  BY <1>1, GoodLengthFacts
<1>3. depth \in Nat /\ MaxDepth \in Int
  BY <1>2, DepthType, ConfigAssumption
<1>4. CASE Tracked(t) /\ depth + 1 > MaxDepth
  <2>1. Fail("ErrMaxDepthExceeded", body, depth + 1)
    BY <1>4 DEF OpenContainer
  <2>2. InData(body) /\ "ErrMaxDepthExceeded" \in Errors
    BY <1>2 DEF InData, Errors
  <2> QED
    BY <1>2, <2>1, <2>2, FailShape
<1>5. CASE ~(Tracked(t) /\ depth + 1 > MaxDepth)
  <2> DEFINE count == t.kind # "Ptr" /\ Tracked(t)
             pairs == kind = "map"
  <2>1. /\ stack' = Append(stack, Frame(t, Values, kind = "map", Target, body, Tracked(t)))
        /\ depth' = IF Tracked(t) THEN depth + 1 ELSE depth
        /\ pos' = body
        /\ UNCHANGED <<status, dst>>
    BY <1>5 DEF OpenContainer
  <2>2. count = Tracked(t)
    BY <1>2 DEF Tracked
  <2>3. t.kind \in Containers
    BY <1>2, OpenedTypes
  <2>4. count => depth + 1 <= MaxDepth
    BY <1>3, <1>5
  <2>5. pos' \in Nat /\ pos' <= Len(data) /\ pos < pos'
    BY <1>2, <2>1
  <2>6. pairs \in BOOLEAN
    OBVIOUS
  <2>7. stack' = Append(stack, Frame(t, Values, pairs, Target, body, count))
    BY <2>1, <2>2
  <2>8. depth' = IF count THEN depth + 1 ELSE depth
    BY <2>1, <2>2
  <2> HIDE DEF count, pairs
  <2> QED
    BY <1>2, <2>1, <2>3, <2>4, <2>5, <2>6, <2>7, <2>8 DEF Opens, count
<1> QED
  BY <1>4, <1>5

\* A pointer, which takes a byte inside a struct and none outside.
LEMMA FollowShape ==
  ASSUME IInv, NEW t \in Wanted, Follow(t)
  PROVE  Opens
<1>1. status = "running" /\ ~AtEnd /\ t.kind = "Ptr"
  BY WantedFacts DEF Follow
<1>2. pos \in Nat /\ Len(data) \in Nat /\ pos <= Len(data)
  BY DEF IInv, Vars
<1>3. pos' \in Nat /\ pos' <= Len(data) /\ IF OutsideStructs THEN pos' = pos ELSE pos < pos'
  <2>1. CASE OutsideStructs
    BY <1>2, <2>1 DEF Follow
  <2>2. CASE ~OutsideStructs
    <3>1. HasBytes(pos, 1)
      BY <2>2, WantedFacts
    <3> QED
      BY <1>2, <2>2, <3>1 DEF Follow, HasBytes
  <2> QED
    BY <2>1, <2>2
<1> DEFINE count == t.kind # "Ptr" /\ Tracked(t)
<1>4. count = FALSE
  BY <1>1
<1>5. stack' = Append(stack, Frame(t, 1, FALSE, Target, pos, count))
  BY <1>4 DEF Follow
<1>6. depth' = IF count THEN depth + 1 ELSE depth
  BY <1>4 DEF Follow
<1>7. t.kind \in Containers /\ UNCHANGED <<status, dst>> /\ 1 \in Nat /\ 1 > 0 /\ FALSE \in BOOLEAN
  BY <1>1 DEF Containers, Follow
<1> HIDE DEF count
<1> QED
  BY <1>1, <1>2, <1>3, <1>4, <1>5, <1>6, <1>7 DEF Opens, count

\* The end of a loop.
LEMMA CloseShape == IInv /\ CloseContainer => Closes
<1> SUFFICES ASSUME IInv, CloseContainer PROVE Closes
  OBVIOUS
<1> DEFINE d == IF StoredAtEnd THEN Assign([x \in top.into |-> Bytes(top.from, pos)]) ELSE dst
<1>1. /\ status = "running" /\ AtEnd
      /\ Done(SubSeq(stack, 1, Len(stack) - 1), pos, d)
      /\ depth' = IF top.counted THEN depth - 1 ELSE depth
  BY DEF CloseContainer, Reading, Pop
<1>2. pos \in Nat /\ pos <= Len(data) /\ top.from \in Nat
  BY <1>1, TopFacts DEF IInv, Vars, Frames
<1>3. Bytes(top.from, pos) \in Seq(Byte)
  BY <1>2, BytesType
<1>4. Contents([x \in top.into |-> Bytes(top.from, pos)])
  BY <1>3 DEF Contents
<1>5. Contents(d)
  BY <1>4, AssignType DEF IInv, Vars
<1> HIDE DEF d
<1> QED
  BY <1>1, <1>5 DEF Closes

\* Every step of a walk has one of the shapes.
LEMMA StepShape ==
  ASSUME IInv, Step
  PROVE  Reading /\ Shaped
<1>1. Reading
  BY DEF Step, UnsupportedType, NoFormatByte, ReadNil, Mismatch, NestedBool, Scalar, BadLength,
         Key, StringOrBinary, Extension, Timestamp, OpenContainer, Follow, CloseContainer,
         GoodLength, ReadingKind
<1>2. CASE UnsupportedType
  BY <1>1, <1>2, UnsupportedTypeShape DEF Shaped
<1>3. CASE NoFormatByte
  BY <1>1, <1>3, NoFormatByteShape DEF Shaped
<1>4. CASE ReadNil
  BY <1>1, <1>4, ReadNilShape DEF Shaped
<1>5. CASE \E t \in Wanted : Mismatch(t)
  BY <1>1, <1>5, MismatchShape DEF Shaped
<1>6. CASE \E t \in Wanted : NestedBool(t)
  BY <1>1, <1>6, NestedBoolShape DEF Shaped
<1>7. CASE \E t \in Wanted : Scalar(t)
  BY <1>1, <1>7, ScalarShape DEF Shaped
<1>8. CASE \E t \in Wanted : BadLength(t)
  BY <1>1, <1>8, BadLengthShape DEF Shaped
<1>9. CASE \E t \in Wanted : Key(t)
  BY <1>1, <1>9, KeyShape DEF Shaped
<1>10. CASE \E t \in Wanted : StringOrBinary(t)
  BY <1>1, <1>10, StringOrBinaryShape DEF Shaped
<1>11. CASE \E t \in Wanted : Extension(t)
  BY <1>1, <1>11, ExtensionShape DEF Shaped
<1>12. CASE \E t \in Wanted : Timestamp(t)
  BY <1>1, <1>12, TimestampShape DEF Shaped
<1>13. CASE \E t \in Wanted : OpenContainer(t)
  BY <1>1, <1>13, OpenShape DEF Shaped
<1>14. CASE \E t \in Wanted : Follow(t)
  BY <1>1, <1>14, FollowShape DEF Shaped
<1>15. CASE CloseContainer
  BY <1>1, <1>15, CloseShape DEF Shaped
<1> QED
  BY <1>1, <1>2, <1>3, <1>4, <1>5, <1>6, <1>7, <1>8,
     <1>9, <1>10, <1>11, <1>12, <1>13, <1>14, <1>15 DEF Step

-----------------------------------------------------------------------------
(* Stacks and what is counted of them.                                     *)

\* A set of frame numbers is finite, and a new frame is one more.
LEMMA OneMore ==
  ASSUME NEW n \in Nat, NEW S \in SUBSET (1..n)
  PROVE  /\ Cardinality(S) \in Nat
         /\ Cardinality(S \cup {n + 1}) = Cardinality(S) + 1
         /\ \A T \in SUBSET S : Cardinality(T) <= Cardinality(S)
<1>1. IsFiniteSet(1..n)
  BY FS_Interval
<1>2. IsFiniteSet(S) /\ Cardinality(S) \in Nat
  BY <1>1, FS_Subset, FS_CardinalityType
<1>3. n + 1 \notin S
  OBVIOUS
<1>4. Cardinality(S \cup {n + 1}) = Cardinality(S) + 1
  BY <1>2, <1>3, FS_AddElement
<1> QED
  BY <1>2, <1>4, FS_Subset

\* One frame more.
LEMMA CountPush ==
  ASSUME NEW s \in Seq(Frames), NEW t \in Seq(Frames), Len(t) = Len(s) + 1,
         \A i \in 1..Len(s) : t[i] = s[i]
  PROVE  Cardinality(Counted(t)) =
           Cardinality(Counted(s)) + (IF t[Len(t)].counted THEN 1 ELSE 0)
<1> DEFINE n == Len(s)
<1>1. n \in Nat
  OBVIOUS
<1>2. Counted(s) \in SUBSET (1..n)
  BY DEF Counted
<1>3. Cardinality(Counted(s)) \in Nat
  BY <1>1, <1>2, OneMore
<1>4. CASE t[n + 1].counted
  <2>1. Counted(t) = Counted(s) \cup {n + 1}
    BY <1>1, <1>4 DEF Counted
  <2> QED
    BY <1>1, <1>2, <1>4, <2>1, OneMore
<1>5. CASE ~t[n + 1].counted
  <2>1. Counted(t) = Counted(s)
    BY <1>1, <1>5 DEF Counted
  <2> QED
    BY <1>3, <1>5, <2>1
<1> QED
  BY <1>4, <1>5

\* While the innermost loop is not over, every frame has a value to count.
LEMMA ReadingFrames ==
  ASSUME IInv, status = "running", ~AtEnd
  PROVE  \A i \in 1..Len(stack) : stack[i].left > 0
<1> SUFFICES ASSUME NEW i \in 1..Len(stack) PROVE stack[i].left > 0
  OBVIOUS
<1>1. stack \in Seq(Frames) /\ Len(stack) \in Nat
  BY TopFacts DEF IInv, Vars
<1>2. CASE i = Len(stack)
  <2>1. stack[i].left # 0
    BY <1>2 DEF AtEnd, top
  <2>2. stack[i] \in Frames
    BY <1>1, ElementOfSeq
  <2> QED
    BY <2>1, <2>2 DEF Frames
<1>3. CASE i # Len(stack)
  <2>1. i \in 1..Len(stack) - 1
    BY <1>1, <1>3
  <2> QED
    BY <2>1 DEF IInv, Waiting
<1> QED
  BY <1>2, <1>3

-----------------------------------------------------------------------------
(* Each shape keeps the invariant.                                         *)

\* A failed call leaves no frame.
LEMMA FailsInv ==
  ASSUME IInv, Reading, Fails PROVE IInv'
<1>1. PICK e \in Errors, p \in Nat :
        /\ InData(p)
        /\ status' = e /\ pos' = p /\ stack' = <<>> /\ dst' = dst
        /\ depth' = IF e = "ErrMaxDepthExceeded" THEN 1 ELSE 0
  BY DEF Fails
<1>2. UNCHANGED <<data, walk, root, calls>> /\ e # "running"
  BY DEF Reading, Errors
<1>3. Vars'
  BY <1>1, <1>2 DEF IInv, Vars, InData
<1>4. DepthIsOpen'
  BY <1>1, <1>2 DEF DepthIsOpen
<1> QED
  BY <1>1, <1>3, <1>4 DEF IInv, FramesOK, Waiting, BottomStays

\* What Done stores are bytes of the message.
LEMMA DoneStores ==
  ASSUME IInv, NEW f \in Frames, NEW p \in Nat, p <= Len(data), NEW d, Contents(d)
  PROVE  Contents(IF PairRead(f)
                    THEN Assign([x \in f.into |-> Content(x) \o Bytes(f.from, p)]) ELSE d)
<1>1. Bytes(f.from, p) \in Seq(Byte)
  BY BytesType DEF Frames
<1>2. \A x : Content(x) \in Seq(Byte)
  BY DEF Content, IInv, Vars, Contents
<1>3. \A x : Content(x) \o Bytes(f.from, p) \in Seq(Byte)
  BY <1>1, <1>2
<1>4. Contents([x \in f.into |-> Content(x) \o Bytes(f.from, p)])
  BY <1>3 DEF Contents
<1> QED
  BY <1>4, AssignType

\* Reading one value keeps the invariant: the frames that stay were open before,
\* and the innermost of them had the value still to count.
LEMMA DoneInv ==
  ASSUME IInv, Reading, NEW outer \in Seq(Frames), Len(outer) >= 1, Len(outer) <= Len(stack),
         \A i \in 1..Len(outer) : outer[i] = stack[i] /\ outer[i].left > 0,
         NEW p \in Nat, p <= Len(data), NEW d, Contents(d),
         Done(outer, p, d), depth' = Cardinality(Counted(outer))
  PROVE  IInv'
<1> DEFINE n == Len(outer)
           f == outer[n]
           g == [f EXCEPT !.left = @ - 1, !.field = {}, !.from = IF PairRead(f) THEN p ELSE @]
           D == IF PairRead(f)
                  THEN Assign([x \in f.into |-> Content(x) \o Bytes(f.from, p)]) ELSE d
<1>1. /\ pos' = p /\ dst' = D
      /\ IF n = 1 THEN stack' = <<>> /\ status' = "ok"
         ELSE stack' = [outer EXCEPT ![n] = g] /\ UNCHANGED status
  BY DEF Done
<1>2. UNCHANGED <<data, walk, root, calls>> /\ status = "running"
  BY DEF Reading
<1>3. /\ n \in Nat /\ n \in 1..n /\ Len(stack) \in Nat
      /\ data \in Seq(Byte) /\ stack \in Seq(Frames)
  BY <1>2, TopFacts DEF IInv, Vars
<1>4. f \in Frames /\ f = stack[n] /\ f.left > 0 /\ FrameOK(f)
  <2>1. f \in Frames
    BY <1>3, ElementOfSeq
  <2>2. f = stack[n] /\ f.left > 0 /\ n \in 1..Len(stack)
    BY <1>3
  <2> QED
    BY <2>1, <2>2 DEF IInv, FramesOK
<1>5. Contents(dst')
  <2>1. Contents(D)
    BY <1>4, DoneStores
  <2> HIDE DEF D
  <2> QED
    BY <1>1, <2>1 DEF Contents
<1> HIDE DEF D
<1>6. CASE n = 1
  <2>1. stack' = <<>> /\ status' = "ok"
    BY <1>1, <1>6
  <2>2. depth' = 0
    <3>1. outer[1] = Bottom
      BY <1>3, <1>6 DEF IInv, BottomStays
    <3>2. ~outer[1].counted
      BY <3>1 DEF Bottom, Frame
    <3>3. Counted(outer) = {}
      BY <1>6, <3>2 DEF Counted
    <3> QED
      BY <3>3, FS_EmptySet
  <2>3. Vars'
    BY <1>1, <1>2, <1>5, <2>1 DEF IInv, Vars
  <2>4. DepthIsOpen'
    BY <2>1, <2>2 DEF DepthIsOpen
  <2> QED
    BY <2>1, <2>3, <2>4 DEF IInv, FramesOK, Waiting, BottomStays
<1>7. CASE n # 1
  <2>1. stack' = [outer EXCEPT ![n] = g] /\ status' = "running"
    BY <1>1, <1>2, <1>7
  <2>2. /\ g \in Frames /\ g.left \in Nat /\ g.type = f.type /\ g.into = f.into
        /\ g.field = {} /\ g.counted = f.counted
    <3>1. /\ f.left - 1 \in Nat /\ (IF PairRead(f) THEN p ELSE f.from) \in Nat
          /\ {} \in SUBSET Seq(Byte)
      BY <1>4 DEF Frames
    <3>2. g = [f EXCEPT !.left = f.left - 1, !.field = {},
                        !.from = IF PairRead(f) THEN p ELSE f.from]
      BY <1>4 DEF Frames
    <3> HIDE DEF f, g
    <3> QED
      BY <1>4, <3>1, <3>2 DEF Frames
  <2>3. FrameOK(g)
    BY <1>4, <2>2 DEF FrameOK, AtMostOne
  <2> HIDE DEF f, g
  <2>4. /\ stack' \in Seq(Frames) /\ Len(stack') = n /\ stack'[n] = g
        /\ \A i \in 1..n - 1 : stack'[i] = outer[i]
        /\ Counted(stack') = Counted(outer)
    <3>1. outer \in Seq(Frames) /\ n \in Nat /\ n \in 1..n /\ n = Len(outer) /\ g \in Frames
      BY <1>3, <2>2
    <3>2. stack' = [outer EXCEPT ![n] = g]
      BY <2>1
    <3>3. g.counted = outer[n].counted
      BY <2>2 DEF f
    <3> HIDE DEF n
    <3>4. stack' \in Seq(Frames) /\ Len(stack') = n
      BY <3>1, <3>2
    <3>5. stack'[n] = g
      BY <3>1, <3>2
    <3>6. \A i \in 1..n : i # n => stack'[i] = outer[i]
      BY <3>1, <3>2
    <3>7. \A i \in 1..n - 1 : stack'[i] = outer[i]
      BY <3>1, <3>6
    <3>8. \A i \in 1..n : stack'[i].counted = outer[i].counted
      BY <3>3, <3>5, <3>6
    <3>9. Counted(stack') = Counted(outer)
      BY <3>1, <3>4, <3>8 DEF Counted
    <3> QED
      BY <3>4, <3>5, <3>7, <3>9
  <2>5. Vars'
    <3>1. stack' # <<>>
      BY <1>3, <2>4
    <3> QED
      BY <1>1, <1>2, <1>5, <2>1, <2>4, <3>1 DEF IInv, Vars
  <2>6. FramesOK'
    <3> SUFFICES ASSUME NEW i \in 1..n PROVE FrameOK(stack'[i])
      BY <2>4 DEF FramesOK, FrameOK, AtMostOne
    <3>1. CASE i = n
      BY <2>3, <2>4, <3>1
    <3>2. CASE i # n
      <4>1. i \in 1..n - 1 /\ i \in 1..Len(stack)
        BY <1>3, <3>2
      <4>2. stack'[i] = stack[i]
        BY <2>4, <4>1
      <4> QED
        BY <4>1, <4>2 DEF IInv, FramesOK
    <3> QED
      BY <3>1, <3>2
  <2>7. Waiting'
    <3> SUFFICES ASSUME NEW i \in 1..n - 1 PROVE stack'[i].left > 0
      BY <2>4 DEF Waiting
    <3> QED
      BY <1>3, <2>4
  <2>8. DepthIsOpen'
    <3>1. Counted(outer) \in SUBSET Counted(stack)
      BY <1>3 DEF Counted
    <3>2. Counted(stack) \in SUBSET (1..Len(stack))
      BY DEF Counted
    <3>3. Cardinality(Counted(outer)) <= depth /\ depth \in Nat
      BY <1>2, <1>3, <3>1, <3>2, OneMore, DepthType DEF IInv, DepthIsOpen
    <3>4. Cardinality(Counted(outer)) \in Nat
      BY <1>3, <3>1, <3>2, OneMore
    <3>5. depth > 0 => depth <= MaxDepth
      BY <1>2 DEF IInv, DepthIsOpen
    <3> QED
      BY <2>1, <2>4, <3>3, <3>4, <3>5, ConfigAssumption DEF DepthIsOpen
  <2>9. BottomStays'
    <3>1. 1 \in 1..n - 1 /\ 1 \in 1..n
      <4>1. n \in Nat /\ n >= 1 /\ n # 1
        BY <1>3, <1>7
      <4> HIDE DEF n
      <4> QED
        BY <4>1
    <3>2. stack'[1] = outer[1] /\ outer[1] = stack[1]
      BY <2>4, <3>1
    <3>3. stack # <<>>
      BY <1>2 DEF IInv, Vars
    <3>4. Bottom' = Bottom
      BY <1>2 DEF Bottom
    <3> QED
      BY <3>2, <3>3, <3>4 DEF IInv, BottomStays
  <2> QED
    BY <2>5, <2>6, <2>7, <2>8, <2>9 DEF IInv
<1> QED
  BY <1>6, <1>7

\* A value is read into the innermost frame.
LEMMA ReadsInv ==
  ASSUME IInv, Reading, Reads PROVE IInv'
<1>1. PICK p, d : InData(p) /\ Contents(d) /\ Done(stack, p, d)
  BY DEF Reads
<1>2. status = "running" /\ ~AtEnd /\ depth' = depth
  BY DEF Reading, Reads
<1> DEFINE s == stack
<1>3. s \in Seq(Frames) /\ Len(s) >= 1 /\ Len(s) <= Len(stack)
  BY <1>2, TopFacts DEF IInv, Vars
<1>4. \A i \in 1..Len(s) : s[i] = stack[i] /\ s[i].left > 0
  BY <1>2, ReadingFrames
<1>5. depth' = Cardinality(Counted(s)) /\ Done(s, p, d)
  BY <1>1, <1>2 DEF IInv, DepthIsOpen
<1>6. Contents(d) /\ p \in Nat /\ p <= Len(data)
  BY <1>1 DEF InData
<1> HIDE DEF s
<1> QED
  BY <1>3, <1>4, <1>5, <1>6, DoneInv

\* A loop that is over is not the bottom frame's: there is one below it.
LEMMA NotBottom ==
  ASSUME IInv, status = "running", AtEnd \/ AtKey
  PROVE  Len(stack) >= 2
<1>1. Len(stack) \in Nat /\ Len(stack) >= 1 /\ stack # <<>>
  BY TopFacts DEF IInv, Vars
<1>2. ASSUME Len(stack) = 1 PROVE FALSE
  <2>1. top = Bottom
    BY <1>1, <1>2 DEF top, IInv, BottomStays
  <2>2. Bottom.left = 1 /\ Bottom.keyed = FALSE
    BY DEF Bottom, Frame
  <2> QED
    BY <2>1, <2>2 DEF AtEnd, AtKey
<1> DEFINE n == Len(stack)
<1>3. n \in Nat /\ n >= 1 /\ n # 1
  BY <1>1, <1>2, Zenon
<1> HIDE DEF n
<1>4. n >= 2
  BY <1>3
<1> QED
  BY <1>4 DEF n

\* The frames below the innermost one, and what they count.
LEMMA BelowTop ==
  ASSUME IInv, status = "running", Len(stack) >= 2
  PROVE  LET s == SubSeq(stack, 1, Len(stack) - 1)
         IN  /\ s \in Seq(Frames) /\ Len(s) = Len(stack) - 1
             /\ \A i \in 1..Len(s) : s[i] = stack[i] /\ s[i].left > 0
             /\ depth = Cardinality(Counted(s)) + (IF top.counted THEN 1 ELSE 0)
             /\ Cardinality(Counted(s)) \in Nat
<1> DEFINE n == Len(stack)
           s == SubSeq(stack, 1, n - 1)
<1>1. stack \in Seq(Frames) /\ n \in Nat /\ n >= 2
  BY TopFacts DEF IInv, Vars
<1>2. s \in Seq(Frames) /\ Len(s) = n - 1 /\ \A i \in 1..n - 1 : s[i] = stack[i]
  <2>1. \A i \in 1..n - 1 : stack[i] \in Frames
    <3> TAKE i \in 1..n - 1
    <3>1. i \in 1..n
      BY <1>1
    <3> QED
      BY <1>1, <3>1, ElementOfSeq
  <2> HIDE DEF n
  <2>2. 1 \in Int /\ n - 1 \in Int /\ n - 1 >= 1
    BY <1>1
  <2> QED
    BY <2>1, <2>2, SubSeqProperties
<1> HIDE DEF s
<1>3. \A i \in 1..Len(s) : s[i] = stack[i] /\ s[i].left > 0
  BY <1>1, <1>2 DEF IInv, Waiting
<1>4. Cardinality(Counted(stack)) =
        Cardinality(Counted(s)) + (IF stack[Len(stack)].counted THEN 1 ELSE 0)
  <2>1. Len(stack) = Len(s) + 1
    BY <1>1, <1>2
  <2> QED
    BY <1>1, <1>2, <1>3, <2>1, CountPush
<1>5. Cardinality(Counted(s)) \in Nat
  <2>1. Len(s) \in Nat /\ Counted(s) \in SUBSET (1..Len(s))
    BY <1>1, <1>2 DEF Counted
  <2> QED
    BY <2>1, OneMore
<1> QED
  BY <1>2, <1>3, <1>4, <1>5 DEF IInv, DepthIsOpen, top, s, n

\* The innermost frame is left, and its value counted in the one below.
LEMMA ClosesInv ==
  ASSUME IInv, Reading, Closes PROVE IInv'
<1> DEFINE s == SubSeq(stack, 1, Len(stack) - 1)
<1>1. PICK d : Contents(d) /\ Done(s, pos, d)
  BY DEF Closes
<1>2. status = "running" /\ depth' = IF top.counted THEN depth - 1 ELSE depth
  BY DEF Reading, Closes
<1>3. Len(stack) >= 2 /\ Len(stack) \in Nat
  BY <1>2, NotBottom, TopFacts DEF Closes
<1>4. /\ s \in Seq(Frames) /\ Len(s) = Len(stack) - 1
      /\ \A i \in 1..Len(s) : s[i] = stack[i] /\ s[i].left > 0
      /\ depth = Cardinality(Counted(s)) + (IF top.counted THEN 1 ELSE 0)
      /\ Cardinality(Counted(s)) \in Nat
  BY <1>2, <1>3, BelowTop
<1> HIDE DEF s
<1>5. depth' = Cardinality(Counted(s))
  BY <1>2, <1>4
<1>6. Len(s) >= 1 /\ Len(s) <= Len(stack) /\ pos \in Nat /\ pos <= Len(data)
  BY <1>3, <1>4 DEF IInv, Vars
<1> QED
  BY <1>1, <1>4, <1>5, <1>6, DoneInv

\* A key is read in the innermost frame, which is then at the value.
LEMMA ReadsKeyInv ==
  ASSUME IInv, Reading, ReadsKey PROVE IInv'
<1> DEFINE n == Len(stack)
<1>1. PICK f \in SUBSET Seq(Byte) :
        /\ AtMostOne(f)
        /\ f # {} => InStruct /\ f \subseteq DOMAIN top.type.fields
        /\ stack' = [stack EXCEPT ![n] = [top EXCEPT !.left = @ - 1, !.field = f]]
  BY DEF ReadsKey
<1> DEFINE g == [top EXCEPT !.left = @ - 1, !.field = f]
<1>2. /\ UNCHANGED <<data, walk, root, calls, status, depth, dst>> /\ status = "running"
      /\ ~AtEnd /\ AtKey /\ pos' \in Nat /\ pos' <= Len(data)
  BY DEF Reading, ReadsKey
<1>3. /\ stack \in Seq(Frames) /\ n \in Nat /\ n >= 2 /\ n \in 1..n
      /\ top \in Frames /\ FrameOK(top) /\ top = stack[n]
  BY <1>2, TopFacts, NotBottom DEF IInv, Vars, top
<1>4. /\ g \in Frames /\ g.type = top.type /\ g.into = top.into /\ g.field = f
      /\ g.counted = top.counted
  <2>1. top.left \in Nat /\ top.left # 0
    BY <1>2, <1>3 DEF Frames, AtEnd
  <2>2. top.left - 1 \in Nat
    BY <2>1
  <2>3. g = [top EXCEPT !.left = top.left - 1, !.field = f]
    BY <1>3 DEF Frames
  <2> HIDE DEF g
  <2> QED
    BY <1>3, <2>2, <2>3 DEF Frames
<1>5. FrameOK(g)
  BY <1>1, <1>3, <1>4 DEF FrameOK, InStruct
<1> HIDE DEF g, n
<1>6. stack' = [stack EXCEPT ![n] = g]
  BY <1>1 DEF g
<1>7. stack' \in Seq(Frames) /\ Len(stack') = n
  BY <1>3, <1>4, <1>6 DEF n
<1>8. stack'[n] = g /\ \A i \in 1..n : i # n => stack'[i] = stack[i]
  <2>1. n = Len(stack)
    BY DEF n
  <2> QED
    BY <1>3, <1>6, <2>1
<1>9. Vars'
  <2>1. stack' # <<>>
    BY <1>3, <1>7
  <2> QED
    BY <1>2, <1>7, <2>1 DEF IInv, Vars, Contents
<1>10. FramesOK'
  <2> SUFFICES ASSUME NEW i \in 1..n PROVE FrameOK(stack'[i])
    BY <1>7 DEF FramesOK, FrameOK, AtMostOne
  <2> QED
    BY <1>5, <1>8 DEF IInv, FramesOK, n
<1>11. Waiting'
  <2> SUFFICES ASSUME NEW i \in 1..n - 1 PROVE stack'[i].left > 0
    BY <1>7 DEF Waiting
  <2>1. i \in 1..n /\ i # n
    BY <1>3
  <2> QED
    BY <1>8, <2>1 DEF IInv, Waiting, n
<1>12. DepthIsOpen'
  <2>1. \A i \in 1..n : stack'[i].counted = stack[i].counted
    BY <1>3, <1>4, <1>8
  <2>2. Counted(stack') = Counted(stack)
    BY <1>7, <2>1 DEF Counted, n
  <2> QED
    BY <1>2, <2>2 DEF IInv, DepthIsOpen
<1>13. BottomStays'
  <2>1. 1 \in 1..n /\ 1 # n
    BY <1>3
  <2>2. stack'[1] = stack[1]
    BY <1>8, <2>1
  <2>3. stack # <<>> /\ Bottom' = Bottom
    BY <1>2 DEF IInv, Vars, Bottom
  <2> QED
    BY <2>2, <2>3 DEF IInv, BottomStays
<1> QED
  BY <1>9, <1>10, <1>11, <1>12, <1>13 DEF IInv

\* A frame is opened for one of the types that have frames.
LEMMA FrameTypeFacts ==
  ASSUME IInv, NEW t \in Wanted, t.kind \in Containers
  PROVE  t \in FrameTypes
<1>1. status = "running" /\ t = Read(Type)
  BY WantedFacts
<1>2. t \in ReadTypes
  BY <1>1, ReadFacts
<1> QED
  BY <1>2 DEF ReadTypes, FrameTypes, Of, Containers

\* A frame is put on the stack, for a value that the frame below is waiting for.
LEMMA OpensInv ==
  ASSUME IInv, Reading, Opens PROVE IInv'
<1> DEFINE n == Len(stack)
<1>1. PICK t \in Wanted, size \in Nat, pairs \in BOOLEAN, from \in Nat :
        LET count == t.kind # "Ptr" /\ Tracked(t)
        IN  /\ t.kind \in Containers
            /\ stack' = Append(stack, Frame(t, size, pairs, Target, from, count))
            /\ depth' = IF count THEN depth + 1 ELSE depth
            /\ count => depth + 1 <= MaxDepth
  BY DEF Opens
<1> DEFINE count == t.kind # "Ptr" /\ Tracked(t)
           g == Frame(t, size, pairs, Target, from, count)
<1>2. /\ UNCHANGED <<data, walk, root, calls, status, dst>> /\ status = "running"
      /\ ~AtEnd /\ pos' \in Nat /\ pos' <= Len(data)
  BY DEF Reading, Opens
<1>3. stack \in Seq(Frames) /\ n \in Nat /\ n >= 1
  BY <1>2, TopFacts DEF IInv, Vars
<1>4. g \in Frames /\ FrameOK(g) /\ g.counted = count
  <2>1. t \in FrameTypes /\ t.kind \in Containers
    BY <1>1, FrameTypeFacts
  <2>2. Target \in SUBSET Places /\ AtMostOne(Target)
    BY <1>2, TargetFacts
  <2>3. count \in BOOLEAN
    BY DEF Tracked
  <2> HIDE DEF count
  <2>4. g \in Frames
    BY <2>1, <2>2, <2>3 DEF Frames, Frame
  <2>5. FrameOK(g)
    BY <2>1, <2>2 DEF Frame, FrameOK, AtMostOne
  <2> QED
    BY <2>4, <2>5 DEF Frame
<1>5. /\ stack' = Append(stack, g)
      /\ depth' = IF count THEN depth + 1 ELSE depth
      /\ count => depth + 1 <= MaxDepth
  BY <1>1
<1> HIDE DEF g, count
<1>6. /\ stack' \in Seq(Frames) /\ Len(stack') = n + 1
      /\ stack'[n + 1] = g /\ \A i \in 1..n : stack'[i] = stack[i]
  BY <1>3, <1>4, <1>5
<1> HIDE DEF n
<1>7. Vars'
  <2>1. stack' # <<>>
    BY <1>3, <1>6
  <2> QED
    BY <1>2, <1>6, <2>1 DEF IInv, Vars, Contents
<1>8. FramesOK'
  <2> SUFFICES ASSUME NEW i \in 1..n + 1 PROVE FrameOK(stack'[i])
    BY <1>6 DEF FramesOK, FrameOK, AtMostOne
  <2>1. CASE i = n + 1
    BY <1>4, <1>6, <2>1
  <2>2. CASE i # n + 1
    <3>1. i \in 1..n
      BY <1>3, <2>2
    <3> QED
      BY <1>6, <3>1 DEF IInv, FramesOK, n
  <2> QED
    BY <2>1, <2>2
<1>9. Waiting'
  <2>1. \A i \in 1..n : stack[i].left > 0
    BY <1>2, ReadingFrames DEF n
  <2> QED
    BY <1>3, <1>6, <2>1 DEF Waiting
<1>10. DepthIsOpen'
  <2>1. Cardinality(Counted(stack')) =
          Cardinality(Counted(stack)) + (IF stack'[Len(stack')].counted THEN 1 ELSE 0)
    BY <1>3, <1>6, CountPush DEF n
  <2>2. stack'[Len(stack')].counted = count
    BY <1>4, <1>6
  <2>3. depth = Cardinality(Counted(stack)) /\ (depth > 0 => depth <= MaxDepth)
    BY <1>2 DEF IInv, DepthIsOpen
  <2>4. depth \in Nat
    BY <1>2, DepthType
  <2> QED
    BY <1>2, <1>5, <2>1, <2>2, <2>3, <2>4 DEF DepthIsOpen
<1>11. BottomStays'
  <2>1. 1 \in 1..n
    BY <1>3
  <2>2. stack # <<>> /\ Bottom' = Bottom
    BY <1>2 DEF IInv, Vars, Bottom
  <2> QED
    BY <1>6, <2>1, <2>2 DEF IInv, BottomStays
<1> QED
  BY <1>7, <1>8, <1>9, <1>10, <1>11 DEF IInv

\* What the caller passes, a pointer to the destination, is the bottom frame.
LEMMA BottomType ==
  ASSUME root \in Types
  PROVE  <<Bottom>> \in Seq(Frames) /\ FrameOK(Bottom) /\ Bottom.left = 1 /\ ~Bottom.counted
<1>1. Ptr(root) \in FrameTypes /\ Ptr(root).kind = "Ptr"
  BY DEF FrameTypes, Ptr
<1>2. <<>> \in Places
  BY DEF Places
<1>3. {<<>>} \in SUBSET Places /\ AtMostOne({<<>>})
  BY <1>2 DEF AtMostOne
<1>4. Bottom \in Frames
  BY <1>1, <1>3 DEF Bottom, Frame, Frames
<1>5. FrameOK(Bottom)
  BY <1>1, <1>3 DEF Bottom, Frame, FrameOK, Containers, AtMostOne
<1>6. Bottom.left = 1 /\ ~Bottom.counted
  BY DEF Bottom, Frame
<1> QED
  BY <1>4, <1>5, <1>6

\* The parts of the invariant that speak of a stack that holds one frame.
LEMMA OneFrame ==
  ASSUME root \in Types, stack = <<Bottom>>, depth = 0, status = "running"
  PROVE  FramesOK /\ Waiting /\ DepthIsOpen /\ BottomStays /\ stack \in Seq(Frames)
<1>1. stack \in Seq(Frames) /\ Len(stack) = 1 /\ stack[1] = Bottom /\ stack # <<>>
  BY BottomType
<1>2. FramesOK
  BY <1>1, BottomType DEF FramesOK
<1>3. Waiting
  BY <1>1 DEF Waiting
<1>4. Counted(stack) = {}
  BY <1>1, BottomType DEF Counted
<1>5. DepthIsOpen
  BY <1>4, FS_EmptySet DEF DepthIsOpen
<1> QED
  BY <1>1, <1>2, <1>3, <1>5 DEF BottomStays

\* IInv holds when a decoder is new.
LEMMA InitInv == Init => IInv
<1> SUFFICES ASSUME Init PROVE IInv
  OBVIOUS
<1>1. PICK job \in Jobs : walk = job.walk /\ root = job.type /\ data = job.data
  BY DEF Init
<1>2. walk \in {"reflect", "cached", "plain"} /\ root \in Types /\ data \in Seq(Byte)
  BY <1>1, JobsAssumption
<1>3. /\ pos = 0 /\ depth = 0 /\ stack = <<Bottom>> /\ status = "running"
      /\ dst = <<>> /\ calls = 1
  BY DEF Init
<1>4. FramesOK /\ Waiting /\ DepthIsOpen /\ BottomStays /\ stack \in Seq(Frames)
  BY <1>2, <1>3, OneFrame
<1>5. calls \in 1..MaxCalls /\ Contents(dst)
  BY <1>3, MaxCallsAssumption DEF Contents
<1>6. pos \in Nat /\ pos <= Len(data) /\ stack # <<>>
  BY <1>2, <1>3
<1> QED
  BY <1>2, <1>3, <1>4, <1>5, <1>6 DEF IInv, Vars

\* A call starts again from a pointer to the destination.
LEMMA CallInv ==
  ASSUME IInv, NEW m \in NextMessages, Call(m) PROVE IInv'
<1>1. /\ data' = m /\ pos' = 0 /\ depth' = 0 /\ stack' = <<Bottom>> /\ status' = "running"
      /\ calls' = calls + 1 /\ calls < MaxCalls /\ UNCHANGED <<walk, root, dst>>
  BY DEF Call
<1>2. /\ walk \in {"reflect", "cached", "plain"} /\ root \in Types /\ Contents(dst)
      /\ calls \in 1..MaxCalls
  BY DEF IInv, Vars
<1>3. m \in Seq(Byte)
  BY JobsAssumption
<1>4. /\ <<Bottom>> \in Seq(Frames) /\ FrameOK(Bottom) /\ Bottom.left = 1
      /\ ~Bottom.counted /\ Bottom' = Bottom
  BY <1>1, <1>2, BottomType DEF Bottom
<1>5. stack' \in Seq(Frames) /\ Len(stack') = 1 /\ stack'[1] = Bottom /\ stack' # <<>>
  BY <1>1, <1>4
<1>6. Vars'
  <2>1. calls' \in 1..MaxCalls
    BY <1>1, <1>2, MaxCallsAssumption
  <2>2. 0 <= Len(m)
    BY <1>3
  <2> QED
    BY <1>1, <1>2, <1>3, <1>5, <2>1, <2>2 DEF Vars, Contents
<1>7. FramesOK' /\ Waiting'
  BY <1>4, <1>5 DEF FramesOK, Waiting, FrameOK, AtMostOne
<1>8. DepthIsOpen'
  <2>1. Counted(stack') = {}
    BY <1>4, <1>5 DEF Counted
  <2> QED
    BY <1>1, <2>1, FS_EmptySet DEF DepthIsOpen
<1> QED
  BY <1>4, <1>5, <1>6, <1>7, <1>8 DEF IInv, BottomStays

\* Every step of a walk, and every call, keeps IInv.
LEMMA NextInv == IInv /\ [Next]_vars => IInv'
<1> SUFFICES ASSUME IInv, [Next]_vars PROVE IInv'
  OBVIOUS
<1>1. CASE Step
  <2>1. Reading /\ Shaped
    BY <1>1, StepShape
  <2> QED
    BY <2>1, FailsInv, ReadsInv, ReadsKeyInv, OpensInv, ClosesInv DEF Shaped
<1>2. CASE \E m \in NextMessages : Call(m)
  BY <1>2, CallInv
<1>3. CASE UNCHANGED vars
  <2>1. UNCHANGED <<data, pos, depth, walk, root, stack, status, dst, calls>>
    BY <1>3 DEF vars
  <2>2. Vars'
    BY <2>1 DEF IInv, Vars, Contents
  <2>3. FramesOK' /\ Waiting'
    BY <2>1 DEF IInv, FramesOK, FrameOK, AtMostOne, Waiting
  <2>4. DepthIsOpen'
    BY <2>1, Zenon DEF IInv, DepthIsOpen, Counted
  <2>5. BottomStays'
    BY <2>1 DEF IInv, BottomStays, Bottom
  <2> QED
    BY <2>2, <2>3, <2>4, <2>5 DEF IInv
<1> QED
  BY <1>1, <1>2, <1>3 DEF Next

\* The inductive invariant holds of every state of every run.
THEOREM Invariance == Spec => []IInv
<1>1. IInv /\ [Next]_vars => IInv'
  BY NextInv
<1> QED
  BY InitInv, <1>1, PTL DEF Spec

\* A decoder that decodes by a type stays in the message and within its types,
\* frames are open exactly while a call runs, and no value is stored in two places.
THEOREM TypeCorrect == Spec => []TypeOK
<1>1. IInv => TypeOK
  <2> SUFFICES ASSUME IInv PROVE TypeOK
    OBVIOUS
  <2>1. /\ data \in Seq(Byte) /\ pos \in Nat /\ pos <= Len(data)
        /\ walk \in {"reflect", "cached", "plain"}
        /\ status \in {"running", "ok"} \cup Errors
        /\ stack \in Seq(Frames) /\ (stack # <<>>) = (status = "running")
        /\ Contents(dst) /\ calls \in 1..MaxCalls
    BY DEF IInv, Vars
  <2>2. pos \in 0..Len(data)
    BY <2>1
  <2>3. depth \in Nat
    <3>1. CASE status = "running"
      BY <3>1, DepthType
    <3>2. CASE status # "running"
      BY <3>2 DEF IInv, DepthIsOpen
    <3> QED
      BY <3>1, <3>2
  <2>4. ASSUME NEW i \in 1..Len(stack)
        PROVE  /\ stack[i].left \in Nat
               /\ stack[i].field # {} => stack[i].type.kind = "Struct"
               /\ Cardinality(stack[i].into) <= 1
    <3>1. stack[i] \in Frames /\ FrameOK(stack[i])
      BY <2>1, ElementOfSeq DEF IInv, FramesOK
    <3>2. AtMostOne(stack[i].into)
      BY <3>1 DEF FrameOK
    <3>3. Cardinality(stack[i].into) <= 1
      <4>1. CASE stack[i].into = {}
        BY <4>1, FS_EmptySet
      <4>2. CASE stack[i].into # {}
        <5>1. PICK x \in stack[i].into : TRUE
          BY <4>2
        <5>2. stack[i].into = {x}
          BY <3>2, <5>1 DEF AtMostOne
        <5>3. Cardinality(stack[i].into) = 1
          BY <5>2, FS_Singleton, Zenon
        <5> QED
          BY <5>3
      <4> QED
        BY <4>1, <4>2
    <3> QED
      BY <3>1, <3>3 DEF Frames, FrameOK
  <2> QED
    BY <2>1, <2>2, <2>3, <2>4 DEF TypeOK, Contents
<1> QED
  BY <1>1, Invariance, PTL

-----------------------------------------------------------------------------
(* The levels a type has in front of its structs.                          *)

\* What a frame's type is made of.
LEMMA ElemFacts ==
  ASSUME NEW f \in Frames, f.type.kind \in {"Slice", "Array", "Map", "Ptr"}
  PROVE  f.type.elem \in Types /\ OuterLevels[f.type.elem] \in Nat
<1>1. f.type \in FrameTypes
  BY DEF Frames
<1>2. f.type.elem \in Types
  BY <1>1, TypesAssumption DEF FrameTypes, Of, Ptr, Struct
<1> QED
  BY <1>2, LevelsAssumption

\* The numbers that LevelsLeft adds up.
LEMMA LevelsTypes ==
  ASSUME NEW s \in Seq(Frames), NEW n \in 1..Len(s)
  PROVE  Cardinality(Uncounted(s, n)) \in Nat /\ ToCome(s, n) \in Nat
<1>1. s[n] \in Frames /\ n \in Nat
  BY ElementOfSeq
<1>2. Cardinality(Uncounted(s, n)) \in Nat
  BY <1>1, OneMore DEF Uncounted
<1>3. ToCome(s, n) \in Nat
  BY <1>1, ElemFacts DEF ToCome
<1> QED
  BY <1>2, <1>3

\* They depend on the types of the frames, and on which of them were counted.
LEMMA LevelsSame ==
  ASSUME NEW s, NEW t, NEW n \in Nat, n >= 1,
         \A i \in 1..n : t[i].type = s[i].type /\ t[i].counted = s[i].counted
  PROVE  Uncounted(t, n) = Uncounted(s, n) /\ ToCome(t, n) = ToCome(s, n)
<1>1. Uncounted(t, n) = Uncounted(s, n)
  BY DEF Uncounted
<1>2. StructUpTo(t, n) = StructUpTo(s, n)
  BY DEF StructUpTo
<1>3. t[n].type = s[n].type
  OBVIOUS
<1> QED
  BY <1>1, <1>2, <1>3 DEF ToCome

\* Frames that are taken off, or go on to their next value, change nothing.
LEMMA FewerFrames ==
  ASSUME IInv, LInv, UNCHANGED <<walk, root>>, stack' \in Seq(Frames),
         Len(stack') <= Len(stack),
         \A i \in 1..Len(stack') :
           stack'[i].type = stack[i].type /\ stack'[i].counted = stack[i].counted
  PROVE  LInv'
<1>1. Len(stack) \in Nat /\ Len(stack') \in Nat
  BY DEF IInv, Vars
<1>2. LevelsLeft'
  <2> SUFFICES ASSUME walk = "reflect", NEW n \in 1..Len(stack')
               PROVE  Cardinality(Uncounted(stack', n)) + ToCome(stack', n) <= OuterLevels[root]
    BY DEF LevelsLeft, Uncounted, ToCome, StructUpTo
  <2>1. n \in 1..Len(stack) /\ n \in Nat /\ n >= 1
    BY <1>1
  <2>2. \A i \in 1..n : stack'[i].type = stack[i].type /\ stack'[i].counted = stack[i].counted
    BY <1>1
  <2>3. Uncounted(stack', n) = Uncounted(stack, n) /\ ToCome(stack', n) = ToCome(stack, n)
    BY <2>1, <2>2, LevelsSame
  <2> QED
    BY <2>1, <2>3 DEF LInv, LevelsLeft
<1>3. PlainFrames'
  BY <1>1 DEF LInv, PlainFrames
<1> QED
  BY <1>2, <1>3 DEF LInv

\* Outside structs a slice, a map or a pointer is what the frame's type is made of.
LEMMA OutsideElem ==
  ASSUME IInv, status = "running", OutsideStructs, ~AtKey,
         Type.kind \in {"Slice", "Array", "Map", "Ptr"}
  PROVE  /\ top.type.kind \in {"Slice", "Array", "Map", "Ptr"}
         /\ Type = top.type.elem
<1>1. top.type \in FrameTypes /\ top.type.kind \in Containers
  BY TopFacts DEF Frames, FrameOK
<1>2. ~InStruct
  BY TopFacts DEF OutsideStructs, StructIn, InStruct, top
<1>3. Type = ValueType
  BY DEF Type
<1>4. top.type.kind \notin {"Value", "Any"}
  BY <1>2, <1>3 DEF ValueType
<1>5. Type # Of("Value")
  BY DEF Of
<1> QED
  BY <1>1, <1>2, <1>3, <1>4, <1>5 DEF ValueType, Containers, InStruct

\* What decodeReflect opens outside structs are slices and maps; only these are
\* not counted, but for pointers.
LEMMA OpensOutside ==
  ASSUME IInv, NEW t \in Wanted, t.kind \in Containers, OutsideStructs
  PROVE  /\ t.kind \in {"Slice", "Map", "Ptr", "Struct", "Value", "Any"}
         /\ t.kind \in {"Slice", "Map", "Ptr"} =>
              /\ top.type.kind \in {"Slice", "Array", "Map", "Ptr"}
              /\ t = top.type.elem /\ t \in Types
<1>1. status = "running" /\ ~AtEnd /\ t = Read(Type)
  BY WantedFacts
<1>2. t.kind \in {"Slice", "Array", "Map", "Ptr"} => ~AtKey /\ t = Type /\ t \in Types
  BY <1>1, ReadFacts
<1>3. t.kind # "Array"
  <2> SUFFICES ASSUME t.kind = "Array" PROVE FALSE
    OBVIOUS
  <2>1. AtType("Array") /\ ~AtType("Ptr")
    BY <1>1, <1>2 DEF AtType
  <2> QED
    BY <2>1 DEF Wanted
<1> QED
  BY <1>1, <1>2, <1>3, OutsideElem DEF Containers

\* Whether a frame is counted, and what that leaves for the levels.
LEMMA LevelsPush ==
  ASSUME IInv, LInv, walk = "reflect", NEW t \in Wanted, t.kind \in Containers,
         NEW g \in Frames, g.type = t, g.counted = (t.kind # "Ptr" /\ Tracked(t)),
         NEW s \in Seq(Frames), Len(s) = Len(stack) + 1, s[Len(s)] = g,
         \A i \in 1..Len(stack) : s[i] = stack[i]
  PROVE  Cardinality(Uncounted(s, Len(s))) + ToCome(s, Len(s)) <= OuterLevels[root]
<1> DEFINE n == Len(stack)
           U == Cardinality(Uncounted(stack, n))
           C == ToCome(stack, n)
<1>1. status = "running" /\ t = Read(Type)
  BY WantedFacts
<1>2. /\ n \in Nat /\ n >= 1 /\ n \in 1..n /\ stack \in Seq(Frames) /\ top = stack[n]
  BY <1>1, TopFacts DEF IInv, Vars, top
<1>3. U \in Nat /\ C \in Nat /\ U + C <= OuterLevels[root]
  BY <1>2, LevelsTypes DEF LInv, LevelsLeft
<1>4. OuterLevels[root] \in Nat
  BY LevelsAssumption DEF IInv, Vars
<1>5. s[n + 1] = g /\ \A i \in 1..n : s[i] = stack[i]
  OBVIOUS
<1>6. Uncounted(s, n) = Uncounted(stack, n)
  BY <1>5 DEF Uncounted
<1>7. Uncounted(s, n) \in SUBSET (1..n)
  BY DEF Uncounted
<1>8. StructUpTo(s, n + 1) = (StructIn(stack) \/ t.kind = "Struct")
  <2>1. StructUpTo(s, n + 1) = (StructUpTo(s, n) \/ s[n + 1].type.kind = "Struct")
    <3> HIDE DEF n
    <3>1. 1..n + 1 = (1..n) \cup {n + 1}
      BY <1>2
    <3> QED
      BY <3>1, Zenon DEF StructUpTo
  <2>2. StructUpTo(s, n) = StructIn(stack)
    BY <1>5 DEF StructUpTo, StructIn
  <2> QED
    BY <1>5, <2>1, <2>2
<1>9. CASE ~g.counted /\ t.kind # "Ptr"
  <2>1. OutsideStructs /\ t.kind \in {"Slice", "Map", "Array"}
    BY <1>9 DEF Tracked, Reflecting, Containers
  <2>2. /\ t.kind \in {"Slice", "Map"} /\ t = top.type.elem /\ t \in Types
        /\ top.type.kind \in {"Slice", "Array", "Map", "Ptr"}
    BY <2>1, OpensOutside
  <2>3. C = OuterLevels[t]
    BY <1>2, <2>1, <2>2 DEF ToCome, StructUpTo, OutsideStructs, StructIn
  <2>4. OuterLevels[t] = 1 + OuterLevels[t.elem]
    BY <2>2, LevelsAssumption
  <2>5. OuterLevels[t.elem] \in Nat
    BY <2>2, ElemFacts
  <2>6. ToCome(s, n + 1) = OuterLevels[t.elem]
    BY <1>5, <1>8, <2>1, <2>2 DEF ToCome, OutsideStructs
  <2>7. Uncounted(s, n + 1) = Uncounted(s, n) \cup {n + 1}
    BY <1>2, <1>5, <1>9 DEF Uncounted
  <2>8. Cardinality(Uncounted(s, n + 1)) = U + 1
    BY <1>2, <1>6, <1>7, <2>7, OneMore
  <2> HIDE DEF U, C
  <2> QED
    BY <1>3, <1>4, <2>3, <2>4, <2>5, <2>6, <2>8 DEF n
<1>10. CASE g.counted \/ t.kind = "Ptr"
  <2>1. Uncounted(s, n + 1) = Uncounted(s, n)
    BY <1>2, <1>5, <1>10 DEF Uncounted
  <2>2. Cardinality(Uncounted(s, n + 1)) = U
    BY <1>6, <2>1
  <2>3. ToCome(s, n + 1) = 0 \/ ToCome(s, n + 1) = C
    <3>1. CASE ~OutsideStructs
      BY <1>5, <1>8, <3>1 DEF ToCome, OutsideStructs, Reflecting
    <3>2. CASE OutsideStructs /\ t.kind # "Ptr"
      <4>1. t.kind \notin {"Slice", "Array", "Map", "Ptr"}
        BY <1>10, <3>2 DEF Tracked
      <4> QED
        BY <1>5, <4>1 DEF ToCome
    <3>3. CASE OutsideStructs /\ t.kind = "Ptr"
      <4>1. /\ t = top.type.elem /\ t \in Types
            /\ top.type.kind \in {"Slice", "Array", "Map", "Ptr"}
        BY <3>3, OpensOutside
      <4>2. C = OuterLevels[t]
        BY <1>2, <3>3, <4>1 DEF ToCome, StructUpTo, OutsideStructs, StructIn
      <4>3. OuterLevels[t] = OuterLevels[t.elem]
        BY <3>3, <4>1, LevelsAssumption
      <4>4. ToCome(s, n + 1) = OuterLevels[t.elem]
        BY <1>5, <1>8, <3>3 DEF ToCome, OutsideStructs
      <4> QED
        BY <4>2, <4>3, <4>4
    <3> QED
      BY <3>1, <3>2, <3>3
  <2> HIDE DEF U, C
  <2> QED
    BY <1>3, <1>4, <2>2, <2>3 DEF n
<1> QED
  BY <1>9, <1>10, TypeFacts

\* An array helper opens the slice it was given, and nothing in it.
LEMMA PlainPush ==
  ASSUME IInv, LInv, walk = "plain", NEW t \in Wanted, t.kind \in Containers
  PROVE  Len(stack) = 1 /\ t = root
<1>1. status = "running" /\ t = Read(Type)
  BY WantedFacts
<1>2. /\ Len(stack) \in 1..2 /\ stack # <<>> /\ top = stack[Len(stack)]
      /\ root.kind = "Slice" /\ root.elem.kind \in Basic
      /\ Len(stack) = 2 => stack[2].type = root
  <2>1. /\ root.kind = "Slice" /\ root.elem.kind \in Basic /\ Len(stack) <= 2
        /\ Len(stack) = 2 => stack[2].type = root
    BY DEF LInv, PlainFrames
  <2>2. Len(stack) \in Nat /\ Len(stack) >= 1 /\ stack # <<>>
    BY <1>1, TopFacts DEF IInv, Vars
  <2>3. Len(stack) \in 1..2
    <3> DEFINE n == Len(stack)
    <3>1. n \in Nat /\ n >= 1 /\ n <= 2
      BY <2>1, <2>2
    <3> HIDE DEF n
    <3>2. n \in 1..2
      BY <3>1
    <3> QED
      BY <3>2 DEF n
  <2> QED
    BY <2>1, <2>2, <2>3, Zenon DEF top
<1>3. CASE Len(stack) = 1
  <2>1. top = Bottom
    BY <1>2, <1>3 DEF IInv, BottomStays
  <2>2. top.type = Ptr(root) /\ top.keyed = FALSE
    BY <2>1 DEF Bottom, Frame
  <2>3. Type = root
    BY <2>2 DEF Type, AtKey, ValueType, InStruct, Ptr
  <2>4. Read(Type) = root
    BY <1>2, <2>3 DEF Read
  <2> QED
    BY <1>1, <1>3, <2>4
<1>4. CASE Len(stack) = 2
  <2>1. top.type = root
    BY <1>2, <1>4
  <2>2. Type = Of("Key") \/ Type = root.elem
    BY <1>2, <2>1 DEF Type, KeyType, ValueType, InStruct, Reflecting
  <2>3. Type.kind \in Basic \cup {"Key"}
    BY <1>2, <2>2 DEF Of
  <2>4. Read(Type) = Type
    BY <2>3 DEF Read, Basic, Ints, Uints, Floats
  <2> QED
    BY <1>1, <2>3, <2>4 DEF Basic, Ints, Uints, Floats, Containers
<1> QED
  BY <1>2, <1>3, <1>4

\* A frame that is opened leaves the levels that may still follow it.
LEMMA OpensLevels ==
  ASSUME IInv, LInv, Reading, Opens PROVE LInv'
<1> DEFINE n == Len(stack)
<1>1. PICK t \in Wanted, size \in Nat, pairs \in BOOLEAN, from \in Nat :
        /\ t.kind \in Containers
        /\ stack' = Append(stack, Frame(t, size, pairs, Target, from,
                                         t.kind # "Ptr" /\ Tracked(t)))
  BY DEF Opens
<1> DEFINE g == Frame(t, size, pairs, Target, from, t.kind # "Ptr" /\ Tracked(t))
<1>2. UNCHANGED <<walk, root>> /\ status = "running"
  BY DEF Reading
<1>3. stack \in Seq(Frames) /\ n \in Nat /\ n >= 1
  BY <1>2, TopFacts DEF IInv, Vars
<1>4. g \in Frames /\ g.type = t /\ g.counted = (t.kind # "Ptr" /\ Tracked(t))
  <2>1. t \in FrameTypes
    BY <1>1, FrameTypeFacts
  <2>2. Target \in SUBSET Places
    BY <1>2, TargetFacts
  <2> QED
    BY <2>1, <2>2 DEF Frames, Frame
<1>5. stack' = Append(stack, g)
  BY <1>1
<1> HIDE DEF g
<1>6. /\ stack' \in Seq(Frames) /\ Len(stack') = n + 1
      /\ stack'[n + 1] = g /\ \A i \in 1..n : stack'[i] = stack[i]
  BY <1>3, <1>4, <1>5
<1>7. LevelsLeft'
  <2> SUFFICES ASSUME walk = "reflect", NEW m \in 1..n + 1
               PROVE  Cardinality(Uncounted(stack', m)) + ToCome(stack', m) <= OuterLevels[root]
    BY <1>2, <1>6 DEF LevelsLeft, Uncounted, ToCome, StructUpTo
  <2>1. CASE m = n + 1
    <3> DEFINE w == stack'
    <3>1. /\ w \in Seq(Frames) /\ Len(w) = Len(stack) + 1 /\ w[Len(w)] = g
          /\ \A i \in 1..Len(stack) : w[i] = stack[i]
      BY <1>6
    <3>2. m = Len(w)
      BY <1>6, <2>1
    <3> HIDE DEF w
    <3>3. Cardinality(Uncounted(w, Len(w))) + ToCome(w, Len(w)) <= OuterLevels[root]
      BY <1>1, <1>4, <3>1, LevelsPush
    <3> QED
      BY <3>2, <3>3 DEF w
  <2>2. CASE m # n + 1
    <3>1. m \in 1..n /\ m \in Nat /\ m >= 1
      BY <1>3, <2>2
    <3>2. \A i \in 1..m : stack'[i].type = stack[i].type /\ stack'[i].counted = stack[i].counted
      BY <1>3, <1>6, <3>1
    <3>3. Uncounted(stack', m) = Uncounted(stack, m) /\ ToCome(stack', m) = ToCome(stack, m)
      BY <3>1, <3>2, LevelsSame
    <3> QED
      BY <3>1, <3>3 DEF LInv, LevelsLeft
  <2> QED
    BY <2>1, <2>2
<1>8. PlainFrames'
  <2> SUFFICES ASSUME walk = "plain"
               PROVE  /\ root.kind = "Slice" /\ root.elem.kind \in Basic
                      /\ Len(stack') <= 2
                      /\ Len(stack') = 2 => stack'[2].type = root
    BY <1>2 DEF PlainFrames
  <2>1. n = 1 /\ t = root
    BY <1>1, PlainPush
  <2> QED
    BY <1>4, <1>6, <2>1 DEF LInv, PlainFrames
<1> QED
  BY <1>7, <1>8 DEF LInv

\* Every step leaves the levels of the type that are still to come.
LEMMA StepLevels ==
  ASSUME IInv, LInv, Step PROVE LInv'
<1>1. /\ Reading /\ Shaped /\ status = "running" /\ UNCHANGED <<walk, root>>
  BY StepShape DEF Reading
<1>2. IInv'
  BY NextInv DEF Next
<1>3. stack \in Seq(Frames) /\ Len(stack) \in Nat /\ Len(stack) >= 1 /\ stack' \in Seq(Frames)
  BY <1>1, <1>2, TopFacts DEF IInv, Vars
<1>4. ASSUME NEW outer \in Seq(Frames), Len(outer) >= 1, Len(outer) <= Len(stack),
             \A i \in 1..Len(outer) : outer[i] = stack[i],
             NEW p, NEW d, Done(outer, p, d)
      PROVE  LInv'
  <2> DEFINE n == Len(outer)
             f == outer[n]
             g == [f EXCEPT !.left = @ - 1, !.field = {}, !.from = IF PairRead(f) THEN p ELSE @]
  <2>1. stack' = <<>> \/ stack' = [outer EXCEPT ![n] = g]
    BY <1>4 DEF Done
  <2>2. n \in Nat /\ n \in 1..n /\ f \in Frames
    BY <1>3, <1>4, ElementOfSeq
  <2>3. g.type = f.type /\ g.counted = f.counted
    <3> HIDE DEF f
    <3> QED
      BY <2>2 DEF Frames
  <2> HIDE DEF g
  <2>4. CASE stack' = <<>>
    BY <1>1, <1>3, <2>4, FewerFrames
  <2>5. CASE stack' = [outer EXCEPT ![n] = g]
    <3>1. Len(stack') = n /\ \A i \in 1..n : stack'[i] = IF i = n THEN g ELSE outer[i]
      BY <1>4, <2>2, <2>5
    <3>2. \A i \in 1..n : stack'[i].type = stack[i].type /\ stack'[i].counted = stack[i].counted
      BY <1>4, <2>2, <2>3, <3>1
    <3> QED
      BY <1>1, <1>3, <1>4, <3>1, <3>2, FewerFrames
  <2> QED
    BY <2>1, <2>4, <2>5
<1>5. CASE Fails
  <2>1. stack' = <<>>
    BY <1>5 DEF Fails
  <2> QED
    BY <1>1, <1>3, <2>1, FewerFrames
<1>6. CASE Reads
  <2> DEFINE s == stack
  <2>1. PICK p, d : Done(s, p, d)
    BY <1>6 DEF Reads
  <2>2. /\ s \in Seq(Frames) /\ Len(s) >= 1 /\ Len(s) <= Len(stack)
        /\ \A i \in 1..Len(s) : s[i] = stack[i]
    BY <1>3
  <2> HIDE DEF s
  <2> QED
    BY <1>4, <2>1, <2>2
<1>7. CASE ReadsKey
  <2>1. PICK f : stack' = [stack EXCEPT ![Len(stack)] = [top EXCEPT !.left = @ - 1, !.field = f]]
    BY <1>7 DEF ReadsKey
  <2> DEFINE n == Len(stack)
             g == [top EXCEPT !.left = @ - 1, !.field = f]
  <2>2. n \in 1..n /\ top = stack[n] /\ top \in Frames
    BY <1>1, TopFacts DEF top
  <2>3. g.type = top.type /\ g.counted = top.counted
    BY <2>2 DEF Frames
  <2> HIDE DEF g
  <2>4. stack' = [stack EXCEPT ![n] = g]
    BY <2>1 DEF g
  <2>5. Len(stack') = n /\ \A i \in 1..n : stack'[i] = IF i = n THEN g ELSE stack[i]
    BY <1>3, <2>2, <2>4
  <2>6. \A i \in 1..n : stack'[i].type = stack[i].type /\ stack'[i].counted = stack[i].counted
    BY <2>2, <2>3, <2>5
  <2> QED
    BY <1>1, <1>3, <2>5, <2>6, FewerFrames
<1>8. CASE Opens
  BY <1>1, <1>8, OpensLevels
<1>9. CASE Closes
  <2> DEFINE s == SubSeq(stack, 1, Len(stack) - 1)
  <2>1. PICK d : Done(s, pos, d)
    BY <1>9 DEF Closes
  <2>2. Len(stack) >= 2
    BY <1>1, <1>9, NotBottom DEF Closes
  <2>3. s \in Seq(Frames) /\ Len(s) = Len(stack) - 1 /\ \A i \in 1..Len(s) : s[i] = stack[i]
    BY <1>1, <2>2, BelowTop
  <2> HIDE DEF s
  <2>4. Len(s) >= 1 /\ Len(s) <= Len(stack)
    BY <1>3, <2>2, <2>3
  <2> QED
    BY <1>4, <2>1, <2>3, <2>4
<1> QED
  BY <1>1, <1>5, <1>6, <1>7, <1>8, <1>9 DEF Shaped

\* The bottom frame alone leaves all levels of the destination's type.
LEMMA BottomLevels ==
  ASSUME root \in Types, stack = <<Bottom>>,
         walk = "plain" => root.kind = "Slice" /\ root.elem.kind \in Basic
  PROVE  LInv
<1>1. Len(stack) = 1 /\ stack[1] = Bottom /\ Bottom.type = Ptr(root)
  BY DEF Bottom, Frame
<1>2. OuterLevels[root] \in Nat
  BY LevelsAssumption
<1>3. Uncounted(stack, 1) = {} /\ ToCome(stack, 1) = OuterLevels[root]
  BY <1>1 DEF Uncounted, ToCome, StructUpTo, Ptr
<1>4. LevelsLeft
  <2>1. Cardinality(Uncounted(stack, 1)) + ToCome(stack, 1) <= OuterLevels[root]
    <3>1. Cardinality(Uncounted(stack, 1)) = 0
      BY <1>3, FS_EmptySet, Zenon
    <3>2. ToCome(stack, 1) = OuterLevels[root]
      BY <1>3, Zenon
    <3> DEFINE c == Cardinality(Uncounted(stack, 1))
               l == ToCome(stack, 1)
               o == OuterLevels[root]
    <3>3. c = 0 /\ l = o /\ o \in Nat
      BY <1>2, <3>1, <3>2, Zenon
    <3> HIDE DEF c, l, o
    <3>4. c + l <= o
      BY <3>3
    <3> QED
      BY <3>4 DEF c, l, o
  <2>2. \A n \in 1..Len(stack) : n = 1
    BY <1>1
  <2> QED
    BY <2>1, <2>2, Zenon DEF LevelsLeft
<1> QED
  BY <1>1, <1>4 DEF LInv, PlainFrames

\* The levels of the type are never exceeded.
THEOREM LevelsInvariance == Spec => []LInv
<1>1. Init => LInv
  <2> SUFFICES ASSUME Init PROVE LInv
    OBVIOUS
  <2>1. PICK job \in Jobs : walk = job.walk /\ root = job.type
    BY DEF Init
  <2> QED
    BY <2>1, JobsAssumption, BottomLevels DEF Init
<1>2. IInv /\ LInv /\ [Next]_vars => LInv'
  <2> SUFFICES ASSUME IInv, LInv, [Next]_vars PROVE LInv'
    OBVIOUS
  <2>1. CASE Step
    BY <2>1, StepLevels
  <2>2. CASE \E m \in NextMessages : Call(m)
    <3>1. UNCHANGED <<walk, root>> /\ stack' = <<Bottom>> /\ Bottom' = Bottom
      BY <2>2 DEF Call, Bottom
    <3>2. Len(stack') = 1 /\ stack'[1] = Bottom /\ Bottom.type = Ptr(root)
      BY <3>1 DEF Bottom, Frame
    <3>3. OuterLevels[root] \in Nat
      BY LevelsAssumption DEF IInv, Vars
    <3>4. Uncounted(stack', 1) = {} /\ ToCome(stack', 1) = OuterLevels[root]
      BY <3>2 DEF Uncounted, ToCome, StructUpTo, Ptr
    <3>5. LevelsLeft'
      <4>1. Cardinality(Uncounted(stack', 1)) + ToCome(stack', 1) <= OuterLevels[root]
        BY <3>3, <3>4, FS_EmptySet
      <4>2. \A n \in 1..Len(stack') : n = 1
        BY <3>2
      <4> QED
        BY <3>1, <4>1, <4>2 DEF LevelsLeft, Uncounted, ToCome, StructUpTo
    <3>6. PlainFrames'
      BY <3>1, <3>2 DEF LInv, PlainFrames
    <3> QED
      BY <3>5, <3>6 DEF LInv
  <2>3. CASE UNCHANGED vars
    <3>1. UNCHANGED <<walk, root, stack>>
      BY <2>3 DEF vars
    <3>2. LevelsLeft' /\ PlainFrames'
      BY <3>1 DEF LInv, LevelsLeft, PlainFrames, Uncounted, ToCome, StructUpTo
    <3> QED
      BY <3>2 DEF LInv
  <2> QED
    BY <2>1, <2>2, <2>3 DEF Next
<1> QED
  BY <1>1, <1>2, Invariance, PTL DEF Spec

\* What is counted is within MaxDepth.
LEMMA CountedBounded ==
  ASSUME IInv
  PROVE  /\ Cardinality(Counted(stack)) \in Nat
         /\ Cardinality(Counted(stack)) <= IF MaxDepth > 0 THEN MaxDepth ELSE 0
<1>1. Len(stack) \in Nat /\ Counted(stack) \in SUBSET (1..Len(stack))
  BY DEF IInv, Vars, Counted
<1>2. Cardinality(Counted(stack)) \in Nat
  BY <1>1, OneMore
<1>3. CASE status = "running"
  BY <1>2, <1>3, ConfigAssumption DEF IInv, DepthIsOpen
<1>4. CASE status # "running"
  <2>1. stack = <<>>
    BY <1>4 DEF IInv, Vars
  <2>2. Counted(stack) = {}
    BY <2>1 DEF Counted
  <2> QED
    BY <2>2, FS_EmptySet, ConfigAssumption
<1> QED
  BY <1>2, <1>3, <1>4

\* Unmarshal into any type recurses no deeper than MaxDepth and the levels of
\* slices and maps in front of the type's structs, an array helper no deeper than
\* one level, whatever the message claims about its nesting.
THEOREM RecursionIsBounded == Spec => []RecursionBounded
<1>1. IInv /\ LInv => RecursionBounded
  <2> SUFFICES ASSUME IInv, LInv PROVE RecursionBounded
    OBVIOUS
  <2> DEFINE n == Len(stack)
             O == {i \in 1..n : stack[i].type.kind # "Ptr"}
             C == Counted(stack)
             U == Uncounted(stack, n)
  <2>1. stack \in Seq(Frames) /\ n \in Nat /\ root \in Types
    BY DEF IInv, Vars
  <2>2. OuterLevels[root] \in Nat
    BY <2>1, LevelsAssumption
  <2>3. IsFiniteSet(C) /\ IsFiniteSet(U) /\ Cardinality(U) \in Nat /\ Cardinality(C \cap U) \in Nat
    <3>1. IsFiniteSet(1..n)
      BY <2>1, FS_Interval
    <3>2. C \subseteq 1..n /\ U \subseteq 1..n /\ C \cap U \subseteq 1..n
      BY DEF Counted, Uncounted
    <3> HIDE DEF C, U
    <3> QED
      BY <3>1, <3>2, FS_Subset, FS_CardinalityType
  <2>4. O \subseteq C \cup U
    BY DEF Counted, Uncounted
  <2>5. Cardinality(O) <= Cardinality(C) + Cardinality(U)
    <3> HIDE DEF O, C, U
    <3>1. IsFiniteSet(C \cup U)
      BY <2>3, FS_Union
    <3>2. Cardinality(C \cup U) = Cardinality(C) + Cardinality(U) - Cardinality(C \cap U)
      BY <2>3, FS_Union
    <3>3. Cardinality(O) <= Cardinality(C \cup U)
      BY <2>4, <3>1, FS_Subset
    <3>4. Cardinality(O) \in Nat /\ Cardinality(C) \in Nat /\ Cardinality(C \cup U) \in Nat
      BY <2>3, <2>4, <3>1, FS_Subset, FS_CardinalityType
    <3> QED
      BY <2>3, <3>2, <3>3, <3>4
  <2>6. OpenContainers = Cardinality(O)
    BY DEF OpenContainers
  <2>7. Cardinality(O) \in Nat
    <3>1. O \in SUBSET (1..n)
      OBVIOUS
    <3> HIDE DEF O
    <3> QED
      BY <2>1, <3>1, OneMore
  <2>8. /\ Cardinality(C) \in Nat
        /\ Cardinality(C) <= IF MaxDepth > 0 THEN MaxDepth ELSE 0
    BY CountedBounded
  <2>9. ASSUME walk = "reflect"
        PROVE  OpenContainers <= OuterLevels[root] + (IF MaxDepth > 0 THEN MaxDepth ELSE 0)
    <3>1. Cardinality(U) <= OuterLevels[root]
      <4>1. CASE n = 0
        <5>1. U = {}
          BY <4>1 DEF Uncounted
        <5> QED
          BY <2>2, <5>1, FS_EmptySet
      <4>2. CASE n # 0
        <5>1. n \in 1..Len(stack)
          BY <2>1, <4>2
        <5>2. ToCome(stack, n) \in Nat
          BY <2>1, <5>1, LevelsTypes
        <5>3. Cardinality(U) + ToCome(stack, n) <= OuterLevels[root]
          BY <2>9, <5>1 DEF LInv, LevelsLeft
        <5> HIDE DEF U
        <5> QED
          BY <2>2, <2>3, <5>2, <5>3
      <4> QED
        BY <4>1, <4>2
    <3> HIDE DEF O, C, U
    <3> QED
      BY <2>2, <2>3, <2>5, <2>6, <2>7, <2>8, <3>1, ConfigAssumption
  <2>10. ASSUME walk = "plain" PROVE OpenContainers <= 1
    <3>1. n <= 2
      BY <2>10 DEF LInv, PlainFrames
    <3>2. stack # <<>> => stack[1].type.kind = "Ptr"
      BY DEF IInv, BottomStays, Bottom, Frame, Ptr
    <3>3. O \subseteq {2}
      BY <2>1, <3>1, <3>2
    <3>4. IsFiniteSet({2}) /\ Cardinality({2}) = 1
      BY FS_Singleton
    <3> HIDE DEF O
    <3>5. Cardinality(O) <= 1
      BY <3>3, <3>4, FS_Subset
    <3> QED
      BY <2>6, <3>5
  <2> QED
    BY <2>9, <2>10 DEF RecursionBounded
<1> QED
  BY <1>1, Invariance, LevelsInvariance, PTL

-----------------------------------------------------------------------------
(* What a call leaves behind, and what each of its steps does.             *)

\* However a call ends, no level of nesting stays counted but the one that was
\* refused: enterContainer does not take its count back when it returns
\* ErrMaxDepthExceeded.
DepthRestored ==
  status # "running" => depth = IF status = "ErrMaxDepthExceeded" THEN 1 ELSE 0

\* Every enterContainer of the walks has its leaveContainer on every path out.
THEOREM DepthIsRestored == Spec => []DepthRestored
<1>1. IInv => DepthRestored
  BY DEF IInv, DepthIsOpen, DepthRestored
<1> QED
  BY <1>1, Invariance, PTL

\* A step of a call ends it, consumes a byte, leaves a container, or counts a
\* value of the innermost one (what decodeIntoStruct does without a byte at a key
\* that is not there); but decodeReflect follows a pointer.
Advances ==
  status = "running" /\ ~UNCHANGED vars =>
    \/ status' # "running"
    \/ pos' > pos
    \/ pos' = pos /\ Len(stack') < Len(stack)
    \/ /\ pos' = pos /\ Len(stack') = Len(stack)
       /\ stack'[Len(stack)].left < stack[Len(stack)].left
    \/ /\ pos' = pos /\ Len(stack') = Len(stack) + 1
       /\ stack'[Len(stack) + 1].type.kind = "Ptr"

\* No step of a call goes back in the message or waits for what does not come.
THEOREM EachStepAdvances == Spec => [][Advances]_vars
<1>1. IInv /\ [Next]_vars => [Advances]_vars
  <2> SUFFICES ASSUME IInv, Step PROVE Advances
    BY DEF Next, Call, Advances
  <2>1. Reading /\ Shaped /\ status = "running"
    BY StepShape DEF Reading
  <2>2. stack \in Seq(Frames) /\ Len(stack) \in Nat /\ Len(stack) >= 1 /\ pos \in Nat
    BY <2>1, TopFacts DEF IInv, Vars
  <2>3. CASE Fails
    BY <2>3 DEF Fails, Errors, Advances
  <2>4. CASE Reads
    <3>1. PICK p, d : InData(p) /\ Done(stack, p, d)
      BY <2>4 DEF Reads
    <3> DEFINE n == Len(stack)
               f == stack[n]
               g == [f EXCEPT !.left = @ - 1, !.field = {}, !.from = IF PairRead(f) THEN p ELSE @]
    <3>2. pos' = p /\ p \in Nat /\ p >= pos
      BY <3>1 DEF Done, InData
    <3>3. status' # "running" \/ stack' = [stack EXCEPT ![n] = g]
      BY <3>1 DEF Done
    <3>4. f \in Frames /\ n \in 1..n
      BY <2>1, TopFacts DEF top
    <3>5. g.left < f.left
      <4> HIDE DEF f
      <4> QED
        BY <3>4 DEF Frames
    <3> HIDE DEF g
    <3>6. stack' = [stack EXCEPT ![n] = g] => Len(stack') = n /\ stack'[n] = g
      BY <2>2, <3>4
    <3> QED
      BY <2>2, <3>2, <3>3, <3>5, <3>6 DEF Advances
  <2>5. CASE ReadsKey
    BY <2>2, <2>5 DEF ReadsKey, Advances
  <2>6. CASE Opens
    <3>1. PICK t \in Wanted, size \in Nat, pairs \in BOOLEAN, from \in Nat :
            /\ stack' = Append(stack, Frame(t, size, pairs, Target, from,
                                             t.kind # "Ptr" /\ Tracked(t)))
            /\ IF t.kind = "Ptr" /\ OutsideStructs THEN pos' = pos ELSE pos < pos'
      BY <2>6 DEF Opens
    <3> DEFINE g == Frame(t, size, pairs, Target, from, t.kind # "Ptr" /\ Tracked(t))
    <3>2. g.type = t /\ stack' = Append(stack, g)
      BY <3>1 DEF Frame
    <3> HIDE DEF g
    <3>3. Len(stack') = Len(stack) + 1 /\ stack'[Len(stack) + 1] = g
      BY <2>2, <3>2
    <3>4. pos' \in Nat
      BY <2>6 DEF Opens
    <3> QED
      BY <2>2, <3>1, <3>2, <3>3, <3>4 DEF Advances
  <2>7. CASE Closes
    <3> DEFINE s == SubSeq(stack, 1, Len(stack) - 1)
    <3>1. PICK d : Done(s, pos, d)
      BY <2>7 DEF Closes
    <3>2. Len(stack) >= 2
      BY <2>1, <2>7, NotBottom DEF Closes
    <3>3. s \in Seq(Frames) /\ Len(s) = Len(stack) - 1
      BY <2>1, <3>2, BelowTop
    <3> HIDE DEF s
    <3>4. pos' = pos /\ (status' # "running" \/ Len(stack') = Len(s))
      BY <3>1, <3>3 DEF Done
    <3> QED
      BY <2>2, <3>3, <3>4 DEF Advances
  <2> QED
    BY <2>1, <2>3, <2>4, <2>5, <2>6, <2>7 DEF Shaped
<1> QED
  BY <1>1, Invariance, PTL DEF Spec

-----------------------------------------------------------------------------
(* One whole value.                                                        *)

\* The steps that leave the format: an error at a key of a struct in a struct,
\* which decodeIntoStruct passes over with "continue"; the format byte read in
\* front of a pointer, and not given back; the format byte of a bool that is
\* none.
LooseStep ==
  \/ NoFormatByte /\ ErrorsSwallowed
  \/ \E t \in Wanted : (Mismatch(t) \/ BadLength(t)) /\ ErrorsSwallowed
  \/ \E t \in Wanted : Follow(t) /\ ~OutsideStructs
  \/ \E t \in Wanted : NestedBool(t) /\ format \notin {194, 195}

\* A walk that succeeds has read one whole value and stands behind it.
OneValueRead == status = "ok" => IsValue(data, 0, pos)

\* A walk that reports an unexpected end was given no whole value.
EofIsTrue == status = "ErrUnexpectedEOF" => \A q \in Nat : ~IsValue(data, 0, q)

\* The inductive invariant: what a running walk has read is a row of items, and
\* its loops will read as many values as the row still asks for.
RInv ==
  /\ status = "running" => \E n \in Nat : RowTo(data, 0, pos, n) /\ StillDue(stack, n)
  /\ OneValueRead
  /\ EofIsTrue

\* A loop that reads on has a value due.
LEMMA ReadingRow ==
  ASSUME IInv, RInv, status = "running", ~AtEnd
  PROVE  \E n \in Nat : n > 0 /\ RowTo(data, 0, pos, n) /\ StillDue(stack, n)
<1>1. PICK n \in Nat : RowTo(data, 0, pos, n) /\ StillDue(stack, n)
  BY DEF RInv
<1>2. stack \in Seq(Frames) /\ Len(stack) \in Nat
  BY TopFacts DEF IInv, Vars
<1>3. \A i \in 1..Len(stack) : stack[i].left \in Nat /\ stack[i].left > 0
  <2> SUFFICES ASSUME NEW i \in 1..Len(stack) PROVE stack[i].left \in Nat /\ stack[i].left > 0
    OBVIOUS
  <2>1. stack[i] \in Frames
    BY <1>2, ElementOfSeq
  <2> QED
    BY <2>1, ReadingFrames DEF Frames
<1>4. n > 0
  BY <1>1, <1>2, <1>3, DueIsPositive
<1> QED
  BY <1>1, <1>4

\* The bottom frame waits for one value.
LEMMA BottomDue ==
  ASSUME IInv, stack # <<>>, NEW outer, Len(outer) = 1, outer[1] = stack[1],
         NEW n, StillDue(outer, n)
  PROVE  n = 1
<1>1. outer[1].left = 1
  BY DEF IInv, BottomStays, Bottom, Frame
<1>2. PICK owed \in [0..Len(outer) -> Int] :
        /\ owed[0] = 0
        /\ \A i \in 1..Len(outer) : owed[i] = owed[i-1] + outer[i].left - 1
        /\ n = owed[Len(outer)] + 1
  BY DEF StillDue
<1>3. 1 \in 1..Len(outer)
  OBVIOUS
<1>4. owed[1] = owed[1-1] + outer[1].left - 1
  BY <1>2, <1>3
<1>5. owed[1] = 0
  BY <1>1, <1>2, <1>4
<1> QED
  BY <1>2, <1>5

\* The item at pos, in the words of Rows.
LEMMA ItemWords ==
  /\ KindAt(data, pos) = kind /\ LenAt(data, pos) = itemLen
  /\ HeaderEnd(data, pos) = body
  /\ kind \in {"array", "map"} => ValuesIn(data, pos) = Values
  /\ kind \notin {"array", "map"} => ValuesIn(data, pos) = 0
  /\ kind = "scalar" => ItemEnd(data, pos) = pos + 1 + ScalarWidth(format)
  /\ kind \in {"str", "bin"} => ItemEnd(data, pos) = body + itemLen
  /\ kind = "ext" => ItemEnd(data, pos) = body + (1 + itemLen)
  /\ kind \in {"array", "map"} => ItemEnd(data, pos) = body + 0
BY DEF KindAt, LenAt, HeaderEnd, ValuesIn, ItemEnd, kind, itemLen, body, format, Values

\* Only a key of an inner struct has its error swallowed, and it is a string.
LEMMA SwallowedAtKey ==
  ASSUME IInv, NEW t \in Wanted, ErrorsSwallowed
  PROVE  t = Of("Key") /\ (Accepted(t) => kind = "str")
<1>1. t = Read(Type) /\ Type = KeyType
  BY WantedFacts DEF ErrorsSwallowed, Type
<1>2. InStruct /\ ~Outermost
  BY DEF ErrorsSwallowed
<1>3. KeyType = Of("Key")
  BY <1>2 DEF KeyType, InStruct
<1>4. t = Of("Key")
  BY <1>1, <1>3 DEF Read, Of
<1>5. t.kind = "Key"
  BY <1>4 DEF Of
<1>6. Accepted(t) => kind = "str"
  BY <1>5 DEF Accepted, Ints, Uints, Floats
<1> QED
  BY <1>4, <1>6

\* An error ends the call with nothing read, and an unexpected end is one.
LEMMA FailRow ==
  ASSUME IInv, RInv, Reading, ~AtEnd, ~ErrorsSwallowed,
         NEW e \in Errors, NEW p, NEW d, Fail(e, p, d),
         e = "ErrUnexpectedEOF" =>
           ~(IsItem(data, pos) /\ ItemEnd(data, pos) + ValuesIn(data, pos) <= Len(data))
  PROVE  RInv'
<1>1. status' = e /\ data' = data
  BY DEF Fail, Reading
<1>2. e # "running" /\ e # "ok"
  BY DEF Errors
<1>3. ASSUME e = "ErrUnexpectedEOF" PROVE \A q \in Nat : ~IsValue(data, 0, q)
  <2>1. PICK n \in Nat : n > 0 /\ RowTo(data, 0, pos, n)
    BY ReadingRow DEF Reading
  <2>2. data \in Seq(Byte)
    BY DEF IInv, Vars
  <2> QED
    BY <1>3, <2>1, <2>2, RowIsCutShort
<1> QED
  BY <1>1, <1>2, <1>3, Zenon DEF RInv, OneValueRead, EofIsTrue

\* A value was read: the innermost loop counts it, or it was the value asked for.
LEMMA DoneRow ==
  ASSUME IInv, Reading, NEW outer \in Seq(Frames), Len(outer) >= 1, outer[1] = stack[1],
         NEW p, NEW d, Done(outer, p, d),
         NEW n \in Nat, RowTo(data, 0, p, n), StillDue(outer, n + 1)
  PROVE  RInv'
<1> DEFINE m == Len(outer)
           f == outer[m]
           g == [f EXCEPT !.left = @ - 1, !.field = {}, !.from = IF PairRead(f) THEN p ELSE @]
<1>1. /\ pos' = p /\ data' = data /\ status = "running" /\ stack # <<>>
      /\ IF m = 1 THEN stack' = <<>> /\ status' = "ok"
         ELSE stack' = [outer EXCEPT ![m] = g] /\ UNCHANGED status
  BY DEF Done, Reading, IInv, Vars
<1>2. CASE m = 1
  <2>1. n + 1 = 1
    BY <1>1, <1>2, BottomDue
  <2>2. n = 0
    BY <2>1
  <2>3. IsValue(data, 0, p)
    BY <2>2, RowIsValue
  <2>4. status' = "ok" /\ "ok" # "running" /\ "ok" # "ErrUnexpectedEOF"
    BY <1>1, <1>2
  <2> QED
    BY <1>1, <2>3, <2>4, Zenon DEF RInv, OneValueRead, EofIsTrue
<1>3. CASE m # 1
  <2>1. m \in Nat /\ m > 0 /\ m \in 1..m /\ f \in Frames
    BY ElementOfSeq
  <2>2. g.left = f.left - 1 /\ f.left \in Nat
    <3> HIDE DEF f
    <3> QED
      BY <2>1 DEF Frames
  <2> HIDE DEF g
  <2>3. stack' = [outer EXCEPT ![m] = g] /\ status' = "running"
    BY <1>1, <1>3
  <2>4. Len(stack') = m /\ stack'[m] = g /\ \A i \in 1..m-1 : stack'[i].left = outer[i].left
    BY <2>1, <2>3
  <2> DEFINE k == n + 1
  <2>5. StillDue(outer, k) /\ k - 1 = n
    OBVIOUS
  <2> HIDE DEF k
  <2>6. stack'[m].left = outer[m].left - 1 /\ outer[m].left \in Nat
    BY <2>2, <2>4
  <2>7. StillDue(stack', k - 1)
    BY <2>1, <2>4, <2>5, <2>6, DueOne
  <2>8. StillDue(stack', n)
    BY <2>5, <2>7
  <2>9. "running" # "ok" /\ "running" # "ErrUnexpectedEOF"
    OBVIOUS
  <2> QED
    BY <1>1, <2>3, <2>8, <2>9, Zenon DEF RInv, OneValueRead, EofIsTrue
<1> QED
  BY <1>2, <1>3

\* An item that has no values of its own was read.
LEMMA ReadRow ==
  ASSUME IInv, RInv, Reading, ~AtEnd, IsItem(data, pos), ValuesIn(data, pos) = 0,
         NEW d, Done(stack, ItemEnd(data, pos), d)
  PROVE  RInv'
<1> DEFINE p == ItemEnd(data, pos)
<1>1. PICK n \in Nat : n > 0 /\ RowTo(data, 0, pos, n) /\ StillDue(stack, n)
  BY ReadingRow DEF Reading
<1>2. data \in Seq(Byte) /\ stack \in Seq(Frames) /\ Len(stack) >= 1
  BY TopFacts DEF IInv, Vars, Reading
<1>3. RowTo(data, 0, p, n - 1 + ValuesIn(data, pos))
  BY <1>1, <1>2, RowReads
<1> DEFINE m == n - 1
<1>4. m \in Nat /\ m + 1 = n /\ n - 1 + ValuesIn(data, pos) = m
  BY <1>1
<1>5. RowTo(data, 0, p, m)
  BY <1>3, <1>4
<1>6. StillDue(stack, m + 1)
  BY <1>1, <1>4
<1> HIDE DEF p, m
<1>7. Done(stack, p, d)
  BY DEF p
<1> QED
  BY <1>2, <1>4, <1>5, <1>6, <1>7, DoneRow

\* The row and the count, action by action.

\* decodeReflect at an array: no key of a struct is near.
LEMMA UnsupportedTypeRow == IInv /\ RInv /\ UnsupportedType => RInv'
<1> SUFFICES ASSUME IInv, RInv, UnsupportedType PROVE RInv'
  OBVIOUS
<1>1. /\ Reading /\ status = "running" /\ ~AtEnd /\ OutsideStructs
      /\ Fail("ErrUnsupportedType", pos, depth)
  BY DEF UnsupportedType, Reading, AtType
<1>2. ~ErrorsSwallowed
  BY <1>1, TopFacts DEF ErrorsSwallowed, OutsideStructs, StructIn, InStruct, top
<1> QED
  BY <1>1, <1>2, FailRow DEF Errors

\* The message is at its end: there is no item.
LEMMA NoFormatByteRow == IInv /\ RInv /\ NoFormatByte /\ ~ErrorsSwallowed => RInv'
<1> SUFFICES ASSUME IInv, RInv, NoFormatByte, ~ErrorsSwallowed PROVE RInv'
  OBVIOUS
<1>1. Reading /\ ~AtEnd /\ ~HasBytes(pos, 1) /\ Fail("ErrUnexpectedEOF", pos, depth)
  BY DEF NoFormatByte
<1>2. pos \in Nat /\ Len(data) \in Nat
  BY DEF IInv, Vars
<1>3. ~IsItem(data, pos)
  BY <1>1, <1>2 DEF HasBytes, IsItem, HasHeader
<1> QED
  BY <1>1, <1>3, FailRow DEF Errors

\* An item that is read whole, with nothing in it.
LEMMA WholeItem ==
  ASSUME IInv, HasBytes(pos, 1), kind \in {"scalar", "str", "bin", "ext"},
         kind # "scalar" => LenReadable, ItemEnd(data, pos) <= Len(data)
  PROVE  IsItem(data, pos) /\ ValuesIn(data, pos) = 0
<1>1. pos \in Nat /\ Len(data) \in Nat /\ pos < Len(data) /\ (LenReadable => body <= Len(data))
  BY ItemFacts
<1>2. KindAt(data, pos) = kind /\ HeaderEnd(data, pos) = body /\ ValuesIn(data, pos) = 0
  BY ItemWords
<1> QED
  BY <1>1, <1>2 DEF IsItem, HasHeader

\* A nil is an item of one byte, and so is a bool.
LEMMA OneByteItem ==
  ASSUME IInv, HasBytes(pos, 1), format \in {192, 194, 195}
  PROVE  IsItem(data, pos) /\ ValuesIn(data, pos) = 0 /\ ItemEnd(data, pos) = pos + 1
<1>1. Kind(192) = "scalar"
  <2>1. /\ ~isPositiveFixint(192) /\ ~isNegativeFixint(192)
        /\ ~isFixmap(192) /\ ~isFixarray(192) /\ ~isFixstr(192)
    BY DEF isPositiveFixint, isNegativeFixint, isFixmap, isFixarray, isFixstr
  <2>2. /\ 192 \notin Map /\ 192 \notin Array /\ 192 \notin Str /\ 192 \in NilBool \cup Number
        /\ 192 \notin Bin /\ 192 \notin FixExt \cup VarExt
    BY DEF Map, Array, Str, NilBool, Number, Bin, FixExt, VarExt
  <2> QED
    BY <2>1, <2>2 DEF Kind
<1>2. kind = "scalar"
  <2>1. CASE format = 192
    BY <1>1, <2>1 DEF kind
  <2>2. CASE format \in {194, 195}
    BY <2>2, ItemFacts, ScalarKinds DEF kind
  <2> QED
    BY <2>1, <2>2
<1>3. ScalarWidth(format) = 0
  BY DEF ScalarWidth
<1>4. pos \in Nat /\ Len(data) \in Nat /\ pos + 1 <= Len(data)
  BY ItemFacts
<1>5. ItemEnd(data, pos) = pos + 1
  BY <1>2, <1>3, <1>4, ItemWords
<1> QED
  BY <1>2, <1>4, <1>5, WholeItem

\* A nil, whatever is stored for it.
LEMMA ReadNilRow == IInv /\ RInv /\ ReadNil => RInv'
<1> SUFFICES ASSUME IInv, RInv, ReadNil PROVE RInv'
  OBVIOUS
<1> DEFINE d == IF Reflecting /\ ~OutsideStructs
                  THEN Assign([x \in Target \cup Below(Target) |-> <<>>]) ELSE dst
<1>1. /\ Reading /\ ~AtEnd /\ HasBytes(pos, 1) /\ format = 192 /\ Done(stack, pos + 1, d)
  BY DEF ReadNil, AtNil, AtValue
<1> HIDE DEF d
<1> QED
  BY <1>1, OneByteItem, ReadRow

\* A bool of decodeNestedStruct that is one.
LEMMA NestedBoolRow ==
  ASSUME IInv, RInv, NEW t \in Wanted, NestedBool(t), format \in {194, 195}
  PROVE  RInv'
<1>1. Reading /\ ~AtEnd /\ HasBytes(pos, 1)
  BY WantedFacts, WantedBytes DEF NestedBool, AnyByteWillDo
<1>2. PICK d : Done(stack, pos + 1, d)
  BY DEF NestedBool
<1> QED
  BY <1>1, <1>2, OneByteItem, ReadRow

\* A format byte the type is not read from.
LEMMA MismatchRow ==
  ASSUME IInv, RInv, NEW t \in Wanted, Mismatch(t), ~ErrorsSwallowed
  PROVE  RInv'
<1> DEFINE e == IF t.kind \in {"Value", "Any"} \/ (AtKey /\ OutsideStructs /\ top.type.kind = "Any")
                  THEN "ErrInvalidFormat" ELSE "ErrTypeMismatch"
<1>1. Reading /\ ~AtEnd /\ Fail(e, pos + 1, depth)
  BY WantedFacts DEF Mismatch
<1>2. e \in Errors /\ e # "ErrUnexpectedEOF"
  BY DEF Errors
<1> HIDE DEF e
<1> QED
  BY <1>1, <1>2, FailRow

\* A number, a bool or a nil with its payload.
LEMMA ScalarRow ==
  ASSUME IInv, RInv, NEW t \in Wanted, Scalar(t)
  PROVE  RInv'
<1> DEFINE end == pos + 1 + ScalarWidth(format)
<1>1. /\ Reading /\ ~AtEnd /\ t.kind # "Ptr" /\ Accepted(t) /\ kind = "scalar"
      /\ IF HasBytes(end, 0) THEN Done(stack, end, Store(end)) /\ UNCHANGED depth
         ELSE Fail("ErrUnexpectedEOF", pos + 1, depth)
  BY WantedFacts DEF Scalar, ReadingKind
<1>2. HasBytes(pos, 1)
  BY <1>1, WantedBytes
<1>3. /\ pos \in Nat /\ Len(data) \in Nat /\ pos + 1 <= Len(data)
      /\ ScalarWidth(format) \in Nat
  BY <1>2, ItemFacts
<1>4. end \in Nat /\ (HasBytes(end, 0) <=> end <= Len(data))
  BY <1>3 DEF HasBytes
<1>5. ItemEnd(data, pos) = end
  BY <1>1, ItemWords
<1> HIDE DEF end
<1>6. CASE HasBytes(end, 0)
  BY <1>1, <1>2, <1>4, <1>5, <1>6, WholeItem, ReadRow
<1>7. CASE ~HasBytes(end, 0)
  <2>1. ~IsItem(data, pos)
    BY <1>4, <1>5, <1>7 DEF IsItem
  <2>2. ~ErrorsSwallowed
    BY <1>1, SwallowedAtKey
  <2> QED
    BY <1>1, <1>7, <2>1, <2>2, FailRow DEF Errors
<1> QED
  BY <1>6, <1>7

\* A length that is refused: too long, cut short, or not backed by bytes.
LEMMA BadLengthRow ==
  ASSUME IInv, RInv, NEW t \in Wanted, BadLength(t), ~ErrorsSwallowed
  PROVE  RInv'
<1>1. /\ Reading /\ ~AtEnd /\ t.kind # "Ptr"
      /\ kind \in {"str", "bin", "ext", "array", "map"}
  BY WantedFacts DEF BadLength, ReadingKind
<1>2. /\ pos \in Nat /\ Len(data) \in Nat /\ pos + 1 <= Len(data) /\ body \in Nat
      /\ LenReadable => body <= Len(data) /\ itemLen \in Nat /\ Values \in Nat
  BY <1>1, WantedBytes, ItemFacts
<1>3. KindAt(data, pos) = kind /\ HeaderEnd(data, pos) = body
  BY ItemWords
<1>4. CASE ~LenReadable /\ Fail(NoLength(t), pos + 1, depth)
  <2>1. ~IsItem(data, pos)
    BY <1>1, <1>3, <1>4 DEF IsItem, HasHeader, LenReadable, HasBytes, body
  <2> QED
    BY <1>1, <1>4, <2>1, FailRow, NoLengthFacts
<1>5. CASE LenReadable /\ Check(t) # "nil" /\ Fail(Check(t), body, depth)
  <2>1. Check(t) \in Errors
    BY <1>1, <1>5, CheckFacts
  <2>2. ASSUME Check(t) = "ErrUnexpectedEOF"
        PROVE  ~(IsItem(data, pos) /\ ItemEnd(data, pos) + ValuesIn(data, pos) <= Len(data))
    <3> DEFINE k == IF t.kind = "Bytes" /\ (OutsideStructs \/ ~Reflecting) THEN "bin" ELSE kind
    <3>1. TooLong(k) # "ErrUnexpectedEOF"
      <4>1. k \in {"str", "bin", "ext", "array", "map"}
        BY <1>1
      <4> HIDE DEF k
      <4> QED
        BY <4>1 DEF TooLong
    <3>2. Check(t) = IF t.kind = "Map" /\ top.type.kind = "Map" /\ ~Reflecting THEN "nil"
                     ELSE IF itemLen > Limit(k) THEN TooLong(k)
                     ELSE IF ~HasBytes(body, Values) THEN "ErrUnexpectedEOF"
                     ELSE "nil"
      BY DEF Check
    <3> HIDE DEF k
    <3>3. ~HasBytes(body, Values)
      BY <2>2, <3>1, <3>2
    <3>4. CASE kind \in {"array", "map"}
      <4>1. ItemEnd(data, pos) = body + 0 /\ ValuesIn(data, pos) = Values
        BY <3>4, ItemWords
      <4> QED
        BY <1>2, <1>5, <3>3, <4>1 DEF HasBytes
    <3>5. CASE kind \in {"str", "bin", "ext"}
      <4>1. \/ ItemEnd(data, pos) = body + itemLen
            \/ ItemEnd(data, pos) = body + (1 + itemLen)
        BY <3>5, ItemWords
      <4>2. Values = itemLen
        BY <3>5 DEF Values
      <4>3. ~(ItemEnd(data, pos) <= Len(data))
        BY <1>2, <1>5, <3>3, <4>1, <4>2 DEF HasBytes
      <4> QED
        BY <4>3 DEF IsItem
    <3> QED
      BY <1>1, <3>4, <3>5
  <2> QED
    BY <1>1, <1>5, <2>1, <2>2, FailRow
<1> QED
  BY <1>4, <1>5 DEF BadLength

\* A string or a binary that was let in is an item.
LEMMA TextItem ==
  ASSUME IInv, NEW t \in Wanted, GoodLength(t, {"str", "bin"})
  PROVE  /\ IsItem(data, pos) /\ ValuesIn(data, pos) = 0
         /\ ItemEnd(data, pos) = body + itemLen
<1>1. /\ kind \in {"str", "bin"} /\ HasBytes(pos, 1) /\ LenReadable
  BY GoodLengthFacts DEF GoodLength
<1>2. body + itemLen <= Len(data)
  BY TextFits
<1>3. ItemEnd(data, pos) = body + itemLen
  BY <1>1, ItemWords
<1> QED
  BY <1>1, <1>2, <1>3, WholeItem

\* A string or a binary.
LEMMA StringOrBinaryRow ==
  ASSUME IInv, RInv, NEW t \in Wanted, StringOrBinary(t)
  PROVE  RInv'
<1>1. GoodLength(t, {"str", "bin"}) /\ Done(stack, body + itemLen, Store(body + itemLen))
  BY DEF StringOrBinary
<1>2. Reading /\ ~AtEnd
  BY <1>1, WantedFacts DEF GoodLength, ReadingKind
<1>3. Done(stack, ItemEnd(data, pos), Store(body + itemLen))
  BY <1>1, TextItem
<1> QED
  BY <1>1, <1>2, <1>3, TextItem, ReadRow

\* The innermost loop counts a key as it counts a value.
LEMMA KeyDue ==
  ASSUME IInv, status = "running", ReadsKey, NEW due, StillDue(stack, due)
  PROVE  StillDue(stack', due - 1)
<1> DEFINE n == Len(stack)
<1>1. PICK f \in SUBSET Seq(Byte) :
        /\ AtMostOne(f)
        /\ f # {} => InStruct /\ f \subseteq DOMAIN top.type.fields
        /\ stack' = [stack EXCEPT ![n] = [top EXCEPT !.left = @ - 1, !.field = f]]
  BY Zenon DEF ReadsKey
<1> DEFINE g == [top EXCEPT !.left = @ - 1, !.field = f]
<1>2. n \in Nat /\ n > 0 /\ n \in 1..n /\ top = stack[n] /\ top \in Frames
  BY TopFacts DEF top
<1>3. g.left = top.left - 1 /\ top.left \in Nat
  BY <1>2 DEF Frames
<1> HIDE DEF g
<1>4. stack' = [stack EXCEPT ![n] = g] /\ stack \in Seq(Frames)
  BY <1>1 DEF g, IInv, Vars
<1>5. Len(stack') = n /\ stack'[n] = g /\ \A i \in 1..n-1 : stack'[i].left = stack[i].left
  BY <1>2, <1>4
<1>6. stack'[n].left = stack[n].left - 1 /\ stack[n].left \in Nat
  BY <1>2, <1>3, <1>5
<1> QED
  BY <1>2, <1>5, <1>6, DueOne

\* A key is an item that opens nothing.
LEMMA KeyRow ==
  ASSUME IInv, RInv, NEW t \in Wanted, Key(t)
  PROVE  RInv'
<1>1. GoodLength(t, {"str", "bin"})
  BY DEF Key, GoodLength, ReadingKind
<1>2. Reading /\ ~AtEnd /\ status = "running"
  BY <1>1, WantedFacts DEF GoodLength, ReadingKind
<1>3. pos' = ItemEnd(data, pos) /\ data' = data /\ status' = "running"
  BY <1>1, <1>2, TextItem DEF Key, Reading
<1>4. PICK n \in Nat : n > 0 /\ RowTo(data, 0, pos, n) /\ StillDue(stack, n)
  BY <1>2, ReadingRow
<1>5. data \in Seq(Byte) /\ stack \in Seq(Frames) /\ Len(stack) \in Nat /\ Len(stack) >= 1
  BY <1>2, TopFacts DEF IInv, Vars
<1> DEFINE k == n - 1
<1>6. k \in Nat /\ n - 1 + ValuesIn(data, pos) = k
  BY <1>1, <1>4, TextItem
<1>7. RowTo(data, 0, pos', k)
  <2>1. RowTo(data, 0, ItemEnd(data, pos), n - 1 + ValuesIn(data, pos))
    BY <1>1, <1>4, <1>5, TextItem, RowReads
  <2> HIDE DEF k
  <2> QED
    BY <1>3, <1>6, <2>1
<1>8. StillDue(stack', k)
  BY <1>2, <1>4, KeyShape, KeyDue
<1>9. "running" # "ok" /\ "running" # "ErrUnexpectedEOF"
  OBVIOUS
<1> HIDE DEF k
<1> QED
  BY <1>3, <1>6, <1>7, <1>8, <1>9, Zenon DEF RInv, OneValueRead, EofIsTrue

\* An extension, which is checked without its type byte.
LEMMA ExtensionRow ==
  ASSUME IInv, RInv, NEW t \in Wanted, Extension(t)
  PROVE  RInv'
<1> DEFINE end == body + 1 + itemLen
           p == IF HasBytes(body, 1) THEN body + 1 ELSE body
<1>1. /\ GoodLength(t, {"ext"})
      /\ IF HasBytes(end, 0) THEN Done(stack, end, Store(end)) /\ UNCHANGED depth
         ELSE Fail("ErrUnexpectedEOF", p, depth)
  BY DEF Extension
<1>2. /\ Reading /\ ~AtEnd /\ LenReadable
  BY <1>1, WantedFacts DEF GoodLength, ReadingKind
<1>3. /\ HasBytes(pos, 1) /\ Accepted(t) /\ kind = "ext" /\ body \in Nat /\ itemLen \in Nat
      /\ Len(data) \in Nat
  BY <1>1, GoodLengthFacts
<1>4. ItemEnd(data, pos) = end /\ (HasBytes(end, 0) <=> end <= Len(data))
  <2>1. ItemEnd(data, pos) = body + (1 + itemLen)
    BY <1>3, ItemWords
  <2> QED
    BY <1>3, <2>1 DEF HasBytes
<1> HIDE DEF end, p
<1>5. CASE HasBytes(end, 0)
  BY <1>1, <1>2, <1>3, <1>4, <1>5, WholeItem, ReadRow
<1>6. CASE ~HasBytes(end, 0)
  <2>1. ~IsItem(data, pos)
    BY <1>4, <1>6 DEF IsItem
  <2>2. ~ErrorsSwallowed
    BY <1>3, SwallowedAtKey
  <2> QED
    BY <1>1, <1>2, <1>6, <2>1, <2>2, FailRow DEF Errors
<1> QED
  BY <1>5, <1>6

\* A timestamp is an extension.
LEMMA TimestampRow ==
  ASSUME IInv, RInv, NEW t \in Wanted, Timestamp(t)
  PROVE  RInv'
<1> DEFINE end == body + 1 + itemLen
           p == IF itemLen = 12 /\ HasBytes(body, 5) THEN body + 5 ELSE body + 1
<1>1. Reading /\ ~AtEnd /\ t.kind = "Time" /\ Accepted(t)
  BY WantedFacts DEF Timestamp
<1>2. ~ErrorsSwallowed
  BY <1>1, SwallowedAtKey DEF Of
<1>3. HasBytes(pos, 1)
  BY <1>1, WantedBytes
<1>4. kind = "ext"
  <2>1. format \in {214, 215, 199}
    BY <1>1 DEF Accepted, Ints, Uints, Floats
  <2>2. ASSUME NEW f \in {214, 215, 199} PROVE Kind(f) = "ext"
    <3>1. /\ ~isPositiveFixint(f) /\ ~isNegativeFixint(f)
          /\ ~isFixmap(f) /\ ~isFixarray(f) /\ ~isFixstr(f)
      BY DEF isPositiveFixint, isNegativeFixint, isFixmap, isFixarray, isFixstr
    <3>2. /\ f \notin Map /\ f \notin Array /\ f \notin Str /\ f \notin NilBool \cup Number
          /\ f \notin Bin /\ f \in FixExt \cup VarExt
      BY DEF Map, Array, Str, NilBool, Number, Bin, FixExt, VarExt
    <3> QED
      BY <3>1, <3>2 DEF Kind
  <2> QED
    BY <2>1, <2>2 DEF kind
<1>5. /\ pos \in Nat /\ Len(data) \in Nat /\ body \in Nat
      /\ LenReadable => itemLen \in Nat
  BY <1>3, ItemFacts
<1>6. KindAt(data, pos) = "ext" /\ HeaderEnd(data, pos) = body
      /\ ItemEnd(data, pos) = body + (1 + itemLen)
  BY <1>4, ItemWords
<1>7. CASE ~LenReadable /\ Fail("ErrUnexpectedEOF", pos + 1, depth)
  <2>1. ~IsItem(data, pos)
    BY <1>5, <1>6, <1>7 DEF IsItem, HasHeader, LenReadable, HasBytes, body
  <2> QED
    BY <1>1, <1>2, <1>7, <2>1, FailRow DEF Errors
<1>8. CASE Fail("ErrTypeMismatch", body, depth)
  BY <1>1, <1>2, <1>8, FailRow DEF Errors
<1>9. CASE /\ LenReadable
           /\ IF ~HasBytes(body, 1) THEN Fail("ErrUnexpectedEOF", body, depth)
              ELSE IF data[body+1] # 255 THEN Fail("ErrTypeMismatch", body + 1, depth)
              ELSE IF HasBytes(end, 0) THEN Done(stack, end, Store(end)) /\ UNCHANGED depth
              ELSE Fail("ErrUnexpectedEOF", p, depth)
  <2>1. ItemEnd(data, pos) = end /\ (HasBytes(end, 0) <=> end <= Len(data))
    BY <1>5, <1>6, <1>9 DEF HasBytes
  <2>2. HasBytes(end, 0) => HasBytes(body, 1)
    BY <1>5, <1>9 DEF HasBytes
  <2> HIDE DEF end, p
  <2>3. ~HasBytes(end, 0) => ~IsItem(data, pos)
    BY <2>1 DEF IsItem
  <2>4. CASE ~HasBytes(body, 1)
    BY <1>1, <1>2, <1>9, <2>2, <2>3, <2>4, FailRow DEF Errors
  <2>5. CASE HasBytes(body, 1) /\ data[body+1] # 255
    BY <1>1, <1>2, <1>9, <2>5, FailRow DEF Errors
  <2>6. CASE HasBytes(body, 1) /\ data[body+1] = 255 /\ HasBytes(end, 0)
    BY <1>1, <1>3, <1>4, <1>9, <2>1, <2>6, WholeItem, ReadRow
  <2>7. CASE HasBytes(body, 1) /\ data[body+1] = 255 /\ ~HasBytes(end, 0)
    BY <1>1, <1>2, <1>9, <2>3, <2>7, FailRow DEF Errors
  <2> QED
    BY <2>4, <2>5, <2>6, <2>7
<1> QED
  BY <1>7, <1>8, <1>9 DEF Timestamp

\* A frame more, for a container or a pointer: n values due, and those it brings.
LEMMA PushRow ==
  ASSUME IInv, status = "running", NEW f \in Frames, stack' = Append(stack, f),
         UNCHANGED <<data, status>>, NEW n \in Nat, n > 0, StillDue(stack, n),
         RowTo(data, 0, pos', n - 1 + f.left)
  PROVE  RInv'
<1> DEFINE m == n - 1 + f.left
<1>1. stack \in Seq(Frames) /\ Len(stack) \in Nat
  BY TopFacts DEF IInv, Vars
<1>2. f.left \in Nat
  BY DEF Frames
<1>3. m \in Nat /\ RowTo(data, 0, pos', m)
  BY <1>2
<1>4. /\ Len(stack') = Len(stack) + 1 /\ stack'[Len(stack')].left = f.left
      /\ \A i \in 1..Len(stack) : stack'[i].left = stack[i].left
  BY <1>1
<1>5. StillDue(stack', m)
  BY <1>1, <1>2, <1>4, DueOpen
<1>6. status' = "running" /\ data' = data /\ "running" # "ok" /\ "running" # "ErrUnexpectedEOF"
  OBVIOUS
<1> HIDE DEF m
<1> QED
  BY <1>3, <1>5, <1>6, Zenon DEF RInv, OneValueRead, EofIsTrue

\* A container: its values are due from now on.
LEMMA OpenRow ==
  ASSUME IInv, RInv, NEW t \in Wanted, OpenContainer(t)
  PROVE  RInv'
<1>1. GoodLength(t, {"array", "map"})
  BY DEF OpenContainer
<1>2. Reading /\ LenReadable
  BY <1>1 DEF GoodLength, ReadingKind
<1>3. /\ status = "running" /\ ~AtEnd /\ Accepted(t) /\ kind \in {"array", "map"}
      /\ HasBytes(pos, 1) /\ pos \in Nat /\ Len(data) \in Nat /\ body \in Nat
      /\ body <= Len(data) /\ Values \in Nat /\ pos + 1 <= body
  BY <1>1, GoodLengthFacts
<1>4. CASE Tracked(t) /\ depth + 1 > MaxDepth
  <2>1. Fail("ErrMaxDepthExceeded", body, depth + 1)
    BY <1>4 DEF OpenContainer
  <2>2. ~ErrorsSwallowed
    BY <1>3, SwallowedAtKey
  <2> QED
    BY <1>2, <1>3, <2>1, <2>2, FailRow DEF Errors
<1>5. CASE ~(Tracked(t) /\ depth + 1 > MaxDepth)
  <2> DEFINE f == Frame(t, Values, kind = "map", Target, body, Tracked(t))
  <2>1. stack' = Append(stack, f) /\ pos' = body /\ UNCHANGED <<data, status>>
    BY <1>2, <1>5 DEF OpenContainer, Reading
  <2>2. f.left = Values
    BY DEF Frame
  <2>3. f \in Frames
    <3>1. IInv'
      BY NextInv DEF Next, Step
    <3>2. stack' \in Seq(Frames) /\ stack \in Seq(Frames) /\ Len(stack) \in Nat
      BY <1>3, <3>1, TopFacts DEF IInv, Vars
    <3> HIDE DEF f
    <3>3. Len(stack') = Len(stack) + 1 /\ stack'[Len(stack')] = f /\ Len(stack') \in 1..Len(stack')
      BY <2>1, <3>2
    <3> QED
      BY <3>2, <3>3, ElementOfSeq
  <2> HIDE DEF f
  <2>4. PICK n \in Nat : n > 0 /\ RowTo(data, 0, pos, n) /\ StillDue(stack, n)
    BY <1>3, ReadingRow
  <2>5. data \in Seq(Byte)
    BY DEF IInv, Vars
  <2>6. /\ KindAt(data, pos) = kind /\ HeaderEnd(data, pos) = body
        /\ ValuesIn(data, pos) = Values /\ ItemEnd(data, pos) = body
    BY <1>3, ItemWords
  <2>7. IsItem(data, pos)
    BY <1>3, <2>6 DEF IsItem, HasHeader
  <2>8. RowTo(data, 0, ItemEnd(data, pos), n - 1 + ValuesIn(data, pos))
    BY <2>4, <2>5, <2>7, RowReads
  <2>9. RowTo(data, 0, pos', n - 1 + f.left)
    BY <2>1, <2>2, <2>6, <2>8
  <2> QED
    BY <1>3, <2>1, <2>3, <2>4, <2>9, PushRow
<1> QED
  BY <1>4, <1>5

\* A pointer that decodeReflect follows: what it points to is the value.
LEMMA FollowRow ==
  ASSUME IInv, RInv, NEW t \in Wanted, Follow(t), OutsideStructs
  PROVE  RInv'
<1> DEFINE f == Frame(t, 1, FALSE, Target, pos, FALSE)
<1>1. /\ stack' = Append(stack, f) /\ pos' = pos /\ UNCHANGED <<data, status>>
      /\ status = "running" /\ ~AtEnd
  BY WantedFacts DEF Follow, Reading
<1>2. f.left = 1
  BY DEF Frame
<1>3. f \in Frames
  <2>1. IInv'
    BY NextInv DEF Next, Step
  <2>2. stack' \in Seq(Frames) /\ stack \in Seq(Frames) /\ Len(stack) \in Nat
    BY <1>1, <2>1, TopFacts DEF IInv, Vars
  <2> HIDE DEF f
  <2>3. Len(stack') = Len(stack) + 1 /\ stack'[Len(stack')] = f /\ Len(stack') \in 1..Len(stack')
    BY <1>1, <2>2
  <2> QED
    BY <2>2, <2>3, ElementOfSeq
<1> HIDE DEF f
<1>4. PICK n \in Nat : n > 0 /\ RowTo(data, 0, pos, n) /\ StillDue(stack, n)
  BY <1>1, ReadingRow
<1>5. n - 1 + f.left = n
  BY <1>2, <1>4
<1>6. RowTo(data, 0, pos', n - 1 + f.left)
  BY <1>1, <1>4, <1>5
<1> QED
  BY <1>1, <1>3, <1>4, <1>6, PushRow

\* The end of a loop: the container itself was one of the values due.
LEMMA CloseRow == IInv /\ RInv /\ CloseContainer => RInv'
<1> SUFFICES ASSUME IInv, RInv, CloseContainer PROVE RInv'
  OBVIOUS
<1> DEFINE outer == SubSeq(stack, 1, Len(stack) - 1)
<1>1. Reading /\ status = "running" /\ AtEnd
  BY DEF CloseContainer, Reading
<1>2. PICK d : Done(outer, pos, d)
  BY DEF CloseContainer, Pop
<1>3. Len(stack) >= 2 /\ Len(stack) \in Nat
  BY <1>1, NotBottom, TopFacts
<1>4. /\ outer \in Seq(Frames) /\ Len(outer) = Len(stack) - 1
      /\ \A i \in 1..Len(outer) : outer[i] = stack[i]
  BY <1>1, <1>3, BelowTop
<1> HIDE DEF outer
<1>5. PICK n \in Nat : RowTo(data, 0, pos, n) /\ StillDue(stack, n)
  BY <1>1 DEF RInv
<1>6. Len(outer) \in Nat /\ Len(outer) >= 1 /\ Len(stack) = Len(outer) + 1 /\ outer[1] = stack[1]
  BY <1>3, <1>4
<1>7. StillDue(outer, n + 1)
  <2>1. stack[Len(stack)].left = 0
    BY <1>1 DEF AtEnd, top
  <2>2. \A i \in 1..Len(outer) : outer[i].left = stack[i].left
    BY <1>4
  <2> QED
    BY <1>5, <1>6, <2>1, <2>2, DueClose
<1> QED
  BY <1>1, <1>2, <1>4, <1>5, <1>6, <1>7, DoneRow

\* Every step that keeps to the format keeps the row and the count.
LEMMA StepRow == IInv /\ RInv /\ Step /\ ~LooseStep => RInv'
<1> SUFFICES ASSUME IInv, RInv, Step, ~LooseStep PROVE RInv'
  OBVIOUS
<1>1. CASE UnsupportedType
  BY <1>1, UnsupportedTypeRow
<1>2. CASE NoFormatByte
  BY <1>2, NoFormatByteRow DEF LooseStep
<1>3. CASE ReadNil
  BY <1>3, ReadNilRow
<1>4. CASE \E t \in Wanted : Mismatch(t)
  BY <1>4, MismatchRow DEF LooseStep
<1>5. CASE \E t \in Wanted : NestedBool(t)
  BY <1>5, NestedBoolRow DEF LooseStep
<1>6. CASE \E t \in Wanted : Scalar(t)
  BY <1>6, ScalarRow
<1>7. CASE \E t \in Wanted : BadLength(t)
  BY <1>7, BadLengthRow DEF LooseStep
<1>8. CASE \E t \in Wanted : Key(t)
  BY <1>8, KeyRow
<1>9. CASE \E t \in Wanted : StringOrBinary(t)
  BY <1>9, StringOrBinaryRow
<1>10. CASE \E t \in Wanted : Extension(t)
  BY <1>10, ExtensionRow
<1>11. CASE \E t \in Wanted : Timestamp(t)
  BY <1>11, TimestampRow
<1>12. CASE \E t \in Wanted : OpenContainer(t)
  BY <1>12, OpenRow
<1>13. CASE \E t \in Wanted : Follow(t)
  BY <1>13, FollowRow DEF LooseStep
<1>14. CASE CloseContainer
  BY <1>14, CloseRow
<1> QED
  BY <1>1, <1>2, <1>3, <1>4, <1>5, <1>6, <1>7, <1>8,
     <1>9, <1>10, <1>11, <1>12, <1>13, <1>14 DEF Step

\* A call stands in front of one value.
LEMMA FreshRow ==
  ASSUME status = "running", pos = 0, stack = <<Bottom>>
  PROVE  RInv
<1>1. RowTo(data, 0, 0, 1)
  BY RowBegins
<1>2. StillDue(stack, 1)
  <2> DEFINE l == 1
  <2>1. /\ Len(<<>>) \in Nat /\ Len(stack) = Len(<<>>) + 1 /\ stack[Len(stack)].left = l
        /\ \A i \in 1..Len(<<>>) : stack[i].left = <<>>[i].left
    BY DEF Bottom, Frame
  <2>2. l \in Nat /\ l > 0 /\ StillDue(<<>>, l)
    BY DueFresh
  <2> HIDE DEF l
  <2>3. StillDue(stack, l - 1 + l)
    BY <2>1, <2>2, DueOpen
  <2> QED
    BY <2>3 DEF l
<1>3. 1 \in Nat /\ "running" # "ok" /\ "running" # "ErrUnexpectedEOF"
  OBVIOUS
<1> QED
  BY <1>1, <1>2, <1>3, Zenon DEF RInv, OneValueRead, EofIsTrue

\* The same of a call into a destination that was used before.
LEMMA CallRow ==
  ASSUME NEW m \in NextMessages, Call(m)
  PROVE  RInv'
<1>1. /\ status' = "running" /\ pos' = 0 /\ stack' = <<Bottom>>
      /\ Bottom' = Bottom
  BY DEF Call, Bottom
<1>2. RowTo(data', 0, 0, 1)
  BY RowBegins
<1>3. StillDue(stack', 1)
  <2> DEFINE l == 1
  <2>1. /\ Len(<<>>) \in Nat /\ Len(stack') = Len(<<>>) + 1 /\ stack'[Len(stack')].left = l
        /\ \A i \in 1..Len(<<>>) : stack'[i].left = <<>>[i].left
    BY <1>1 DEF Bottom, Frame
  <2>2. l \in Nat /\ l > 0 /\ StillDue(<<>>, l)
    BY DueFresh
  <2> HIDE DEF l
  <2>3. StillDue(stack', l - 1 + l)
    BY <2>1, <2>2, DueOpen
  <2> QED
    BY <2>3 DEF l
<1>4. 1 \in Nat /\ "running" # "ok" /\ "running" # "ErrUnexpectedEOF"
  OBVIOUS
<1> QED
  BY <1>1, <1>2, <1>3, <1>4, Zenon DEF RInv, OneValueRead, EofIsTrue

\* The row and the count hold of every walk that keeps to the format.
LEMMA NextRow == IInv /\ RInv /\ [Next /\ ~LooseStep]_vars => RInv'
<1> SUFFICES ASSUME IInv, RInv, [Next /\ ~LooseStep]_vars PROVE RInv'
  OBVIOUS
<1>1. CASE Step /\ ~LooseStep
  BY <1>1, StepRow
<1>2. CASE \E m \in NextMessages : Call(m)
  BY <1>2, CallRow
<1>3. CASE UNCHANGED vars
  <2>1. UNCHANGED <<data, pos, stack, status>>
    BY <1>3 DEF vars
  <2> QED
    BY <2>1, Zenon DEF RInv, OneValueRead, EofIsTrue
<1> QED
  BY <1>1, <1>2, <1>3 DEF Next

\* A walk by a type that takes none of the three kinds of loose steps returns "ok"
\* exactly behind one whole value, and reports an unexpected end only of messages
\* that have none, whatever the type, the message and the limits: decode_struct.go
\* and struct_decoder.go leave the format nowhere else.
THEOREM OkReadsOneValue ==
  Spec /\ [][~LooseStep]_vars => [](OneValueRead /\ EofIsTrue)
<1>1. Init => RInv
  BY FreshRow DEF Init
<1>2. IInv /\ RInv /\ [Next]_vars /\ [~LooseStep]_vars => RInv'
  BY NextRow
<1>3. RInv => OneValueRead /\ EofIsTrue
  BY DEF RInv
<1> QED
  BY <1>1, <1>2, <1>3, Invariance, PTL DEF Spec

\* The array helpers take none of them: there is no struct in what they read.
LEMMA PlainIsStrict == IInv /\ LInv /\ walk = "plain" /\ Step => ~LooseStep
<1> SUFFICES ASSUME IInv, LInv, walk = "plain", Step, LooseStep PROVE FALSE
  OBVIOUS
<1>1. status = "running"
  BY StepShape DEF Reading
<1>2. /\ root.kind = "Slice" /\ root.elem.kind \in Basic
      /\ Len(stack) <= 2 /\ (Len(stack) = 2 => stack[2].type = root)
  BY DEF LInv, PlainFrames
<1>3. Len(stack) \in Nat /\ Len(stack) >= 1 /\ stack[1] = Bottom
  BY <1>1, TopFacts DEF IInv, Vars, BottomStays
<1>4. top.type = Ptr(root) \/ top.type = root
  <2> DEFINE n == Len(stack)
  <2>1. n \in Nat /\ n >= 1 /\ n <= 2
    BY <1>2, <1>3
  <2> HIDE DEF n
  <2>2. n = 1 \/ n = 2
    BY <2>1
  <2> USE DEF n
  <2>3. CASE n = 1
    BY <1>3, <2>3 DEF top, Bottom, Frame
  <2>4. CASE n = 2
    BY <1>2, <2>4 DEF top
  <2> QED
    BY <2>2, <2>3, <2>4
<1>5. top.type.kind \in {"Ptr", "Slice"} /\ top.type.elem.kind \in Basic \cup {"Slice"}
  BY <1>2, <1>4 DEF Ptr
<1>6. ~InStruct
  BY <1>5 DEF InStruct
<1>7. ~ErrorsSwallowed
  BY <1>6 DEF ErrorsSwallowed
<1>8. ASSUME NEW t \in Wanted, Follow(t) PROVE FALSE
  <2>1. t.kind = "Ptr" /\ t = Read(Type)
    BY <1>8, WantedFacts DEF Follow
  <2>2. ~AtKey /\ t = Type
    BY <1>1, <2>1, ReadFacts
  <2>3. t = top.type.elem
    BY <1>5, <1>6, <2>2 DEF Type, ValueType, InStruct
  <2> QED
    BY <1>5, <2>1, <2>3 DEF Basic, Ints, Uints, Floats
<1>9. ASSUME NEW t \in Wanted, NestedBool(t) PROVE FALSE
  BY <1>6, <1>9 DEF NestedBool, AnyByteWillDo
<1> QED
  BY <1>7, <1>8, <1>9 DEF LooseStep

\* An array helper that succeeds has read one whole value, unconditionally.
THEOREM ArraysReadOneValue == Spec => [](walk = "plain" => OneValueRead /\ EofIsTrue)
<1> DEFINE PInv == walk = "plain" => RInv
<1>1. Init => PInv
  BY FreshRow DEF Init
<1>2. IInv /\ LInv /\ PInv /\ [Next]_vars => PInv'
  <2> SUFFICES ASSUME IInv, LInv, PInv, [Next]_vars, walk' = "plain" PROVE RInv'
    OBVIOUS
  <2>1. walk = "plain" /\ RInv
    <3>1. Step => Reading
      BY StepShape
    <3>2. walk' = walk
      BY <3>1 DEF Reading, Call, Next, vars
    <3> QED
      BY <3>2
  <2> QED
    BY <2>1, PlainIsStrict, NextRow, CallRow DEF Next
<1>3. PInv => (walk = "plain" => OneValueRead /\ EofIsTrue)
  BY DEF RInv
<1> QED
  BY <1>1, <1>2, <1>3, Invariance, LevelsInvariance, PTL DEF Spec

\* What has been decoded ends where the value of the format's grammar does, and an
\* unexpected end is reported of messages only in which the grammar finds a flaw.
GrammarAgrees ==
  /\ status = "ok" => G!ValueAt(data, 0).ok /\ G!ValueAt(data, 0).end = pos
  /\ status = "ErrUnexpectedEOF" => ~G!ValueAt(data, 0).ok

LEMMA EndsAgree ==
  ASSUME IInv, OneValueRead, EofIsTrue
  PROVE  GrammarAgrees
<1>1. data \in Seq(Byte) /\ pos \in Nat /\ 0 \in Nat
  BY DEF IInv, Vars
<1>2. CASE status = "ok"
  <2>1. IsValue(data, 0, pos)
    BY <1>2 DEF OneValueRead
  <2>2. G!ValueAt(data, 0).ok /\ G!ValueAt(data, 0).end = pos
    BY <1>1, <2>1, RowsAreGrammar
  <2> QED
    BY <1>2, <2>2 DEF GrammarAgrees
<1>3. CASE status = "ErrUnexpectedEOF"
  <2>1. \A q \in Nat : ~IsValue(data, 0, q)
    BY <1>3 DEF EofIsTrue
  <2>2. ~G!ValueAt(data, 0).ok
    BY <1>1, <2>1, NoEndIsAFlaw
  <2> QED
    BY <1>3, <2>2 DEF GrammarAgrees
<1> QED
  BY <1>2, <1>3 DEF GrammarAgrees

\* A walk by a type that takes no loose step and succeeds has read what the recursive
\* descent of the format's grammar reads there, to the same byte: the first conjunct of
\* what OkMeansItFits asks, whatever the type, the message and the limits.
THEOREM WalksAreGrammatical == Spec /\ [][~LooseStep]_vars => []GrammarAgrees
<1>1. IInv /\ OneValueRead /\ EofIsTrue => GrammarAgrees
  BY EndsAgree
<1> QED
  BY <1>1, Invariance, OkReadsOneValue, PTL

\* The array helpers read what the grammar reads, unconditionally.
THEOREM ArraysAreGrammatical == Spec => [](walk = "plain" => GrammarAgrees)
<1>1. IInv /\ (walk = "plain" => OneValueRead /\ EofIsTrue) => (walk = "plain" => GrammarAgrees)
  BY EndsAgree
<1> QED
  BY <1>1, Invariance, ArraysReadOneValue, PTL

===============================================================================
