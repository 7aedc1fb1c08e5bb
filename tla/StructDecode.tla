---------------------------- MODULE StructDecode ----------------------------
(***************************************************************************)
(* Decoding into a Go value: the walks that are directed by a type.        *)
(*   "reflect"  Unmarshal: decodeReflect (decode_any.go), and from the     *)
(*              first struct on DecodeStruct, decodeIntoValue and the      *)
(*              decodeInto* it calls (decode_struct.go)                    *)
(*   "cached"   StructDecoder.decodeInto, decodeField, decodeNestedStruct  *)
(*              and their helpers (struct_decoder.go)                      *)
(*   "plain"    DecodeInt64Array .. DecodeStringArray (decoder.go), and    *)
(*              Decode, whose destination is a Value (decode_value.go)     *)
(* A frame of "stack" is a container that is being read, with the type it  *)
(* is read as; the bottom frame is the pointer the caller passes.          *)
(*                                                                         *)
(* The destination is a function from the places below it (sequences of    *)
(* field names and array indices) to what is stored there: the bytes the   *)
(* value was read from, without the header of a container.  <<>> is the    *)
(* zero value; a nil slice, map or pointer is not told from an empty one.  *)
(***************************************************************************)
EXTENDS Reader, GoTypes, FiniteSets

CONSTANTS
  Types,         \* the types of destinations, and the types they are made of
  OuterLevels,   \* the slices and maps of a type in front of its structs
  Jobs,          \* [walk, type, data]: what may be decoded into what, and how
  NextMessages,  \* messages decoded into a destination that was used before
  MaxCalls       \* exploration bound: calls per destination

ASSUME TypesAssumption ==
  \A t \in Types :
    /\ t.kind \in Kinds
    /\ t.kind \in {"Slice", "Array", "Map", "Ptr"} => t.elem \in Types
    /\ t.kind = "Struct" => \A n \in DOMAIN t.fields : t.fields[n] \in Types

\* A Go type that is a slice, map or pointer of itself has no such number.
ASSUME LevelsAssumption ==
  /\ OuterLevels \in [Types -> Nat]
  /\ \A t \in Types :
       OuterLevels[t] = CASE t.kind \in {"Slice", "Map"} -> 1 + OuterLevels[t.elem]
                          [] t.kind = "Ptr" -> OuterLevels[t.elem]
                          [] OTHER -> 0

\* The array helpers take slices of basic types.
ASSUME JobsAssumption ==
  /\ \A job \in Jobs :
       /\ job.walk \in {"reflect", "cached", "plain"}
       /\ job.type \in Types /\ job.data \in Seq(Byte)
       /\ job.walk = "plain" => job.type.kind = "Slice" /\ job.type.elem.kind \in Basic
  /\ NextMessages \subseteq Seq(Byte)

ASSUME MaxCallsAssumption == MaxCalls \in Nat \ {0}

VARIABLES
  walk, root,    \* the walk in use, the type of the destination
  stack, status, \* the open frames, innermost last; "running" or the result
  dst,           \* what is stored where; the zero value elsewhere
  before,        \* history: dst when the call began
  calls          \* how many calls the destination has seen

vars == <<data, pos, depth, walk, root, stack, status, dst, before, calls>>

-----------------------------------------------------------------------------
(* Two more "types" than those of Go stand for a value of any kind:        *)
(* "Value" is read by Decode, "Any" by DecodeAny or by the decodeAnyValue  *)
(* of typed_decode.go.                                                     *)

Reflecting == walk = "reflect"

\* What decodeField has a case for ...
InField(t) ==
  \/ t.kind \in Basic \cup {"Bytes", "Struct", "Time"}
  \/ t.kind = "Slice" /\ t.elem.kind \in Basic \ {"Bool"}
  \/ t.kind = "Ptr" /\ t.elem.kind \in Basic
  \/ /\ t.kind = "Map"
     /\ t.elem.kind \in {"String", "Int", "Int64", "Int32", "Uint64", "Uint32",
                         "Float64", "Bool", "Interface", "Map"}

\* ... and decodeNestedStruct, for the fields of a struct inside a struct.
InNested(t) ==
  t.kind \in {"String", "Int", "Int64", "Int32", "Uint", "Uint64",
              "Float64", "Float32", "Bool", "Struct", "Time"}

-----------------------------------------------------------------------------
(* What is read next.                                                      *)

top == stack[Len(stack)]
AtKey == top.keyed /\ top.left % 2 = 0
InStruct == top.type.kind = "Struct"

StructIn(frames) == \E i \in 1..Len(frames) : frames[i].type.kind = "Struct"

\* The struct is not inside another one: it is read by decodeInto or
\* DecodeStruct.
Outermost == ~StructIn(SubSeq(stack, 1, Len(stack) - 1))

\* decodeReflect is what reads the next value.
OutsideStructs == Reflecting /\ ~StructIn(stack)

\* The element of an array that comes next, and whether there is room for it.
Nth     == top.size - top.left + 1
HasRoom == Nth <= top.type.len

\* The containers that enterContainer counts: those of decodeReflect it does
\* not, nor those of the cached walk.
Tracked(t) ==
  \/ t.kind = "Value"
  \/ Reflecting /\ t.kind \in {"Struct", "Any"}
  \/ Reflecting /\ ~OutsideStructs /\ t.kind \in {"Slice", "Array", "Map"}

\* The field whose value comes next; none if the key names no field or one
\* whose type the walk has no case for.
Field ==
  {n \in top.field : LET t == top.type.fields[n]
                     IN  Reflecting \/ (IF Outermost THEN InField(t) ELSE InNested(t))}

\* decodeField reads what a pointer field points to itself.
FieldType == LET t == top.type.fields[CHOOSE n \in Field : TRUE]
             IN  IF t.kind = "Ptr" /\ ~Reflecting THEN t.elem ELSE t

\* DecodeStruct skips a key that is no string as it skips an unknown field's
\* value; decodeIntoMap reads a key as it reads any string.
KeyType ==
  CASE top.type.kind = "Value" -> Of("Value")
    [] InStruct /\ Reflecting /\ Outermost /\ kind # "str" -> Of("Value")
    [] top.type.kind = "Map" /\ Reflecting -> Of("String")
    [] OTHER -> Of("Key")

ValueType ==
  CASE InStruct -> IF Field = {} THEN Of("Value") ELSE FieldType
    [] top.type.kind \in {"Value", "Any"} -> top.type
    [] top.type.kind = "Array" /\ ~HasRoom -> Of("Value")
    [] OTHER -> top.type.elem

Type == IF AtKey THEN KeyType ELSE ValueType

\* An any below a struct is read by Decode; outside, and in the map[string]any
\* of a cached decoder, by DecodeAny and decodeAnyValue.  Only decodeReflect
\* knows time.Time; elsewhere it is a struct without exported fields.
Read(t) ==
  CASE t.kind = "Interface" ->
         IF Reflecting /\ ~OutsideStructs THEN Of("Value") ELSE Of("Any")
    [] t.kind = "Time" /\ ~OutsideStructs -> Struct(<<>>)
    [] OTHER -> t

\* Mutant of AnyByteWillDo: the same in decodeField.
AnyByteWillDo_Everywhere(t) == t.kind = "Bool" /\ ~Reflecting /\ InStruct

\* decodeNestedStruct looks at no more than the format byte of a bool, and
\* accepts every one.
AnyByteWillDo(t) == t.kind = "Bool" /\ ~Reflecting /\ InStruct /\ ~Outermost

Fixint == isPositiveFixint(format) \/ isNegativeFixint(format)

\* The formats of numbers.  Into an unsigned integer the cached and the plain
\* walk read unsigned formats only; as a float, decodeReflect reads no integers,
\* and only decodeIntoValue a uint64.
IntFormat  == Fixint \/ format \in 204..211
UintFormat == \/ isPositiveFixint(format)
              \/ format \in (IF Reflecting THEN 204..211 ELSE 204..207)
FloatFormat ==
  \/ format \in {202, 203}
  \/ ~OutsideStructs /\ (Fixint \/ format \in (204..211) \ {207})
  \/ format = 207 /\ Reflecting /\ ~OutsideStructs

\* The format bytes a type is read from.
Accepted(t) ==
  CASE t.kind = "Value"  -> kind # "invalid"
    [] t.kind = "Any"    -> kind \notin {"invalid", "ext"}
    [] t.kind \in Ints   -> IntFormat
    [] t.kind \in Uints  -> UintFormat
    [] t.kind \in Floats -> FloatFormat
    [] t.kind = "Bool"   -> format \in {194, 195} \/ AnyByteWillDo(t)
    [] t.kind \in {"Key", "String"} -> kind = "str"
    [] t.kind = "Bytes"  -> kind \in {"str", "bin"}
    [] t.kind \in {"Slice", "Array"} -> kind = "array"
    [] t.kind \in {"Map", "Struct"} -> kind = "map"
    [] t.kind = "Time"   -> format \in {214, 215, 199}    \* fixext4, fixext8, ext8
    [] t.kind = "Ptr"    -> TRUE

\* Where nil stands for no value: for the types that have a nil and for a
\* struct in decodeReflect, everywhere but at a struct's key in
\* decodeIntoValue, for the fields and the whole struct in the cached walk.
NilAccepted(t) ==
  CASE OutsideStructs    -> t.kind \in {"Slice", "Bytes", "Map", "Interface", "Struct"}
    [] Reflecting        -> t.kind \notin {"Key", "Value"}
    [] walk = "cached"   -> Len(stack) = 1 \/ (InStruct /\ ~AtKey /\ Field # {})
    [] walk = "plain"    -> FALSE

\* decodeBinaryReflect and decodeBytes of the cached walk take a string's
\* length for a binary one's; decodeNestedMap does not look at the length of
\* an inner map.
Check(t) ==
  LET k == IF t.kind = "Bytes" /\ (OutsideStructs \/ ~Reflecting) THEN "bin" ELSE kind
  IN  IF t.kind = "Map" /\ top.type.kind = "Map" /\ ~Reflecting THEN "nil"
      ELSE IF itemLen > Limit(k) THEN TooLong(k)
      ELSE IF ~HasBytes(body, Values) THEN "ErrUnexpectedEOF"
      ELSE "nil"

\* decodeIntoStruct takes any error at a key for "not a string", and goes on
\* with the value from where the error left it.
ErrorsSwallowed == AtKey /\ InStruct /\ Reflecting /\ ~Outermost

-----------------------------------------------------------------------------
(* The destination.                                                        *)

Content(place) == IF place \in DOMAIN dst THEN dst[place] ELSE <<>>
Bytes(p, q) == SubSeq(data, p + 1, q)

\* Where the next value is stored, a set of one place or none: elements of
\* slices and maps are stored with their container.
Target ==
  CASE AtKey -> {}
    [] InStruct -> {Append(place, n) : place \in top.into, n \in Field}
    [] top.type.kind = "Array" ->
         {Append(place, <<Nth>>) : place \in {x \in top.into : HasRoom}}
    [] top.type.kind = "Ptr" -> top.into
    [] OTHER -> {}

\* dst after the contents "new" were stored at the places that are its domain.
Assign(new) ==
  [x \in DOMAIN dst \cup DOMAIN new |-> IF x \in DOMAIN new THEN new[x] ELSE dst[x]]

Below(ps) == {x \in DOMAIN dst : \E p \in ps :
                Len(p) <= Len(x) /\ SubSeq(x, 1, Len(p)) = p}

-----------------------------------------------------------------------------
(* How a step ends.                                                        *)

\* A loop that reads n values, or the keys and values of pairs, into a t, the
\* first of them at p; count says that enterContainer counted it.
Frame(t, n, pairs, place, p, count) ==
  [type |-> t, size |-> n, left |-> n, keyed |-> pairs, field |-> {},
   into |-> place, from |-> p, counted |-> count]

Bottom == Frame(Ptr(root), 1, FALSE, {<<>>}, 0, FALSE)

\* decodeIntoMap stores a pair when it has read it, into the map it found.
PairRead(f) == f.type.kind = "Map" /\ Reflecting /\ f.left % 2 = 1

\* A value that ends before p has been read into outer's innermost frame and
\* stored, which made d of dst.
Done(outer, p, d) ==
  LET f == outer[Len(outer)]
      g == [f EXCEPT !.left = @ - 1, !.field = {}, !.from = IF PairRead(f) THEN p ELSE @]
  IN  /\ pos' = p
      /\ IF Len(outer) = 1
           THEN stack' = <<>> /\ status' = "ok"
           ELSE stack' = [outer EXCEPT ![Len(outer)] = g] /\ UNCHANGED status
      /\ dst' = IF PairRead(f)
                  THEN Assign([x \in f.into |-> Content(x) \o Bytes(f.from, p)])
                  ELSE d

Open == Cardinality({i \in 1..Len(stack) : stack[i].counted})

Fail(e, p, d) ==
  IF ErrorsSwallowed THEN Done(stack, p, dst) /\ UNCHANGED depth
  ELSE /\ status' = e /\ pos' = p
       /\ stack' = <<>>
       /\ depth' = d - Open
       /\ UNCHANGED dst

-----------------------------------------------------------------------------
Init ==
  /\ \E job \in Jobs : walk = job.walk /\ root = job.type /\ data = job.data
  /\ pos = 0 /\ depth = 0
  /\ stack = <<Bottom>> /\ status = "running"
  /\ dst = <<>> /\ before = <<>>
  /\ calls = 1

\* Unmarshal and StructDecoder.Decode reset the decoder they take.
Call(m) ==
  /\ status # "running"
  /\ calls < MaxCalls
  /\ data' = m
  /\ pos' = 0 /\ depth' = 0
  /\ stack' = <<Bottom>> /\ status' = "running"
  /\ before' = dst
  /\ calls' = calls + 1
  /\ UNCHANGED <<walk, root, dst>>

Reading == status = "running" /\ UNCHANGED <<data, walk, root, before, calls>>
AtEnd   == top.left = 0
AtValue == ~AtEnd /\ HasBytes(pos, 1)

AtNil   == AtValue /\ format = 192 /\ NilAccepted(Type)

\* decodeReflect finds a pointer, or an array, before it reads anything.
AtType(k) == OutsideStructs /\ ~AtEnd /\ Type.kind = k

\* The type the value at pos is read as, once nil has been ruled out.
Wanted ==
  IF status = "running" /\ (AtType("Ptr") \/ (AtValue /\ ~AtType("Array") /\ ~AtNil))
    THEN {Read(Type)} ELSE {}

\* decodeReflect has no case for an array, whatever the message says.
UnsupportedType ==
  /\ Reading
  /\ AtType("Array")
  /\ Fail("ErrUnsupportedType", pos, depth)

NoFormatByte ==
  /\ Reading
  /\ ~AtEnd /\ ~HasBytes(pos, 1) /\ ~AtType("Ptr") /\ ~AtType("Array")
  /\ Fail("ErrUnexpectedEOF", pos, depth)

\* Mutant of ReadNil: no rv.Set of the zero value.
ReadNil_Leaves ==
  /\ Reading
  /\ AtNil
  /\ Done(stack, pos + 1, dst)
  /\ UNCHANGED depth

\* decodeIntoValue stores the zero value, over everything below a struct;
\* decodeReflect and the cached walk leave what is there as it is.
ReadNil ==
  /\ Reading
  /\ AtNil
  /\ Done(stack, pos + 1,
          IF Reflecting /\ ~OutsideStructs
            THEN Assign([x \in Target \cup Below(Target) |-> <<>>]) ELSE dst)
  /\ UNCHANGED depth

Mismatch(t) ==
  /\ Reading
  /\ ~Accepted(t)
  /\ Fail(IF t.kind \in {"Value", "Any"} \/ (AtKey /\ OutsideStructs /\ top.type.kind = "Any")
             THEN "ErrInvalidFormat" ELSE "ErrTypeMismatch",
          pos + 1, depth)

\* The format byte is one that t is read from, and of one of these kinds.
ReadingKind(t, kinds) ==
  /\ Reading
  /\ Accepted(t) /\ ~AnyByteWillDo(t) /\ t.kind \notin {"Ptr", "Time"}
  /\ kind \in kinds

\* Whatever the format says of a payload, decodeNestedStruct reads none here.
NestedBool(t) ==
  /\ Reading
  /\ AnyByteWillDo(t)
  /\ Done(stack, pos + 1, IF format \in {194, 195}
                            THEN Assign([x \in Target |-> <<format>>]) ELSE dst)
  /\ UNCHANGED depth

\* What is stored when a value ends before p that is no container.
Store(p) == Assign([x \in Target |-> Bytes(pos, p)])

Scalar(t) ==
  /\ ReadingKind(t, {"scalar"})
  /\ \E end \in {pos + 1 + ScalarWidth(format)} :
       IF HasBytes(end, 0) THEN Done(stack, end, Store(end)) /\ UNCHANGED depth
       ELSE Fail("ErrUnexpectedEOF", pos + 1, depth)

\* decodeBinaryReflect takes every error of a binary length for "not a binary",
\* and then finds that the format is no string's.
NoLength(t) ==
  IF OutsideStructs /\ t.kind = "Bytes" /\ kind = "bin"
    THEN "ErrTypeMismatch" ELSE "ErrUnexpectedEOF"

\* The length field, or what it claims, is refused.
BadLength(t) ==
  /\ ReadingKind(t, {"str", "bin", "ext", "array", "map"})
  /\ \/ ~LenReadable /\ Fail(NoLength(t), pos + 1, depth)
     \/ LenReadable /\ Check(t) # "nil" /\ Fail(Check(t), body, depth)

GoodLength(t, kinds) == ReadingKind(t, kinds) /\ LenReadable /\ Check(t) = "nil"

\* The key of a pair, which is looked up among the fields of a struct.
Key(t) ==
  /\ GoodLength(t, {"str"}) /\ t.kind = "Key"
  /\ pos' = body + itemLen
  /\ stack' = [stack EXCEPT ![Len(stack)].left = @ - 1,
                 ![Len(stack)].field =
                   IF InStruct THEN {Bytes(body, pos')} \cap DOMAIN top.type.fields ELSE {}]
  /\ UNCHANGED <<status, depth, dst>>

StringOrBinary(t) ==
  /\ GoodLength(t, {"str", "bin"}) /\ t.kind # "Key"
  /\ \E end \in {body + itemLen} : Done(stack, end, Store(end))
  /\ UNCHANGED depth

\* Only Decode reads an extension; validateExtLen leaves the type byte out.
Extension(t) ==
  /\ GoodLength(t, {"ext"})
  /\ \E end \in {body + 1 + itemLen} :
       IF HasBytes(end, 0) THEN Done(stack, end, Store(end)) /\ UNCHANGED depth
       ELSE Fail("ErrUnexpectedEOF", IF HasBytes(body, 1) THEN body + 1 ELSE body, depth)

\* Mutant of OpenContainer: enterContainer compares before it counts.
OpenContainer_ComparesFirst(t) ==
  /\ GoodLength(t, {"array", "map"})
  /\ IF Tracked(t) /\ depth > MaxDepth
       THEN Fail("ErrMaxDepthExceeded", body, depth + 1)
       ELSE /\ stack' = Append(stack, Frame(t, Values, kind = "map", Target, body, Tracked(t)))
            /\ depth' = IF Tracked(t) THEN depth + 1 ELSE depth
            /\ pos' = body
            /\ UNCHANGED <<status, dst>>

OpenContainer(t) ==
  /\ GoodLength(t, {"array", "map"})
  /\ IF Tracked(t) /\ depth + 1 > MaxDepth
       THEN Fail("ErrMaxDepthExceeded", body, depth + 1)
       ELSE /\ stack' = Append(stack, Frame(t, Values, kind = "map", Target, body, Tracked(t)))
            /\ depth' = IF Tracked(t) THEN depth + 1 ELSE depth
            /\ pos' = body
            /\ UNCHANGED <<status, dst>>

\* DecodeTimestamp: the length, the type byte, then the payload, that of 12
\* bytes in two reads.
Timestamp(t) ==
  /\ Reading
  /\ t.kind = "Time" /\ Accepted(t)
  /\ \/ ~LenReadable /\ Fail("ErrUnexpectedEOF", pos + 1, depth)
     \/ /\ LenReadable /\ format = 199 /\ itemLen # 12
        /\ Fail("ErrTypeMismatch", body, depth)
     \/ /\ LenReadable /\ (format = 199 => itemLen = 12)
        /\ \E end \in {body + 1 + itemLen} :
             IF ~HasBytes(body, 1) THEN Fail("ErrUnexpectedEOF", body, depth)
             ELSE IF data[body+1] # 255 THEN Fail("ErrTypeMismatch", body + 1, depth)
             ELSE IF HasBytes(end, 0) THEN Done(stack, end, Store(end)) /\ UNCHANGED depth
             ELSE Fail("ErrUnexpectedEOF",
                       IF itemLen = 12 /\ HasBytes(body, 5) THEN body + 5 ELSE body + 1, depth)

\* decodeIntoValue has read a format byte when it finds that the value is
\* pointed to, and calls itself to read the value behind that byte;
\* decodeReflect follows the pointer before it reads.
Follow(t) ==
  /\ Reading
  /\ t.kind = "Ptr"
  /\ stack' = Append(stack, Frame(t, 1, FALSE, Target, pos, FALSE))
  /\ pos' = IF OutsideStructs THEN pos ELSE pos + 1
  /\ UNCHANGED <<status, depth, dst>>

\* A slice is stored as a whole when its last element has been read, and so is
\* a map of the cached walk and what was decoded to an any.
StoredAtEnd == \/ top.type.kind \in {"Slice", "Value", "Any"}
               \/ top.type.kind = "Map" /\ ~Reflecting

Pop == Done(SubSeq(stack, 1, Len(stack) - 1), pos,
            IF StoredAtEnd THEN Assign([x \in top.into |-> Bytes(top.from, pos)]) ELSE dst)

\* Mutants of CloseContainer: no leaveContainer; leaveContainer for frames that
\* were not counted; a loop that is never left.
CloseContainer_NeverLeaves ==
  Reading /\ AtEnd /\ Pop /\ UNCHANGED depth
CloseContainer_AlwaysLeaves ==
  Reading /\ AtEnd /\ Pop /\ depth' = depth - 1
CloseContainer_Loops ==
  Reading /\ AtEnd /\ UNCHANGED vars

CloseContainer ==
  /\ Reading
  /\ AtEnd
  /\ Pop
  /\ depth' = IF top.counted THEN depth - 1 ELSE depth

Step ==
  \/ UnsupportedType
  \/ NoFormatByte
  \/ ReadNil
  \/ \E t \in Wanted : Mismatch(t)
  \/ \E t \in Wanted : NestedBool(t)
  \/ \E t \in Wanted : Scalar(t)
  \/ \E t \in Wanted : BadLength(t)
  \/ \E t \in Wanted : Key(t)
  \/ \E t \in Wanted : StringOrBinary(t)
  \/ \E t \in Wanted : Extension(t)
  \/ \E t \in Wanted : Timestamp(t)
  \/ \E t \in Wanted : OpenContainer(t)
  \/ \E t \in Wanted : Follow(t)
  \/ CloseContainer

Next == Step \/ \E m \in NextMessages : Call(m)

\* A call runs: nothing in it blocks.
Spec == Init /\ [][Next]_vars /\ WF_vars(Step)
-----------------------------------------------------------------------------
(* Properties.                                                             *)

\* The type invariant: the decoder stays in the message, its depth does not go below
\* zero, and frames are open exactly while a call runs.
TypeOK ==
  /\ data \in Seq(Byte)
  /\ pos \in 0..Len(data) /\ depth \in Nat
  /\ walk \in {"reflect", "cached", "plain"}
  /\ status \in {"running", "ok"} \cup Errors
  /\ (stack # <<>>) = (status = "running")
  /\ \A i \in 1..Len(stack) :
       /\ stack[i].left \in Nat
       /\ stack[i].field # {} => stack[i].type.kind = "Struct"
       /\ Cardinality(stack[i].into) <= 1
  /\ \A x \in DOMAIN dst : dst[x] \in Seq(Byte)
  /\ calls \in 1..MaxCalls

OpenContainers == Cardinality({i \in 1..Len(stack) : stack[i].type.kind # "Ptr"})

\* Unmarshal never recurses deeper than MaxDepth plus the levels that the
\* destination's own type has in front of its structs, which decodeReflect
\* does not count; the array helpers never deeper than one level.
RecursionBounded ==
  /\ walk = "reflect" =>
       OpenContainers <= OuterLevels[root] + (IF MaxDepth > 0 THEN MaxDepth ELSE 0)
  /\ walk = "plain" => OpenContainers <= 1

\* A call that decodes by a type returns, whatever the message.
CallsReturn == status = "running" ~> status # "running"
=============================================================================
