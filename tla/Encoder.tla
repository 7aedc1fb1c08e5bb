------------------------------- MODULE Encoder -------------------------------
(***************************************************************************)
(* An Encoder: the walks over a Go value that decide what is written to    *)
(* its buffer.                                                             *)
(*   "Encode", "encodeValue"    Encode, and so Marshal (encode.go)         *)
(*   "encodeInto", "encodeField"   StructEncoder (struct_encoder.go)       *)
(*   "EncodeValue", "EncodeArray"  EncodeValue, which writes a Value, and   *)
(*                         EncodeInt64Array .. EncodeStringArray           *)
(* A walk is a list of what is still to do, its head first: bytes to       *)
(* write, values to encode, loops to go on with.                           *)
(*                                                                         *)
(* A Go value is an integer (a bool is 0 or 1), the bytes of a string, of  *)
(* a []byte or of a float, a sequence (a slice, an array, what a pointer   *)
(* points to), a function from names (a map, a struct), a record of type   *)
(* and value (what an interface holds, a Value) or, in a Value, the type   *)
(* byte of an extension and its data.                                      *)
(***************************************************************************)
EXTENDS Buffer, GoTypes, FiniteSets

CONSTANTS
  Nil,          \* a nil slice, map, pointer or interface
  Universe,     \* [type, value]: what the jobs are made of
  Jobs,         \* [how, type, value]: what may be encoded first ...
  NextJobs,     \* ... and after that
  MaxCalls      \* exploration bound: calls of one Encoder

ASSUME CallsAssumption == MaxCalls \in Nat

-----------------------------------------------------------------------------
(* Go values.  Those of a type are of the form that the type gives them,   *)
(* and so are their parts; a Value has a type of its own, which is kept    *)
(* with it like that of what an interface holds.                           *)

GoKinds   == Kinds \cup {"Chan"}
TreeKinds == Basic \cup {"Bytes", "Ext", "Slice", "Map"}

Typed(t, v) == [type |-> t, value |-> v]
ValuesOf(t) == {x.value : x \in {y \in Universe : y.type = t}}

\* Integers have 16 bits at most here, and so have lengths; Scalars has the others.
Max16 == 65535
Min16 == -32768
IsShort(s) == s \in Seq(Byte) /\ Len(s) <= Max16

IsBasic(k, v) ==
  /\ k \in Ints  => v \in Int /\ Min16 <= v /\ v <= Max16
  /\ k \in Uints => v \in 0..Max16
  /\ k = "Bool"  => v \in 0..1
  /\ k \in Floats => v \in Seq(Byte) /\ Len(v) = IF k = "Float32" THEN 4 ELSE 8
  /\ k = "String" => IsShort(v)

IsListOf(t, s) == s \in Seq(ValuesOf(t)) /\ Len(s) <= Max16
IsMapOf(t, m) ==
  /\ m \in [DOMAIN m -> ValuesOf(t)] /\ \A n \in DOMAIN m : IsShort(n)
  /\ IsFiniteSet(DOMAIN m) /\ Cardinality(DOMAIN m) <= Max16

\* Basic types, byte slices, and containers of one type.
IsSimple(t, v) ==
  /\ t.kind \in Basic => IsBasic(t.kind, v)
  /\ t.kind = "Bytes" => v = Nil \/ IsShort(v)
  /\ t.kind = "Ext"   => v \in Seq(Byte) /\ Len(v) >= 1 /\ Len(v) - 1 <= Max16
  /\ t.kind \in {"Slice", "Array"} => (t.kind = "Slice" /\ v = Nil) \/ IsListOf(t.elem, v)
  /\ t.kind = "Map"   => v = Nil \/ IsMapOf(t.elem, v)
  /\ t.kind = "Ptr"   => v = Nil \/ (IsListOf(t.elem, v) /\ Len(v) = 1)

\* A field is named by its key, so that order has each name once.
IsStruct(t, v) ==
  /\ t.order \in Seq(DOMAIN t.fields) /\ IsFiniteSet(DOMAIN t.fields)
  /\ Cardinality(DOMAIN t.fields) <= Max16
  /\ \A n \in DOMAIN t.fields : \E i \in 1..Len(t.order) : t.order[i] = n
  /\ \A i, j \in 1..Len(t.order) : t.order[i] = t.order[j] => i = j
  /\ \A n \in DOMAIN t.fields : /\ IsShort(n) /\ t.fields[n].kind \in GoKinds
                               /\ v[n] \in ValuesOf(t.fields[n])

ASSUME UniverseAssumption ==
  \A x \in Universe :
    LET t == x.type
        v == x.value
    IN  /\ x = Typed(t, v)
        /\ t.kind \in GoKinds =>
             /\ t.kind \in {"Slice", "Array", "Map", "Ptr"} => t.elem.kind \in GoKinds
             /\ IsSimple(t, v)
             /\ t.kind = "Interface" => v = Nil \/ (v \in Universe /\ v.type.kind \in GoKinds)
             /\ t.kind = "Struct" => IsStruct(t, v)
        /\ t.kind = "Value" => v = Nil \/
             /\ v.type.kind \in TreeKinds
             /\ v.type.kind \in {"Slice", "Map"} => v.type.elem.kind = "Value"
             /\ IsSimple(v.type, v.value)

\* How a job can begin, and with what type.
Takes(how, t) ==
  /\ how \in {"Encode", "encodeValue", "encodeField"} => t.kind \in GoKinds
  /\ how = "encodeInto"  => t.kind = "Struct"
  /\ how = "EncodeValue" => t.kind = "Value"
  /\ how = "EncodeArray" => t.kind = "Slice" /\ t.elem.kind \in GoKinds

ASSUME JobsAssumption ==
  \A j \in Jobs \cup NextJobs :
    /\ j.how \in {"Encode", "encodeInto", "EncodeValue", "EncodeArray"}
    /\ Takes(j.how, j.type) /\ Typed(j.type, j.value) \in Universe

-----------------------------------------------------------------------------

VARIABLES
  todo,     \* what the call that runs has still to do
  status,   \* "idle", "running", "ok" or the error of the last call
  job, mark,  \* the last call and the length of buf when it began, 0 after Reset
  sent,     \* history: [job, from, to], the calls since Reset that succeeded
  broken,   \* history: a call has failed since Reset
  calls     \* how many calls there have been

vars == <<arrays, buf, written, held, todo, status, job, mark, sent, broken, calls>>

-----------------------------------------------------------------------------
(* What is to do.                                                          *)

\* A struct type with its fields in order and those with omitempty.
Record(order, omit, fs) ==
  [kind |-> "Struct", fields |-> fs, order |-> order, omit |-> omit]

Bytes(bs)      == [do |-> "write", bytes |-> bs]
Value(h, t, v) == [do |-> h, type |-> t, value |-> v]

\* Loops over what is left of a slice, a map or the fields of a struct.
Each(h, t, s)      == [do |-> "elements", how |-> h, type |-> t, left |-> s]
EachPair(h, t, m)  == [do |-> "pairs", how |-> h, type |-> t, left |-> m]
Fields(h, t, v, s) == [do |-> "fields", how |-> h, type |-> t, value |-> v, left |-> s]

EncodeNil == <<Bytes(<<192>>)>>

BigEndian16(n) == <<n \div 256, n % 256>>

\* Mutant of EncodeUint: numbers above 127 in a signed format.
EncodeUint_Int16(n) ==
  IF n <= 127 THEN <<Bytes(<<n>>)>> ELSE <<Bytes(<<209>>), Bytes(BigEndian16(n))>>

EncodeUint(n) ==
  IF n <= 127 THEN <<Bytes(<<n>>)>>
  ELSE IF n <= 255 THEN <<Bytes(<<204>>), Bytes(<<n>>)>>
  ELSE <<Bytes(<<205>>), Bytes(BigEndian16(n))>>

EncodeInt(n) ==
  IF n >= 0 THEN EncodeUint(n)
  ELSE IF n >= -32 THEN <<Bytes(<<256 + n>>)>>
  ELSE IF n >= -128 THEN <<Bytes(<<208>>), Bytes(<<256 + n>>)>>
  ELSE <<Bytes(<<209>>), Bytes(BigEndian16(65536 + n))>>

EncodeString(s) ==
  LET n == Len(s)
  IN  IF n <= 31 THEN <<Bytes(<<160 + n>>), Bytes(s)>>
      ELSE IF n <= 255 THEN <<Bytes(<<217>>), Bytes(<<n>>), Bytes(s)>>
      ELSE <<Bytes(<<218>>), Bytes(BigEndian16(n)), Bytes(s)>>

EncodeBinary(b) ==
  LET s == IF b = Nil THEN <<>> ELSE b
      n == Len(s)
  IN  IF n <= 255 THEN <<Bytes(<<196>>), Bytes(<<n>>), Bytes(s)>>
      ELSE <<Bytes(<<197>>), Bytes(BigEndian16(n)), Bytes(s)>>

EncodeArrayHeader(n) ==
  IF n <= 15 THEN <<Bytes(<<144 + n>>)>> ELSE <<Bytes(<<220>>), Bytes(BigEndian16(n))>>
EncodeMapHeader(n) ==
  IF n <= 15 THEN <<Bytes(<<128 + n>>)>> ELSE <<Bytes(<<222>>), Bytes(BigEndian16(n))>>

fixExt(n) == CASE n = 1 -> 212 [] n = 2 -> 213 [] n = 4 -> 214 [] n = 8 -> 215 [] n = 16 -> 216

EncodeExt(type, s) ==
  LET n == Len(s)
  IN  (IF n \in {1, 2, 4, 8, 16} THEN <<Bytes(<<fixExt(n)>>)>>
       ELSE IF n <= 255 THEN <<Bytes(<<199>>), Bytes(<<n>>)>>
       ELSE <<Bytes(<<200>>), Bytes(BigEndian16(n))>>)
      \o <<Bytes(<<type>>), Bytes(s)>>

\* EncodeString in one write, as it is prepared for the name of a field.
preEncodeString(s) ==
  LET n == Len(s)
  IN  <<Bytes((IF n <= 31 THEN <<160 + n>>
               ELSE IF n <= 255 THEN <<217, n>>
               ELSE <<218>> \o BigEndian16(n)) \o s)>>

\* Values of basic kinds are written alike everywhere.
EncodeBasic(k, v) ==
  CASE k = "Bool"    -> <<Bytes(<<IF v = 0 THEN 194 ELSE 195>>)>>
    [] k \in Ints    -> EncodeInt(v)
    [] k \in Uints   -> EncodeUint(v)
    [] k = "Float32" -> <<Bytes(<<202>>), Bytes(v)>>
    [] k = "Float64" -> <<Bytes(<<203>>), Bytes(v)>>
    [] k = "String"  -> EncodeString(v)

\* An array header and the loop behind it; the same for a map, whose keys are
\* strings.  A nil one has no elements.
Elements(h, t, v) ==
  LET s == IF v = Nil THEN <<>> ELSE v
  IN  EncodeArrayHeader(Len(s)) \o <<Each(h, t.elem, s)>>
Pairs(h, t, v) ==
  LET m == IF v = Nil THEN <<>> ELSE v
  IN  EncodeMapHeader(Cardinality(DOMAIN m)) \o <<EachPair(h, t.elem, m)>>

-----------------------------------------------------------------------------
(* omitempty.                                                              *)

\* A value of a basic kind is zero; -0.0 is.
Zero(k, v) ==
  CASE k \in Ints \cup Uints \cup {"Bool"} -> v = 0
    [] k \in Floats -> v[1] \in {0, 128} /\ \A i \in 2..Len(v) : v[i] = 0
    [] k = "String" -> v = <<>>

isEmptyValue(t, v) ==
  CASE t.kind \in Basic -> Zero(t.kind, v)
    [] t.kind \in {"Slice", "Bytes", "Map"} -> v = Nil \/ DOMAIN v = {}
    [] t.kind \in {"Ptr", "Interface"} -> v = Nil
    [] t.kind = "Array" -> v = <<>>
    [] OTHER -> FALSE

\* The cached encoder finds no map and no pointer empty.
isEmptyField(t, v) ==
  CASE t.kind \in Basic -> Zero(t.kind, v)
    [] t.kind \in {"Slice", "Bytes"} -> v = Nil \/ v = <<>>
    [] OTHER -> FALSE

\* What encodeStruct collects, and what encodeInto leaves out.
Present(t, v) == {n \in DOMAIN t.fields : ~(n \in t.omit /\ isEmptyValue(t.fields[n], v[n]))}
LeftOut(t, v) == {n \in t.omit : isEmptyField(t.fields[n], v[n])}

-----------------------------------------------------------------------------
(* The walks: what to do for a value.                                      *)

\* Mutant of Unsupported: no case for reflect.Array.
Unsupported_Arrays(t) == t.kind \in {"Chan", "Array"}

\* encodeValue has no case for a channel (nor for a function or a complex
\* number).
Unsupported(t) == t.kind = "Chan"

\* Encode(v any): the fast paths, by the type of what v holds, and encodeValue.
Encode(t, v) ==
  CASE t.kind = "Interface" -> IF v = Nil THEN EncodeNil ELSE <<Value("Encode", v.type, v.value)>>
    [] t.kind \in Basic -> EncodeBasic(t.kind, v)
    [] t.kind = "Bytes" -> EncodeBinary(v)
    [] t.kind = "Map" /\ t.elem.kind = "Interface"   -> Pairs("Encode", t, v)
    [] t.kind = "Slice" /\ t.elem.kind = "Interface" -> Elements("Encode", t, v)
    [] OTHER -> <<Value("encodeValue", t, v)>>

\* encodeValue and encodeSlice .. encodeStruct.  (A time.Time is a struct that
\* exports no field.)
encodeValue(t, v) ==
  CASE t.kind \in {"Ptr", "Interface", "Slice", "Bytes", "Map"} /\ v = Nil -> EncodeNil
    [] t.kind = "Ptr" /\ v # Nil       -> <<Value("encodeValue", t.elem, v[1])>>
    [] t.kind = "Interface" /\ v # Nil -> <<Value("encodeValue", v.type, v.value)>>
    [] t.kind = "Bytes" /\ v # Nil     -> EncodeBinary(v)
    [] (t.kind = "Slice" /\ v # Nil) \/ t.kind = "Array" -> Elements("encodeValue", t, v)
    [] t.kind = "Map" /\ v # Nil       -> Pairs("encodeValue", t, v)
    [] t.kind = "Struct" -> EncodeMapHeader(Cardinality(Present(t, v)))
                            \o <<Fields("encodeValue", t, v, t.order)>>
    [] t.kind = "Time"   -> EncodeMapHeader(0)
    [] t.kind \in Basic  -> EncodeBasic(t.kind, v)

\* Mutant of encodeInto: all fields are counted.
encodeInto_CountsAll(t, v) ==
  EncodeMapHeader(Cardinality(DOMAIN t.fields)) \o <<Fields("encodeField", t, v, t.order)>>

\* The fields are counted here; the loop finds out once more which they are.
encodeInto(t, v) ==
  EncodeMapHeader(Cardinality(DOMAIN t.fields \ LeftOut(t, v)))
    \o <<Fields("encodeField", t, v, t.order)>>

\* A kind without a case is written as nil: an interface, an array, whatever
\* Encode does not support.
encodeField(t, v) ==
  CASE t.kind \in Basic -> EncodeBasic(t.kind, v)
    [] t.kind = "Bytes" -> EncodeBinary(v)
    [] t.kind = "Slice" -> Elements("Encode", t, v)
    [] t.kind = "Map"   -> Pairs("Encode", t, v)
    [] t.kind \in {"Struct", "Time"} -> <<Value("Encode", t, v)>>
    [] t.kind = "Ptr" /\ v = Nil -> EncodeNil
    [] t.kind = "Ptr" /\ v # Nil -> <<Value("Encode", t, v)>>
    [] OTHER -> EncodeNil

\* A Value is written by the type it has: null, a scalar, an extension, or an
\* array or map of Values.
EncodeValue(v) ==
  CASE v = Nil -> EncodeNil
    [] v # Nil /\ v.type.kind \in Basic   -> EncodeBasic(v.type.kind, v.value)
    [] v # Nil /\ v.type.kind = "Bytes"   -> EncodeBinary(v.value)
    [] v # Nil /\ v.type.kind = "Ext"     -> EncodeExt(v.value[1], Tail(v.value))
    [] v # Nil /\ v.type.kind = "Slice"   -> Elements("EncodeValue", v.type, v.value)
    [] v # Nil /\ v.type.kind = "Map"     -> Pairs("EncodeValue", v.type, v.value)

-----------------------------------------------------------------------------
Init ==
  /\ BufferInit
  /\ todo = <<>> /\ status = "idle"
  /\ job = Nil /\ mark = 0
  /\ sent = <<>> /\ broken = FALSE
  /\ calls = 0

Begin(j) ==
  /\ status # "running" /\ calls < MaxCalls
  /\ todo' = <<Value(j.how, j.type, j.value)>> /\ status' = "running"
  /\ job' = j /\ calls' = calls + 1
  /\ UNCHANGED <<sent, broken>>

\* Mutant of Call: the call begins at the front of the buffer.
Call_FromFront(j) ==
  /\ Begin(j)
  /\ mark' = 0 /\ buf' = [buf EXCEPT !.len = 0] /\ written' = <<>>
  /\ UNCHANGED <<arrays, held>>

\* Encode or EncodeWith, which go on where the last call ended.
Call(j) ==
  /\ Begin(j)
  /\ mark' = buf.len
  /\ UNCHANGED buffer

Reset ==
  /\ status \notin {"running", "idle"} /\ calls < MaxCalls
  /\ ResetBuffer
  /\ status' = "idle" /\ mark' = 0 /\ sent' = <<>> /\ broken' = FALSE
  /\ UNCHANGED <<todo, job, calls>>

Hold ==
  /\ status # "running" /\ calls < MaxCalls
  /\ HoldBytes
  /\ UNCHANGED <<todo, status, job, mark, sent, broken, calls>>

head == todo[1]
Running(do) ==
  /\ status = "running" /\ todo # <<>> /\ head.do = do
  /\ UNCHANGED <<job, mark, sent, calls>>

Write ==
  /\ Running("write")
  /\ WriteBytes(head.bytes)
  /\ todo' = Tail(todo)
  /\ UNCHANGED <<status, broken>>

\* The head is replaced by what it consists of.
Replace(items) ==
  /\ todo' = items \o Tail(todo)
  /\ UNCHANGED <<buffer, status, broken>>

\* What was written up to here stays in the buffer.
Fail(e) ==
  /\ status' = e /\ broken' = TRUE
  /\ todo' = <<>>
  /\ UNCHANGED buffer

EncodeAny == Running("Encode") /\ Replace(Encode(head.type, head.value))

EncodeReflect ==
  /\ Running("encodeValue")
  /\ IF Unsupported(head.type) THEN Fail("ErrUnsupportedType")
     ELSE Replace(encodeValue(head.type, head.value))

EncodeInto  == Running("encodeInto") /\ Replace(encodeInto(head.type, head.value))
EncodeField == Running("encodeField") /\ Replace(encodeField(head.type, head.value))
EncodeTree  == Running("EncodeValue") /\ Replace(EncodeValue(head.value))
EncodeArray == Running("EncodeArray") /\ Replace(Elements("Encode", head.type, head.value))

\* The next element of a slice or an array.
NextElement ==
  /\ Running("elements")
  /\ Replace(IF head.left = <<>> THEN <<>>
             ELSE <<Value(head.how, head.type, head.left[1]), [head EXCEPT !.left = Tail(@)]>>)

\* The next field of a struct, its name and its value, if it is one of those that
\* encodeStruct has collected; encodeInto passes over the empty ones here.
NextField ==
  /\ Running("fields")
  /\ IF head.left = <<>> THEN Replace(<<>>)
     ELSE LET n     == head.left[1]
              rest  == <<[head EXCEPT !.left = Tail(@)]>>
              value == <<Value(head.how, head.type.fields[n], head.value[n])>>
          IN  Replace(IF head.how = "encodeValue"
                        THEN IF n \in Present(head.type, head.value)
                               THEN EncodeString(n) \o value \o rest ELSE rest
                        ELSE IF n \in LeftOut(head.type, head.value) THEN rest
                             ELSE preEncodeString(n) \o value \o rest)

\* The next pair of a map: any that is left.
NextPair ==
  /\ Running("pairs")
  /\ IF head.left = <<>> THEN Replace(<<>>)
     ELSE \E k \in DOMAIN head.left :
            Replace(EncodeString(k) \o
                    <<Value(head.how, head.type, head.left[k]),
                      [head EXCEPT !.left = [x \in DOMAIN @ \ {k} |-> @[x]]]>>)

Return ==
  /\ status = "running" /\ todo = <<>>
  /\ status' = "ok" /\ sent' = Append(sent, [job |-> job, from |-> mark, to |-> buf.len])
  /\ UNCHANGED <<buffer, todo, job, mark, broken, calls>>

Step ==
  \/ Write \/ EncodeAny \/ EncodeReflect \/ EncodeInto \/ EncodeField
  \/ EncodeTree \/ EncodeArray
  \/ NextElement \/ NextField \/ NextPair \/ Return

Next ==
  \/ Step
  \/ \E j \in IF calls = 0 THEN Jobs ELSE NextJobs : Call(j)
  \/ Reset
  \/ Hold

Spec == Init /\ [][Next]_vars
-----------------------------------------------------------------------------
\* What is to be written are bytes, whatever the value it is made from.
WritesBytes == todo # <<>> /\ head.do = "write" => head.bytes \in Seq(Byte)

\* The type invariant of the encoder and its buffer.
TypeOK ==
  /\ BufferOK
  /\ status \in {"idle", "running", "ok", "ErrUnsupportedType"}
  /\ mark <= buf.len
  /\ WritesBytes

\* As long as no call has failed since Reset, the buffer is what the calls have
\* appended, one after the other, and nothing else (part of EachCallIsOneValue).
CallsFillBuffer ==
  status # "running" /\ ~broken => \A i \in 0..Len(sent) :
    (IF i = 0 THEN 0 ELSE sent[i].to) = (IF i = Len(sent) THEN buf.len ELSE sent[i+1].from)

\* What the interface x holds, what the pointer x points to, the elements of x or
\* its fields.
PartsOf(x) ==
  CASE x.type.kind = "Interface" /\ x.value # Nil -> {Typed(x.value.type, x.value.value)}
    [] x.type.kind \in {"Ptr", "Slice", "Array", "Map"} /\ x.value # Nil ->
         {Typed(x.type.elem, x.value[i]) : i \in DOMAIN x.value}
    [] x.type.kind = "Struct" -> {Typed(x.type.fields[n], x.value[n]) : n \in DOMAIN x.type.fields}
    [] OTHER -> {}

\* There is a channel in x, however deep.
ChanIn[x \in Universe] ==
  x.type.kind = "Chan" \/ \E y \in PartsOf(x) : ChanIn[y]
HasChan(t, v) == ChanIn[Typed(t, v)]

\* encodeField looks into no interface and no array, and writes nil for a channel.
FieldHasChan(t, v) == t.kind \notin {"Interface", "Array", "Chan"} /\ HasChan(t, v)

\* The walk h over the value v of type t meets a channel; EncodeValue never does.
Meets(h, t, v) ==
  \/ h \in {"Encode", "encodeValue", "EncodeArray"} /\ HasChan(t, v)
  \/ h = "encodeField" /\ FieldHasChan(t, v)
  \/ h = "encodeInto" /\ \E n \in DOMAIN t.fields : FieldHasChan(t.fields[n], v[n])
Refusable(j) == Meets(j.how, j.type, j.value)

\* A call is refused only if there is, however deep, something in what it is given
\* that reflection has no case for: below a nil pointer, in an empty slice and in a
\* field that is left out there is nothing.  And it is refused whenever the walk
\* looks at such a thing, which then is never written, in part or as something else.
\* Of the fields that encodeField does not look into this says nothing:
\* UnsupportedIsRefused does.
RefusedIfUnsupported ==
  /\ status = "ErrUnsupportedType" => HasChan(job.type, job.value)
  /\ status = "ok" => ~Refusable(job)

\* What errors.go promises of ErrUnsupportedType: a call that is given something
\* that cannot be encoded does not succeed.  A StructEncoder writes nil for it.
UnsupportedIsRefused == status = "ok" => ~HasChan(job.type, job.value)
=============================================================================
