--------------------------- MODULE MCStructDecode ---------------------------
(***************************************************************************)
(* StructDecode on a bounded set of types and messages, compared with a    *)
(* recursive definition of what a message says about a type: whether it    *)
(* fits, and what the destination is afterwards.                           *)
(***************************************************************************)
EXTENDS StructDecode, TLC

G == INSTANCE Trees

-----------------------------------------------------------------------------
(* Types.  The fields are called a and b; Pair gives their types.          *)

a == <<97>>
b == <<98>>
Pair(s, t) == Struct(a :> s @@ b :> t)

Small == Pair(Of("Int64"), Of("String"))

StructTypes ==
  { Pair(Of("Uint8"), Of("Bool")),
    Pair(Of("Bytes"), Of("Float64")),
    Pair(Slice(Of("Float32")), MapOf(Of("String"))),
    Pair(Small, Of("Int32")),
    Pair(Pair(Of("Bool"), Slice(Of("Int"))), Of("Interface")),
    Pair(MapOf(Of("Interface")), Ptr(Of("Int"))),
    Pair(MapOf(MapOf(Of("Bytes"))), Slice(Of("String"))),
    Pair(Slice(Small), Pair(Of("Int16"), Small)),
    Pair(ArrayOf(2, Of("Int8")), Of("Time")) }

\* Destinations of Unmarshal that are no structs.
Roots ==
  { Of("Interface"), Of("Bytes"), Of("Uint16"), Of("Time"), ArrayOf(1, Of("Int")),
    Slice(Slice(Of("Float64"))), Ptr(MapOf(Of("Interface"))), MapOf(Ptr(Small)),
    MapOf(MapOf(Of("String"))), Slice(Of("Time")), Slice(Ptr(Of("Bool"))),
    Slice(Struct(a :> ArrayOf(1, Of("Int")) @@ b :> MapOf(Slice(Of("Bytes"))))) }

Numbers == {Slice(Of(k)) : k \in {"Int64", "Uint64", "Float64", "String"}}

RECURSIVE Parts(_)
Parts(t) ==
  LET subtypes == CASE t.kind = "Struct" -> {t.fields[n] : n \in DOMAIN t.fields}
                    [] t.kind \in {"Slice", "Array", "Map", "Ptr"} -> {t.elem}
                    [] OTHER -> {}
  IN  {t} \cup UNION {Parts(s) : s \in subtypes}

MCTypes == UNION {Parts(t) : t \in StructTypes \cup Roots \cup Numbers}

RECURSIVE Levels(_)
Levels(t) ==
  CASE t.kind \in {"Slice", "Map"} -> 1 + Levels(t.elem)
    [] t.kind = "Ptr" -> Levels(t.elem)
    [] OTHER -> 0

MCOuterLevels == [t \in MCTypes |-> Levels(t)]

-----------------------------------------------------------------------------
(* Messages.                                                               *)

Cat(S, T) == {s \o t : s \in S, t \in T}
Map1(K, V) == Cat({<<129>>}, Cat(K, V))
Map2(K, V, L, W) == Cat({<<130>>}, Cat(Cat(K, V), Cat(L, W)))

KeyA == <<161, 97>>
KeyB == <<161, 98>>
Keys == { KeyA, KeyB, <<161, 99>>, <<217, 1, 97>>, <<217>>, <<164, 97, 1, 1, 1>>,
          <<5>>, <<192>>, <<204, 5>>, <<145, 97>> }

Simple == { <<1>>, <<192>>, <<195>>, <<161, 120>>, <<144>>, <<128>> }

Values1 == Simple \cup
  { <<255>>, <<204, 200>>, <<208, 200>>, <<209, 1, 2>>, <<202, 1, 1, 1, 1>>,
    <<207, 1, 1, 1, 1, 1, 1, 1, 1>>, <<217, 1, 120>>, <<163, 1, 1, 1>>,
    <<164, 1, 1, 1, 1>>, <<196, 1, 7>>, <<196, 3, 7, 7, 7>>, <<145, 1>>,
    <<146, 161, 120, 161, 120>>, <<147, 1, 1, 1>>, <<145, 207, 1, 1, 1, 1, 1, 1, 1, 1>>,
    <<212, 1, 1>>, <<193>>, <<218, 0>> }

Few == {<<1>>, <<192>>, <<161, 120>>, <<128>>}

Inner == Map1(Keys, Few) \cup Map2({KeyA}, Few, {KeyA, KeyB}, {<<1>>, <<192>>})
         \cup {<<131, 161, 97, 1, 161, 98, 1, 161, 99, 1>>}

Whole ==
  UNION { Map1({KeyA, KeyB}, Values1), Map1(Keys, Simple), Map1({KeyA, KeyB, <<5>>}, Inner),
          Map2({KeyA}, Simple, Keys, Simple), Map2({KeyA, KeyB}, Inner, {KeyB}, {<<1>>}),
          Map2({KeyA}, Map1({KeyA, KeyB}, Simple), {KeyA}, Map1({KeyB}, Simple)),
          Map1({KeyA, KeyB}, Cat({<<145>>}, Map1({KeyA}, Simple))),
          Map1({KeyA, KeyB}, Map1({KeyA, KeyB}, Map1({KeyA, KeyB, <<5>>}, Simple))),
          Map1({KeyA}, Map1({KeyA}, { <<129, 161, 97, 145, 1>>,
                                      <<131, 161, 97, 196, 0, 161, 97, 160, 161, 98, 160>> })),
          {<<192>>, <<193>>, <<1>>, <<144>>, <<128>>,
           <<222, 0, 1, 161, 97, 1>>, <<131, 161, 97, 1, 161, 98, 1, 161, 99, 1>>} }

Truncated ==
  UNION { {SubSeq(m, 1, n) : n \in 0..Len(m)} :
          m \in { <<129, 161, 97, 129, 161, 98, 161, 120>>,
                  <<130, 161, 97, 145, 205, 1, 2,
                    161, 98, 130, 161, 97, 217, 1, 120, 5, 196, 1, 7>>,
                  <<129, 161, 99, 129, 161, 97, 212, 1, 1>> } }

Times == { <<214, 255, 0, 0, 0, 1>>, <<214, 1, 0, 0, 0, 1>>, <<199, 4, 255, 0, 0, 0, 1>>,
           <<215, 255, 0, 0, 0, 0, 0, 0, 0, 1>>,
           <<199, 12, 255, 0, 0, 0, 1, 0, 0, 0, 0, 0, 0, 0, 1>> }

Nests == { <<145, 145, 1>>, <<145, 145, 145, 145, 1>>, <<145, 145, 202, 1, 1, 1, 1>>,
           <<129, 161, 97, 129, 161, 97, 161, 98>>, <<129, 161, 97, 145, 145, 145, 1>>,
           <<130, 161, 97, 128, 161, 97, 129, 161, 98, 161, 120>>,
           <<145, 129, 161, 97, 145, 145, 1>>, <<145, 129, 161, 97, 146, 1, 145, 1>>,
           <<145, 129, 161, 98, 129, 161, 98, 145, 161, 97>>,
           <<145, 129, 161, 98, 129, 161, 98, 145, 145, 1>>,
           <<146, 129, 161, 97, 147, 1, 1, 1, 129, 161, 97, 145, 1>>,
           <<129, 161, 97, 129, 161, 97, 129, 161, 97, 129, 161, 97, 1>> }

Unwrapped == Times \cup Values1 \cup Nests \cup Map1(Keys, Simple)
             \cup Cat({<<145>>, <<146, 192>>}, Values1 \cup Times)
             \cup Map1({KeyA}, Map1({KeyA, KeyB}, Simple))
             \cup UNION {{SubSeq(m, 1, n) : n \in 0..Len(m)} : m \in Times \cup Nests}

MCJobs ==
  [walk : {"reflect", "cached"}, type : StructTypes, data : Whole \cup Truncated]
  \cup [walk : {"reflect"}, type : Roots, data : Unwrapped]
  \cup [walk : {"plain"}, type : Numbers, data : Unwrapped]

MCNextMessages ==
  { <<129, 161, 97, 192>>, <<129, 161, 97, 145, 7>>, <<145, 192>>, <<192>>,
    <<130, 161, 97, 129, 161, 98, 128, 161, 98, 1>>,
    <<129, 161, 97, 129, 161, 98, 161, 121>> }

-----------------------------------------------------------------------------
(* The reference: what Grammar says of the message, and the message as a   *)
(* tree when it is well formed.                                            *)

Doc == G!ValueAt(data, 0)
Message == G!Tree(data, 0)

IsNil(v) == G!IsNil(v)
KeyOf(v, i)  == G!KeyOf(v, i)
ItemOf(v, i) == G!ItemOf(v, i)

-----------------------------------------------------------------------------
(* The reference: whether the value v can be decoded into type t.  All     *)
(* walks ignore a pair the caller's type has no field for.  "inner" says   *)
(* that the value is part of a struct's field.                             *)

Names(fs, key) == key.kind = "str" /\ key.text \in DOMAIN fs

\* The cached walk passes over the value of such a field, whatever it is.
PassedOver(t, inner) == walk = "cached" /\ ~IF inner THEN InNested(t) ELSE InField(t)

IsFixint(v) == v.first \notin 128..223

\* A pointer, in decodeReflect, is not what meets the message.
Outside(inner) == walk = "reflect" /\ ~inner

\* The length of v's payload and its first byte are those of a timestamp.
IsTime(v) ==
  /\ v.first \in {214, 215} \/ (v.first = 199 /\ v.len = 12)
  /\ v.text[1] = 255

\* The format v has is one that t is read from.
Suits(t, v, inner) ==
  CASE Outside(inner) /\ t.kind \in {"Ptr", "Array"} -> t.kind = "Ptr"
    [] Outside(inner) /\ t.kind = "Time" -> IsTime(v)
    [] IsNil(v) -> \/ walk = "reflect" /\ inner
                   \/ walk = "reflect" /\ t.kind \in {"Slice", "Map", "Bytes"}
                   \/ walk # "plain" /\ t.kind \in {"Struct", "Interface"}
    [] t.kind = "Time" ->
         v.kind = "map" /\ (walk = "cached" => \A i \in 1..v.len : KeyOf(v, i).kind = "str")
    [] t.kind = "Struct" ->
         v.kind = "map" /\ (walk = "cached" => \A i \in 1..v.len : KeyOf(v, i).kind = "str")
    [] t.kind = "Map" ->
         v.kind = "map" /\ \A i \in 1..v.len :
           KeyOf(v, i).kind = "str" \/ (walk = "reflect" /\ inner /\ IsNil(KeyOf(v, i)))
    [] t.kind = "Interface" ->
         walk = "cached" \/ ~inner =>
           /\ v.kind # "ext"
           /\ v.kind = "map" => \A i \in 1..v.len : KeyOf(v, i).kind = "str"
    [] t.kind = "Ptr"    -> walk = "cached"
    [] t.kind \in {"Slice", "Array"} -> v.kind = "array"
    [] t.kind = "String" -> v.kind = "str"
    [] t.kind = "Bytes"  -> \/ v.kind = "bin"
                            \/ v.kind = "str" /\ (walk = "cached" \/ ~inner => v.len <= MaxBinaryLen)
    [] t.kind = "Bool"   -> v.first \in {194, 195}
    [] t.kind \in Ints   -> IsFixint(v) \/ v.first \in 204..211
    [] t.kind \in Floats -> \/ v.first \in {202, 203}
                            \/ /\ ~Outside(inner)
                               /\ IsFixint(v) \/ v.first \in 204..206 \cup 208..211
                            \/ v.first = 207 /\ walk = "reflect" /\ inner
    [] t.kind \in Uints  -> \/ v.first \in 0..127 \cup 204..207
                            \/ v.first \in 208..211 /\ walk = "reflect"

\* The values in v, each with the type it has to fit; nil fits every field.
Element(t, v) == [type |-> t, value |-> v]
Elements(t, v, inner) ==
  CASE t.kind = "Ptr" -> {Element(t.elem, v)}
    [] IsNil(v) -> {}
    [] t.kind = "Struct" ->
         {Element(t.fields[KeyOf(v, i).text], ItemOf(v, i)) :
            i \in {j \in 1..v.len : /\ Names(t.fields, KeyOf(v, j))
                                    /\ ~PassedOver(t.fields[KeyOf(v, j).text], inner)
                                    /\ ~IsNil(ItemOf(v, j))}}
    [] t.kind = "Map"   -> {Element(t.elem, ItemOf(v, i)) : i \in 1..v.len}
    [] t.kind = "Slice" -> {Element(t.elem, v.kids[i]) : i \in 1..v.len}
    [] t.kind = "Array" ->
         {Element(t.elem, v.kids[i]) : i \in {j \in 1..v.len : j <= t.len}}
    [] t.kind = "Interface" /\ (walk = "cached" \/ ~inner) ->
         {Element(t, v.kids[i]) : i \in {j \in 1..Len(v.kids) : v.kind = "array" \/ j % 2 = 0}}
    [] OTHER -> {}

RECURSIVE Fits(_, _, _)
Fits(t, v, inner) ==
  /\ Suits(t, v, inner)
  /\ \A e \in Elements(t, v, inner) : Fits(e.type, e.value, inner \/ t.kind = "Struct")

\* The types of what is stored below a struct.
BelowStructs == UNION {Parts(t) \ {t} : t \in {s \in Parts(root) : s.kind = "Struct"}}

\* DecodeTimestamp has no use for MaxExtLen.
ReadsTimes == \E t \in Parts(root) \ BelowStructs : t.kind = "Time"

OverLimit(x) ==
  /\ x.kind \notin {"scalar", "invalid"}
  /\ x.kind = "ext" => ~ReadsTimes
  /\ x.len > Limit(x.kind)

\* A message within the limits that fits the type.
Good(doc) ==
  /\ doc.ok
  /\ \A x \in doc.items : ~OverLimit(x)
  /\ doc.nest <= MaxDepth
  /\ Fits(root, Message, FALSE)

-----------------------------------------------------------------------------
(* The reference: the destination after the value v of type t has been     *)
(* decoded to the place p of destination d.  Whatever the walk, nil is the *)
(* zero value ("nil decodes to zero value", decode_struct.go; "leave as    *)
(* zero value", struct_decoder.go).                                        *)

At(d, x) == IF x \in DOMAIN d THEN d[x] ELSE <<>>
Put(d, p, v) == [x \in DOMAIN d \cup {p} |-> IF x = p THEN v ELSE d[x]]
IsBelow(x, p) == Len(p) <= Len(x) /\ SubSeq(x, 1, Len(p)) = p

RECURSIVE Stored(_, _, _, _)
Stored(t, v, p, d) ==
  IF IsNil(v)
    THEN [x \in DOMAIN d \cup {p} |-> IF IsBelow(x, p) THEN <<>> ELSE d[x]]
  ELSE IF t.kind = "Time" /\ p # <<>> THEN d
  ELSE IF t.kind = "Ptr" THEN Stored(t.elem, v, p, d)
  ELSE IF t.kind = "Array"
    THEN LET after[n \in 0..v.len] ==   \* elements without room are skipped
               IF n = 0 THEN d
               ELSE IF n > t.len THEN after[n-1]
               ELSE Stored(t.elem, v.kids[n], Append(p, <<n>>), after[n-1])
         IN  after[v.len]
  ELSE IF t.kind = "Struct"
    THEN LET after[n \in 0..v.len] ==   \* the first n pairs, as they are written
               IF n = 0 THEN d
               ELSE LET key == KeyOf(v, n)
                    IN  IF ~Names(t.fields, key) THEN after[n-1]
                        ELSE IF PassedOver(t.fields[key.text], p # <<>>)
                          THEN Put(after[n-1], Append(p, key.text), ItemOf(v, n).text)
                        ELSE Stored(t.fields[key.text], ItemOf(v, n),
                                    Append(p, key.text), after[n-1])
         IN  after[v.len]
  ELSE IF t.kind = "Map" /\ walk = "reflect" THEN Put(d, p, At(d, p) \o v.text)
  ELSE Put(d, p, IF v.kind \in {"array", "map"} THEN v.text ELSE v.bytes)

\* Where the code is known not to do what the reference says, as a set of
\* places: it leaves what was there for nil in the cached walk and for a nil
\* that is the whole message, and a field that is passed over.
RECURSIVE LeftAlone(_, _, _)
LeftAlone(t, v, p) ==
  CASE IsNil(v) -> IF walk = "cached" \/ p = <<>> THEN {p} ELSE {}
    [] PassedOver(t, Len(p) > 1) /\ p # <<>> -> {p}
    [] t.kind = "Ptr" /\ p = <<>> -> LeftAlone(t.elem, v, p)
    [] t.kind = "Struct" ->
         UNION {LeftAlone(t.fields[KeyOf(v, i).text], ItemOf(v, i), Append(p, KeyOf(v, i).text)) :
                  i \in {j \in 1..v.len : Names(t.fields, KeyOf(v, j))}}
    [] OTHER -> {}

SameBut(ps, d, e) ==
  \A x \in DOMAIN d \cup DOMAIN e : At(d, x) = At(e, x) \/ \E p \in ps : IsBelow(x, p)

-----------------------------------------------------------------------------
(* Properties.                                                             *)

InnerStructs == {t \in BelowStructs : t.kind \in {"Struct", "Time"}}

\* decodeIntoStruct goes on behind a key that it could not read.
OddKeys(doc) ==
  /\ walk = "reflect" /\ InnerStructs # {}
  /\ \E x \in doc.items : x.key /\ (x.kind # "str" \/ OverLimit(x))

\* Where what is read is not what is written: at such keys, decodeNestedStruct
\* at a bool, decodeIntoValue at a pointer.
Loose(doc) ==
  \/ OddKeys(doc)
  \/ walk = "reflect" /\ InnerStructs # {} /\ ~doc.ok
  \/ walk = "reflect" /\ \E t \in BelowStructs : t.kind = "Ptr"
  \/ /\ walk = "cached"
     /\ \E t \in BelowStructs : t.kind = "Struct" /\
          \E n \in DOMAIN t.fields : t.fields[n].kind = "Bool"

NestedMaps == \E t \in Parts(root) : t.kind = "Map" /\ t.elem.kind = "Map"

OneFittingValue(doc) ==
  Loose(doc) \/
    /\ doc.ok /\ pos = doc.end
    /\ \A x \in doc.items :
         OverLimit(x) => walk = "cached" /\ NestedMaps /\ x.kind = "map"
    /\ Fits(root, Message, FALSE)

\* A decode that succeeds has read exactly the one value that is written at
\* the front of the message, and nothing in it that does not fit its place in
\* the type or is over a limit: a key is never read as a value or a value as a
\* key, whatever mixture of known, unknown, nested and skipped fields there is.
\* (The length of a map in a map is the one the cached walk does not check.)
OkMeansItFits == status = "ok" => OneFittingValue(Doc)

RefusedRightly(doc) == ~Good(doc) \/ OddKeys(doc)

\* A message that fits the type is decoded, whatever was decoded before: no
\* error without a reason, and no level of nesting is left counted.
GoodMessagesDecode == status \in Errors => RefusedRightly(Doc)

AsSaid == SameBut(LeftAlone(root, Message, <<>>), dst, Stored(root, Message, <<>>, before))
StoredAsSaid(doc) == Good(doc) => OddKeys(doc) \/ AsSaid

\* After a good message every place of the destination holds what the last
\* pair with its key says, the zero value where that is nil, and places it does
\* not name keep what earlier messages left there.  Nothing is claimed of the
\* places in LeftAlone.
FieldsAsWritten == status = "ok" => StoredAsSaid(Doc)

DecodedAsSaid(doc) == Good(doc) => status = "ok" /\ AsSaid

\* What the comment in decodeIntoStruct says ("Skip non-string key and its
\* value"): a key of another kind costs its pair and nothing else.
OtherKeysAreSkipped == status # "running" => DecodedAsSaid(Doc)

ShortMaps(doc) ==
  Loose(doc) \/ ~doc.ok \/ \A x \in doc.items : x.kind = "map" => x.len <= MaxMapLen

\* What config.go says of MaxMapLen ("the maximum allowed map length"): no
\* message with a longer map is decoded.
MapLimitHolds == status = "ok" => ShortMaps(Doc)
=============================================================================
