----------------------------- MODULE MCRoundTrip -----------------------------
(***************************************************************************)
(* RoundTrip with a few types and, for each, the values at which a walk    *)
(* takes another turn: nil and empty, zero and negative, long and short.   *)
(***************************************************************************)
EXTENDS RoundTrip, TLC

a == <<97>>
b == <<98>>
Pair(omit, s, t) == Record(<<a, b>>, omit, a :> s @@ b :> t)
Pairing(u, v) == a :> u @@ b :> v

\* The values of a type, each to be encoded by reflection and, if it is a struct,
\* by its StructEncoder.
Encodings(t, vs) ==
  [how : IF t.kind = "Struct" THEN {"Encode", "encodeInto"} ELSE {"Encode"},
   type : {t}, value : vs]

Iface == Of("Interface")
Holding(k, v) == [type |-> Of(k), value |-> v]
Text(n) == [i \in 1..n |-> 120]
One == << 63, 128, 0, 0 >>                       \* a float32
Minus0 == << 128, 0, 0, 0, 0, 0, 0, 0 >>         \* a float64

Small == Pair({a}, Of("Int16"), Of("String"))
Inner == Pair({}, Of("Bool"), Of("Float32"))
Odd   == Pair({}, ArrayOf(2, Of("Uint8")), Of("Chan"))

\* Sixteen fields, one more than a fixmap has room for.
Letters == [i \in 1..16 |-> <<96 + i>>]
Names   == {Letters[i] : i \in 1..16}
Wide    == Record(Letters, {Letters[16]}, [n \in Names |-> Of("Uint8")])

Structs ==
  UNION {
    Encodings(Small, {Pairing(n, s) : n \in {0, -5, 200, -129, 300}, s \in {<<>>, Text(32)}}),
    Encodings(Inner, {Pairing(1, One)}),
    Encodings(Pair({a, b}, Slice(Of("Int")), MapOf(Of("String"))),
              {Pairing(Nil, Nil), Pairing(<<>>, <<>>), Pairing(<<0, -33>>, a :> <<>> @@ b :> a)}),
    Encodings(Pair({a}, Ptr(Of("Int32")), Of("Bytes")),
              {Pairing(Nil, Nil), Pairing(<<7>>, <<1, 2>>)}),
    Encodings(Pair({a, b}, Inner, Of("Float64")),
              {Pairing(Pairing(0, One), Minus0), Pairing(Pairing(1, One), <<64>> \o Text(7))}),
    Encodings(Pair({b}, Slice(Small), MapOf(Iface)),
              {Pairing(<<Pairing(-1, a)>>, a :> Nil @@ b :> Holding("Int8", -100)),
               Pairing(Nil, Nil)}),
    Encodings(Pair({a, b}, Iface, Small),
              {Pairing(Holding("String", a), Pairing(-1, a)), Pairing(Nil, Pairing(0, <<>>))}),
    Encodings(Pair({b}, Inner, MapOf(MapOf(Of("Bytes")))),
              {Pairing(Pairing(1, One), a :> (b :> <<9>>)), Pairing(Pairing(0, One), a :> Nil)}),
    Encodings(Pair({}, Small, Of("Int64")), {Pairing(Pairing(1, <<>>), 2)}),
    Encodings(Wide, {[n \in Names |-> 128], [n \in Names |-> 0]}),
    Encodings(Odd, {Pairing(<<1, 2>>, 0)}),
    Encodings(Pair({}, Of("Int8"), Odd), {Pairing(1, Pairing(<<1, 2>>, 0))}),
    Encodings(Pair({}, ArrayOf(2, Of("Uint8")), Of("Time")), {Pairing(<<1, 255>>, 0)}),
    Encodings(Pair({b}, Slice(Iface), Ptr(Small)),
              {Pairing(<<Holding("Bool", 1), Nil>>, <<Pairing(0, a)>>), Pairing(<<>>, Nil)}) }

Others ==
  UNION {
    Encodings(Slice(Iface), {[i \in 1..16 |-> Holding("Uint16", i)],
                           <<[type |-> Slice(Iface), value |-> <<Nil>>],
                             [type |-> Odd, value |-> Pairing(<<1, 2>>, 0)]>>}),
    Encodings(MapOf(Iface), {Nil, a :> Holding("Float32", One) @@ b :> Holding("Bytes", Nil)}),
    Encodings(Iface, {Nil, [type |-> Slice(Of("String")), value |-> <<a>>],
                      [type |-> Ptr(Small), value |-> <<Pairing(-1, a)>>]}),
    Encodings(Slice(Ptr(Of("Bool"))), {<<(<<1>>), (<<0>>)>>, <<Nil>>}),
    Encodings(Ptr(Small), {<<Pairing(1, a)>>}),
    Encodings(Of("Bytes"), {Text(256)}) }

Val == Of("Value")

\* A Value of every type, extensions with and without a length field, a map and an
\* array around and inside others; the four array methods.
Plain ==
  [how : {"EncodeValue"}, type : {Val},
   value : {Nil, Holding("Ext", <<5, 1, 2>>), Holding("Ext", <<255, 1, 2, 3>>),
            Typed(Slice(Val), << Nil, Holding("Bool", 1), Holding("Float32", One),
                                 Typed(MapOf(Val), a :> Holding("Uint64", 200)),
                                 Holding("Ext", Text(17)) >>),
            Typed(MapOf(Val), a :> Typed(Slice(Val), <<Holding("Int64", -40), Holding("String", a)>>)
                              @@ b :> Holding("Bytes", Text(2)))}]
  \cup UNION {
    [how : {"EncodeArray"}, type : {Slice(Of("Int64"))}, value : {Nil, <<-1, 200>>}],
    [how : {"EncodeArray"}, type : {Slice(Of("Uint64"))}, value : {[i \in 1..16 |-> i * 100]}],
    [how : {"EncodeArray"}, type : {Slice(Of("Float64"))}, value : {<<Minus0, Text(8)>>}],
    [how : {"EncodeArray"}, type : {Slice(Of("String"))}, value : {<<a, <<>>, Text(32)>>}] }

MCJobs == Structs \cup Others \cup Plain

MCNextJobs ==
  Encodings(Small, {Pairing(-1, a)}) \cup Encodings(Slice(Odd), {<<Pairing(<<1, 2>>, 0)>>})

\* What these are made of; the containers of Values are parts of Values only.
MCUniverse ==
  {x \in UNION {{Typed(y.type, y.value) : y \in Parts(j.type, j.value, FALSE)} :
                j \in MCJobs \cup MCNextJobs} :
     x.type.kind \in {"Slice", "Map"} => x.type.elem # Val}
=============================================================================
