------------------------------ MODULE RoundTrip ------------------------------
(***************************************************************************)
(* An Encoder and the decoders: what the calls of Encoder have written is  *)
(* handed to Unmarshal, or to the cached decoder of the type that was      *)
(* encoded first, and read into a new destination of that type.            *)
(***************************************************************************)
EXTENDS Encoder

CONSTANTS
  MaxStringLen, MaxBinaryLen, MaxArrayLen, MaxMapLen, MaxExtLen, MaxDepth

VARIABLES data, pos, depth, walk, root, stack, result, dst   \* the decoder's

D == INSTANCE StructDecode WITH
       Types <- {}, OuterLevels <- <<>>, Jobs <- {}, NextMessages <- {}, MaxCalls <- 1,
       status <- result, before <- <<>>, calls <- 1
G == INSTANCE Trees

decoder == <<data, pos, depth, walk, root, stack, result, dst>>

-----------------------------------------------------------------------------
RoundTripInit ==
  /\ Init
  /\ data = <<>> /\ pos = 0 /\ depth = 0
  /\ walk = "reflect" /\ root = Nil
  /\ stack = <<>> /\ result = "idle" /\ dst = <<>>

\* The decoders that give what the encoder took: Unmarshal(e.Bytes(), &v) and
\* Decode of the StructDecoder for v's type, DecodeInt64Array and its like, Decode
\* for a Value.
Decoders(j) ==
  CASE j.how = "EncodeValue" -> {"plain"}
    [] j.how = "EncodeArray" -> {"plain", "reflect"}
    [] j.how = "encodeInto" \/ j.type.kind = "Struct" -> {"reflect", "cached"}
    [] OTHER -> {"reflect"}

\* A caller who has seen an error does not go on without a Reset.
Deliver ==
  /\ status = "ok" /\ ~broken /\ result = "idle"
  /\ data' = Contents /\ pos' = 0 /\ depth' = 0
  /\ root' = sent[1].job.type
  /\ walk' \in Decoders(sent[1].job)
  /\ stack' = << D!Frame(Ptr(root'), 1, FALSE, {<<>>}, 0, FALSE) >>
  /\ result' = "running"
  /\ UNCHANGED <<vars, dst>>

RoundTripNext ==
  \/ result = "idle" /\ Next /\ UNCHANGED decoder
  \/ Deliver
  \/ D!Step /\ UNCHANGED vars

RoundTripSpec == RoundTripInit /\ [][RoundTripNext]_<<vars, decoder>>

-----------------------------------------------------------------------------
(* The reference: what a well-formed value x, as Grammar reads it, says of *)
(* a Go value.                                                             *)

\* The integer that x holds, as the format is specified: big-endian, and of two's
\* complement if signed.
Number(x) ==
  LET bits == G!Big(x.bytes, 1, x.len)
  IN  CASE x.first \in 0..127   -> x.first
        [] x.first \in 224..255 -> x.first - 256
        [] x.first \in 204..207 -> bits
        [] x.first \in 208..211 -> IF x.text[1] < 128 THEN bits ELSE bits - 256 ^ x.len

\* v cannot be told from the zero value of t by looking below pointers.
RECURSIVE IsZero(_, _)
IsZero(t, v) ==
  \/ v = Nil
  \/ t.kind \in Ints \cup Uints \cup {"Bool"} /\ v = 0
  \/ t.kind \in Floats /\ \A i \in DOMAIN v : v[i] = 0 \/ (i = 1 /\ v[i] = 128)
  \/ t.kind = "String" /\ v = <<>>
  \/ t.kind \in {"Slice", "Bytes", "Map"} /\ v = <<>>
  \/ t.kind = "Struct" /\ \A n \in DOMAIN t.fields : IsZero(t.fields[n], v[n])
  \/ t.kind \in {"Array", "Ptr"} /\ v # Nil /\ \A i \in DOMAIN v : IsZero(t.elem, v[i])

\* x is an encoding of the value v of type t; a field that is missing is zero.
RECURSIVE Says(_, _, _)
Says(x, t, v) ==
  CASE v = Nil -> G!IsNil(x) \/ (x.kind \in {"array", "map", "bin"} /\ x.len = 0)
    [] t.kind = "Ptr" /\ v # Nil       -> Says(x, t.elem, v[1])
    [] t.kind \in {"Interface", "Value"} /\ v # Nil -> Says(x, v.type, v.value)
    [] t.kind \in Ints \cup Uints -> x.kind = "scalar" /\ Number(x) = v
    [] t.kind = "Float32" -> x.first = 202 /\ x.text = v
    [] t.kind = "Float64" -> x.first = 203 /\ x.text = v
    [] t.kind = "Bool"    -> x.first = 194 + v
    [] t.kind = "String"  -> x.kind = "str" /\ x.text = v
    [] t.kind = "Bytes" /\ v # Nil -> x.kind = "bin" /\ x.text = v
    [] t.kind = "Ext"     -> x.kind = "ext" /\ x.text = v
    [] t.kind \in {"Slice", "Array"} /\ v # Nil ->
         /\ x.kind = "array" /\ x.len = Len(v)
         /\ \A i \in 1..x.len : Says(x.kids[i], t.elem, v[i])
    [] t.kind = "Time" -> x.kind = "map" /\ x.len = 0     \* and nothing more
    [] t.kind = "Map" /\ v # Nil ->
         /\ x.kind = "map" /\ x.len = Cardinality(DOMAIN v)
         /\ \A n \in DOMAIN v : \E i \in 1..x.len :
              /\ G!KeyOf(x, i).kind = "str" /\ G!KeyOf(x, i).text = n
              /\ Says(G!ItemOf(x, i), t.elem, v[n])
    [] t.kind = "Struct" ->
         LET names == [i \in 1..x.len |-> G!KeyOf(x, i).text]
         IN  /\ x.kind = "map" /\ Cardinality({names[i] : i \in 1..x.len}) = x.len
             /\ \A i \in 1..x.len : Says(G!ItemOf(x, i), t.fields[names[i]], v[names[i]])
             /\ \A n \in DOMAIN t.fields :
                  (\A i \in 1..x.len : names[i] # n) => IsZero(t.fields[n], v[n])
    [] OTHER -> FALSE

\* The kind of what a pointer points to or an interface or a Value holds.
RECURSIVE Concrete(_, _)
Concrete(t, v) ==
  CASE v = Nil -> "Nil"
    [] v # Nil /\ t.kind = "Ptr" -> Concrete(t.elem, v[1])
    [] v # Nil /\ t.kind \in {"Interface", "Value"} -> Concrete(v.type, v.value)
    [] OTHER -> t.kind

\* The headers that could stand in front of a text of that kind.
Headers(k, text) ==
  CASE text # <<>> /\ k \in {"Slice", "Array"} -> {<<220>> \o BigEndian16(n) : n \in 1..Len(text)}
    [] text # <<>> /\ k \in {"Map", "Struct"}  -> {<<222>> \o BigEndian16(n) : n \in 1..Len(text)}
    [] OTHER -> {<<>>}

\* The value that is stored below the place p of the destination is v.  (What is
\* stored of a container is the text behind its header.)
RECURSIVE Holds(_, _, _)
Holds(p, t, v) ==
  CASE t.kind = "Struct" -> \A n \in DOMAIN t.fields : Holds(Append(p, n), t.fields[n], v[n])
    [] t.kind = "Array" /\ v # Nil -> \A i \in DOMAIN v : Holds(Append(p, <<i>>), t.elem, v[i])
    [] t.kind = "Ptr" /\ v # Nil   -> Holds(p, t.elem, v[1])
    [] OTHER ->
         LET text == D!Content(p)
         IN  IF text = <<>> THEN IsZero(t, v)
             ELSE \E h \in Headers(Concrete(t, v), text) :
                    LET item == h \o text
                        doc  == G!ValueAt(item, 0)
                    IN  doc.ok /\ doc.end = Len(item) /\ Says(G!Tree(item, 0), t, v)

-----------------------------------------------------------------------------
(* What is not carried over, by what the code has no case for.             *)

\* The value as StructEncoder writes it: nil for the fields of these kinds.
AsWritten(j) ==
  IF j.how # "encodeInto" THEN j.value
  ELSE [n \in DOMAIN j.value |->
          IF j.type.fields[n].kind \in {"Interface", "Array", "Chan"} THEN Nil ELSE j.value[n]]

\* The parts of a value, each with its type, and whether it is in a struct.
RECURSIVE Parts(_, _, _)
Parts(t, v, inside) ==
  {[type |-> t, value |-> v, inside |-> inside]} \cup
    IF v = Nil THEN {}
    ELSE CASE t.kind \in {"Interface", "Value"} -> Parts(v.type, v.value, inside)
           [] t.kind \in {"Slice", "Array", "Ptr", "Map"} ->
                UNION {Parts(t.elem, v[i], inside) : i \in DOMAIN v}
           [] t.kind = "Struct" -> UNION {Parts(t.fields[n], v[n], TRUE) : n \in DOMAIN v}
           [] OTHER -> {}

\* decodeNestedStruct has a case for every field of t, however deep.
RECURSIVE AllNested(_)
AllNested(t) ==
  t.kind = "Struct" =>
    \A n \in DOMAIN t.fields : D!InNested(t.fields[n]) /\ AllNested(t.fields[n])

\* The walk has a case for what it meets.  decodeIntoValue loses a byte where a
\* pointer is, decodeReflect refuses nil for one; only decodeReflect reads a time,
\* but then none that Encode has written; in a map the cached walk reads no nil.
Carried(t, v) ==
  /\ \A x \in Parts(t, v, FALSE) : x.type.kind # "Time"
  /\ walk = "reflect" => \A x \in Parts(t, v, FALSE) :
       x.type.kind = "Ptr" => x.inside = (x.value = Nil)
  /\ walk = "cached"  => \A n \in DOMAIN t.fields :
       /\ D!InField(t.fields[n]) /\ AllNested(t.fields[n])
       /\ (t.fields[n].kind = "Map" /\ t.fields[n].elem.kind = "Map" /\ v[n] # Nil)
            => \A k \in DOMAIN v[n] : v[n][k] # Nil

-----------------------------------------------------------------------------
(* Properties.                                                             *)

\* The bytes of the i-th call.
Encoding(i) == SubSeq(Contents, sent[i].from + 1, sent[i].to)

\* Every call that succeeds appends exactly one well-formed value, and that value
\* says what was to be encoded: every length agrees with what follows it, and no
\* field is lost but those that are zero.  What other calls append before and
\* after, or leave behind when they fail, does not change it; and as long as none
\* has failed the buffer is these values and nothing else.
EachCallIsOneValue ==
  status # "running" /\ result = "idle" =>
    /\ \A i \in DOMAIN sent :
         /\ G!ValueAt(Encoding(i), 0).ok
         /\ G!Tree(Encoding(i), 0).end = Len(Encoding(i))
         /\ Says(G!Tree(Encoding(i), 0), sent[i].job.type, AsWritten(sent[i].job))
    /\ CallsFillBuffer

\* What one of the encoders has written, each of the decoders reads back: the
\* decode succeeds, consumes the one value that was encoded first, and leaves the
\* value in the destination, for every type that both have a case for.
RoundTrips ==
  \A j \in {sent[i].job : i \in DOMAIN sent \cap {1}} :
    result \notin {"idle", "running"} =>
      /\ result \in {"ok"} \cup D!Errors
      /\ Carried(j.type, AsWritten(j)) =>
           /\ result = "ok" /\ pos = sent[1].to /\ depth = 0
           /\ Holds(<<>>, j.type, AsWritten(j))
=============================================================================
