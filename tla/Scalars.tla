------------------------------ MODULE Scalars -------------------------------
(***************************************************************************)
(* Numbers, instants and lengths on their way through the wire, again and  *)
(* again: a Go value is encoded, what is written is read by one of the     *)
(* readers, and the Go value that gives is encoded in turn.  The first     *)
(* message may also be another program's.  This module is about values and *)
(* the widths they are given; the bytes are those of Wire.                 *)
(***************************************************************************)
EXTENDS Integers

CONSTANTS
  Span,       \* Span[w]: how many values w bytes have; 256^w in the code
  Second,     \* nanoseconds in a second
  IntWidth,   \* bytes in an int: 8, and 4 on a 32-bit platform
  MaxLen,     \* the Config limit on the length at hand
  Numbers, Instants, Lengths,   \* what may be encoded first ...
  Foreign                       \* ... and messages of other programs

Widths == {1, 2, 4, 8}

ASSUME SpanAssumption ==
  /\ Span \in [Widths -> Nat \ {0}]
  /\ Span[1] % 16 = 0 /\ \A w \in Widths : Span[w] % 4 = 0
  /\ Span[1] < Span[2] /\ Span[2] % Span[1] = 0
  /\ Span[2] < Span[4] /\ Span[4] % Span[2] = 0
  /\ Span[8] = Span[4] * Span[4]
ASSUME SecondAssumption == Second \in Nat \ {0} /\ 4 * Second <= Span[4]
ASSUME IntAssumption == IntWidth \in {4, 8} /\ MaxLen \in Nat

VARIABLES
  held,       \* the Go value, the item on the wire or the refusal of it
  origin,     \* history: what was held first
  fits,       \* history: every integer type on the way could hold the number
  narrowest   \* history: the width of the narrowest of them

vars == <<held, origin, fits, narrowest>>

-----------------------------------------------------------------------------
(* Go's integers.                                                          *)

Half(w) == Span[w] \div 2

IntTypes == [signed : BOOLEAN, width : Widths]
Signed(w)   == [signed |-> TRUE, width |-> w]
Unsigned(w) == [signed |-> FALSE, width |-> w]

Low(t)  == IF t.signed THEN -Half(t.width) ELSE 0
High(t) == IF t.signed THEN Half(t.width) - 1 ELSE Span[t.width] - 1
Holds(t, x) == Low(t) <= x /\ x <= High(t)

\* The conversion t(x): the low bits of x.
Convert(t, x) ==
  LET bits == x % Span[t.width]
  IN  IF bits > High(t) THEN bits - Span[t.width] ELSE bits

-----------------------------------------------------------------------------
(* Numbers.                                                                *)

Number(t, x) == [kind |-> "number", type |-> t, value |-> x]

\* An item: a format, the bytes of its payload and the word in them.  The
\* format byte of a fixint is its payload.
NumberItem(f, w, x) ==
  [kind |-> "number item", format |-> f, width |-> w, word |-> x % Span[w]]

\* The integers that a format of a width has words for.
FormatType(f, w) == IF f = "uint" THEN Unsigned(w) ELSE Signed(w)

\* Mutant of Fitting: 256 and -129 in a byte.
Fitting_OffByOne(f, x) ==
  IF Holds(FormatType(f, 1), IF f = "int" THEN x + 1 ELSE x - 1) THEN 1
  ELSE IF Holds(FormatType(f, 2), x) THEN 2
  ELSE IF Holds(FormatType(f, 4), x) THEN 4
  ELSE 8

\* The width that the comparisons of EncodeInt and EncodeUint end up with.
Fitting(f, x) ==
  IF Holds(FormatType(f, 1), x) THEN 1
  ELSE IF Holds(FormatType(f, 2), x) THEN 2
  ELSE IF Holds(FormatType(f, 4), x) THEN 4
  ELSE 8

EncodeUint(x) ==
  IF x < Half(1) THEN NumberItem("fixint", 1, x)
  ELSE NumberItem("uint", Fitting("uint", x), x)

\* Mutants of EncodeInt: signed formats for all numbers; a fixint for
\* every negative one.
EncodeInt_Signed(x) ==
  IF -(Span[1] \div 8) <= x /\ x < Half(1) THEN NumberItem("fixint", 1, x)
  ELSE NumberItem("int", Fitting("int", x), x)
EncodeInt_NoBound(x) ==
  IF x >= 0 THEN EncodeUint(x) ELSE NumberItem("fixint", 1, x)

EncodeInt(x) ==
  IF x >= 0 THEN EncodeUint(x)
  ELSE IF x >= -(Span[1] \div 8) THEN NumberItem("fixint", 1, x)
  ELSE NumberItem("int", Fitting("int", x), x)

\* What the readUint8 .. readInt64 of a format return.
Meaning(i) == Convert(FormatType(i.format, i.width), i.word)

NegativeFixint(i) == i.format = "fixint" /\ i.word >= Half(1)

\* The formats decodeUint has no case for, of the array helpers and the cached
\* decoder, and the one decodeValueUint and decodeUintValue have none for.
RefusedByUint(i)      == i.format = "int" \/ NegativeFixint(i)
RefusedByValueUint(i) == NegativeFixint(i)

\* The integers that Decode and DecodeAny tell apart, as a Go type.
ValueType(i) ==
  IF i.format = "int" \/ NegativeFixint(i) THEN Signed(8) ELSE Unsigned(8)
AnyType(i) == IF Meaning(i) >= Half(8) THEN Unsigned(8) ELSE Signed(8)

-----------------------------------------------------------------------------
(* Instants: seconds since 1970 and nanoseconds, a time.Time.              *)

Instant(s, n) == [kind |-> "instant", sec |-> s, nsec |-> n]

\* An extension of type -1: its format, the bytes of data and, for 12 bytes,
\* the first 4 of them apart.
InstantItem(f, n, first, x) ==
  [kind |-> "instant item", format |-> f, len |-> n, nsec |-> first, word |-> x]

\* 34 bits of seconds, below 30 bits of nanoseconds.
SecondsIn8 == 4 * Span[4]

\* Mutants of EncodeTimestamp: 4 bytes whatever the nanoseconds; 12 bytes for
\* every instant.
EncodeTimestamp_No64(s, n) ==
  IF 0 <= s /\ s < Span[4] THEN InstantItem("fixext", 4, 0, s)
  ELSE InstantItem("ext8", 12, n, s % Span[8])
EncodeTimestamp_Always12(s, n) == InstantItem("ext8", 12, n, s % Span[8])

EncodeTimestamp(s, n) ==
  IF n = 0 /\ 0 <= s /\ s < Span[4] THEN InstantItem("fixext", 4, 0, s)
  ELSE IF 0 <= s /\ s < SecondsIn8 THEN InstantItem("fixext", 8, 0, n * SecondsIn8 + s)
  ELSE InstantItem("ext8", 12, n, s % Span[8])

\* Mutant of Unix: nanoseconds are stored as they come.
Unix_AsIs(s, n) == Instant(Convert(Signed(8), s), n)

\* time.Unix moves whole seconds from the nanoseconds to the seconds.
Unix(s, n) == Instant(Convert(Signed(8), s + n \div Second), n % Second)

\* decodeTimestampValue and ExtToTimestamp.
TimeOf(i) ==
  IF i.len = 4 THEN Unix(i.word, 0)
  ELSE IF i.len = 8 THEN Unix(i.word % SecondsIn8, i.word \div SecondsIn8)
  ELSE Unix(Convert(Signed(8), i.word), i.nsec)

\* decodeTimestampDataLen knows one format for each payload.
ReadByDecodeTimestamp(i) == (i.format = "fixext") = (i.len \in {4, 8})

-----------------------------------------------------------------------------
(* Lengths of strings, binaries, extensions, arrays and maps, with the     *)
(* number of bytes that are there behind the header.                       *)

Sized == {"str", "bin", "ext", "array", "map"}

LengthOf(k, n, bytes) == [kind |-> "length", of |-> k, value |-> n, room |-> bytes]
LengthItem(k, w, n, bytes) ==
  [kind |-> "length item", of |-> k, width |-> w, word |-> n, room |-> bytes]

\* The lengths the format byte itself has room for.
InFormat(k, n) ==
  \/ k = "str" /\ n < Span[1] \div 8
  \/ k \in {"array", "map"} /\ n < Span[1] \div 16
  \/ k = "ext" /\ n \in {1, 2, 4, 8, 16}

\* Mutant of HeaderWidth: one byte for a length of 256.
HeaderWidth_Short(k, n) ==
  IF InFormat(k, n) THEN 0
  ELSE IF n <= Span[1] /\ k \in {"str", "bin", "ext"} THEN 1
  ELSE IF n < Span[2] THEN 2
  ELSE 4

HeaderWidth(k, n) ==
  IF InFormat(k, n) THEN 0
  ELSE IF n < Span[1] /\ k \in {"str", "bin", "ext"} THEN 1
  ELSE IF n < Span[2] THEN 2
  ELSE 4

\* The bytes a value of this length has at least.
Needed(k, n) == IF k = "map" THEN 2 * n ELSE n

\* How many lengths there are bits for: 5 or 4 of them in the format byte.
Room(k, w) ==
  IF w # 0 THEN Span[w]
  ELSE IF k = "str" THEN Span[1] \div 8 ELSE Span[1] \div 16

\* A fixext has one format for each length, and no bits for it.
EncodeLength(k, n) ==
  LET w == HeaderWidth(k, n)
  IN  LengthItem(k, w, IF w = 0 /\ k = "ext" THEN n ELSE n % Room(k, w), Needed(k, n))

\* int(n) of what was read, which is unsigned.
ToInt(n) == Convert(Signed(IntWidth), n)

\* Mutant of Valid: the limit alone.
Valid_LimitOnly(i) == ToInt(i.word) <= MaxLen

\* validateStringLen and its like.
Valid(i) ==
  LET n == ToInt(i.word)
  IN  n <= MaxLen /\ (IF i.of = "map" THEN ToInt(2 * n) ELSE n) <= i.room

-----------------------------------------------------------------------------
NumberTypes == [kind : {"number"}, type : IntTypes, value : Int]
NumberItems == [kind : {"number item"}, format : {"fixint", "uint", "int"},
                width : Widths, word : Nat]
InstantTypes == [kind : {"instant"}, sec : Int, nsec : Nat]
InstantItems == [kind : {"instant item"}, format : {"fixext", "ext8"}, len : {4, 8, 12},
                 nsec : Nat, word : Nat]
LengthTypes == [kind : {"length"}, of : Sized, value : Int, room : Nat]
LengthItems == [kind : {"length item"}, of : Sized, width : {0, 1, 2, 4}, word : Nat,
                room : Nat]
Items == NumberItems \cup InstantItems \cup LengthItems

\* The words of an item fit the bytes they are in.
WordFits(i) ==
  CASE i.kind = "number item"  -> i.word < Span[i.width]
    [] i.kind = "instant item" -> i.word < (IF i.len = 4 THEN Span[4] ELSE Span[8])
    [] i.kind = "length item"  -> i.word < Span[4]

\* What may come first: numbers of any size a Go type has, times, lengths that
\* an int holds, of what has the bytes its length says, and items whose words
\* have the width they should.
ASSUME InputAssumption ==
  /\ Numbers \subseteq Int
  /\ Instants \subseteq InstantTypes /\ Lengths \subseteq LengthTypes
  /\ \A x \in Instants : Holds(Signed(8), x.sec) /\ x.nsec < Second
  /\ \A x \in Lengths : /\ x.value >= 0 /\ Holds(Signed(IntWidth), x.value)
                         /\ x.room = Needed(x.of, x.value)
  /\ Foreign \subseteq Items /\ \A i \in Foreign : WordFits(i)

Refused(i) == [kind |-> "refused", item |-> i]

Init ==
  /\ held \in UNION { {Number(t, x) : t \in IntTypes, x \in Numbers} ,
                      Instants, Lengths, Foreign }
  /\ held.kind = "number" => Holds(held.type, held.value)
  /\ origin = held
  /\ fits = TRUE
  /\ narrowest = IF held.kind = "number" THEN held.type.width ELSE 8

\* Encode, EncodeValue, the cached encoder: by the kind of the variable.  (No
\* Go value has a negative length: who reads one panics.)
Write ==
  /\ held.kind \in {"number", "instant", "length"}
  /\ held.kind = "length" => held.value >= 0
  /\ held' = CASE held.kind = "number" ->
                    IF held.type.signed THEN EncodeInt(held.value) ELSE EncodeUint(held.value)
               [] held.kind = "instant" -> EncodeTimestamp(held.sec, held.nsec)
               [] held.kind = "length"  -> EncodeLength(held.of, held.value)
  /\ UNCHANGED <<origin, fits, narrowest>>

\* The number that was first held or written.
First == IF origin.kind = "number" THEN origin.value ELSE Meaning(origin)

\* The number x arrives in a variable of type t.
Arrive(t, x) ==
  /\ held' = Number(t, Convert(t, x))
  /\ fits' = (fits /\ Holds(t, First))
  /\ narrowest' = IF t.width < narrowest THEN t.width ELSE narrowest
  /\ UNCHANGED origin

Refuse == held' = Refused(held) /\ UNCHANGED <<origin, fits, narrowest>>

\* decodeInt, decodeValueInt, decodeIntValue: an int64, then the field's type.
ReadInt(t) == t.signed /\ Arrive(t, Convert(Signed(8), Meaning(held)))

\* decodeUint; decodeValueUint and decodeUintValue.
ReadUint(t) ==
  /\ ~t.signed
  /\ \/ RefusedByUint(held) /\ Refuse
     \/ ~RefusedByUint(held) /\ Arrive(t, Meaning(held))
ReadValueUint(t) ==
  /\ ~t.signed
  /\ \/ RefusedByValueUint(held) /\ Refuse
     \/ ~RefusedByValueUint(held) /\ Arrive(t, Convert(Unsigned(8), Meaning(held)))

\* Decode and DecodeAny choose the type by the item.
ReadValue == Arrive(ValueType(held), Meaning(held))
ReadAny   == Arrive(AnyType(held), Meaning(held))

ReadNumber ==
  /\ held.kind = "number item"
  /\ ReadValue \/ ReadAny
     \/ \E t \in IntTypes : ReadInt(t) \/ ReadUint(t) \/ ReadValueUint(t)

\* AsInt and AsUint of a Value.
As ==
  /\ held.kind = "number" /\ held.type.width = 8
  /\ \E t \in IntTypes : t.width = 8 /\ Arrive(t, held.value)

\* DecodeTimestamp; Decode and ExtToTimestamp.
ReadInstant ==
  /\ held.kind = "instant item"
  /\ \/ /\ IF ReadByDecodeTimestamp(held) THEN held' = TimeOf(held) ELSE held' = Refused(held)
     \/ /\ IF held.len <= MaxLen THEN held' = TimeOf(held) ELSE held' = Refused(held)
  /\ UNCHANGED <<origin, fits, narrowest>>

\* The parse*Len and the validate*Len that follow the format byte.
ReadLength ==
  /\ held.kind = "length item"
  /\ held' = IF Valid(held) THEN LengthOf(held.of, ToInt(held.word), held.room) ELSE Refused(held)
  /\ UNCHANGED <<origin, fits, narrowest>>

Next ==
  \/ Write
  \/ As
  \/ ReadNumber
  \/ ReadInstant
  \/ ReadLength

Spec == Init /\ [][Next]_vars
-----------------------------------------------------------------------------
(* Properties.                                                             *)

\* A variable holds what its type can hold, a time.Time is in its normal form
\* and a word fits the bytes it is written in.
TypeOK ==
  /\ held \in NumberTypes \cup InstantTypes \cup LengthTypes \cup Items
             \cup [kind : {"refused"}, item : Items]
  /\ held.kind = "number" => Holds(held.type, held.value)
  /\ held \in Items => WordFits(held)
  /\ held.kind = "instant" => Holds(Signed(8), held.sec) /\ held.nsec < Second
  /\ fits \in BOOLEAN /\ narrowest \in Widths

\* However often a number is encoded and decoded, by whatever readers and
\* through whatever types: as long as each of them can hold it, it is the
\* number it was.
NumbersKept == held.kind = "number" /\ fits => held.value = First

\* ... and when some type on the way cannot, what is left agrees with it in the
\* bits of the narrowest one: no reader or encoder loses more than the types
\* do.  (The code checks no range and reports no error here.)
NumbersWrap == held.kind = "number" => (held.value - First) % Span[narrowest] = 0

\* What this encoder has written for a number an unsigned reader refuses only
\* when the number is negative.
RefusalsJustified ==
  held.kind = "refused" /\ held.item.kind = "number item" =>
    \/ Meaning(held.item) < 0
    \/ held.item \notin {EncodeInt(Meaning(held.item)), EncodeUint(Meaning(held.item))}

\* The instant that was first held or written, in seconds and nanoseconds.
FirstSec ==
  IF origin.kind = "instant" THEN origin.sec
  ELSE IF origin.len = 8 THEN origin.word % SecondsIn8
  ELSE IF origin.len = 4 THEN origin.word
  ELSE Convert(Signed(8), origin.word)
FirstNsec ==
  IF origin.kind = "instant" THEN origin.nsec
  ELSE IF origin.len = 8 THEN origin.word \div SecondsIn8
  ELSE IF origin.len = 4 THEN 0
  ELSE origin.nsec

\* An instant that is encoded and decoded, by DecodeTimestamp or by way of an
\* Ext, again and again, is the instant it was, to the nanosecond; so is one of
\* another program whose nanoseconds are a second or more, unless it is later
\* than a time.Time can be.
InstantsKept ==
  held.kind = "instant" =>
    \/ (held.sec - FirstSec) * Second = FirstNsec - held.nsec
    \/ FirstSec + FirstNsec \div Second >= Half(8)

\* A length that is written and read is the length it was, unless it does not
\* fit in the four bytes there are for it.
LengthsKept ==
  held.kind = "length" /\ origin.kind = "length" =>
    held.value = origin.value \/ origin.value >= Span[4]

\* A length that has been read is not negative, and the bytes for it are there:
\* what is sliced and allocated by it is backed by the message.
LengthsBacked ==
  held.kind = "length" =>
    0 <= held.value /\ Needed(held.of, held.value) <= held.room

\* The bytes of an item, without those of what a length is the length of (and
\* without the type byte of an extension).
SizeOf(i) ==
  CASE i.kind = "number item"  -> IF i.format = "fixint" THEN 1 ELSE 1 + i.width
    [] i.kind = "instant item" -> (IF i.format = "fixext" THEN 2 ELSE 3) + i.len
    [] i.kind = "length item"  -> 1 + i.width

\* What the MessagePack format offers, as the sizes in which it can hold a
\* number, an instant or a length: the fixint, then a payload of each width; the
\* fixext 4, the fixext 8 and the ext 8 of 12 bytes; the lengths that are part
\* of a format, then a length field of each width.
NumberSizes(x) ==
  (IF -(Span[1] \div 8) <= x /\ x < Half(1) THEN {1} ELSE {})
  \cup {1 + w : w \in {v \in Widths : Holds(Signed(v), x) \/ Holds(Unsigned(v), x)}}

InstantSizes(s, n) ==
  {15} \cup (IF 0 <= s /\ s < SecondsIn8 THEN {10} ELSE {})
       \cup (IF n = 0 /\ 0 <= s /\ s < Span[4] THEN {6} ELSE {})

FixLengths(k) ==
  CASE k = "str" -> 0..(Span[1] \div 8 - 1)
    [] k = "bin" -> {}
    [] k = "ext" -> {1, 2, 4, 8, 16}
    [] k \in {"array", "map"} -> 0..(Span[1] \div 16 - 1)

LengthSizes(k, n) ==
  (IF n \in FixLengths(k) THEN {1} ELSE {})
  \cup {1 + w : w \in {v \in {1, 2, 4} :
                       n < Span[v] /\ (v = 1 => k \in {"str", "bin", "ext"})}}

\* z is one of these sizes, and the least of them.
Least(z, sizes) == z \in sizes /\ \A y \in sizes : z <= y

Shortest(v, i) ==
  CASE v.kind = "number"  -> Least(SizeOf(i), NumberSizes(v.value))
    [] v.kind = "instant" -> Least(SizeOf(i), InstantSizes(v.sec, v.nsec))
    [] v.kind = "length"  ->
         v.value < Span[4] => Least(SizeOf(i), LengthSizes(v.of, v.value))

ItemKinds == {"number item", "instant item", "length item"}

\* What the comments promise ("using the most compact format"): every number,
\* instant and length is written in a size that can hold it, and in the smallest
\* such size that the MessagePack format has.
MostCompact == [][held'.kind \in ItemKinds => Shortest(held, held')]_vars
=============================================================================
