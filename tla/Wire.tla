-------------------------------- MODULE Wire --------------------------------
(***************************************************************************)
(* The MessagePack format bytes as format.go classifies them, and the      *)
(* lengths that the parse*Len helpers of decode_struct.go read behind      *)
(* them.  A byte is a number in 0..255; a message is a sequence of bytes.  *)
(* A mask test such as b & 0xf0 == 0x90 is written with \div.              *)
(***************************************************************************)
EXTENDS Integers, Sequences

Byte == 0..255

-----------------------------------------------------------------------------
(* The mask tests of format.go.                                            *)

isPositiveFixint(b) == b \div 128 = 0
isNegativeFixint(b) == b >= 224
isFixmap(b)         == b \div 16 = 8
isFixarray(b)       == b \div 16 = 9
isFixstr(b)         == b \div 32 = 5

-----------------------------------------------------------------------------
(* What the switch of decodeValue, DecodeAny and decodeAnyValue tells      *)
(* apart: the kind of item a format byte opens.  0xc1 is in no case of the *)
(* switch and reaches its default.                                         *)

NilBool == {192, 194, 195}
Number  == 202..211
Str     == 217..219
Bin     == 196..198
Array   == {220, 221}
Map     == {222, 223}
FixExt  == 212..216
VarExt  == 199..201

Kind(b) ==
  CASE isPositiveFixint(b) \/ isNegativeFixint(b) -> "scalar"
    [] isFixmap(b)   \/ b \in Map    -> "map"
    [] isFixarray(b) \/ b \in Array  -> "array"
    [] isFixstr(b)   \/ b \in Str    -> "str"
    [] b \in NilBool \cup Number     -> "scalar"
    [] b \in Bin                     -> "bin"
    [] b \in FixExt \cup VarExt      -> "ext"
    [] OTHER                         -> "invalid"

\* Bytes of payload behind a scalar's format byte: the readUint8 ..
\* readUint64 the number cases call.
ScalarWidth(b) ==
  IF b \in {204, 208} THEN 1                \* uint8, int8
  ELSE IF b \in {205, 209} THEN 2           \* uint16, int16
  ELSE IF b \in {202, 206, 210} THEN 4      \* float32, uint32, int32
  ELSE IF b \in {203, 207, 211} THEN 8      \* float64, uint64, int64
  ELSE 0

\* Width of the length field behind a format byte; 0 when the byte itself
\* carries the length (fixstr, fixarray, fixmap, fixext).
LenWidth(b) ==
  IF b \in {217, 196, 199} THEN 1                    \* str8, bin8, ext8
  ELSE IF b \in {218, 197, 200, 220, 222} THEN 2     \* str16 .. map16
  ELSE IF b \in {219, 198, 201, 221, 223} THEN 4     \* str32 .. map32
  ELSE 0

\* decodeExt(1) .. decodeExt(16), for 0xd4 .. 0xd8
FixExtLen == <<1, 2, 4, 8, 16>>

\* The length the format byte itself carries.
FixLen(b) ==
  IF isFixmap(b) \/ isFixarray(b) THEN b % 16
  ELSE IF isFixstr(b) THEN b % 32
  ELSE IF b \in FixExt THEN FixExtLen[b - 211]
  ELSE 0

\* binary.BigEndian: the w bytes of d from offset p, most significant first.
Digit(high, low) == 256 * high + low
BigEndian(d, p, w) ==
  IF w = 1 THEN d[p+1]
  ELSE IF w = 2 THEN Digit(d[p+1], d[p+2])
  ELSE Digit(Digit(Digit(d[p+1], d[p+2]), d[p+3]), d[p+4])

\* The length of the item whose format byte b was read at offset p.
ItemLen(d, p, b) ==
  IF LenWidth(b) = 0 THEN FixLen(b) ELSE BigEndian(d, p + 1, LenWidth(b))
=============================================================================
