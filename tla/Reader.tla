------------------------------- MODULE Reader -------------------------------
(***************************************************************************)
(* What every walk of a Decoder is built from: the buffer, the position in *)
(* it, the item whose format byte is at that position, and the checks of   *)
(* decoder.go on the length the item claims.                               *)
(***************************************************************************)
EXTENDS Wire

CONSTANTS
  MaxStringLen, MaxBinaryLen, MaxArrayLen, MaxMapLen, MaxExtLen, \* Config
  MaxDepth         \* Config.MaxDepth

ASSUME ConfigAssumption ==
  /\ {MaxStringLen, MaxBinaryLen, MaxArrayLen, MaxMapLen, MaxExtLen} \subseteq Int
  /\ MaxDepth \in Int

VARIABLES data, pos, depth   \* the fields of the Decoder

Errors == {"ErrUnexpectedEOF", "ErrInvalidFormat", "ErrTypeMismatch",
           "ErrStringTooLong", "ErrBinaryTooLong", "ErrArrayTooLong",
           "ErrMapTooLong", "ErrExtTooLong", "ErrMaxDepthExceeded", "ErrUnsupportedType"}

-----------------------------------------------------------------------------
(* Reading the item at pos.                                                *)

HasBytes(p, n) == p + n <= Len(data)

format  == data[pos+1]                    \* the format byte
kind    == Kind(format)
body    == pos + 1 + LenWidth(format)     \* first byte behind the length
itemLen == ItemLen(data, pos, format)

Limit(k) == CASE k = "str"   -> MaxStringLen
              [] k = "bin"   -> MaxBinaryLen
              [] k = "array" -> MaxArrayLen
              [] k = "map"   -> MaxMapLen
              [] k = "ext"   -> MaxExtLen

TooLong(k) == CASE k = "str"   -> "ErrStringTooLong"
                [] k = "bin"   -> "ErrBinaryTooLong"
                [] k = "array" -> "ErrArrayTooLong"
                [] k = "map"   -> "ErrMapTooLong"
                [] k = "ext"   -> "ErrExtTooLong"

\* Mutant of Values: a map loop that counts pairs where it reads values.
Values_Pairs == itemLen

\* Values the loop of a container reads, and the bytes validateArrayLen and
\* validateMapLen insist on: one per value.
Values == IF kind = "map" THEN 2 * itemLen ELSE itemLen

LenReadable == HasBytes(pos + 1, LenWidth(format))

\* Mutants of Validate: the limit alone; the bytes only where bytes follow, as
\* in readBytes; two bytes demanded per value of a container.
Validate_LimitOnly ==
  IF itemLen > Limit(kind) THEN TooLong(kind) ELSE "nil"
Validate_NotContainers ==
  IF itemLen > Limit(kind) THEN TooLong(kind)
  ELSE IF kind \notin {"array", "map"} /\ ~HasBytes(body, Values) THEN "ErrUnexpectedEOF"
  ELSE "nil"
Validate_TwoBytesEach ==
  IF itemLen > Limit(kind) THEN TooLong(kind)
  ELSE IF ~HasBytes(body, IF kind \in {"array", "map"} THEN 2 * Values ELSE Values)
    THEN "ErrUnexpectedEOF"
  ELSE "nil"

\* The validate*Len call on the length just read: the limit is looked at
\* before the bytes that remain.
Validate ==
  IF itemLen > Limit(kind) THEN TooLong(kind)
  ELSE IF ~HasBytes(body, Values) THEN "ErrUnexpectedEOF"
  ELSE "nil"
=============================================================================
