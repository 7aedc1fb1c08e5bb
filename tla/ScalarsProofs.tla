--------------------------- MODULE ScalarsProofs ----------------------------
(***************************************************************************)
(* What holds of Scalars for every span of a byte, every set of values and *)
(* every number of hops.                                                   *)
(***************************************************************************)
EXTENDS Scalars, TLAPS

-----------------------------------------------------------------------------
(* Spans and words.                                                        *)

\* The words of a width can be halved, and 8 bytes have room for 4 (encoder.go's
\* constants).
LEMMA SpanFacts ==
  /\ \A w \in Widths : Span[w] \in Nat /\ Span[w] >= 4 /\ Half(w) \in Nat /\ 2 * Half(w) = Span[w]
  /\ Span[1] >= 16
  /\ Span[1] < Span[2] /\ Span[2] < Span[4] /\ 4 * Span[4] <= Span[8]
  /\ Half(1) < Half(2) /\ Half(2) < Half(4) /\ 2 * Span[4] <= Half(8)
<1>1. ASSUME NEW w \in Widths
      PROVE  Span[w] \in Nat /\ Span[w] >= 4 /\ Half(w) \in Nat /\ 2 * Half(w) = Span[w]
  <2>1. Span[w] \in Nat \ {0} /\ Span[w] % 4 = 0
    BY SpanAssumption
  <2>2. QED  BY <2>1 DEF Half
<1>2. Span[1] >= 16
  BY <1>1, SpanAssumption DEF Widths
<1>3. Span[4] >= 18
  BY <1>1, <1>2, SpanAssumption DEF Widths
<1>4. 4 * Span[4] <= Span[8]
  <2>1. \A x \in Nat : x >= 4 => 4 * x <= x * x
    OBVIOUS
  <2>2. QED  BY <1>1, <2>1, <1>3, SpanAssumption DEF Widths
<1>5. 2 * Half(1) = Span[1] /\ 2 * Half(2) = Span[2] /\ 2 * Half(4) = Span[4]
      /\ 2 * Half(8) = Span[8]
  BY <1>1 DEF Widths
<1>6. {Half(1), Half(2), Half(4), Half(8), Span[1], Span[2], Span[4], Span[8]} \subseteq Nat
  BY <1>1 DEF Widths
<1>7. QED  BY <1>1, <1>2, <1>4, <1>5, <1>6, SpanAssumption

\* No width has more words than eight bytes have (encoder.go's constants).
LEMMA SpanOrder ==
  ASSUME NEW w \in Widths
  PROVE  /\ Span[w] \in Nat /\ Half(w) \in Nat /\ Span[8] \in Nat /\ Half(8) \in Nat
         /\ Span[w] <= Span[8] /\ Half(w) <= Half(8)
<1>1. \A v \in Widths : Span[v] \in Nat /\ Half(v) \in Nat /\ 2 * Half(v) = Span[v]
  BY SpanFacts
<1>2. {1, 2, 4, 8} = Widths
  BY DEF Widths
<1>3. Span[1] < Span[2] /\ Span[2] < Span[4] /\ Span[4] <= Span[8]
  <2>1. Span[1] < Span[2] /\ Span[2] < Span[4] /\ 4 * Span[4] <= Span[8]
    BY SpanFacts
  <2>2. QED  BY <1>1, <1>2, <2>1
<1>4. Span[w] <= Span[8]
  BY <1>1, <1>2, <1>3
<1>5. 2 * Half(w) = Span[w] /\ 2 * Half(8) = Span[8] /\ Half(w) \in Nat /\ Half(8) \in Nat
  BY <1>1, <1>2
<1>6. Half(w) <= Half(8)
  BY <1>4, <1>5
<1>7. QED  BY <1>1, <1>2, <1>4, <1>6

\* 34 bits are half of 64 at most, where 16 of 32 would not be.
LEMMA SpanRoom == 4 * Span[4] <= Half(8)
<1>1. Span[4] \in Nat /\ Span[4] >= 18 /\ 2 * Half(8) = Span[4] * Span[4] /\ Half(8) \in Nat
  BY SpanFacts, SpanAssumption DEF Widths
<1>2. \A x \in Nat : x >= 8 => 8 * x <= x * x
  OBVIOUS
<1>3. 8 * Span[4] <= 2 * Half(8)
  BY <1>1, <1>2
<1>4. QED  BY <1>1, <1>3

\* What % leaves of a number that fits, and of one that does not.
LEMMA Words ==
  ASSUME NEW S \in Nat, S > 0, NEW x \in Int
  PROVE  /\ x % S \in 0..(S - 1)
         /\ 0 <= x /\ x < S => x % S = x
         /\ -S <= x /\ x < 0 => x % S = x + S
OBVIOUS

\* A conversion gives a number the type holds, and that number if it held it
\* (Go's integer conversions, which every reader ends with).
LEMMA ConvertFacts ==
  ASSUME NEW t \in IntTypes, NEW x \in Int
  PROVE  /\ Convert(t, x) \in Int
         /\ Holds(t, Convert(t, x))
         /\ Holds(t, x) => Convert(t, x) = x
<1> DEFINE S == Span[t.width]
           H == Half(t.width)
           b == x % S
<1>1. t.width \in Widths /\ t.signed \in BOOLEAN
  BY DEF IntTypes
<1>2. S \in Nat /\ S >= 4 /\ H \in Nat /\ 2 * H = S
  BY <1>1, SpanFacts
<1>3. b \in 0..(S - 1) /\ (0 <= x /\ x < S => b = x) /\ (-S <= x /\ x < 0 => b = x + S)
  BY <1>2, Words
<1>4. CASE t.signed
  <2>1. Convert(t, x) = IF b > H - 1 THEN b - S ELSE b
    BY <1>4 DEF Convert, High
  <2>2. \A y : Holds(t, y) <=> -H <= y /\ y <= H - 1
    BY <1>4 DEF Holds, High, Low
  <2> HIDE DEF S, H, b
  <2>3. QED  BY <2>1, <2>2, <1>2, <1>3
<1>5. CASE ~t.signed
  <2>1. Convert(t, x) = IF b > S - 1 THEN b - S ELSE b
    BY <1>5 DEF Convert, High
  <2>2. \A y : Holds(t, y) <=> 0 <= y /\ y <= S - 1
    BY <1>5 DEF Holds, High, Low
  <2> HIDE DEF S, H, b
  <2>3. QED  BY <2>1, <2>2, <1>2, <1>3
<1>6. QED  BY <1>4, <1>5

\* What is a multiple of a span of words: the bits of one word of it are zero.
Multiple(S, x) == \E q \in Int : x = q * S

\* A multiple leaves no remainder, and a remainder differs from the number by one.
LEMMA MultipleMod ==
  ASSUME NEW S \in Nat, S > 0, NEW x \in Int
  PROVE  /\ Multiple(S, x) <=> x % S = 0
         /\ Multiple(S, (x % S) - x) /\ x % S \in Int
<1>1. x \div S \in Int /\ x = (x \div S) * S + (x % S) /\ x % S \in Int
  OBVIOUS
<1>2. (x % S) - x = (-(x \div S)) * S /\ -(x \div S) \in Int
  BY <1>1
<1>3. ASSUME NEW q \in Int PROVE (q * S) % S = 0
  OBVIOUS
<1>4. x % S = 0 => x = (x \div S) * S
  BY <1>1
<1>5. QED  BY <1>1, <1>2, <1>3, <1>4 DEF Multiple

\* Zero is a multiple of every number, and so is the number itself.
LEMMA MultipleSelf ==
  ASSUME NEW S \in Nat, NEW x \in Int
  PROVE  Multiple(S, x - x) /\ Multiple(S, S)
<1>1. x - x = 0 * S /\ S = 1 * S
  OBVIOUS
<1>2. QED  BY <1>1 DEF Multiple

\* The sum of multiples is one.
LEMMA MultipleSum ==
  ASSUME NEW S \in Nat, NEW x \in Int, NEW y \in Int, Multiple(S, x), Multiple(S, y)
  PROVE  Multiple(S, x + y)
<1>1. PICK p \in Int, q \in Int : x = p * S /\ y = q * S
  BY DEF Multiple
<1>2. x + y = (p + q) * S /\ p + q \in Int
  BY <1>1
<1>3. QED  BY <1>2 DEF Multiple

\* A multiple of a multiple is one.
LEMMA MultipleChain ==
  ASSUME NEW S \in Nat, NEW T \in Nat, NEW x \in Int, Multiple(S, x), Multiple(T, S)
  PROVE  Multiple(T, x)
<1>1. PICK p \in Int, q \in Int : x = p * S /\ S = q * T
  BY DEF Multiple
<1>2. x = (p * q) * T /\ p * q \in Int
  BY <1>1
<1>3. QED  BY <1>2 DEF Multiple

\* Wider words are so many narrower ones (encoder.go's constants).
LEMMA SpanDivides ==
  ASSUME NEW v \in Widths, NEW w \in Widths, v <= w
  PROVE  Multiple(Span[v], Span[w])
<1>1. \A u \in Widths : Span[u] \in Nat /\ Span[u] > 0
  BY SpanFacts
<1>2. \A u \in Widths : Multiple(Span[u], Span[u])
  BY <1>1, MultipleSelf
<1>3. Multiple(Span[1], Span[2]) /\ Multiple(Span[2], Span[4])
  <2>1. 1 \in Widths /\ 2 \in Widths /\ 4 \in Widths
    BY DEF Widths
  <2>2. Span[2] % Span[1] = 0 /\ Span[4] % Span[2] = 0
    BY SpanAssumption
  <2>3. /\ Span[1] \in Nat /\ Span[1] > 0 /\ Span[2] \in Nat /\ Span[2] > 0
        /\ Span[2] \in Int /\ Span[4] \in Int
    BY <1>1, <2>1
  <2>4. Multiple(Span[1], Span[2])
    BY <2>2, <2>3, MultipleMod
  <2>5. Multiple(Span[2], Span[4])
    BY <2>2, <2>3, MultipleMod
  <2>6. QED  BY <2>4, <2>5
<1>4. Multiple(Span[4], Span[8])
  BY <1>1, SpanAssumption DEF Multiple, Widths
<1>5. Multiple(Span[1], Span[4]) /\ Multiple(Span[2], Span[8])
  BY <1>1, <1>3, <1>4, MultipleChain DEF Widths
<1>6. Multiple(Span[1], Span[8])
  BY <1>1, <1>3, <1>5, MultipleChain DEF Widths
<1>7. QED  BY <1>2, <1>3, <1>4, <1>5, <1>6 DEF Widths

\* A conversion changes a number by whole words of its type.
LEMMA ConvertWraps ==
  ASSUME NEW t \in IntTypes, NEW x \in Int
  PROVE  Multiple(Span[t.width], Convert(t, x) - x)
<1> DEFINE S == Span[t.width]
           b == x % S
<1>1. S \in Nat /\ S > 0
  BY SpanFacts DEF IntTypes
<1> HIDE DEF S
<1>2. Multiple(S, b - x) /\ b \in Int
  BY <1>1, MultipleMod
<1> USE DEF S
<1>3. Convert(t, x) = b \/ Convert(t, x) = b - S
  BY DEF Convert
<1>4. -S = (-1) * S
  BY <1>1
<1> HIDE DEF b, S
<1>5. Multiple(S, -S)
  BY <1>4 DEF Multiple
<1>6. Multiple(S, (b - x) + (-S))
  BY <1>1, <1>2, <1>5, MultipleSum
<1>7. (b - x) + (-S) = (b - S) - x
  BY <1>1, <1>2
<1>8. QED  BY <1>2, <1>3, <1>6, <1>7 DEF S

\* What the two kinds of types hold.
LEMMA SignedRange ==
  ASSUME NEW w \in Widths, NEW x \in Int
  PROVE  Holds(Signed(w), x) <=> -Half(w) <= x /\ x <= Half(w) - 1
BY DEF Holds, High, Low, Signed
\* The same for unsigned ones.
LEMMA UnsignedRange ==
  ASSUME NEW w \in Widths, NEW x \in Int
  PROVE  Holds(Unsigned(w), x) <=> 0 <= x /\ x <= Span[w] - 1
BY DEF Holds, High, Low, Unsigned

-----------------------------------------------------------------------------
(* Numbers.                                                                *)

\* The type a signed or unsigned format of a width is read as.
LEMMA TypesOfWidths ==
  ASSUME NEW w \in Widths
  PROVE  Signed(w) \in IntTypes /\ Unsigned(w) \in IntTypes
BY DEF Signed, Unsigned, IntTypes

\* The width EncodeInt and EncodeUint choose has room for the number.
LEMMA FittingHolds ==
  ASSUME NEW x \in Int, NEW f \in {"int", "uint"}, Holds(FormatType(f, 8), x)
  PROVE  Fitting(f, x) \in Widths /\ Holds(FormatType(f, Fitting(f, x)), x)
BY DEF Fitting, Widths

\* What is written has the fields it is given, and its word fits.
LEMMA NumberItemFields ==
  ASSUME NEW f \in {"fixint", "uint", "int"}, NEW w \in Widths, NEW x \in Int
  PROVE  LET i == NumberItem(f, w, x)
         IN  /\ i \in NumberItems /\ WordFits(i)
             /\ i.format = f /\ i.width = w /\ i.word = x % Span[w]
<1>1. Span[w] \in Nat /\ Span[w] > 0
  BY SpanFacts
<1>2. x % Span[w] \in 0..(Span[w] - 1)
  BY <1>1, Words
<1>3. x % Span[w] \in Nat /\ x % Span[w] < Span[w]
  BY <1>1, <1>2
<1>4. QED  BY <1>3 DEF NumberItem, NumberItems, WordFits

\* An unsigned item means the number it was written for.
LEMMA UintMeaning ==
  ASSUME NEW x \in Int, Holds(Unsigned(8), x)
  PROVE  /\ EncodeUint(x) \in NumberItems /\ WordFits(EncodeUint(x))
         /\ Meaning(EncodeUint(x)) = x
         /\ ~RefusedByUint(EncodeUint(x))
<1>0. 8 \in Widths /\ 1 \in Widths
  BY DEF Widths
<1>1. 0 <= x
  BY <1>0, UnsignedRange
<1>2. CASE x < Half(1)
  <2>1. x < Span[1] /\ Span[1] \in Nat /\ Span[1] > 0 /\ Half(1) \in Nat
    BY <1>0, <1>2, SpanFacts
  <2>2. x % Span[1] = x
    BY <1>1, <2>1, Words
  <2>3. Convert(Signed(1), x) = x
    <3>1. Holds(Signed(1), x)
      BY <1>0, <1>1, <1>2, <2>1, SignedRange
    <3>2. QED  BY <1>0, <3>1, TypesOfWidths, ConvertFacts
  <2> DEFINE i == NumberItem("fixint", 1, x)
  <2>4. EncodeUint(x) = i
    BY <1>2 DEF EncodeUint
  <2>5. i \in NumberItems /\ WordFits(i) /\ i.format = "fixint" /\ i.width = 1 /\ i.word = x
    BY <1>0, <2>2, NumberItemFields
  <2> HIDE DEF i
  <2>6. Meaning(i) = x
    BY <2>3, <2>5 DEF Meaning, FormatType
  <2>7. ~RefusedByUint(i)
    BY <1>2, <2>1, <2>5 DEF RefusedByUint, NegativeFixint
  <2>8. QED  BY <2>4, <2>5, <2>6, <2>7
<1>3. CASE ~(x < Half(1))
  <2> DEFINE w == Fitting("uint", x)
             i == NumberItem("uint", w, x)
  <2>1. w \in Widths /\ Holds(Unsigned(w), x)
    BY FittingHolds DEF FormatType
  <2>2. EncodeUint(x) = i
    BY <1>3 DEF EncodeUint
  <2> HIDE DEF w
  <2>3. x <= Span[w] - 1
    BY <2>1, UnsignedRange
  <2>4. Span[w] \in Nat /\ Span[w] > 0
    BY <2>1, SpanFacts
  <2>5. x % Span[w] = x
    BY <1>1, <2>3, <2>4, Words
  <2>6. i \in NumberItems /\ WordFits(i) /\ i.format = "uint" /\ i.width = w /\ i.word = x
    BY <2>1, <2>5, NumberItemFields
  <2> HIDE DEF i
  <2>7. Meaning(i) = x
    <3>1. FormatType(i.format, i.width) = Unsigned(w)
      BY <2>6 DEF FormatType
    <3>2. Convert(Unsigned(w), x) = x
      BY <2>1, TypesOfWidths, ConvertFacts
    <3>3. QED  BY <2>6, <3>1, <3>2 DEF Meaning
  <2>8. ~RefusedByUint(i)
    BY <2>6 DEF RefusedByUint, NegativeFixint
  <2>9. QED  BY <2>2, <2>6, <2>7, <2>8
<1>4. QED  BY <1>2, <1>3

\* A negative number is read back from any width that holds it.
LEMMA NegativeMeaning ==
  ASSUME NEW x \in Int, x < 0, NEW w \in Widths, NEW f \in {"fixint", "int"},
         Holds(Signed(w), x)
  PROVE  Meaning(NumberItem(f, w, x)) = x
<1>1. Span[w] \in Nat /\ Span[w] > 0 /\ Half(w) \in Nat /\ 2 * Half(w) = Span[w]
  BY SpanFacts
<1>2. -Half(w) <= x
  BY SignedRange
<1>3. x % Span[w] = x + Span[w] /\ x % Span[w] \in 0..(Span[w] - 1)
  BY <1>1, <1>2, Words
<1>4. (x % Span[w]) % Span[w] = x % Span[w]
  BY <1>1, <1>3, Words
<1>5. Convert(Signed(w), x) = x
  BY TypesOfWidths, ConvertFacts
<1>6. Convert(Signed(w), x % Span[w]) = x
  BY <1>4, <1>5 DEF Convert, Signed
<1>7. QED  BY <1>6, NumberItemFields DEF Meaning, FormatType

\* A signed item means the number it was written for.
LEMMA IntMeaning ==
  ASSUME NEW x \in Int, Holds(Signed(8), x)
  PROVE  /\ EncodeInt(x) \in NumberItems /\ WordFits(EncodeInt(x))
         /\ Meaning(EncodeInt(x)) = x
         /\ x >= 0 => ~RefusedByUint(EncodeInt(x))
<1>0. 8 \in Widths /\ 1 \in Widths
  BY DEF Widths
<1> DEFINE low == -(Span[1] \div 8)
<1>6. Span[1] \in Nat /\ 2 * Half(1) = Span[1] /\ Half(1) \in Nat
  BY <1>0, SpanFacts
<1>7. low \in Int /\ -Half(1) <= low
  BY <1>6
<1>8. EncodeInt(x) = IF x >= 0 THEN EncodeUint(x)
                     ELSE IF x >= low THEN NumberItem("fixint", 1, x)
                     ELSE NumberItem("int", Fitting("int", x), x)
  BY DEF EncodeInt
<1> HIDE DEF low
<1>1. CASE x >= 0
  <2>1. Holds(Unsigned(8), x)
    BY <1>0, <1>1, SignedRange, UnsignedRange, SpanFacts
  <2>2. EncodeInt(x) = EncodeUint(x)
    BY <1>1, <1>8
  <2>3. QED  BY <2>1, <2>2, UintMeaning
<1>2. CASE x < 0 /\ x >= low
  <2>1. Holds(Signed(1), x)
    <3>1. -Half(1) <= x /\ x <= Half(1) - 1
      BY <1>2, <1>6, <1>7
    <3>2. QED  BY <1>0, <3>1, SignedRange
  <2>2. EncodeInt(x) = NumberItem("fixint", 1, x)
    BY <1>2, <1>8
  <2>3. QED  BY <1>0, <1>2, <2>1, <2>2, NumberItemFields, NegativeMeaning
<1>3. CASE x < 0 /\ ~(x >= low)
  <2>1. EncodeInt(x) = NumberItem("int", Fitting("int", x), x)
    BY <1>3, <1>8
  <2>2. Fitting("int", x) \in Widths /\ Holds(Signed(Fitting("int", x)), x)
    BY FittingHolds DEF FormatType
  <2>3. QED  BY <1>3, <2>1, <2>2, NumberItemFields, NegativeMeaning
<1>4. QED  BY <1>1, <1>2, <1>3, <1>7

\* What an item means is a number of 64 bits, with or without a sign.
LEMMA MeaningType ==
  ASSUME NEW i \in NumberItems
  PROVE  /\ Meaning(i) \in Int
         /\ i.format = "uint" => Holds(Unsigned(8), Meaning(i))
         /\ i.format # "uint" => Holds(Signed(8), Meaning(i))
<1> DEFINE w == i.width
           t == FormatType(i.format, w)
           y == Convert(t, i.word)
<1>0. i.width \in Widths /\ i.word \in Nat
  BY DEF NumberItems
<1>1. w \in Widths /\ i.word \in Int /\ 8 \in Widths
  BY <1>0 DEF Widths
<1>2. Meaning(i) = y
  BY DEF Meaning
<1>3. t \in IntTypes
  BY <1>1, TypesOfWidths DEF FormatType
<1>4. y \in Int /\ Holds(t, y)
  BY <1>1, <1>3, ConvertFacts
<1>5. /\ Span[w] \in Nat /\ Half(w) \in Nat /\ Span[8] \in Nat /\ Half(8) \in Nat
      /\ Span[w] <= Span[8] /\ Half(w) <= Half(8)
  BY <1>1, SpanOrder
<1>6. t = IF i.format = "uint" THEN Unsigned(w) ELSE Signed(w)
  BY DEF FormatType
<1> HIDE DEF w, t, y
<1>7. CASE i.format = "uint"
  <2>1. 0 <= y /\ y <= Span[w] - 1
    BY <1>1, <1>4, <1>6, <1>7, UnsignedRange
  <2>2. 0 <= y /\ y <= Span[8] - 1
    BY <1>4, <1>5, <2>1
  <2>3. QED  BY <1>1, <1>2, <1>4, <1>7, <2>2, UnsignedRange
<1>8. CASE i.format # "uint"
  <2>1. -Half(w) <= y /\ y <= Half(w) - 1
    BY <1>1, <1>4, <1>6, <1>8, SignedRange
  <2>2. -Half(8) <= y /\ y <= Half(8) - 1
    BY <1>4, <1>5, <2>1
  <2>3. QED  BY <1>1, <1>2, <1>4, <1>8, <2>2, SignedRange
<1>9. QED  BY <1>7, <1>8

\* A number of any width is one of 64 bits (the int64 and uint64 that EncodeInt
\* and EncodeUint take).
LEMMA Widen ==
  ASSUME NEW t \in IntTypes, NEW x \in Int, Holds(t, x)
  PROVE  IF t.signed THEN Holds(Signed(8), x) ELSE Holds(Unsigned(8), x)
<1> DEFINE w == t.width
<1>1. w \in Widths /\ 8 \in Widths /\ t.signed \in BOOLEAN
  BY DEF IntTypes, Widths
<1>2. t = IF t.signed THEN Signed(w) ELSE Unsigned(w)
  BY DEF IntTypes, Signed, Unsigned
<1> HIDE DEF w
<1>3. /\ Span[w] \in Nat /\ Half(w) \in Nat /\ Span[8] \in Nat /\ Half(8) \in Nat
      /\ Span[w] <= Span[8] /\ Half(w) <= Half(8)
  BY <1>1, SpanOrder
<1>4. CASE t.signed
  <2>1. -Half(w) <= x /\ x <= Half(w) - 1
    BY <1>1, <1>2, <1>4, SignedRange
  <2>2. -Half(8) <= x /\ x <= Half(8) - 1
    BY <1>3, <2>1
  <2>3. QED  BY <1>1, <1>4, <2>2, SignedRange
<1>5. CASE ~t.signed
  <2>1. 0 <= x /\ x <= Span[w] - 1
    BY <1>1, <1>2, <1>5, UnsignedRange
  <2>2. 0 <= x /\ x <= Span[8] - 1
    BY <1>3, <2>1
  <2>3. QED  BY <1>1, <1>5, <2>2, UnsignedRange
<1>6. QED  BY <1>4, <1>5

-----------------------------------------------------------------------------
(* The invariant, in parts.                                                *)

KindInv ==
  /\ held.kind \in {"number", "number item", "instant", "instant item", "length",
                    "length item", "refused"}
  /\ held.kind = "refused" => held \in [kind : {"refused"}, item : Items]

\* What is held of a number: its value, or what the item means.
Denoted == IF held.kind = "number" THEN held.value ELSE Meaning(held)

NumberInv ==
  /\ fits \in BOOLEAN /\ narrowest \in Widths
  /\ held.kind = "number" => held \in NumberTypes /\ Holds(held.type, held.value)
  /\ held.kind = "number item" => held \in NumberItems /\ WordFits(held)
  /\ held.kind \in {"number", "number item"} => First \in Int /\ (fits => Denoted = First)
  /\ held.kind = "refused" /\ held.item.kind = "number item" => RefusedByUint(held.item)

\* The first number is a number; nothing is refused yet.
LEMMA NumberInit == Init => NumberInv
<1> SUFFICES ASSUME Init PROVE NumberInv
  OBVIOUS
<1>0. fits = TRUE /\ origin = held /\ 8 \in Widths
  BY DEF Init, Widths
<1>1. CASE \E t \in IntTypes, x \in Numbers : held = Number(t, x)
  <2>1. PICK t \in IntTypes, x \in Numbers : held = Number(t, x)
    BY <1>1
  <2>2. x \in Int /\ held.kind = "number" /\ held \in NumberTypes /\ held.type = t
        /\ held.value = x /\ t.width \in Widths
    BY <2>1, InputAssumption DEF Number, NumberTypes, IntTypes
  <2>3. Holds(t, x) /\ narrowest = t.width
    BY <2>2 DEF Init
  <2>4. First = x /\ Denoted = x
    BY <1>0, <2>2 DEF First, Denoted
  <2>5. QED  BY <1>0, <2>2, <2>3, <2>4 DEF NumberInv
<1>2. CASE held \in Foreign /\ held \in NumberItems
  <2>1. held.kind = "number item" /\ WordFits(held) /\ narrowest = 8
    BY <1>2, InputAssumption DEF Init, NumberItems
  <2>2. First = Meaning(held) /\ Denoted = Meaning(held) /\ Meaning(held) \in Int
    BY <1>0, <1>2, <2>1, MeaningType DEF First, Denoted
  <2>3. QED  BY <1>0, <1>2, <2>1, <2>2 DEF NumberInv
<1>3. CASE held \in InstantTypes \cup LengthTypes \cup InstantItems \cup LengthItems
  <2>1. held.kind \notin {"number", "number item", "refused"} /\ narrowest = 8
    BY <1>3 DEF Init, InstantTypes, LengthTypes, InstantItems, LengthItems
  <2>2. QED  BY <1>0, <2>1 DEF NumberInv
<1>4. QED  BY <1>1, <1>2, <1>3, InputAssumption DEF Init, Items

\* The number arrives in a variable that can hold it, and is what was written
\* wherever that variable and those before it have room for it (ReadInt ..
\* ReadAny and the conversions of value.go).
LEMMA Arrival ==
  ASSUME KindInv, NumberInv, NEW t \in IntTypes, NEW x \in Int, First \in Int,
         Arrive(t, x), fits /\ Holds(t, First) => x = First
  PROVE  NumberInv'
<1>1. held' = Number(t, Convert(t, x)) /\ origin' = origin
  BY DEF Arrive
<1>2. Convert(t, x) \in Int /\ Holds(t, Convert(t, x))
  BY ConvertFacts
<1>3. /\ held' \in NumberTypes /\ held'.kind = "number" /\ held'.type = t
      /\ held'.value = Convert(t, x)
  BY <1>1, <1>2 DEF Number, NumberTypes
<1>4. First' = First
  BY <1>1 DEF First
<1>5. fits' = (fits /\ Holds(t, First)) /\ fits' \in BOOLEAN
  BY DEF Arrive
<1>6. narrowest' \in Widths
  BY DEF Arrive, NumberInv, IntTypes
<1>7. ASSUME fits' PROVE Denoted' = First'
  <2>1. Convert(t, x) = First
    BY <1>5, <1>7, ConvertFacts
  <2>2. QED  BY <1>3, <1>4, <2>1 DEF Denoted
<1>8. Holds(held.type, held.value)'
  BY <1>2, <1>3
<1>9. QED  BY <1>3, <1>4, <1>5, <1>6, <1>7, <1>8 DEF NumberInv

\* What an unsigned reader refuses is an item of a signed format (decodeUint).
LEMMA Refusal ==
  ASSUME NumberInv, held \in NumberItems, RefusedByUint(held), Refuse
  PROVE  NumberInv'
<1>1. held' = [kind |-> "refused", item |-> held] /\ fits' = fits /\ narrowest' = narrowest
  BY DEF Refuse, Refused
<1>2. held'.kind = "refused" /\ held'.item = held
  BY <1>1
<1>3. QED  BY <1>1, <1>2 DEF NumberInv, RefusedByUint, NegativeFixint

\* A step about an instant or a length leaves the numbers' part alone.
LEMMA OtherKinds ==
  ASSUME NumberInv, UNCHANGED <<origin, fits, narrowest>>,
         \/ held'.kind \in {"instant", "instant item", "length", "length item"}
         \/ held'.kind = "refused" /\ held'.item.kind \in {"instant item", "length item"}
  PROVE  NumberInv'
BY DEF NumberInv

\* The kinds of what the actions produce (timestamp.go, encoder.go).
LEMMA KindsProduced ==
  /\ \A s, n : EncodeTimestamp(s, n).kind = "instant item"
  /\ \A k, n : EncodeLength(k, n).kind = "length item"
  /\ \A i : TimeOf(i).kind = "instant"
  /\ \A k, n, r : LengthOf(k, n, r).kind = "length"
  /\ \A i : Refused(i).kind = "refused" /\ Refused(i).item = i
BY DEF EncodeTimestamp, InstantItem, EncodeLength, LengthItem, TimeOf, Unix, Instant, LengthOf,
       Refused

\* Encoding keeps the invariant of the numbers.
LEMMA NumberWrite ==
  ASSUME KindInv, NumberInv, Write
  PROVE  NumberInv'
<1>1. UNCHANGED <<origin, fits, narrowest>>
  BY DEF Write
<1>2. CASE held.kind = "number"
  <2> DEFINE t == held.type
             x == held.value
             i == held'
  <2>1. t \in IntTypes /\ x \in Int /\ Holds(t, x)
    BY <1>2 DEF NumberInv, NumberTypes
  <2>2. i = IF t.signed THEN EncodeInt(x) ELSE EncodeUint(x)
    BY <1>2 DEF Write
  <2>3. IF t.signed THEN Holds(Signed(8), x) ELSE Holds(Unsigned(8), x)
    BY <2>1, Widen
  <2>4. i \in NumberItems /\ WordFits(i) /\ Meaning(i) = x
    <3>1. CASE t.signed
      BY <2>1, <2>2, <2>3, <3>1, IntMeaning
    <3>2. CASE ~t.signed
      BY <2>1, <2>2, <2>3, <3>2, UintMeaning
    <3>3. QED  BY <3>1, <3>2
  <2>5. First \in Int /\ (fits => x = First)
    BY <1>2 DEF NumberInv, Denoted
  <2>6. First' = First
    BY <1>1 DEF First
  <2>7. held'.kind = "number item"
    BY <2>4 DEF NumberItems
  <2>8. Denoted' = x
    BY <2>4, <2>7 DEF Denoted
  <2>9. WordFits(held)'
    BY <2>4 DEF WordFits
  <2>10. QED  BY <1>1, <2>4, <2>5, <2>6, <2>7, <2>8, <2>9 DEF NumberInv
<1>3. CASE held.kind = "instant"
  <2>1. held'.kind = "instant item"
    BY <1>3, KindsProduced DEF Write
  <2>2. QED  BY <1>1, <2>1, OtherKinds
<1>4. CASE held.kind = "length"
  <2>1. held'.kind = "length item"
    BY <1>4, KindsProduced DEF Write
  <2>2. QED  BY <1>1, <2>1, OtherKinds
<1>5. QED  BY <1>2, <1>3, <1>4 DEF Write

\* So does every reader of an item.
LEMMA NumberRead ==
  ASSUME KindInv, NumberInv, ReadNumber
  PROVE  NumberInv'
<1> DEFINE x == Meaning(held)
<1>0. 8 \in Widths /\ Signed(8) \in IntTypes /\ Unsigned(8) \in IntTypes
  BY TypesOfWidths DEF Widths
<1>1. held.kind = "number item" /\ held \in NumberItems
  BY DEF ReadNumber, NumberInv
<1>2. x \in Int /\ (fits => x = First) /\ First \in Int
  BY <1>1, MeaningType DEF NumberInv, Denoted
<1>3. CASE ReadValue
  <2>1. ValueType(held) \in IntTypes
    BY <1>0 DEF ValueType
  <2>2. QED  BY <1>2, <1>3, <2>1, Arrival DEF ReadValue
<1>4. CASE ReadAny
  <2>1. AnyType(held) \in IntTypes
    BY <1>0 DEF AnyType
  <2>2. QED  BY <1>2, <1>4, <2>1, Arrival DEF ReadAny
<1>5. ASSUME NEW t \in IntTypes, ReadInt(t)
      PROVE  NumberInv'
  <2>1. t.signed /\ Arrive(t, Convert(Signed(8), x))
    BY <1>5 DEF ReadInt
  <2>2. Convert(Signed(8), x) \in Int
    BY <1>0, <1>2, ConvertFacts
  <2>3. ASSUME fits, Holds(t, First) PROVE Convert(Signed(8), x) = First
    <3>1. Holds(Signed(8), First)
      BY <1>2, <2>1, <2>3, Widen
    <3>2. QED  BY <1>0, <1>2, <2>3, <3>1, ConvertFacts
  <2>4. QED  BY <1>2, <2>1, <2>2, <2>3, Arrival
<1>6. ASSUME NEW t \in IntTypes, ReadUint(t)
      PROVE  NumberInv'
  <2>1. CASE RefusedByUint(held) /\ Refuse
    BY <1>1, <2>1, Refusal
  <2>2. CASE Arrive(t, x)
    BY <1>2, <2>2, Arrival
  <2>3. QED  BY <1>6, <2>1, <2>2 DEF ReadUint
<1>7. ASSUME NEW t \in IntTypes, ReadValueUint(t)
      PROVE  NumberInv'
  <2>1. CASE RefusedByValueUint(held) /\ Refuse
    BY <1>1, <2>1, Refusal DEF RefusedByValueUint, RefusedByUint
  <2>2. CASE Arrive(t, Convert(Unsigned(8), x)) /\ ~t.signed
    <3>1. Convert(Unsigned(8), x) \in Int
      BY <1>0, <1>2, ConvertFacts
    <3>2. ASSUME fits, Holds(t, First) PROVE Convert(Unsigned(8), x) = First
      <4>1. Holds(Unsigned(8), First)
        BY <1>2, <2>2, <3>2, Widen
      <4>2. QED  BY <1>0, <1>2, <3>2, <4>1, ConvertFacts
    <3>3. QED  BY <1>2, <2>2, <3>1, <3>2, Arrival
  <2>3. QED  BY <1>7, <2>1, <2>2 DEF ReadValueUint
<1>8. QED  BY <1>3, <1>4, <1>5, <1>6, <1>7 DEF ReadNumber

\* And every other step.
LEMMA NumberStep ==
  ASSUME KindInv, NumberInv, [Next]_vars
  PROVE  NumberInv'
<1>1. CASE Write
  BY <1>1, NumberWrite
<1>2. CASE As
  <2>1. held.kind = "number" /\ held.value \in Int /\ First \in Int /\ (fits => held.value = First)
    BY <1>2 DEF As, NumberInv, NumberTypes, Denoted
  <2>2. PICK t \in IntTypes : Arrive(t, held.value)
    BY <1>2 DEF As
  <2>3. QED  BY <2>1, <2>2, Arrival
<1>3. CASE ReadNumber
  BY <1>3, NumberRead
<1>4. CASE ReadInstant
  <2>1. UNCHANGED <<origin, fits, narrowest>> /\ held.kind = "instant item"
    BY <1>4 DEF ReadInstant
  <2>2. \/ held'.kind = "instant"
        \/ held'.kind = "refused" /\ held'.item.kind = "instant item"
    BY <1>4, KindsProduced DEF ReadInstant
  <2>3. QED  BY <2>1, <2>2, OtherKinds
<1>5. CASE ReadLength
  <2>1. UNCHANGED <<origin, fits, narrowest>> /\ held.kind = "length item"
    BY <1>5 DEF ReadLength
  <2>2. \/ held'.kind = "length"
        \/ held'.kind = "refused" /\ held'.item.kind = "length item"
    <3>1. held' = LengthOf(held.of, ToInt(held.word), held.room) \/ held' = Refused(held)
      BY <1>5 DEF ReadLength
    <3>2. CASE held' = LengthOf(held.of, ToInt(held.word), held.room)
      <4>1. held'.kind = "length"
        BY <3>2 DEF LengthOf
      <4>2. QED  BY <4>1
    <3>3. CASE held' = Refused(held)
      <4>1. Refused(held).kind = "refused" /\ Refused(held).item = held
        BY KindsProduced
      <4>2. QED  BY <2>1, <3>3, <4>1
    <3>4. QED  BY <3>1, <3>2, <3>3
  <2>3. QED  BY <2>1, <2>2, OtherKinds
<1>6. CASE UNCHANGED vars
  BY <1>6 DEF vars, NumberInv, First, Denoted, WordFits, RefusedByUint, NegativeFixint, Meaning,
              Holds, Low, High, Convert, FormatType, Signed, Unsigned, Half
<1>7. QED  BY <1>1, <1>2, <1>3, <1>4, <1>5, <1>6 DEF Next

-----------------------------------------------------------------------------
(* What is left of a number that some type on the way could not hold.      *)

\* What is held agrees with the first number in the bits of the narrowest type.
WrapInv ==
  held.kind \in {"number", "number item"} => Multiple(Span[narrowest], Denoted - First)

\* Nothing has been converted at the beginning.
LEMMA WrapInit == Init => WrapInv
<1> SUFFICES ASSUME Init, held.kind \in {"number", "number item"}
             PROVE  Multiple(Span[narrowest], Denoted - First)
  BY DEF WrapInv
<1>1. Denoted = First /\ First \in Int
  <2>1. NumberInv
    BY NumberInit
  <2>2. fits
    BY Zenon DEF Init
  <2>3. QED  BY <2>1, <2>2 DEF NumberInv
<1>2. Span[narrowest] \in Nat
  BY NumberInit, SpanOrder DEF NumberInv
<1>3. QED  BY <1>1, <1>2, MultipleSelf

\* Two steps away from a number, in words of S and of N, is a step in words of M.
LEMMA WrapTwice ==
  ASSUME NEW S \in Nat, NEW N \in Nat, NEW M \in Nat, Multiple(M, S), Multiple(M, N),
         NEW y \in Int, NEW x \in Int, NEW d \in Int, NEW f \in Int,
         Multiple(S, y - x), Multiple(S, x - d), Multiple(N, d - f)
  PROVE  Multiple(M, y - f)
<1>1. Multiple(M, y - x) /\ Multiple(M, x - d) /\ Multiple(M, d - f)
  BY MultipleChain
<1>2. Multiple(M, (y - x) + (x - d))
  BY <1>1, MultipleSum
<1>3. Multiple(M, ((y - x) + (x - d)) + (d - f))
  BY <1>1, <1>2, MultipleSum
<1>4. ((y - x) + (x - d)) + (d - f) = y - f
  OBVIOUS
<1>5. QED  BY <1>3, <1>4

\* The narrower of two types that a number has been through is one of them.
LEMMA NarrowerWidth ==
  ASSUME NEW v \in Widths, NEW w \in Widths
  PROVE  /\ (IF v < w THEN v ELSE w) \in Widths
         /\ (IF v < w THEN v ELSE w) <= v /\ (IF v < w THEN v ELSE w) <= w
BY DEF Widths

\* A variable of type t takes over the bits it has room for.
LEMMA WrapArrival ==
  ASSUME NumberInv, WrapInv, held.kind \in {"number", "number item"}, Denoted \in Int,
         NEW t \in IntTypes, NEW x \in Int, Arrive(t, x),
         Multiple(Span[t.width], x - Denoted)
  PROVE  WrapInv'
<1> DEFINE y == Convert(t, x)
<1>1. held' = Number(t, y) /\ origin' = origin
      /\ narrowest' = IF t.width < narrowest THEN t.width ELSE narrowest
  BY DEF Arrive
<1>2. held'.kind = "number" /\ held'.value = y
  BY <1>1 DEF Number
<1>3. First' = First /\ First \in Int
  BY <1>1 DEF First, NumberInv
<1>4. t.width \in Widths /\ narrowest \in Widths
  BY DEF NumberInv, IntTypes
<1>5. y \in Int /\ Multiple(Span[t.width], y - x)
  BY ConvertFacts, ConvertWraps
<1> HIDE DEF y
<1>6. narrowest' \in Widths /\ narrowest' <= narrowest /\ narrowest' <= t.width
  BY <1>1, <1>4, NarrowerWidth, Zenon
<1>7. /\ Span[t.width] \in Nat /\ Span[narrowest] \in Nat /\ Span[narrowest'] \in Nat
      /\ Multiple(Span[narrowest'], Span[t.width])
      /\ Multiple(Span[narrowest'], Span[narrowest])
  BY <1>4, <1>6, SpanOrder, SpanDivides
<1>8. Multiple(Span[narrowest], Denoted - First)
  BY DEF WrapInv
<1>9. Multiple(Span[narrowest'], y - First)
  BY <1>3, <1>5, <1>7, <1>8, WrapTwice
<1>10. Denoted' = y
  BY <1>2 DEF Denoted
<1>11. Multiple(Span[narrowest], Denoted - First)'
  BY <1>3, <1>9, <1>10 DEF Multiple
<1>12. QED  BY <1>11 DEF WrapInv

\* A reader refuses an item or gives the field, of whatever type, a number that
\* agrees with the item in the bits of that type (decode_struct.go:453-524,
\* struct_decoder.go:225-285, decode_any.go:393-468).
LEMMA ReadOutcomes ==
  ASSUME NumberInv, ReadNumber
  PROVE  \/ held' = Refused(held)
         \/ \E t \in IntTypes, x \in Int :
              Arrive(t, x) /\ Multiple(Span[t.width], x - Meaning(held))
<1> DEFINE m == Meaning(held)
<1>0. 8 \in Widths /\ Signed(8) \in IntTypes /\ Unsigned(8) \in IntTypes
      /\ Signed(8).width = 8 /\ Unsigned(8).width = 8
  BY TypesOfWidths DEF Widths, Signed, Unsigned
<1>1. m \in Int
  BY MeaningType DEF ReadNumber, NumberInv
<1> HIDE DEF m
<1>2. ASSUME NEW t \in IntTypes
      PROVE  /\ Multiple(Span[t.width], m - m)
             /\ \A u \in {Signed(8), Unsigned(8)} :
                  Convert(u, m) \in Int /\ Multiple(Span[t.width], Convert(u, m) - m)
  <2>1. t.width \in Widths /\ Span[t.width] \in Nat /\ Span[8] \in Nat
        /\ Multiple(Span[t.width], Span[8])
    <3>1. t.width \in Widths /\ t.width <= 8
      BY DEF IntTypes, Widths
    <3>2. QED  BY <1>0, <3>1, SpanOrder, SpanDivides
  <2>2. Multiple(Span[t.width], m - m)
    BY <1>1, <2>1, MultipleSelf
  <2>3. \A u \in {Signed(8), Unsigned(8)} :
          Convert(u, m) \in Int /\ Multiple(Span[8], Convert(u, m) - m)
    BY <1>0, <1>1, ConvertFacts, ConvertWraps
  <2>4. \A u \in {Signed(8), Unsigned(8)} : Multiple(Span[t.width], Convert(u, m) - m)
    BY <1>1, <2>1, <2>3, MultipleChain
  <2>5. QED  BY <2>2, <2>3, <2>4
<1>3. CASE ReadValue
  <2>1. ValueType(held) \in IntTypes
    BY <1>0 DEF ValueType
  <2>2. QED  BY <1>1, <1>2, <1>3, <2>1 DEF ReadValue, m
<1>4. CASE ReadAny
  <2>1. AnyType(held) \in IntTypes
    BY <1>0 DEF AnyType
  <2>2. QED  BY <1>1, <1>2, <1>4, <2>1 DEF ReadAny, m
<1>5. ASSUME NEW t \in IntTypes, ReadInt(t) \/ ReadUint(t) \/ ReadValueUint(t)
      PROVE  \/ held' = Refused(held)
             \/ \E x \in Int : Arrive(t, x) /\ Multiple(Span[t.width], x - m)
  BY <1>1, <1>2, <1>5 DEF ReadInt, ReadUint, ReadValueUint, Refuse, m
<1>6. QED  BY <1>3, <1>4, <1>5 DEF ReadNumber, m

\* No step loses more bits than the types on the way do.
LEMMA WrapStep ==
  ASSUME KindInv, NumberInv, WrapInv, [Next]_vars
  PROVE  WrapInv'
<1>1. CASE UNCHANGED vars
  BY <1>1 DEF vars, WrapInv, Denoted, First, Meaning, Convert, FormatType, High, Half,
              Signed, Unsigned, Multiple
<1>2. CASE Write /\ held.kind = "number"
  <2> DEFINE t == held.type
             x == held.value
  <2>1. t \in IntTypes /\ x \in Int /\ Holds(t, x)
    BY <1>2 DEF NumberInv, NumberTypes
  <2>2. held' = IF t.signed THEN EncodeInt(x) ELSE EncodeUint(x)
    BY <1>2 DEF Write
  <2>3. IF t.signed THEN Holds(Signed(8), x) ELSE Holds(Unsigned(8), x)
    BY <2>1, Widen
  <2>4. held' \in NumberItems /\ Meaning(held') = x
    BY <2>1, <2>2, <2>3, IntMeaning, UintMeaning
  <2>5. held'.kind = "number item"
    BY <2>4 DEF NumberItems
  <2>6. Denoted' = Denoted /\ First' = First /\ narrowest' = narrowest
    BY <1>2, <2>4, <2>5 DEF Denoted, First, Write
  <2>7. QED  BY <1>2, <2>6 DEF WrapInv
<1>3. CASE As
  <2>1. PICK t \in IntTypes : t.width = 8 /\ Arrive(t, held.value)
    BY <1>3 DEF As
  <2>2. held.kind = "number" /\ held.value \in Int /\ Denoted = held.value
    BY <1>3 DEF As, NumberInv, NumberTypes, Denoted
  <2>3. Span[t.width] \in Nat
    BY SpanOrder DEF IntTypes
  <2>4. Multiple(Span[t.width], held.value - Denoted)
    BY <2>2, <2>3, MultipleSelf
  <2>5. QED  BY <2>1, <2>2, <2>4, WrapArrival
<1>4. CASE ReadNumber
  <2>1. held.kind = "number item" /\ Denoted = Meaning(held) /\ Meaning(held) \in Int
    BY <1>4, MeaningType DEF ReadNumber, NumberInv, Denoted
  <2>2. CASE held' = Refused(held)
    <3>1. held'.kind = "refused"
      BY <2>2 DEF Refused
    <3>2. QED  BY <3>1 DEF WrapInv
  <2>3. QED  BY <1>4, <2>1, <2>2, ReadOutcomes, WrapArrival
<1>5. CASE held.kind \in {"instant", "instant item", "length", "length item"} /\ Next
  <2>1. held'.kind \notin {"number", "number item"}
    <3>1. /\ LengthOf(held.of, ToInt(held.word), held.room).kind = "length"
          /\ EncodeLength(held.of, held.value).kind = "length item"
      BY DEF LengthOf, EncodeLength, LengthItem
    <3>2. /\ EncodeTimestamp(held.sec, held.nsec).kind = "instant item"
          /\ TimeOf(held).kind = "instant" /\ Refused(held).kind = "refused"
      BY KindsProduced, Zenon
    <3>3. CASE Write
      BY <1>5, <3>1, <3>2, <3>3 DEF Write
    <3>4. CASE ReadInstant
      BY <3>2, <3>4 DEF ReadInstant
    <3>5. CASE ReadLength
      BY <3>1, <3>2, <3>5 DEF ReadLength
    <3>6. QED  BY <1>5, <3>3, <3>4, <3>5 DEF Next, As, ReadNumber
  <2>2. QED  BY <2>1 DEF WrapInv
<1>6. QED  BY <1>1, <1>2, <1>3, <1>4, <1>5 DEF Next, Write, ReadInstant, ReadLength

-----------------------------------------------------------------------------
(* Instants.                                                               *)

\* A word read at the width it was written with is what was written.
LEMMA WordOf ==
  ASSUME NEW x \in Int, Holds(Signed(8), x)
  PROVE  /\ x % Span[8] \in Nat /\ x % Span[8] < Span[8]
         /\ Convert(Signed(8), x % Span[8]) = x
<1>0. 8 \in Widths
  BY DEF Widths
<1>1. Span[8] \in Nat /\ Span[8] > 0
  BY <1>0, SpanFacts
<1>2. x % Span[8] \in 0..(Span[8] - 1)
  BY <1>1, Words
<1>3. (x % Span[8]) % Span[8] = x % Span[8]
  BY <1>1, <1>2, Words
<1>4. Convert(Signed(8), x) = x
  BY <1>0, TypesOfWidths, ConvertFacts
<1>5. QED  BY <1>1, <1>2, <1>3, <1>4 DEF Convert, Signed

\* Quotients and remainders.
LEMMA DivMod ==
  ASSUME NEW k \in Nat, k > 0, NEW n \in Nat
  PROVE  /\ n \div k \in Nat /\ n % k \in Nat /\ n % k < k
         /\ n = (n \div k) * k + (n % k)
         /\ n < k => n \div k = 0 /\ n % k = n
<1>1. n \div k \in Nat /\ n % k \in Nat /\ n % k < k
  OBVIOUS
<1>2. n = (n \div k) * k + (n % k)
  OBVIOUS
<1>3. n < k => n \div k = 0 /\ n % k = n
  OBVIOUS
<1>4. QED  BY <1>1, <1>2, <1>3
\* Two numbers packed in one, as seconds and nanoseconds are in 8 bytes.
LEMMA Pack ==
  ASSUME NEW k \in Nat, k > 0, NEW q \in Nat, NEW r \in Nat, r < k
  PROVE  (q * k + r) % k = r /\ (q * k + r) \div k = q
<1>1. (q * k + r) % k = r
  OBVIOUS
<1>2. (q * k + r) \div k = q
  OBVIOUS
<1>3. QED  BY <1>1, <1>2

\* The seconds of 8 bytes and the nanoseconds above them fit (timestamp.go).
LEMMA PackFits ==
  ASSUME NEW n \in Nat, n < Second, NEW s \in Nat, s < SecondsIn8
  PROVE  n * SecondsIn8 + s \in Nat /\ n * SecondsIn8 + s < Span[8]
<1> DEFINE S == Span[4]
<1>0. 4 \in Widths /\ 8 \in Widths
  BY DEF Widths
<1>1. S \in Nat /\ Span[8] = S * S /\ SecondsIn8 = 4 * S
  BY <1>0, SpanFacts, SpanAssumption DEF SecondsIn8
<1>2. 4 * (n + 1) <= S
  BY <1>1, SecondAssumption
<1> HIDE DEF S
<1>3. (4 * (n + 1)) * S <= S * S
  BY <1>1, <1>2
<1>4. n * (4 * S) + s < (4 * (n + 1)) * S
  <2>1. (4 * (n + 1)) * S = n * (4 * S) + 4 * S
    BY <1>1
  <2>2. n * (4 * S) \in Nat
    BY <1>1
  <2>3. QED  BY <1>1, <2>1, <2>2
<1>5. n * (4 * S) + s \in Nat
  BY <1>1
<1>6. S * S \in Nat /\ (4 * (n + 1)) * S \in Nat
  BY <1>1
<1>7. QED  BY <1>1, <1>3, <1>4, <1>5, <1>6

\* time.Unix returns a time.Time in normal form, the one it is given if that is
\* one.
LEMMA UnixFacts ==
  ASSUME NEW s \in Int, NEW n \in Nat
  PROVE  /\ Unix(s, n) \in InstantTypes
         /\ Holds(Signed(8), Unix(s, n).sec) /\ Unix(s, n).nsec < Second
         /\ Unix(s, n).sec = Convert(Signed(8), s + n \div Second)
         /\ Unix(s, n).nsec = n % Second
         /\ Holds(Signed(8), s) /\ n < Second => Unix(s, n) = Instant(s, n)
<1>0. 8 \in Widths /\ Second \in Nat /\ Second > 0
  BY SecondAssumption DEF Widths
<1>1. /\ n \div Second \in Nat /\ n % Second \in Nat /\ n % Second < Second
      /\ n < Second => n \div Second = 0 /\ n % Second = n
  BY <1>0, DivMod
<1>2. /\ Convert(Signed(8), s + n \div Second) \in Int
      /\ Holds(Signed(8), Convert(Signed(8), s + n \div Second))
  BY <1>0, <1>1, TypesOfWidths, ConvertFacts
<1>3. Holds(Signed(8), s) => Convert(Signed(8), s) = s
  BY <1>0, TypesOfWidths, ConvertFacts
<1>4. n < Second => s + n \div Second = s
  BY <1>1
<1>5. QED  BY <1>1, <1>2, <1>3, <1>4 DEF Unix, Instant, InstantTypes

\* When the word of an instant's item fits.
LEMMA InstantWordFits ==
  ASSUME NEW i \in InstantItems, i.word < (IF i.len = 4 THEN Span[4] ELSE Span[8])
  PROVE  WordFits(i)
<1>1. i.kind = "instant item" /\ i.kind # "number item"
  BY DEF InstantItems
<1>2. QED  BY <1>1 DEF WordFits

\* An instant is read back as it was written, whichever of the three payloads
\* EncodeTimestamp chooses.
LEMMA InstantRoundTrip ==
  ASSUME NEW s \in Int, Holds(Signed(8), s), NEW n \in Nat, n < Second
  PROVE  /\ EncodeTimestamp(s, n) \in InstantItems /\ WordFits(EncodeTimestamp(s, n))
         /\ TimeOf(EncodeTimestamp(s, n)) = Instant(s, n)
<1> DEFINE i == EncodeTimestamp(s, n)
<1>0. 4 \in Widths /\ 8 \in Widths
  BY DEF Widths
<1>1. Unix(s, n) = Instant(s, n)
  BY UnixFacts
<1>2. CASE n = 0 /\ 0 <= s /\ s < Span[4]
  <2>1. i = InstantItem("fixext", 4, 0, s)
    BY <1>2 DEF EncodeTimestamp
  <2>2. s \in Nat
    BY <1>2
  <2> HIDE DEF i
  <2>3. i \in InstantItems /\ i.len = 4 /\ i.word = s /\ WordFits(i)
    <3>1. i \in InstantItems /\ i.len = 4 /\ i.word = s
      BY <2>1, <2>2 DEF InstantItem, InstantItems
    <3>2. QED  BY <1>2, <3>1, InstantWordFits
  <2>4. TimeOf(i) = Unix(s, 0)
    BY <2>3 DEF TimeOf
  <2>5. QED  BY <1>1, <1>2, <2>3, <2>4 DEF i
<1>3. CASE ~(n = 0 /\ 0 <= s /\ s < Span[4]) /\ 0 <= s /\ s < SecondsIn8
  <2> DEFINE x == n * SecondsIn8 + s
  <2>1. i = InstantItem("fixext", 8, 0, x)
    BY <1>3 DEF EncodeTimestamp
  <2>2. x \in Nat /\ x < Span[8]
    BY <1>3, PackFits
  <2>3. SecondsIn8 \in Nat /\ SecondsIn8 > 0
    BY <1>0, SpanFacts DEF SecondsIn8
  <2>4. x % SecondsIn8 = s /\ x \div SecondsIn8 = n
    BY <1>3, <2>3, Pack
  <2> HIDE DEF x, i
  <2>5. i \in InstantItems /\ i.len = 8 /\ i.word = x /\ WordFits(i)
    <3>1. i \in InstantItems /\ i.len = 8 /\ i.word = x
      BY <2>1, <2>2 DEF InstantItem, InstantItems
    <3>2. QED  BY <2>2, <3>1, InstantWordFits
  <2>6. TimeOf(i) = Unix(x % SecondsIn8, x \div SecondsIn8)
    BY <2>5 DEF TimeOf
  <2>7. QED  BY <1>1, <2>4, <2>5, <2>6 DEF i
<1>4. CASE ~(n = 0 /\ 0 <= s /\ s < Span[4]) /\ ~(0 <= s /\ s < SecondsIn8)
  <2> DEFINE x == s % Span[8]
  <2>1. i = InstantItem("ext8", 12, n, x)
    BY <1>4 DEF EncodeTimestamp
  <2>2. x \in Nat /\ x < Span[8] /\ Convert(Signed(8), x) = s
    BY WordOf
  <2> HIDE DEF x, i
  <2>3. i \in InstantItems /\ i.len = 12 /\ i.word = x /\ i.nsec = n /\ WordFits(i)
    <3>1. i \in InstantItems /\ i.len = 12 /\ i.word = x /\ i.nsec = n
      BY <2>1, <2>2 DEF InstantItem, InstantItems
    <3>2. QED  BY <2>2, <3>1, InstantWordFits
  <2>4. TimeOf(i) = Unix(s, n)
    BY <2>2, <2>3 DEF TimeOf
  <2>5. QED  BY <1>1, <2>3, <2>4 DEF i
<1>5. QED  BY <1>2, <1>3, <1>4

\* What a step may do to a value or an item: the numbers apart, an instant is
\* written or read, a length is written or read, or an item is refused.
LEMMA Outcomes ==
  ASSUME Next
  PROVE  /\ origin' = origin
         /\ \/ held'.kind = "number"
            \/ held'.kind = "number item" /\ held.kind = "number"
            \/ /\ held.kind \in {"number item", "instant item", "length item"}
               /\ held' = Refused(held)
            \/ held.kind = "instant" /\ held' = EncodeTimestamp(held.sec, held.nsec)
            \/ held.kind = "instant item" /\ held' = TimeOf(held)
            \/ /\ held.kind = "length" /\ held.value >= 0
               /\ held' = EncodeLength(held.of, held.value)
            \/ /\ held.kind = "length item" /\ Valid(held)
               /\ held' = LengthOf(held.of, ToInt(held.word), held.room)
<1>0. \A t, x : Arrive(t, x) => held'.kind = "number" /\ origin' = origin
  BY DEF Arrive, Number
<1>1. CASE Write /\ held.kind = "number"
  <2>1. \A x : EncodeInt(x).kind = "number item" /\ EncodeUint(x).kind = "number item"
    BY DEF EncodeInt, EncodeUint, NumberItem
  <2>2. QED  BY <1>1, <2>1 DEF Write
<1>2. CASE Write /\ held.kind = "instant"
  BY <1>2 DEF Write
<1>3. CASE Write /\ held.kind = "length"
  BY <1>3 DEF Write
<1>4. CASE As
  BY <1>0, <1>4 DEF As
<1>5. CASE ReadNumber
  BY <1>0, <1>5 DEF ReadNumber, ReadValue, ReadAny, ReadInt, ReadUint, ReadValueUint, Refuse
<1>6. CASE ReadInstant
  BY <1>6 DEF ReadInstant
<1>7. CASE ReadLength
  BY <1>7 DEF ReadLength
<1>8. QED  BY <1>1, <1>2, <1>3, <1>4, <1>5, <1>6, <1>7 DEF Next, Write

\* The instant t is the first one, or that is later than a time.Time can be.
Kept(t) ==
  \/ (t.sec - FirstSec) * Second = FirstNsec - t.nsec
  \/ FirstSec + FirstNsec \div Second >= Half(8)
IsTime(t) == t \in InstantTypes /\ Holds(Signed(8), t.sec) /\ t.nsec < Second

InstantInv ==
  /\ held.kind = "instant" => IsTime(held) /\ Kept(held)
  /\ held.kind = "instant item" =>
       held \in InstantItems /\ WordFits(held) /\ IsTime(TimeOf(held)) /\ Kept(TimeOf(held))

\* time.Unix keeps the instant (timestamp.go:68-96).
LEMMA UnixKeeps ==
  ASSUME NEW s \in Int, NEW n \in Nat, Holds(Signed(8), s)
  PROVE  /\ IsTime(Unix(s, n))
         /\ \/ (Unix(s, n).sec - s) * Second = n - Unix(s, n).nsec
            \/ s + n \div Second >= Half(8)
<1> DEFINE q == n \div Second
           r == n % Second
           h == Half(8)
<1>0. 8 \in Widths /\ Second \in Nat /\ Second > 0
  BY SecondAssumption DEF Widths
<1>1. q \in Nat /\ r \in Nat /\ n = q * Second + r
  BY <1>0, DivMod
<1>2. Half(8) \in Nat /\ Low(Signed(8)) = -Half(8) /\ High(Signed(8)) = Half(8) - 1
  BY <1>0, SpanFacts DEF Low, High, Signed
<1> HIDE DEF q, r, h
<1>3. -h <= s
  BY <1>2 DEF Holds, h
<1>4. CASE s + q < h
  <2>1. -h <= s + q /\ s + q <= h - 1 /\ s + q \in Int
    BY <1>1, <1>2, <1>3, <1>4 DEF h
  <2>2. Holds(Signed(8), s + q)
    BY <1>2, <2>1 DEF Holds, h
  <2>3. Convert(Signed(8), s + q) = s + q
    BY <1>0, <2>1, <2>2, TypesOfWidths, ConvertFacts
  <2>4. Unix(s, n).sec = s + q /\ Unix(s, n).nsec = r
    BY <2>3, UnixFacts DEF q, r
  <2>5. (s + q - s) * Second = n - r
    BY <1>0, <1>1
  <2>6. (Unix(s, n).sec - s) * Second = n - Unix(s, n).nsec
    <3> DEFINE u == Unix(s, n)
    <3> HIDE DEF u
    <3>1. u.sec = s + q /\ u.nsec = r
      BY <2>4 DEF u
    <3>2. (u.sec - s) * Second = n - u.nsec
      BY <1>1, <2>5, <3>1
    <3>3. QED  BY <3>2 DEF u
  <2>7. IsTime(Unix(s, n))
    BY UnixFacts DEF IsTime
  <2>8. QED  BY <2>6, <2>7
<1>5. CASE ~(s + q < h)
  <2>1. s + q >= h
    BY <1>1, <1>2, <1>5 DEF h
  <2>2. QED  BY <2>1, UnixFacts DEF q, h, IsTime
<1>6. QED  BY <1>4, <1>5

\* An item that arrives first is read as the instant it stands for.
LEMMA FirstItem ==
  ASSUME origin \in InstantItems, WordFits(origin)
  PROVE  IsTime(TimeOf(origin)) /\ Kept(TimeOf(origin))
<1> DEFINE w == origin.word
           s == FirstSec
           n == FirstNsec
<1>1. 4 \in Widths /\ 8 \in Widths
  BY DEF Widths
<1>2. w \in Nat /\ origin.nsec \in Nat
  BY DEF InstantItems
<1>a. origin.kind = "instant item"
  BY DEF InstantItems
<1>b. origin.kind # "instant"
  BY <1>a
<1>c. origin.len \in {4, 8, 12}
  BY DEF InstantItems
<1>3. /\ Low(Signed(8)) = -Half(8) /\ High(Signed(8)) = Half(8) - 1
      /\ Half(8) \in Nat /\ Span[4] \in Nat /\ Span[4] > 0
  BY <1>1, SpanFacts DEF Low, High, Signed
<1>4. SecondsIn8 \in Nat /\ SecondsIn8 > 0 /\ SecondsIn8 <= Half(8)
  BY <1>3, SpanRoom DEF SecondsIn8
<1>5. Span[4] <= Half(8)
  BY <1>3, SpanRoom
<1>6. TimeOf(origin) = Unix(s, n) /\ s \in Int /\ n \in Nat /\ Holds(Signed(8), s)
  <2>1. CASE origin.len = 4
    <3>1. w < Span[4]
      BY <1>a, <2>1 DEF WordFits
    <3>2. origin.len # 8
      BY <2>1
    <3>3. s = w
      BY <1>b, <2>1, <3>2, Zenon DEF FirstSec
    <3>4. n = 0
      BY <1>b, <2>1, <3>2, Zenon DEF FirstNsec
    <3>5. TimeOf(origin) = Unix(w, 0)
      BY <2>1 DEF TimeOf
    <3> HIDE DEF w, s, n
    <3>6. -Half(8) <= w /\ w <= Half(8) - 1
      <4> DEFINE h == Half(8)
      <4>1. h \in Nat /\ Span[4] <= h /\ Span[4] \in Nat
        BY <1>3, <1>5
      <4> HIDE DEF h
      <4>2. -h <= w /\ w <= h - 1
        BY <1>2, <3>1, <4>1
      <4>3. QED  BY <4>2 DEF h
    <3>7. Holds(Signed(8), w)
      BY <1>3, <3>6, Zenon DEF Holds
    <3>8. QED  BY <1>2, <3>3, <3>4, <3>5, <3>7
  <2>2. CASE origin.len = 8
    <3>1. origin.len # 4
      BY <2>2
    <3>2. s = w % SecondsIn8 /\ n = w \div SecondsIn8
      BY <1>b, <2>2, <3>1, Zenon DEF FirstSec, FirstNsec
    <3>3. TimeOf(origin) = Unix(w % SecondsIn8, w \div SecondsIn8)
      BY <2>2, <3>1, Zenon DEF TimeOf
    <3> HIDE DEF w, s, n
    <3>4. w % SecondsIn8 \in Nat /\ w \div SecondsIn8 \in Nat /\ w % SecondsIn8 < SecondsIn8
      BY <1>2, <1>4, DivMod
    <3>5. s \in Nat /\ s < SecondsIn8 /\ n \in Nat
      BY <3>2, <3>4
    <3>6. -Half(8) <= s /\ s <= Half(8) - 1
      BY <1>3, <1>4, <3>5
    <3>7. Holds(Signed(8), s)
      BY <1>3, <3>6, Zenon DEF Holds
    <3>8. QED  BY <3>2, <3>3, <3>5, <3>7
  <2>3. CASE origin.len = 12
    <3>0. origin.len # 4 /\ origin.len # 8
      BY <2>3
    <3>1. /\ s = Convert(Signed(8), w) /\ n = origin.nsec
          /\ TimeOf(origin) = Unix(Convert(Signed(8), w), origin.nsec)
      BY <1>b, <3>0, Zenon DEF FirstSec, FirstNsec, TimeOf
    <3> HIDE DEF w, s, n
    <3>2. Convert(Signed(8), w) \in Int /\ Holds(Signed(8), Convert(Signed(8), w))
      BY <1>1, <1>2, TypesOfWidths, ConvertFacts
    <3>3. QED  BY <1>2, <3>1, <3>2
  <2>4. QED  BY <1>c, <2>1, <2>2, <2>3
<1> HIDE DEF s, n
<1>7. QED  BY <1>6, UnixKeeps DEF Kept, s, n

\* The instants and items there are at first are those of "origin".
LEMMA InstantInit == Init => InstantInv
<1> SUFFICES ASSUME Init PROVE InstantInv
  OBVIOUS
<1>0. origin = held /\ Second \in Nat
  BY SecondAssumption DEF Init
<1>1. CASE held \in Instants
  <2>1. held \in InstantTypes /\ held.kind = "instant" /\ IsTime(held)
    BY <1>1, InputAssumption DEF InstantTypes, IsTime
  <2>2. FirstSec = held.sec /\ FirstNsec = held.nsec /\ held.sec \in Int /\ held.nsec \in Nat
    BY <1>0, <2>1 DEF FirstSec, FirstNsec, InstantTypes
  <2>3. (held.sec - FirstSec) * Second = FirstNsec - held.nsec
    BY <1>0, <2>2
  <2>4. QED  BY <2>1, <2>3 DEF InstantInv, Kept
<1>2. CASE held \in InstantItems /\ held \in Foreign
  <2>1. held.kind = "instant item" /\ WordFits(held)
    BY <1>2, InputAssumption DEF InstantItems
  <2>2. QED  BY <1>0, <1>2, <2>1, FirstItem DEF InstantInv
<1>3. CASE held.kind \notin {"instant", "instant item"}
  BY <1>3 DEF InstantInv
<1>4. CASE \E t \in IntTypes, x \in Numbers : held = Number(t, x)
  <2>1. held.kind = "number"
    BY <1>4 DEF Number
  <2>2. QED  BY <1>3, <2>1
<1>5. CASE held \in NumberItems \cup LengthItems \cup LengthTypes
  <2>1. held.kind \in {"number item", "length item", "length"}
    BY <1>5 DEF NumberItems, LengthItems, LengthTypes
  <2>2. QED  BY <1>3, <2>1
<1>6. QED  BY <1>1, <1>2, <1>4, <1>5, InputAssumption DEF Init, Items

\* Encoding and reading keep the instant.
LEMMA InstantStep ==
  ASSUME InstantInv, [Next]_vars
  PROVE  InstantInv'
<1>1. CASE UNCHANGED vars
  BY <1>1, Zenon DEF vars, InstantInv, Kept, IsTime, FirstSec, FirstNsec
<1>2. CASE Next
  <2>0. origin' = origin
    BY <1>2, Outcomes
  <2>1. FirstSec' = FirstSec /\ FirstNsec' = FirstNsec
    BY <2>0 DEF FirstSec, FirstNsec
  <2>2. CASE held'.kind \notin {"instant", "instant item"}
    BY <2>2 DEF InstantInv
  <2>3. CASE held.kind = "instant" /\ held' = EncodeTimestamp(held.sec, held.nsec)
    <3>1. IsTime(held) /\ Kept(held) /\ held.sec \in Int /\ held.nsec \in Nat
      BY <2>3 DEF InstantInv, IsTime, InstantTypes
    <3>2. /\ EncodeTimestamp(held.sec, held.nsec) \in InstantItems
          /\ WordFits(EncodeTimestamp(held.sec, held.nsec))
          /\ TimeOf(EncodeTimestamp(held.sec, held.nsec)) = Instant(held.sec, held.nsec)
      BY <3>1, InstantRoundTrip DEF IsTime
    <3>3. Instant(held.sec, held.nsec) = held
      BY <3>1 DEF Instant, IsTime, InstantTypes
    <3>4. held' \in InstantItems /\ WordFits(held') /\ TimeOf(held') = held
      BY <2>3, <3>2, <3>3
    <3>5. held'.kind = "instant item"
      BY <3>4 DEF InstantItems
    <3>6. IsTime(TimeOf(held')) /\ Kept(TimeOf(held'))
      BY <3>1, <3>4
    <3>7. InstantInv'
      BY <2>1, <3>4, <3>5, <3>6
         DEF InstantInv, Kept, IsTime, TimeOf, WordFits
    <3>8. QED  BY <3>7
  <2>4. CASE held.kind = "instant item" /\ held' = TimeOf(held)
    <3>1. held'.kind = "instant" /\ IsTime(held') /\ Kept(held')
      BY <2>4, KindsProduced DEF InstantInv
    <3>2. QED  BY <2>1, <3>1 DEF InstantInv, Kept, IsTime
  <2>5. QED
    <3>1. /\ LengthOf(held.of, ToInt(held.word), held.room).kind = "length"
          /\ EncodeLength(held.of, held.value).kind = "length item"
      BY DEF LengthOf, EncodeLength, LengthItem
    <3>2. Refused(held).kind = "refused"
      BY KindsProduced, Zenon
    <3>3. \/ held'.kind \notin {"instant", "instant item"}
          \/ held.kind = "instant" /\ held' = EncodeTimestamp(held.sec, held.nsec)
          \/ held.kind = "instant item" /\ held' = TimeOf(held)
      <4>1. CASE held' = EncodeLength(held.of, held.value)
        BY <3>1, <4>1
      <4>2. CASE held' = LengthOf(held.of, ToInt(held.word), held.room)
        BY <3>1, <4>2
      <4>3. CASE held' = Refused(held)
        BY <3>2, <4>3
      <4>4. QED  BY <1>2, <4>1, <4>2, <4>3, Outcomes
    <3>4. QED  BY <2>2, <2>3, <2>4, <3>3
<1>3. QED  BY <1>1, <1>2

-----------------------------------------------------------------------------
(* Lengths.                                                                *)

\* The length n is the one that was first held, if that has four bytes of room.
SameLength(n) == origin.kind = "length" => n = origin.value \/ origin.value >= Span[4]

KeptInv ==
  /\ origin.kind = "length" => origin.value \in Int /\ Holds(Signed(IntWidth), origin.value)
  /\ held.kind = "length" => SameLength(held.value)
  /\ held.kind = "length item" => SameLength(held.word)

LengthInv ==
  /\ held.kind = "length" => held \in LengthTypes
  /\ held.kind = "length item" => held \in LengthItems /\ held.word < Span[4]

\* A length has its bytes behind it.
SizeInv ==
  held.kind = "length" => 0 <= held.value /\ Needed(held.of, held.value) <= held.room

\* A length that is written has the bytes it needs (encoder.go:169-255).
LEMMA LengthWritten ==
  ASSUME NEW k \in Sized, NEW n \in Nat
  PROVE  /\ EncodeLength(k, n) \in LengthItems /\ EncodeLength(k, n).word < Span[4]
         /\ n < Span[4] => EncodeLength(k, n).word = n
<1> DEFINE w == HeaderWidth(k, n)
           x == IF w = 0 /\ k = "ext" THEN n ELSE n % Room(k, w)
<1>1. /\ Span[1] \in Nat /\ Span[2] \in Nat /\ Span[4] \in Nat
      /\ Span[1] >= 16 /\ Span[1] < Span[2] /\ Span[2] < Span[4]
  BY SpanFacts DEF Widths
<1>2. w \in {0, 1, 2, 4}
  BY DEF HeaderWidth
<1>3. x \in Nat /\ x < Span[4] /\ (n < Span[4] => x = n)
  <2>1. CASE InFormat(k, n)
    <3>1. w = 0
      BY <2>1 DEF HeaderWidth
    <3>2. n < Span[1] \/ n <= 16
      BY <1>1, <2>1 DEF InFormat
    <3>3. n < Span[4]
      BY <1>1, <3>2
    <3>4. CASE k = "ext"
      <4> HIDE DEF w
      <4>1. QED  BY <3>1, <3>3, <3>4
    <3>5. CASE k # "ext"
      <4> DEFINE R == Room(k, 0)
      <4>1. /\ R = IF k = "str" THEN Span[1] \div 8 ELSE Span[1] \div 16
            /\ Span[1] \div 8 \in Nat \ {0} /\ Span[1] \div 16 \in Nat \ {0}
        BY <1>1 DEF Room
      <4>2. R \in Nat /\ R > 0 /\ n < R
        BY <2>1, <3>5, <4>1 DEF InFormat
      <4> HIDE DEF R
      <4>3. n % R = n
        BY <4>2, DivMod
      <4>4. x = n % R
        BY <3>1, <3>5 DEF R
      <4> HIDE DEF w, x
      <4>5. QED  BY <3>3, <4>3, <4>4
    <3>6. QED  BY <3>4, <3>5
  <2>2. CASE w \in {1, 2}
    <3>1. n < Span[w] /\ Span[w] \in Nat /\ Span[w] > 0 /\ Span[w] <= Span[4]
      BY <1>1, <2>2 DEF HeaderWidth
    <3>2. x = n % Span[w]
      BY <2>2 DEF Room
    <3> HIDE DEF w, x
    <3>3. n % Span[w] = n
      BY <3>1, DivMod
    <3>4. QED  BY <1>1, <3>1, <3>2, <3>3
  <2>4. CASE w = 4
    <3>1. x = n % Span[4]
      BY <2>4 DEF Room
    <3> HIDE DEF w, x
    <3>2. /\ n % Span[4] \in Nat /\ n % Span[4] < Span[4]
          /\ n < Span[4] => n % Span[4] = n
      BY <1>1, DivMod
    <3>3. QED  BY <3>1, <3>2
  <2>5. w = 0 => InFormat(k, n)
    BY DEF HeaderWidth
  <2>6. QED  BY <1>2, <2>1, <2>2, <2>4, <2>5
<1>4. Needed(k, n) \in Nat
  BY DEF Needed
<1>5. EncodeLength(k, n) = LengthItem(k, w, x, Needed(k, n))
  BY DEF EncodeLength
<1> DEFINE r == Needed(k, n)
           i == EncodeLength(k, n)
<1> HIDE DEF w, x, r, i
<1>6. i = LengthItem(k, w, x, r)
  BY <1>5 DEF i, r
<1>7. i.word = x
  BY <1>6 DEF LengthItem
<1>8. i \in LengthItems
  BY <1>2, <1>3, <1>4, <1>6 DEF LengthItem, LengthItems, r
<1>9. QED  BY <1>3, <1>7, <1>8 DEF i

\* The lengths there are at first are natural numbers, with their bytes behind them.
LEMMA LengthInit == Init => LengthInv /\ KeptInv /\ SizeInv
<1> SUFFICES ASSUME Init PROVE LengthInv /\ KeptInv /\ SizeInv
  OBVIOUS
<1>0. origin = held
  BY DEF Init
<1>1. CASE held \in Lengths
  <2>1. /\ held \in LengthTypes /\ held.value >= 0 /\ held.room = Needed(held.of, held.value)
        /\ Holds(Signed(IntWidth), held.value)
    BY <1>1, InputAssumption
  <2>2. held.kind = "length" /\ held.room \in Nat /\ held.value \in Int
    BY <2>1 DEF LengthTypes
  <2>3. QED  BY <1>0, <2>1, <2>2 DEF LengthInv, KeptInv, SizeInv, SameLength
<1>2. CASE held \in LengthItems /\ held \in Foreign
  <2>1. held.kind = "length item" /\ held.kind # "length"
    BY <1>2 DEF LengthItems
  <2>2. held.word < Span[4]
    BY <1>2, <2>1, InputAssumption DEF WordFits
  <2>3. QED  BY <1>0, <1>2, <2>1, <2>2 DEF LengthInv, KeptInv, SizeInv, SameLength
<1>3. CASE held.kind \notin {"length", "length item"}
  BY <1>0, <1>3 DEF LengthInv, KeptInv, SizeInv
<1>4. CASE \E t \in IntTypes, x \in Numbers : held = Number(t, x)
  <2>1. held.kind = "number"
    BY <1>4 DEF Number
  <2>2. QED  BY <1>3, <2>1
<1>5. CASE held \in NumberItems \cup InstantItems \cup InstantTypes
  <2>1. held.kind \in {"number item", "instant item", "instant"}
    BY <1>5 DEF NumberItems, InstantItems, InstantTypes
  <2>2. QED  BY <1>3, <2>1
<1>6. QED  BY <1>1, <1>2, <1>4, <1>5, InputAssumption DEF Init, Items

\* What the steps make of the lengths.
LEMMA LengthOutcomes ==
  ASSUME Next
  PROVE  /\ origin' = origin
         /\ \/ held'.kind \notin {"length", "length item"}
            \/ /\ held.kind = "length" /\ held.value >= 0
               /\ held' = EncodeLength(held.of, held.value)
            \/ /\ held.kind = "length item" /\ Valid(held)
               /\ held' = LengthOf(held.of, ToInt(held.word), held.room)
<1>1. \A s, n : EncodeTimestamp(s, n).kind = "instant item"
  BY KindsProduced
<1>2. \A i : TimeOf(i).kind = "instant"
  BY KindsProduced
<1>3. \A i : Refused(i).kind = "refused"
  BY KindsProduced
<1>4. CASE held' = EncodeTimestamp(held.sec, held.nsec)
  BY <1>1, <1>4, Outcomes
<1>5. CASE held' = TimeOf(held)
  BY <1>2, <1>5, Outcomes
<1>6. CASE held' = Refused(held)
  BY <1>3, <1>6, Outcomes
<1>7. QED  BY <1>4, <1>5, <1>6, Outcomes

\* Lengths and their items keep their types.
LEMMA LengthStep ==
  ASSUME LengthInv, [Next]_vars
  PROVE  LengthInv'
<1>1. CASE UNCHANGED vars
  BY <1>1 DEF vars, LengthInv
<1>2. CASE Next /\ held'.kind \notin {"length", "length item"}
  BY <1>2 DEF LengthInv
<1>3. CASE held.kind = "length" /\ held.value >= 0 /\ held' = EncodeLength(held.of, held.value)
  <2>1. held.of \in Sized /\ held.value \in Nat
    BY <1>3 DEF LengthInv, LengthTypes
  <2>2. held' \in LengthItems /\ held'.word < Span[4]
    BY <1>3, <2>1, LengthWritten
  <2>3. held'.kind = "length item" /\ held'.kind # "length"
    BY <2>2 DEF LengthItems
  <2>4. QED  BY <2>2, <2>3 DEF LengthInv
<1>4. CASE held.kind = "length item" /\ held' = LengthOf(held.of, ToInt(held.word), held.room)
  <2>1. held.of \in Sized /\ held.word \in Nat /\ held.room \in Nat
    BY <1>4 DEF LengthInv, LengthItems
  <2>2. IntWidth \in Widths
    BY IntAssumption DEF Widths
  <2>3. ToInt(held.word) \in Int
    BY <2>1, <2>2, TypesOfWidths, ConvertFacts DEF ToInt
  <2>4. held' \in LengthTypes
    BY <1>4, <2>1, <2>3 DEF LengthOf, LengthTypes
  <2>5. held'.kind = "length"
    BY <2>4 DEF LengthTypes
  <2>6. QED  BY <2>4, <2>5 DEF LengthInv
<1>5. QED  BY <1>1, <1>2, <1>3, <1>4, LengthOutcomes

\* With an int of 64 bits int(n) is n, for twice what 32 bits can say.
LEMMA IntHasRoom ==
  ASSUME IntWidth = 8, NEW n \in Nat, n < 2 * Span[4]
  PROVE  ToInt(n) = n
<1>1. 8 \in Widths
  BY DEF Widths
<1>2. Half(8) \in Nat /\ Span[4] \in Nat /\ 4 * Span[4] <= Half(8)
      /\ Low(Signed(8)) = -Half(8) /\ High(Signed(8)) = Half(8) - 1
  BY <1>1, SpanFacts, SpanRoom DEF Widths, Low, High, Signed
<1>3. -Half(8) <= n /\ n <= Half(8) - 1
  BY <1>2
<1>4. Holds(Signed(8), n)
  BY <1>2, <1>3, Zenon DEF Holds
<1>5. Convert(Signed(8), n) = n
  BY <1>1, <1>4, TypesOfWidths, ConvertFacts
<1>6. QED  BY <1>5 DEF ToInt

\* Lengths that are written and read back are the ones they were, whatever the
\* width of an int (decode_struct.go:89-255, encoder.go:169-287).
LEMMA KeptStep ==
  ASSUME LengthInv, KeptInv, [Next]_vars
  PROVE  KeptInv'
<1>0. Span[4] \in Nat
  BY SpanFacts DEF Widths
<1>1. CASE UNCHANGED vars
  BY <1>1, Zenon DEF vars, KeptInv, SameLength
<1>2. CASE Next
  <2>0. origin' = origin
    BY <1>2, LengthOutcomes
  <2>1. CASE held'.kind \notin {"length", "length item"}
    BY <2>0, <2>1 DEF KeptInv
  <2>2. CASE held.kind = "length" /\ held.value >= 0 /\ held' = EncodeLength(held.of, held.value)
    <3>1. held.of \in Sized /\ held.value \in Nat /\ SameLength(held.value)
      BY <2>2 DEF LengthInv, LengthTypes, KeptInv
    <3>2. held' \in LengthItems /\ (held.value < Span[4] => held'.word = held.value)
      BY <2>2, <3>1, LengthWritten
    <3>3. held'.kind = "length item" /\ held'.kind # "length"
      BY <3>2 DEF LengthItems
    <3>4. ASSUME origin.kind = "length"
          PROVE  held'.word = origin.value \/ origin.value >= Span[4]
      <4>1. held.value = origin.value \/ origin.value >= Span[4]
        BY <3>1, <3>4 DEF SameLength
      <4>2. CASE held.value < Span[4]
        BY <3>2, <4>1, <4>2
      <4>3. CASE ~(held.value < Span[4])
        <5>1. held.value >= Span[4]
          BY <1>0, <3>1, <4>3
        <5>2. QED  BY <4>1, <5>1
      <4>4. QED  BY <4>2, <4>3
    <3>5. QED  BY <2>0, <3>3, <3>4 DEF KeptInv, SameLength
  <2>3. CASE held.kind = "length item" /\ held' = LengthOf(held.of, ToInt(held.word), held.room)
    <3>1. SameLength(held.word)
      BY <2>3 DEF KeptInv
    <3>2. /\ held'.value = ToInt(held.word)
          /\ held'.kind = "length" /\ held'.kind # "length item"
      BY <2>3 DEF LengthOf
    <3>3. ASSUME origin.kind = "length", held.word = origin.value
          PROVE  ToInt(held.word) = origin.value
      <4>1. origin.value \in Int /\ Holds(Signed(IntWidth), origin.value)
        BY <3>3 DEF KeptInv
      <4>2. IntWidth \in Widths
        BY IntAssumption DEF Widths
      <4>3. Convert(Signed(IntWidth), origin.value) = origin.value
        BY <4>1, <4>2, TypesOfWidths, ConvertFacts
      <4>4. QED  BY <3>3, <4>3 DEF ToInt
    <3>4. QED  BY <2>0, <3>1, <3>2, <3>3 DEF KeptInv, SameLength
  <2>4. QED  BY <1>2, <2>1, <2>2, <2>3, LengthOutcomes
<1>3. QED  BY <1>1, <1>2

\* Where an int has 64 bits, what is sliced and allocated by a length is there.
LEMMA SizeStep ==
  ASSUME IntWidth = 8, LengthInv, SizeInv, [Next]_vars
  PROVE  SizeInv'
<1>0. Span[4] \in Nat
  BY SpanFacts DEF Widths
<1>1. CASE UNCHANGED vars
  BY <1>1, Zenon DEF vars, SizeInv, Needed
<1>2. CASE held'.kind # "length"
  BY <1>2 DEF SizeInv
<1>3. CASE held' = EncodeLength(held.of, held.value)
  <2>1. held'.kind # "length"
    BY <1>3 DEF EncodeLength, LengthItem
  <2>2. QED  BY <1>2, <2>1
<1>4. CASE /\ Next /\ held.kind = "length item" /\ Valid(held)
           /\ held' = LengthOf(held.of, ToInt(held.word), held.room)
  <2> DEFINE n == held.word
             m == IF held.of = "map" THEN 2 * n ELSE n
  <2>1. n \in Nat /\ n < Span[4]
    BY <1>4 DEF LengthInv, LengthItems
  <2>2. ToInt(n) = n /\ ToInt(2 * n) = 2 * n
    <3> HIDE DEF n
    <3>1. 2 * n \in Nat /\ 2 * n < 2 * Span[4] /\ n < 2 * Span[4]
      BY <1>0, <2>1
    <3>2. QED  BY <2>1, <3>1, IntHasRoom
  <2>3. m <= held.room
    BY <1>4, <2>2 DEF Valid
  <2>4. m = Needed(held.of, n)
    BY DEF Needed
  <2>5. /\ held'.of = held.of /\ held'.value = n /\ held'.room = held.room
        /\ held'.kind = "length"
    BY <1>4, <2>2 DEF LengthOf
  <2>6. Needed(held.of, n) <= held.room
    BY <2>3, <2>4
  <2>7. (Needed(held.of, held.value) <= held.room)'
    BY <2>5, <2>6 DEF Needed
  <2>8. (0 <= held.value)'
    BY <2>1, <2>5
  <2>9. QED  BY <2>5, <2>7, <2>8 DEF SizeInv
<1>5. QED  BY <1>1, <1>2, <1>3, <1>4, LengthOutcomes

-----------------------------------------------------------------------------
(* The most compact format.                                                *)

\* A positive fixint is the shortest format of the small numbers, an unsigned
\* one that of the others (encoder.go:109-154).
LEMMA UintCompact ==
  ASSUME NEW x \in Int, Holds(Unsigned(8), x)
  PROVE  Least(SizeOf(EncodeUint(x)), NumberSizes(x))
<1> DEFINE i == EncodeUint(x)
           f == Fitting("uint", x)
<1>1. /\ Half(1) \in Nat /\ Span[1] \in Nat /\ Span[1] \div 8 \in Nat
      /\ 0 <= x
  BY SpanFacts, UnsignedRange DEF Widths
<1>2. CASE x < Half(1)
  <2>1. SizeOf(i) = 1
    BY <1>2 DEF EncodeUint, NumberItem, SizeOf
  <2>2. 1 \in NumberSizes(x)
    BY <1>1, <1>2 DEF NumberSizes
  <2>3. \A z \in NumberSizes(x) : 1 <= z
    BY DEF NumberSizes, Widths
  <2>4. QED  BY <2>1, <2>2, <2>3 DEF Least
<1>3. CASE ~(x < Half(1))
  <2>1. SizeOf(i) = 1 + f
    BY <1>3 DEF EncodeUint, NumberItem, SizeOf
  <2>2. f \in Widths /\ Holds(Unsigned(f), x)
    BY DEF Fitting, FormatType, Widths
  <2>3. 1 + f \in NumberSizes(x)
    BY <2>2 DEF NumberSizes
  <2>4. ASSUME NEW w \in Widths, Holds(Signed(w), x) \/ Holds(Unsigned(w), x)
        PROVE  f <= w
    <3>1. Half(w) \in Nat /\ Span[w] \in Nat /\ 2 * Half(w) = Span[w]
      BY SpanFacts
    <3>2. Holds(Unsigned(w), x)
      <4>1. CASE Holds(Signed(w), x)
        <5>1. x <= Span[w] - 1
          BY <3>1, <4>1, SignedRange
        <5>2. QED  BY <1>1, <3>1, <5>1, UnsignedRange
      <4>2. QED  BY <2>4, <4>1
    <3>3. QED  BY <3>2 DEF Fitting, FormatType, Widths
  <2>5. ASSUME NEW z \in NumberSizes(x) PROVE 1 + f <= z
    <3>1. PICK w \in Widths : z = 1 + w /\ (Holds(Signed(w), x) \/ Holds(Unsigned(w), x))
      BY <1>3 DEF NumberSizes
    <3>2. f <= w /\ f \in Nat /\ w \in Nat
      BY <2>2, <2>4, <3>1 DEF Widths
    <3> HIDE DEF f
    <3>3. QED  BY <3>1, <3>2
  <2>6. QED  BY <2>1, <2>3, <2>5 DEF Least
<1>4. QED  BY <1>2, <1>3

\* A negative fixint is the shortest format of the numbers it has room for, a
\* signed one that of the other negative ones (encoder.go:109-154).
LEMMA IntCompact ==
  ASSUME NEW x \in Int, Holds(Signed(8), x)
  PROVE  Least(SizeOf(EncodeInt(x)), NumberSizes(x))
<1> DEFINE i == EncodeInt(x)
           f == Fitting("int", x)
<1>1. CASE x >= 0
  <2>1. Half(8) \in Nat /\ Span[8] \in Nat /\ 2 * Half(8) = Span[8] /\ x <= Half(8) - 1
    BY SpanFacts, SignedRange DEF Widths
  <2>2. x <= Span[8] - 1
    BY <2>1
  <2>3. Holds(Unsigned(8), x)
    BY <1>1, <2>2, UnsignedRange DEF Widths
  <2>4. EncodeInt(x) = EncodeUint(x)
    BY <1>1 DEF EncodeInt
  <2>5. QED  BY <2>3, <2>4, UintCompact
<1>2. CASE ~(x >= 0) /\ x >= -(Span[1] \div 8)
  <2>1. SizeOf(i) = 1
    BY <1>2 DEF EncodeInt, NumberItem, SizeOf
  <2>2. Half(1) \in Nat /\ Half(1) > 0 /\ Span[1] \in Nat /\ Span[1] \div 8 \in Nat
    BY SpanFacts DEF Widths
  <2>3. -(Span[1] \div 8) <= x /\ x < Half(1)
    BY <1>2, <2>2
  <2>4. 1 \in NumberSizes(x)
    BY <2>3 DEF NumberSizes
  <2>5. \A z \in NumberSizes(x) : 1 <= z
    BY DEF NumberSizes, Widths
  <2>6. QED  BY <2>1, <2>4, <2>5 DEF Least
<1>3. CASE ~(x >= 0) /\ ~(x >= -(Span[1] \div 8))
  <2>1. SizeOf(i) = 1 + f
    BY <1>3 DEF EncodeInt, NumberItem, SizeOf
  <2>2. f \in Widths /\ Holds(Signed(f), x)
    BY DEF Fitting, FormatType, Widths
  <2>3. 1 + f \in NumberSizes(x)
    BY <2>2 DEF NumberSizes
  <2>4. ASSUME NEW w \in Widths, Holds(Signed(w), x) \/ Holds(Unsigned(w), x)
        PROVE  f <= w
    <3>1. Holds(Signed(w), x)
      BY <1>3, <2>4, UnsignedRange
    <3>2. QED  BY <3>1 DEF Fitting, FormatType, Widths
  <2>5. Span[1] \in Nat /\ Span[1] \div 8 \in Nat
    BY SpanFacts DEF Widths
  <2>6. ~(-(Span[1] \div 8) <= x)
    BY <1>3, <2>5
  <2>7. ASSUME NEW z \in NumberSizes(x) PROVE 1 + f <= z
    <3>1. PICK w \in Widths : z = 1 + w /\ (Holds(Signed(w), x) \/ Holds(Unsigned(w), x))
      BY <2>6 DEF NumberSizes
    <3>2. f <= w /\ f \in Nat /\ w \in Nat
      BY <2>2, <2>4, <3>1 DEF Widths
    <3> HIDE DEF f
    <3>3. QED  BY <3>1, <3>2
  <2>8. QED  BY <2>1, <2>3, <2>7 DEF Least
<1>4. QED  BY <1>1, <1>2, <1>3

\* The shortest extension that an instant fits in (timestamp.go:18-66).
LEMMA InstantCompact ==
  ASSUME NEW s \in Int, NEW n \in Nat
  PROVE  Least(SizeOf(EncodeTimestamp(s, n)), InstantSizes(s, n))
<1> DEFINE z == SizeOf(EncodeTimestamp(s, n))
<1>1. CASE n = 0 /\ 0 <= s /\ s < Span[4]
  <2>1. z = 2 + 4
    BY <1>1 DEF EncodeTimestamp, InstantItem, SizeOf
  <2>2. QED  BY <1>1, <2>1 DEF Least, InstantSizes
<1>2. CASE ~(n = 0 /\ 0 <= s /\ s < Span[4]) /\ 0 <= s /\ s < SecondsIn8
  <2>1. z = 2 + 8
    BY <1>2 DEF EncodeTimestamp, InstantItem, SizeOf
  <2>2. QED  BY <1>2, <2>1 DEF Least, InstantSizes
<1>3. CASE ~(n = 0 /\ 0 <= s /\ s < Span[4]) /\ ~(0 <= s /\ s < SecondsIn8)
  <2>1. z = 3 + 12
    BY <1>3 DEF EncodeTimestamp, InstantItem, SizeOf
  <2>2. QED  BY <1>3, <2>1 DEF Least, InstantSizes
<1>4. QED  BY <1>1, <1>2, <1>3

\* The shortest header that a length fits in (encoder.go:169-255).
LEMMA LengthCompact ==
  ASSUME NEW k \in Sized, NEW n \in Nat, n < Span[4]
  PROVE  Least(SizeOf(EncodeLength(k, n)), LengthSizes(k, n))
<1> DEFINE h == HeaderWidth(k, n)
<1>1. SizeOf(EncodeLength(k, n)) = 1 + h
  BY DEF EncodeLength, LengthItem, SizeOf
<1>2. /\ Span[1] \in Nat /\ Span[2] \in Nat /\ Span[4] \in Nat
      /\ Span[1] \div 8 \in Nat /\ Span[1] \div 16 \in Nat
  BY SpanFacts DEF Widths
<1>3. InFormat(k, n) <=> n \in FixLengths(k)
  BY <1>2 DEF InFormat, FixLengths, Sized
<1>4. CASE InFormat(k, n)
  <2>1. h = 0
    BY <1>4 DEF HeaderWidth
  <2>2. 1 \in LengthSizes(k, n)
    BY <1>3, <1>4 DEF LengthSizes
  <2>3. \A z \in LengthSizes(k, n) : 1 <= z
    BY DEF LengthSizes
  <2>4. QED  BY <1>1, <2>1, <2>2, <2>3 DEF Least
<1>5. CASE ~InFormat(k, n)
  <2>1. h \in {1, 2, 4} /\ n < Span[h] /\ (h = 1 => k \in {"str", "bin", "ext"})
    BY <1>5 DEF HeaderWidth
  <2>2. 1 + h \in LengthSizes(k, n)
    BY <2>1 DEF LengthSizes
  <2>3. ASSUME NEW w \in {1, 2, 4}, n < Span[w], w = 1 => k \in {"str", "bin", "ext"}
        PROVE  h <= w
    BY <1>2, <1>5, <2>3 DEF HeaderWidth
  <2>4. ASSUME NEW z \in LengthSizes(k, n) PROVE 1 + h <= z
    <3>1. PICK w \in {1, 2, 4} : /\ z = 1 + w /\ n < Span[w]
                                 /\ w = 1 => k \in {"str", "bin", "ext"}
      BY <1>3, <1>5 DEF LengthSizes
    <3>2. h <= w /\ h \in Nat /\ w \in Nat
      BY <2>1, <2>3, <3>1
    <3> HIDE DEF h
    <3>3. QED  BY <3>1, <3>2
  <2>5. QED  BY <1>1, <2>2, <2>4 DEF Least
<1>6. QED  BY <1>4, <1>5

\* Only Write makes an item of what is held.
LEMMA ItemsAreWritten ==
  ASSUME Next, held'.kind \in ItemKinds
  PROVE  Write
<1>0. held'.kind \notin {"number", "instant", "length", "refused"}
  BY DEF ItemKinds
<1>1. \A t, x : Arrive(t, x) => held'.kind = "number"
  BY DEF Arrive, Number
<1>2. held' = Refused(held) => held'.kind = "refused"
  BY DEF Refused
<1>3. held' = TimeOf(held) => held'.kind = "instant"
  BY DEF TimeOf, Unix, Instant
<1>4. held' = LengthOf(held.of, ToInt(held.word), held.room) => held'.kind = "length"
  BY DEF LengthOf
<1>5. CASE As
  BY <1>0, <1>1, <1>5 DEF As
<1>6. CASE ReadNumber
  BY <1>0, <1>1, <1>2, <1>6
     DEF ReadNumber, ReadValue, ReadAny, ReadInt, ReadUint, ReadValueUint, Refuse
<1>7. CASE ReadInstant
  BY <1>0, <1>2, <1>3, <1>7 DEF ReadInstant
<1>8. CASE ReadLength
  BY <1>0, <1>2, <1>4, <1>8 DEF ReadLength
<1>9. QED  BY <1>5, <1>6, <1>7, <1>8 DEF Next

\* Whatever is written, no format of the same value is shorter.
LEMMA WriteIsShortest ==
  ASSUME NumberInv, InstantInv, LengthInv, Write
  PROVE  Shortest(held, held')
<1>1. CASE held.kind = "number"
  <2> DEFINE t == held.type
             x == held.value
  <2>1. t \in IntTypes /\ x \in Int /\ Holds(t, x)
    BY <1>1 DEF NumberInv, NumberTypes
  <2>2. held' = IF t.signed THEN EncodeInt(x) ELSE EncodeUint(x)
    BY <1>1 DEF Write
  <2>3. IF t.signed THEN Holds(Signed(8), x) ELSE Holds(Unsigned(8), x)
    BY <2>1, Widen
  <2>4. Shortest(held, held') = Least(SizeOf(held'), NumberSizes(x))
    BY <1>1 DEF Shortest
  <2> HIDE DEF t, x
  <2>5. CASE t.signed
    BY <2>1, <2>2, <2>3, <2>4, <2>5, IntCompact
  <2>6. CASE ~t.signed
    BY <2>1, <2>2, <2>3, <2>4, <2>6, UintCompact
  <2>7. QED  BY <2>5, <2>6
<1>2. CASE held.kind = "instant"
  <2>1. held.sec \in Int /\ held.nsec \in Nat
    BY <1>2 DEF InstantInv, IsTime, InstantTypes
  <2>2. held' = EncodeTimestamp(held.sec, held.nsec)
    BY <1>2 DEF Write
  <2>3. QED  BY <1>2, <2>1, <2>2, InstantCompact DEF Shortest
<1>3. CASE held.kind = "length"
  <2>1. held.of \in Sized /\ held.value \in Nat
    BY <1>3 DEF Write, LengthInv, LengthTypes
  <2>2. held' = EncodeLength(held.of, held.value)
    BY <1>3 DEF Write
  <2>3. QED  BY <1>3, <2>1, <2>2, LengthCompact DEF Shortest
<1>4. QED  BY <1>1, <1>2, <1>3 DEF Write

-----------------------------------------------------------------------------
(* The theorems.                                                           *)

\* What is held is of some kind, and what is refused was an item.
LEMMA KindInit == Init => KindInv
<1> SUFFICES ASSUME Init PROVE KindInv
  OBVIOUS
<1>1. CASE \E t \in IntTypes, x \in Numbers : held = Number(t, x)
  <2>1. held.kind = "number"
    BY <1>1 DEF Number
  <2>2. QED  BY <2>1 DEF KindInv
<1>2. CASE held \in InstantTypes \cup LengthTypes \cup Items
  <2>1. held.kind \in {"number item", "instant item", "length item", "instant", "length"}
    BY <1>2 DEF Items, NumberItems, InstantItems, LengthItems, InstantTypes, LengthTypes
  <2>2. QED  BY <2>1 DEF KindInv
<1>3. QED  BY <1>1, <1>2, InputAssumption DEF Init

\* What is held is always one of the kinds; what is refused is an item.
LEMMA KindStep ==
  ASSUME KindInv, NumberInv, InstantInv, LengthInv, [Next]_vars
  PROVE  KindInv'
<1>1. CASE UNCHANGED vars
  BY <1>1 DEF vars, KindInv, Items, NumberItems, InstantItems, LengthItems, Widths, Sized
<1>2. CASE Next /\ held' = Refused(held)
           /\ held.kind \in {"number item", "instant item", "length item"}
  <2>1. held \in Items
    BY <1>2 DEF NumberInv, InstantInv, LengthInv, Items
  <2>2. held' \in [kind : {"refused"}, item : Items]
    BY <1>2, <2>1 DEF Refused
  <2>3. held'.kind = "refused"
    BY <2>2
  <2>4. QED  BY <2>2, <2>3 DEF KindInv, Items, NumberItems, InstantItems, LengthItems, Widths, Sized
<1>3. CASE held'.kind \in {"number", "number item", "instant", "instant item", "length",
                           "length item"}
  BY <1>3 DEF KindInv
<1>4. CASE held' = EncodeTimestamp(held.sec, held.nsec)
  BY <1>3, <1>4, KindsProduced
<1>5. CASE held' = TimeOf(held)
  BY <1>3, <1>5, KindsProduced
<1>6. CASE held' = EncodeLength(held.of, held.value)
  BY <1>3, <1>6, KindsProduced
<1>7. CASE held' = LengthOf(held.of, ToInt(held.word), held.room)
  BY <1>3, <1>7 DEF LengthOf
<1>8. QED  BY <1>1, <1>2, <1>3, <1>4, <1>5, <1>6, <1>7, Outcomes

Inv ==
  /\ KindInv /\ NumberInv /\ WrapInv
  /\ InstantInv
  /\ LengthInv /\ KeptInv

\* The parts of the invariant together are inductive.
LEMMA Inductive == Spec => []Inv
<1>1. Init => Inv
  BY KindInit, NumberInit, WrapInit, InstantInit, LengthInit DEF Inv
<1>2. Inv /\ [Next]_vars => Inv'
  BY KindStep, NumberStep, WrapStep, InstantStep, LengthStep, KeptStep DEF Inv
<1>3. QED  BY <1>1, <1>2, PTL DEF Spec

\* Every variable holds what its type can hold and every word fits its bytes,
\* whatever is encoded, decoded and converted in whatever order.
THEOREM ScalarTypes == Spec => []TypeOK
<1>1. ASSUME Inv PROVE TypeOK
  <2>1. /\ held.kind = "number" => held \in NumberTypes /\ Holds(held.type, held.value)
        /\ held.kind = "number item" => held \in NumberItems /\ WordFits(held)
        /\ fits \in BOOLEAN /\ narrowest \in Widths
    BY <1>1 DEF Inv, NumberInv
  <2>2. /\ held.kind = "instant" => held \in InstantTypes /\ Holds(Signed(8), held.sec)
                                    /\ held.nsec < Second
        /\ held.kind = "instant item" => held \in InstantItems /\ WordFits(held)
    BY <1>1 DEF Inv, InstantInv, IsTime
  <2>3. /\ held.kind = "length" => held \in LengthTypes
        /\ held.kind = "length item" => held \in LengthItems /\ held.word < Span[4]
    BY <1>1 DEF Inv, LengthInv
  <2>4. held \in NumberTypes \cup InstantTypes \cup LengthTypes \cup Items
                 \cup [kind : {"refused"}, item : Items]
    BY <1>1, <2>1, <2>2, <2>3 DEF Inv, KindInv, Items
  <2>5. ASSUME held \in Items PROVE WordFits(held)
    <3>1. CASE held \in NumberItems
      <4>1. held.kind = "number item"
        BY <3>1 DEF NumberItems
      <4>2. QED  BY <2>1, <4>1
    <3>2. CASE held \in InstantItems
      <4>1. held.kind = "instant item"
        BY <3>2 DEF InstantItems
      <4>2. QED  BY <2>2, <4>1
    <3>3. CASE held \in LengthItems
      <4>1. held.kind = "length item" /\ held.kind # "number item" /\ held.kind # "instant item"
        BY <3>3 DEF LengthItems
      <4>2. QED  BY <2>3, <4>1 DEF WordFits
    <3>4. QED  BY <2>5, <3>1, <3>2, <3>3 DEF Items
  <2>6. QED  BY <2>1, <2>2, <2>4, <2>5 DEF TypeOK
<1>2. QED  BY <1>1, Inductive, PTL

\* However often a number goes through the wire it is the one it was, as long as
\* every type on the way can hold it: for every width of the words, every
\* encoder and every reader (encoder.go:109-154, decode_struct.go:453-524,
\* struct_decoder.go:225-285, decode_any.go:393-468, value.go).
THEOREM NumbersSurvive == Spec => []NumbersKept
<1>1. ASSUME Inv PROVE NumbersKept
  <2>1. SUFFICES ASSUME held.kind = "number", fits PROVE held.value = First
    BY DEF NumbersKept
  <2>2. Denoted = First
    BY <1>1, <2>1 DEF Inv, NumberInv
  <2>3. QED  BY <2>1, <2>2 DEF Denoted
<1>2. QED  BY <1>1, Inductive, PTL

\* An unsigned reader refuses no number that this encoder wrote for a number it
\* could hold (decoder.go:433-455, decode_struct.go:491-524).
THEOREM RefusalsMeanNegative == Spec => []RefusalsJustified
<1>1. ASSUME Inv PROVE RefusalsJustified
  <2>1. SUFFICES ASSUME held.kind = "refused", held.item.kind = "number item",
                        ~(Meaning(held.item) < 0)
                 PROVE  held.item \notin {EncodeInt(Meaning(held.item)),
                                          EncodeUint(Meaning(held.item))}
    BY DEF RefusalsJustified
  <2> DEFINE i == held.item
             m == Meaning(i)
  <2>2. i \in Items /\ RefusedByUint(i)
    BY <1>1, <2>1 DEF Inv, KindInv, NumberInv
  <2>3. i \in NumberItems
    BY <2>1, <2>2 DEF Items, InstantItems, LengthItems
  <2>4. i.format # "uint"
    BY <2>2 DEF RefusedByUint, NegativeFixint
  <2>5. m \in Int /\ Holds(Signed(8), m)
    BY <2>3, <2>4, MeaningType
  <2>6. m >= 0
    <3>1. ~(m < 0)
      BY <2>1
    <3> HIDE DEF m
    <3>2. QED  BY <2>5, <3>1
  <2>7. ~RefusedByUint(EncodeInt(m)) /\ EncodeInt(m) = EncodeUint(m)
    BY <2>5, <2>6, IntMeaning DEF EncodeInt
  <2>8. QED  BY <2>2, <2>7
<1>2. QED  BY <1>1, Inductive, PTL

\* An instant is kept to the nanosecond through the three payloads
\* (timestamp.go:18-180).
THEOREM InstantsSurvive == Spec => []InstantsKept
<1>1. ASSUME Inv PROVE InstantsKept
  BY <1>1 DEF Inv, InstantInv, InstantsKept, Kept
<1>2. QED  BY <1>1, Inductive, PTL

\* Where some type on the way cannot hold a number, what is left agrees with it
\* in the bits of the narrowest one: the readers and encoders lose nothing more
\* (encoder.go:109-154, decode_struct.go:453-524, decode_any.go:393-468).
THEOREM NumbersAreWrapped == Spec => []NumbersWrap
<1>1. ASSUME Inv PROVE NumbersWrap
  <2>1. SUFFICES ASSUME held.kind = "number"
                 PROVE  (held.value - First) % Span[narrowest] = 0
    BY DEF NumbersWrap
  <2>2. held.value \in Int /\ First \in Int /\ narrowest \in Widths
    BY <1>1, <2>1 DEF Inv, NumberInv, NumberTypes
  <2>3. Multiple(Span[narrowest], held.value - First)
    BY <1>1, <2>1 DEF Inv, WrapInv, Denoted
  <2>4. Span[narrowest] \in Nat /\ Span[narrowest] > 0
    BY <2>2, SpanFacts
  <2>5. held.value - First \in Int
    BY <2>2
  <2>6. QED  BY <2>3, <2>4, <2>5, MultipleMod
<1>2. QED  BY <1>1, Inductive, PTL

\* Whatever the width of an int, a length that is written and read is the one it
\* was (decode_struct.go:89-255, encoder.go:169-287).
THEOREM LengthsSurvive == Spec => []LengthsKept
<1>1. Inv => LengthsKept
  BY DEF Inv, KeptInv, SameLength, LengthsKept
<1>2. QED  BY <1>1, Inductive, PTL

\* Where an int has 64 bits, a length that is read is not negative, and the
\* message holds what it announces (decode_struct.go:89-255).
THEOREM LengthsAreBacked ==
  ASSUME IntWidth = 8
  PROVE  Spec => []LengthsBacked
<1>1. Init => LengthInv /\ SizeInv
  BY LengthInit
<1>2. LengthInv /\ SizeInv /\ [Next]_vars => LengthInv' /\ SizeInv'
  BY LengthStep, SizeStep
<1>3. SizeInv => LengthsBacked
  BY DEF SizeInv, LengthsBacked
<1>4. QED  BY <1>1, <1>2, <1>3, PTL DEF Spec

\* Every number, instant and length of every width is written in the shortest
\* of the formats that can hold it, those without a payload included
\* (encoder.go:109-255, timestamp.go:18-66).
THEOREM EncodingIsCompact == Spec => MostCompact
<1>1. ASSUME Inv, [Next]_vars
      PROVE  [held'.kind \in ItemKinds => Shortest(held, held')]_vars
  <2>1. SUFFICES ASSUME Next, held'.kind \in ItemKinds PROVE Shortest(held, held')
    BY <1>1
  <2>2. Write
    BY <2>1, ItemsAreWritten
  <2>3. QED  BY <1>1, <2>2, WriteIsShortest DEF Inv
<1>2. QED  BY <1>1, Inductive, PTL DEF Spec, MostCompact

=============================================================================
