--------------------------- MODULE DecoderProofs ----------------------------
(***************************************************************************)
(* What holds of Decoder for every configuration, every set of buffers and *)
(* every length of buffer, however often the decoder is reused.            *)
(***************************************************************************)
EXTENDS Decoder, WireProofs

-----------------------------------------------------------------------------
(* The inductive invariant.                                                *)

\* A container whose inner value is being read has that value still to
\* count: the loops of the Go frames that wait are not over.
WaitingFramesNotOver == \A i \in 1..Len(stack) - 1 : stack[i].left > 0

\* Every container that enterContainer let in found the limit respected.
OpenWithinLimit == Tracked /\ stack # <<>> => depth <= MaxDepth

IInv ==
  /\ TypeOK
  /\ PosInBounds
  /\ SlotsBackedByBytes
  /\ DepthRestored
  /\ WaitingFramesNotOver
  /\ OpenWithinLimit
  /\ status # "running" => stack = <<>>

\* What every step of a walk leaves alone.
Quiet == UNCHANGED <<data, walk, start, base>>

\* The first states satisfy the invariant: a new Decoder has read nothing.
LEMMA InitInv == Init => IInv
<1> SUFFICES ASSUME Init PROVE IInv
  OBVIOUS
<1>1. data \in Seq(Byte)
  BY MessagesAssumption DEF Init
<1>2. walk \in {"value", "any", "typed"}
  BY CallerAssumption DEF Init
<1>3. Len(data) \in Nat
  BY <1>1
<1>4. QED
  BY <1>1, <1>2, <1>3 DEF Init, IInv, TypeOK, PosInBounds, SlotsBackedByBytes,
     DepthRestored, WaitingFramesNotOver, OpenWithinLimit, Errors

\* An error return keeps the invariant: the deferred leaveContainer calls take
\* off exactly the frames that were open.
LEMMA FailInv ==
  ASSUME IInv, status = "running", Quiet,
         NEW e \in Errors, NEW p \in Nat, pos <= p, p <= Len(data),
         NEW d \in Nat,
         d = depth + (IF e = "ErrMaxDepthExceeded" THEN 1 ELSE 0),
         Fail(e, p, d)
  PROVE  IInv'
<1>1. /\ status' = e /\ pos' = p /\ stack' = <<>>
      /\ data' = data /\ walk' = walk /\ start' = start /\ base' = base
  BY DEF Fail, Quiet
<1>2. Tracked' = Tracked
  BY <1>1 DEF Tracked
<1>3. depth' = base + (IF e = "ErrMaxDepthExceeded" THEN 1 ELSE 0)
  BY DEF Fail, IInv, DepthRestored, TypeOK
<1>4. TypeOK'
  BY <1>1, <1>3 DEF IInv, TypeOK
<1>5. DepthRestored'
  BY <1>1, <1>3 DEF DepthRestored, Errors
<1>6. PosInBounds'
  BY <1>1 DEF IInv, PosInBounds, TypeOK
<1>7. QED
  BY <1>1, <1>4, <1>5, <1>6
     DEF IInv, SlotsBackedByBytes, WaitingFramesNotOver, OpenWithinLimit

\* Reading one value keeps the invariant: the frames that stay were open
\* before, and the innermost of them had the value still to count.
LEMMA DoneInv ==
  ASSUME IInv, status = "running", Quiet,
         NEW outer \in Seq(Frame), Len(outer) <= Len(stack),
         \A i \in 1..Len(outer) : outer[i] = stack[i] /\ outer[i].left > 0,
         NEW p \in Nat, pos <= p, p <= Len(data),
         depth' = base + (IF Tracked THEN Len(outer) ELSE 0),
         Done(outer, p)
  PROVE  IInv'
<1>1. /\ pos' = p
      /\ data' = data /\ walk' = walk /\ start' = start /\ base' = base
  BY DEF Done, Quiet
<1>2. Tracked' = Tracked
  BY <1>1 DEF Tracked
<1>3. PosInBounds'
  BY <1>1 DEF IInv, PosInBounds, TypeOK
<1>4. depth' \in Nat
  BY DEF IInv, TypeOK
<1>5. CASE outer = <<>>
  <2>1. stack' = <<>> /\ status' = "ok"
    BY <1>5 DEF Done
  <2>2. TypeOK'
    BY <1>1, <1>4, <2>1 DEF IInv, TypeOK
  <2>3. DepthRestored'
    BY <1>1, <1>5, <2>1 DEF DepthRestored, Errors, IInv, TypeOK
  <2>4. QED
    BY <1>3, <2>1, <2>2, <2>3
       DEF IInv, SlotsBackedByBytes, WaitingFramesNotOver, OpenWithinLimit
<1>6. CASE outer # <<>>
  <2> DEFINE n == Len(outer)
  <2>1. n \in Nat /\ n >= 1 /\ n \in 1..Len(outer)
    BY <1>6
  <2>2. stack' = [outer EXCEPT ![n] = CountOne(outer[n])] /\ status' = status
    BY <1>6 DEF Done
  <2>3. outer[n] \in Frame /\ outer[n].left \in Nat /\ outer[n].left > 0
    <3>1. outer[n] \in Frame
      BY <2>1, ElementOfSeq
    <3>2. QED  BY <2>1, <3>1 DEF Frame
  <2> DEFINE top == CountOne(outer[n])
  <2>5. top \in Frame /\ top.left = outer[n].left - 1
    BY <2>3 DEF Frame, CountOne
  <2>6. stack' \in Seq(Frame) /\ Len(stack') = n
    <3> HIDE DEF top
    <3>1. stack' = [outer EXCEPT ![n] = top]
      BY <2>2 DEF top
    <3>2. QED  BY <2>1, <2>5, <3>1
  <2>7. \A i \in 1..n : stack'[i].left <= outer[i].left
    <3> SUFFICES ASSUME NEW i \in 1..n PROVE stack'[i].left <= outer[i].left
      OBVIOUS
    <3>1. CASE i = n
      BY <3>1, <2>1, <2>2, <2>3, <2>5
    <3>2. CASE i # n
      <4>1. stack'[i] = outer[i]
        BY <3>2, <2>2
      <4>2. outer[i] \in Frame
        BY ElementOfSeq
      <4>3. QED  BY <4>1, <4>2 DEF Frame
    <3>3. QED  BY <3>1, <3>2
  <2>8. \A i \in 1..n - 1 : stack'[i] = outer[i]
    BY <2>1, <2>2
  <2>9. TypeOK'
    BY <1>1, <1>4, <2>2, <2>6 DEF IInv, TypeOK
  <2>10. DepthRestored'
    BY <1>1, <1>2, <2>2, <2>6 DEF DepthRestored, Errors
  <2>11. SlotsBackedByBytes'
    <3> SUFFICES ASSUME NEW i \in 1..n PROVE stack'[i].left <= Len(data)
      BY <1>1, <2>6 DEF SlotsBackedByBytes
    <3>1. stack'[i].left <= outer[i].left
      BY <2>7
    <3>2. outer[i].left <= Len(data)
      <4>1. i \in 1..Len(stack)
        BY <2>1 DEF IInv, TypeOK
      <4>2. outer[i] = stack[i]
        OBVIOUS
      <4>3. QED  BY <4>1, <4>2 DEF IInv, SlotsBackedByBytes
    <3>3. stack'[i].left \in Nat /\ outer[i].left \in Nat /\ Len(data) \in Nat
      <4>1. stack'[i] \in Frame /\ outer[i] \in Frame
        BY <2>6
      <4>2. QED  BY <4>1 DEF Frame, IInv, TypeOK
    <3>4. QED  BY <3>1, <3>2, <3>3
  <2>12. WaitingFramesNotOver'
    BY <2>1, <2>6, <2>8 DEF WaitingFramesNotOver
  <2>13. OpenWithinLimit'
    <3> SUFFICES ASSUME Tracked PROVE depth' <= MaxDepth
      BY <1>2 DEF OpenWithinLimit
    <3>1. stack # <<>>
      BY <2>1 DEF IInv, TypeOK
    <3>2. depth <= MaxDepth /\ depth = base + Len(stack)
      BY <3>1 DEF IInv, OpenWithinLimit, DepthRestored
    <3>3. QED
      BY <3>2, ConfigAssumption DEF IInv, TypeOK
  <2>14. QED
    BY <1>3, <2>2, <2>9, <2>10, <2>11, <2>12, <2>13 DEF IInv
<1>7. QED  BY <1>5, <1>6

\* What the reads of a running walk know of the item at pos.
LEMMA ItemFacts ==
  ASSUME IInv, HasBytes(pos, 1)
  PROVE  /\ format \in Byte
         /\ LenWidth(format) \in Nat
         /\ ScalarWidth(format) \in Nat
         /\ body \in Nat /\ pos < body
         /\ LenReadable => body <= Len(data) /\ itemLen \in Nat /\ Values \in Nat
<1>1. data \in Seq(Byte) /\ pos \in Nat /\ Len(data) \in Nat
  BY DEF IInv, TypeOK
<1>2. format \in Byte
  <2>1. pos + 1 \in 1..Len(data)
    BY <1>1 DEF HasBytes
  <2>2. QED  BY <1>1, <2>1, ElementOfSeq DEF format
<1>3. LenWidth(format) \in Nat /\ ScalarWidth(format) \in Nat
  BY <1>2, LenWidthType, ScalarWidthType
<1>4. body \in Nat /\ pos < body
  BY <1>1, <1>3 DEF body
<1>5. ASSUME LenReadable
      PROVE  body <= Len(data) /\ itemLen \in Nat /\ Values \in Nat
  <2>1. pos + 1 + LenWidth(format) <= Len(data)
    BY <1>5 DEF LenReadable, HasBytes
  <2>2. itemLen \in Nat
    BY <1>1, <1>2, <2>1, ItemLenType DEF itemLen
  <2>3. QED
    BY <1>1, <2>1, <2>2 DEF body, Values
<1>6. QED  BY <1>2, <1>3, <1>4, <1>5

\* While a container's loop is not over, its frame has a value to count.
LEMMA ReadingFrames ==
  ASSUME IInv, ~AtEnd
  PROVE  \A i \in 1..Len(stack) : stack[i].left > 0
<1> SUFFICES ASSUME NEW i \in 1..Len(stack) PROVE stack[i].left > 0
  OBVIOUS
<1>1. stack \in Seq(Frame) /\ Len(stack) \in Nat
  BY DEF IInv, TypeOK
<1>2. CASE i = Len(stack)
  <2>1. stack # <<>>
    BY <1>1
  <2>2. stack[i].left # 0
    BY <1>2, <2>1 DEF AtEnd
  <2>3. stack[i] \in Frame
    BY <1>1, ElementOfSeq
  <2>4. QED  BY <2>2, <2>3 DEF Frame
<1>3. CASE i # Len(stack)
  <2>1. i \in 1..Len(stack) - 1
    BY <1>1, <1>3
  <2>2. QED  BY <2>1 DEF IInv, WaitingFramesNotOver
<1>4. QED  BY <1>2, <1>3

\* A value was read and no container was opened or closed.
LEMMA ReadInv ==
  ASSUME IInv, Reading, NEW p \in Nat, pos <= p, p <= Len(data),
         Done(stack, p), UNCHANGED depth
  PROVE  IInv'
<1>1. \A i \in 1..Len(stack) : stack[i] = stack[i] /\ stack[i].left > 0
  BY ReadingFrames DEF Reading
<1>2. stack \in Seq(Frame) /\ Len(stack) <= Len(stack)
  BY DEF IInv, TypeOK
<1>3. depth' = base + (IF Tracked THEN Len(stack) ELSE 0)
  BY DEF Reading, IInv, DepthRestored
<1>4. QED
  BY <1>1, <1>2, <1>3, DoneInv DEF Reading, Quiet

\* The walk failed with an error other than ErrMaxDepthExceeded.
LEMMA ReadFailInv ==
  ASSUME IInv, Reading, NEW p \in Nat, pos <= p, p <= Len(data),
         NEW e \in Errors \ {"ErrMaxDepthExceeded"}, Fail(e, p, depth)
  PROVE  IInv'
<1>1. depth \in Nat /\ e \in Errors /\ status = "running" /\ Quiet
  BY DEF IInv, TypeOK, Reading, Quiet
<1>2. depth = depth + (IF e = "ErrMaxDepthExceeded" THEN 1 ELSE 0)
  BY <1>1
<1>3. QED
  BY <1>1, <1>2, FailInv

\* A length that passed its validate*Len call is backed by bytes.
LEMMA ValidateNil ==
  ASSUME Validate = "nil", kind \in {"str", "bin", "ext", "array", "map"}
  PROVE  HasBytes(body, Values)
<1>1. TooLong(kind) # "nil"
  BY DEF TooLong
<1>2. QED
  BY <1>1 DEF Validate

\* Opening a container keeps the invariant: the validate*Len call bounds its
\* slots, enterContainer bounds the depth.
LEMMA OpenInv == IInv /\ OpenContainer => IInv'
<1> SUFFICES ASSUME IInv, OpenContainer PROVE IInv'
  OBVIOUS
<1> DEFINE frame == [kind |-> kind, left |-> Values]
<1>1. /\ Reading /\ HasBytes(pos, 1) /\ kind \in {"array", "map"}
      /\ LenReadable /\ Validate = "nil"
      /\ status = "running" /\ Quiet
  BY DEF OpenContainer, ReadingKind, Reading, Quiet
<1>2. /\ body \in Nat /\ pos < body /\ body <= Len(data) /\ Values \in Nat
      /\ pos \in Nat /\ start \in Nat /\ Len(data) \in Nat /\ start <= pos
      /\ depth \in Nat /\ base \in Nat /\ stack \in Seq(Frame)
  BY <1>1, ItemFacts DEF IInv, TypeOK, PosInBounds
<1>3. Values <= Len(data)
  BY <1>1, <1>2, ValidateNil DEF HasBytes
<1>4. CASE Tracked /\ depth + 1 > MaxDepth
  <2>1. Fail("ErrMaxDepthExceeded", body, depth + 1)
    BY <1>4 DEF OpenContainer
  <2>2. depth + 1 \in Nat /\ pos <= body
    BY <1>2
  <2>3. QED
    BY <1>1, <1>2, <2>1, <2>2, FailInv DEF Errors
<1>5. CASE ~(Tracked /\ depth + 1 > MaxDepth)
  <2>1. /\ stack' = Append(stack, frame)
        /\ depth' = IF Tracked THEN depth + 1 ELSE depth
        /\ pos' = body
        /\ status' = status
    BY <1>5 DEF OpenContainer
  <2>2. data' = data /\ walk' = walk /\ start' = start /\ base' = base
    BY <1>1 DEF Quiet
  <2>3. Tracked' = Tracked
    BY <2>2 DEF Tracked
  <2>4. frame \in Frame /\ frame.left = Values
    BY <1>1, <1>2 DEF Frame
  <2> HIDE DEF frame
  <2>5. /\ stack' \in Seq(Frame) /\ Len(stack') = Len(stack) + 1
        /\ stack' # <<>>
        /\ stack'[Len(stack) + 1] = frame
        /\ \A i \in 1..Len(stack) : stack'[i] = stack[i]
    BY <1>2, <2>1, <2>4
  <2>6. TypeOK'
    BY <1>2, <2>1, <2>2, <2>5 DEF IInv, TypeOK
  <2>7. PosInBounds'
    BY <1>2, <2>1, <2>2 DEF PosInBounds
  <2>8. SlotsBackedByBytes'
    <3> SUFFICES ASSUME NEW i \in 1..Len(stack) + 1
                 PROVE  stack'[i].left <= Len(data)
      BY <2>2, <2>5 DEF SlotsBackedByBytes
    <3>1. CASE i = Len(stack) + 1
      BY <3>1, <2>4, <2>5, <1>3
    <3>2. CASE i # Len(stack) + 1
      <4>1. i \in 1..Len(stack)
        BY <3>2, <1>2
      <4>2. QED  BY <4>1, <2>5 DEF IInv, SlotsBackedByBytes
    <3>3. QED  BY <3>1, <3>2
  <2>9. DepthRestored'
    BY <1>1, <1>2, <2>1, <2>2, <2>3, <2>5 DEF IInv, DepthRestored, Errors
  <2>10. WaitingFramesNotOver'
    <3> SUFFICES ASSUME NEW i \in 1..Len(stack) PROVE stack'[i].left > 0
      BY <1>2, <2>5 DEF WaitingFramesNotOver
    <3>1. QED  BY <1>1, <2>5, ReadingFrames DEF Reading
  <2>11. OpenWithinLimit'
    BY <1>2, <1>5, <2>1, <2>3, ConfigAssumption DEF OpenWithinLimit
  <2>12. QED
    BY <1>1, <2>1, <2>6, <2>7, <2>8, <2>9, <2>10, <2>11 DEF IInv
<1>6. QED  BY <1>4, <1>5

\* The frames around the innermost one.
LEMMA FrontFrames ==
  ASSUME NEW st \in Seq(Frame), Len(st) > 0
  PROVE  LET outer == SubSeq(st, 1, Len(st) - 1)
         IN  /\ outer \in Seq(Frame) /\ Len(outer) = Len(st) - 1
             /\ \A i \in 1..Len(outer) : outer[i] = st[i]
<1> DEFINE outer == SubSeq(st, 1, Len(st) - 1)
<1>1. \A i \in 1..Len(st) - 1 : st[i] \in Frame
  BY ElementOfSeq
<1>2. /\ outer \in Seq(Frame)
      /\ Len(outer) = IF 1 <= Len(st) - 1 THEN Len(st) - 1 - 1 + 1 ELSE 0
      /\ \A i \in 1..Len(st) - 1 - 1 + 1 : outer[i] = st[1 + i - 1]
  BY <1>1, SubSeqProperties
<1> HIDE DEF outer
<1>3. Len(outer) = Len(st) - 1
  <2>1. \A n \in Nat : n > 0 => (IF 1 <= n - 1 THEN n - 1 - 1 + 1 ELSE 0) = n - 1
    OBVIOUS
  <2>2. Len(st) \in Nat
    OBVIOUS
  <2>3. QED  BY <1>2, <2>1, <2>2, Zenon
<1>4. ASSUME NEW i \in 1..Len(outer) PROVE outer[i] = st[i]
  <2>1. i \in 1..Len(st) - 1 - 1 + 1 /\ 1 + i - 1 = i
    BY <1>3
  <2>2. QED  BY <1>2, <2>1
<1>5. QED  BY <1>2, <1>3, <1>4 DEF outer

\* Closing a container keeps the invariant: the one around it was waiting
\* for this value.
LEMMA CloseInv == IInv /\ CloseContainer => IInv'
<1> SUFFICES ASSUME IInv, CloseContainer PROVE IInv'
  OBVIOUS
<1> DEFINE outer == SubSeq(stack, 1, Len(stack) - 1)
<1>1. /\ status = "running" /\ stack # <<>> /\ Quiet
      /\ Done(outer, pos)
      /\ depth' = IF Tracked THEN depth - 1 ELSE depth
  BY DEF CloseContainer, AtEnd, Quiet
<1>2. /\ stack \in Seq(Frame) /\ Len(stack) \in Nat /\ Len(stack) > 0
      /\ pos \in Nat /\ pos <= Len(data)
  BY <1>1 DEF IInv, TypeOK, PosInBounds
<1>3. /\ outer \in Seq(Frame) /\ Len(outer) = Len(stack) - 1
      /\ \A i \in 1..Len(outer) : outer[i] = stack[i]
  BY <1>2, FrontFrames
<1>4. \A i \in 1..Len(outer) : outer[i] = stack[i] /\ outer[i].left > 0
  BY <1>2, <1>3 DEF IInv, WaitingFramesNotOver
<1>5. depth' = base + (IF Tracked THEN Len(outer) ELSE 0)
  <2>1. depth = base + (IF Tracked THEN Len(stack) ELSE 0) /\ base \in Nat
    BY <1>1 DEF IInv, DepthRestored, TypeOK
  <2>2. Len(outer) = Len(stack) - 1
    BY <1>3
  <2> HIDE DEF outer
  <2>3. QED  BY <1>1, <1>2, <2>1, <2>2
<1>6. Len(outer) <= Len(stack) /\ pos <= pos
  BY <1>2, <1>3
<1> HIDE DEF outer
<1>7. QED
  BY <1>1, <1>2, <1>3, <1>4, <1>5, <1>6, DoneInv

-----------------------------------------------------------------------------
(* The steps.                                                              *)

\* Each step of a walk keeps the invariant.
LEMMA StepInv == IInv /\ Step => IInv'
<1> SUFFICES ASSUME IInv, Step PROVE IInv'
  OBVIOUS
<1>0. pos \in Nat /\ depth \in Nat /\ Len(data) \in Nat /\ pos <= Len(data)
  BY DEF IInv, TypeOK, PosInBounds
<1>1. CASE NoFormatByte
  <2>1. Reading /\ Fail("ErrUnexpectedEOF", pos, depth)
    BY <1>1 DEF NoFormatByte
  <2>2. QED  BY <1>0, <2>1, ReadFailInv DEF Errors
<1>2. CASE Unsupported
  <2>1. Reading /\ Fail("ErrInvalidFormat", pos + 1, depth) /\ HasBytes(pos, 1)
    BY <1>2 DEF Unsupported
  <2>2. pos + 1 \in Nat /\ pos <= pos + 1 /\ pos + 1 <= Len(data)
    BY <1>0, <2>1 DEF HasBytes
  <2>3. QED  BY <2>1, <2>2, ReadFailInv DEF Errors
<1>3. CASE BadKey
  <2>1. Reading /\ Fail(KeyError, pos + 1, depth) /\ HasBytes(pos, 1)
    BY <1>3 DEF BadKey
  <2>2. pos + 1 \in Nat /\ pos <= pos + 1 /\ pos + 1 <= Len(data)
    BY <1>0, <2>1 DEF HasBytes
  <2>3. KeyError \in Errors \ {"ErrMaxDepthExceeded"}
    BY DEF KeyError, Errors
  <2>4. QED  BY <2>1, <2>2, <2>3, ReadFailInv
<1>4. CASE Scalar
  <2>1. Reading /\ HasBytes(pos, 1)
    BY <1>4 DEF Scalar, ReadingKind
  <2>2. ScalarWidth(format) \in Nat /\ pos + 1 <= Len(data)
    BY <1>0, <2>1, ItemFacts DEF HasBytes
  <2>3. CASE HasBytes(pos + 1, ScalarWidth(format))
    <3>1. Done(stack, pos + 1 + ScalarWidth(format)) /\ UNCHANGED depth
      BY <1>4, <2>3 DEF Scalar
    <3>2. /\ pos + 1 + ScalarWidth(format) \in Nat
          /\ pos <= pos + 1 + ScalarWidth(format)
          /\ pos + 1 + ScalarWidth(format) <= Len(data)
      BY <1>0, <2>2, <2>3 DEF HasBytes
    <3>3. QED  BY <2>1, <3>1, <3>2, ReadInv
  <2>4. CASE ~HasBytes(pos + 1, ScalarWidth(format))
    <3>1. Fail("ErrUnexpectedEOF", pos + 1, depth)
      BY <1>4, <2>4 DEF Scalar
    <3>2. QED  BY <1>0, <2>1, <2>2, <3>1, ReadFailInv DEF Errors
  <2>5. QED  BY <2>3, <2>4
<1>5. CASE BadLength
  <2>1. Reading /\ HasBytes(pos, 1) /\ kind \in {"str", "bin", "ext", "array", "map"}
    BY <1>5 DEF BadLength, ReadingKind
  <2>2. CASE ~LenReadable /\ Fail("ErrUnexpectedEOF", pos + 1, depth)
    <3>1. pos + 1 \in Nat /\ pos <= pos + 1 /\ pos + 1 <= Len(data)
      BY <1>0, <2>1 DEF HasBytes
    <3>2. QED  BY <2>1, <2>2, <3>1, ReadFailInv DEF Errors
  <2>3. CASE LenReadable /\ Validate # "nil" /\ Fail(Validate, body, depth)
    <3>1. body \in Nat /\ pos <= body /\ body <= Len(data)
      BY <1>0, <2>1, <2>3, ItemFacts
    <3>2. TooLong(kind) \in Errors \ {"ErrMaxDepthExceeded"}
      BY <2>1 DEF TooLong, Errors
    <3>3. Validate \in Errors \ {"ErrMaxDepthExceeded"}
      BY <2>3, <3>2 DEF Validate, Errors
    <3>4. QED  BY <2>1, <2>3, <3>1, <3>3, ReadFailInv
  <2>4. QED  BY <1>5, <2>2, <2>3 DEF BadLength
<1>6. CASE StringOrBinary
  <2>1. /\ Reading /\ HasBytes(pos, 1) /\ LenReadable /\ Validate = "nil"
        /\ kind \in {"str", "bin"}
        /\ Done(stack, body + itemLen) /\ UNCHANGED depth
    BY <1>6 DEF StringOrBinary, ReadingKind
  <2>2. HasBytes(body, itemLen)
    BY <2>1, ValidateNil DEF Values
  <2>3. body + itemLen \in Nat /\ pos <= body + itemLen /\ body + itemLen <= Len(data)
    BY <1>0, <2>1, <2>2, ItemFacts DEF HasBytes
  <2>4. QED  BY <2>1, <2>3, ReadInv
<1>7. CASE Extension
  <2>1. Reading /\ HasBytes(pos, 1) /\ LenReadable
    BY <1>7 DEF Extension, ReadingKind
  <2>2. body \in Nat /\ pos <= body /\ body <= Len(data) /\ itemLen \in Nat
    BY <1>0, <2>1, ItemFacts
  <2>3. CASE HasBytes(body, 1 + itemLen)
    <3>1. Done(stack, body + 1 + itemLen) /\ UNCHANGED depth
      BY <1>7, <2>2, <2>3 DEF Extension, HasBytes
    <3>2. /\ body + 1 + itemLen \in Nat /\ pos <= body + 1 + itemLen
          /\ body + 1 + itemLen <= Len(data)
      BY <1>0, <2>2, <2>3 DEF HasBytes
    <3>3. QED  BY <2>1, <3>1, <3>2, ReadInv
  <2>4. CASE ~HasBytes(body, 1)
    <3>1. Fail("ErrUnexpectedEOF", body, depth)
      BY <1>7, <1>0, <2>2, <2>4 DEF Extension, HasBytes
    <3>2. QED  BY <2>1, <2>2, <3>1, ReadFailInv DEF Errors
  <2>5. CASE HasBytes(body, 1) /\ ~HasBytes(body, 1 + itemLen)
    <3>1. Fail("ErrUnexpectedEOF", body + 1, depth)
      BY <1>7, <2>5 DEF Extension
    <3>2. body + 1 \in Nat /\ pos <= body + 1 /\ body + 1 <= Len(data)
      BY <1>0, <2>2, <2>5 DEF HasBytes
    <3>3. QED  BY <2>1, <3>1, <3>2, ReadFailInv DEF Errors
  <2>6. QED  BY <2>3, <2>4, <2>5
<1>8. CASE OpenContainer
  BY <1>8, OpenInv
<1>9. CASE CloseContainer
  BY <1>9, CloseInv
<1>10. QED
  BY <1>1, <1>2, <1>3, <1>4, <1>5, <1>6, <1>7, <1>8, <1>9 DEF Step

\* The caller's steps keep the invariant.
LEMMA CallerInv ==
  ASSUME IInv,
         \/ \E w \in Walks : Call(w)
         \/ \E m \in ResetMessages : Reset(m)
  PROVE  IInv'
<1>1. ASSUME NEW w \in Walks, Call(w) PROVE IInv'
  <2>1. /\ walk' = w /\ status' = "running" /\ start' = pos /\ base' = depth
        /\ data' = data /\ pos' = pos /\ depth' = depth /\ stack' = stack
        /\ status # "running"
    BY <1>1 DEF Call, Errors
  <2>2. stack = <<>> /\ stack' = <<>>
    BY <2>1 DEF IInv
  <2>3. w \in {"value", "any", "typed"}
    BY CallerAssumption
  <2>4. TypeOK'
    BY <2>1, <2>2, <2>3 DEF IInv, TypeOK
  <2>5. DepthRestored'
    BY <2>1, <2>2 DEF IInv, TypeOK, DepthRestored, Errors, Tracked
  <2>6. QED
    BY <2>1, <2>2, <2>4, <2>5 DEF IInv, TypeOK, PosInBounds, SlotsBackedByBytes,
       WaitingFramesNotOver, OpenWithinLimit
<1>2. ASSUME NEW m \in ResetMessages, Reset(m) PROVE IInv'
  <2>1. /\ data' = m /\ pos' = 0 /\ depth' = 0 /\ start' = 0 /\ base' = 0
        /\ stack' = <<>> /\ status' = "idle" /\ walk' = walk
    BY <1>2 DEF Reset
  <2>2. m \in Seq(Byte) /\ Len(m) \in Nat
    BY MessagesAssumption
  <2>3. TypeOK'
    BY <2>1, <2>2 DEF IInv, TypeOK
  <2>4. DepthRestored'
    BY <2>1 DEF DepthRestored, Errors
  <2>5. QED
    BY <2>1, <2>2, <2>3, <2>4 DEF IInv, PosInBounds, SlotsBackedByBytes,
       WaitingFramesNotOver, OpenWithinLimit
<1>3. QED  BY <1>1, <1>2

-----------------------------------------------------------------------------
(* The theorems.                                                           *)

\* The inductive invariant holds of every Decoder.
THEOREM Invariance == Spec => []IInv
<1>1. IInv /\ [Next]_vars => IInv'
  <2> SUFFICES ASSUME IInv, [Next]_vars PROVE IInv'
    OBVIOUS
  <2>1. CASE Step
    BY <2>1, StepInv
  <2>2. CASE (\E w \in Walks : Call(w)) \/ (\E m \in ResetMessages : Reset(m))
    BY <2>2, CallerInv
  <2>3. CASE UNCHANGED vars
    BY <2>3 DEF vars, IInv, TypeOK, PosInBounds, SlotsBackedByBytes, DepthRestored,
       WaitingFramesNotOver, OpenWithinLimit, Tracked
  <2>4. QED  BY <2>1, <2>2, <2>3 DEF Next
<1>2. QED  BY InitInv, <1>1, PTL DEF Spec

\* The variables of a Decoder keep their types: in particular depth never
\* becomes negative, whatever errors the walks return through.
THEOREM TypeCorrect == Spec => []TypeOK
<1>1. IInv => TypeOK
  BY DEF IInv
<1>2. QED  BY Invariance, <1>1, PTL

\* No walk reads or slices outside the buffer.
THEOREM PosStaysInBounds == Spec => []PosInBounds
<1>1. IInv => PosInBounds
  BY DEF IInv
<1>2. QED  BY Invariance, <1>1, PTL

\* Whatever the lengths on the wire claim, a container that is being read was
\* given no more slots than the buffer has bytes.
THEOREM SlotsAreBacked == Spec => []SlotsBackedByBytes
<1>1. IInv => SlotsBackedByBytes
  BY DEF IInv
<1>2. QED  BY Invariance, <1>1, PTL

\* enterContainer and leaveContainer balance, but for the one count that a
\* call refused with ErrMaxDepthExceeded leaves behind.
THEOREM DepthIsRestored == Spec => []DepthRestored
<1>1. IInv => DepthRestored
  BY DEF IInv
<1>2. QED  BY Invariance, <1>1, PTL

\* Decode and DecodeAny never recurse deeper than MaxDepth, on any buffer and
\* in any sequence of calls on one Decoder.
THEOREM RecursionIsBounded == Spec => []RecursionBounded
<1>1. IInv => RecursionBounded
  <2> SUFFICES ASSUME IInv, Tracked, stack # <<>> PROVE Len(stack) <= MaxDepth
    BY DEF RecursionBounded
  <2>1. depth <= MaxDepth /\ status = "running"
    BY DEF IInv, OpenWithinLimit
  <2>2. depth = base + Len(stack) /\ base \in Nat /\ Len(stack) \in Nat
    BY <2>1 DEF IInv, DepthRestored, TypeOK
  <2>3. QED  BY <2>1, <2>2, ConfigAssumption
<1>2. QED  BY Invariance, <1>1, PTL

\* A step consumes input, closes a container or ends the walk.
LEMMA StepProgress == IInv /\ Step => Progress
<1> SUFFICES ASSUME IInv, Step PROVE Progress
  OBVIOUS
<1>0. pos \in Nat /\ depth \in Nat /\ stack \in Seq(Frame) /\ Len(stack) \in Nat
  BY DEF IInv, TypeOK
<1>1. ASSUME NEW e \in Errors, NEW p \in Nat, NEW d, Fail(e, p, d), pos <= p
      PROVE  Progress
  BY <1>0, <1>1 DEF Fail, Progress, Errors
<1>2. ASSUME NEW p \in Nat, Done(stack, p), pos < p
      PROVE  Progress
  BY <1>0, <1>2 DEF Done, Progress
<1>3. ASSUME HasBytes(pos, 1)
      PROVE  /\ body \in Nat /\ pos < body /\ ScalarWidth(format) \in Nat
             /\ LenReadable => itemLen \in Nat
  BY <1>3, ItemFacts
<1>4. CASE NoFormatByte
  BY <1>0, <1>1, <1>4 DEF NoFormatByte, Errors
<1>5. CASE Unsupported
  <2>1. Fail("ErrInvalidFormat", pos + 1, depth)
    BY <1>5 DEF Unsupported
  <2>2. pos + 1 \in Nat /\ pos <= pos + 1
    BY <1>0
  <2>3. QED  BY <1>1, <2>1, <2>2 DEF Errors
<1>6. CASE BadKey
  <2>1. Fail(KeyError, pos + 1, depth)
    BY <1>6 DEF BadKey
  <2>2. pos + 1 \in Nat /\ pos <= pos + 1 /\ KeyError \in Errors
    BY <1>0 DEF KeyError, Errors
  <2>3. QED  BY <1>1, <2>1, <2>2
<1>7. CASE Scalar
  <2>1. ScalarWidth(format) \in Nat
    BY <1>3, <1>7 DEF Scalar, ReadingKind
  <2>2. CASE Done(stack, pos + 1 + ScalarWidth(format))
    <3>1. pos + 1 + ScalarWidth(format) \in Nat /\ pos < pos + 1 + ScalarWidth(format)
      BY <1>0, <2>1
    <3>2. QED  BY <1>2, <2>2, <3>1
  <2>3. CASE Fail("ErrUnexpectedEOF", pos + 1, depth)
    <3>1. pos + 1 \in Nat /\ pos <= pos + 1
      BY <1>0
    <3>2. QED  BY <1>1, <2>3, <3>1 DEF Errors
  <2>4. QED  BY <1>7, <2>2, <2>3 DEF Scalar
<1>8. CASE BadLength
  <2>1. HasBytes(pos, 1) /\ kind \in {"str", "bin", "ext", "array", "map"}
    BY <1>8 DEF BadLength, ReadingKind
  <2>2. body \in Nat /\ pos <= body /\ pos + 1 \in Nat /\ pos <= pos + 1
    BY <1>0, <1>3, <2>1
  <2>3. Validate # "nil" => Validate \in Errors
    BY <2>1 DEF Validate, TooLong, Errors
  <2>4. CASE Fail("ErrUnexpectedEOF", pos + 1, depth)
    BY <1>1, <2>2, <2>4 DEF Errors
  <2>5. CASE Validate # "nil" /\ Fail(Validate, body, depth)
    BY <1>1, <2>2, <2>3, <2>5
  <2>6. QED  BY <1>8, <2>4, <2>5 DEF BadLength
<1>9. CASE StringOrBinary
  <2>1. HasBytes(pos, 1) /\ LenReadable /\ Done(stack, body + itemLen)
    BY <1>9 DEF StringOrBinary, ReadingKind
  <2>2. body + itemLen \in Nat /\ pos < body + itemLen
    BY <1>0, <1>3, <2>1
  <2>3. QED  BY <1>2, <2>1, <2>2
<1>10. CASE Extension
  <2>1. HasBytes(pos, 1) /\ LenReadable
    BY <1>10 DEF Extension, ReadingKind
  <2>2. /\ body \in Nat /\ body + 1 \in Nat /\ body + 1 + itemLen \in Nat
        /\ pos <= body /\ pos <= body + 1 /\ pos < body + 1 + itemLen
    BY <1>0, <1>3, <2>1
  <2>3. CASE Done(stack, body + 1 + itemLen)
    BY <1>2, <2>2, <2>3
  <2>4. CASE Fail("ErrUnexpectedEOF", body, depth)
    BY <1>1, <2>2, <2>4 DEF Errors
  <2>5. CASE Fail("ErrUnexpectedEOF", body + 1, depth)
    BY <1>1, <2>2, <2>5 DEF Errors
  <2>6. QED  BY <1>10, <2>3, <2>4, <2>5 DEF Extension
<1>11. CASE OpenContainer
  <2>1. HasBytes(pos, 1)
    BY <1>11 DEF OpenContainer, ReadingKind
  <2>2. body \in Nat /\ pos < body
    BY <1>3, <2>1
  <2>3. CASE Fail("ErrMaxDepthExceeded", body, depth + 1)
    BY <1>0, <1>1, <2>2, <2>3 DEF Errors
  <2>4. CASE pos' = body
    BY <1>0, <2>2, <2>4 DEF Progress
  <2>5. QED  BY <1>11, <2>3, <2>4 DEF OpenContainer
<1>12. CASE CloseContainer
  <2> DEFINE outer == SubSeq(stack, 1, Len(stack) - 1)
  <2>1. stack # <<>> /\ Done(outer, pos)
    BY <1>12 DEF CloseContainer, AtEnd
  <2>2. Len(outer) < Len(stack) /\ (outer # <<>> => outer \in Seq(Frame))
    <3>1. Len(stack) > 0
      BY <1>0, <2>1
    <3>2. \A j \in 1..Len(stack) - 1 : stack[j] \in Frame
      BY <1>0, ElementOfSeq
    <3>3. /\ outer \in Seq(Frame)
          /\ Len(outer) = IF 1 <= Len(stack) - 1 THEN Len(stack) - 1 - 1 + 1 ELSE 0
      BY <1>0, <3>2, SubSeqProperties
    <3> HIDE DEF outer
    <3>4. \A n \in Nat : n > 0 => (IF 1 <= n - 1 THEN n - 1 - 1 + 1 ELSE 0) < n
      OBVIOUS
    <3>5. Len(outer) < Len(stack)
      BY <1>0, <3>1, <3>3, <3>4, Zenon
    <3>6. QED  BY <3>3, <3>5
  <2> HIDE DEF outer
  <2>3. CASE outer = <<>>
    BY <1>0, <2>1, <2>3 DEF Done, Progress
  <2>4. CASE outer # <<>>
    <3>1. Len(stack') = Len(outer) /\ pos' = pos
      BY <2>1, <2>2, <2>4 DEF Done
    <3>2. QED  BY <1>0, <2>2, <3>1 DEF Progress
  <2>5. QED  BY <2>3, <2>4
<1>13. QED
  BY <1>4, <1>5, <1>6, <1>7, <1>8, <1>9, <1>10, <1>11, <1>12 DEF Step

\* Every step of every walk makes progress. With a buffer of n bytes a call
\* therefore takes at most 2n + 1 steps: each byte is consumed once and each
\* container closed once.
THEOREM WalksMakeProgress == Spec => StepMakesProgress
<1>1. IInv /\ [Next]_vars => [Step => Progress]_vars
  BY StepProgress
<1>2. QED  BY Invariance, <1>1, PTL DEF Spec, StepMakesProgress
-----------------------------------------------------------------------------
(* What a walk reads is one value, and what its errors say is true.        *)

Lengths == {"str", "bin", "ext", "array", "map"}

\* Refuses and Readable of a given buffer d and a call of the walk w at s, with the
\* depth b.
RefusedIn(d, w, b, e, at, due, i) ==
  \/ /\ e = "ErrInvalidFormat"
     /\ KindAt(d, at[i]) = "invalid" \/ (KindAt(d, at[i]) = "ext" /\ w # "value")
  \/ /\ e = (IF w = "any" THEN "ErrInvalidFormat" ELSE "ErrTypeMismatch")
     /\ IsKey(d, at, due, i) /\ KindAt(d, at[i]) # "str" /\ w # "value"
  \/ /\ HasHeader(d, at[i]) /\ KindAt(d, at[i]) \in Lengths
     /\ LenAt(d, at[i]) > Limit(KindAt(d, at[i]))
     /\ e = TooLong(KindAt(d, at[i]))
  \/ /\ e = "ErrMaxDepthExceeded"
     /\ HasHeader(d, at[i]) /\ KindAt(d, at[i]) \in {"array", "map"}
     /\ w # "typed" /\ b + Cardinality(Around(due, i)) + 1 > MaxDepth

ReadableIn(d, s, w, b, k, at, due) ==
  /\ IsRow(d, k, at, due) /\ at[0] = s
  /\ \A i \in 0..k-1 : \A e \in Errors : ~RefusedIn(d, w, b, e, at, due, i)

\* A walk with the loops st has read up to p.
StandsAt(d, s, w, b, st, p) ==
  \E k \in Nat : \E at, due \in [0..k -> Nat] :
    /\ ReadableIn(d, s, w, b, k, at, due) /\ at[k] = p
    /\ \E op : LoopsOf(d, st, Len(st), k, at, due, op)

\* One whole value that is not refused was read up to p.
ValueTo(d, s, w, b, p) ==
  \E k \in Nat : \E at, due \in [0..k -> Nat] :
    ReadableIn(d, s, w, b, k, at, due) /\ at[k] = p /\ due[k] = 0

\* There is such a value.
ValueFrom(d, s, w, b) ==
  \E k \in Nat : \E at, due \in [0..k -> Nat] :
    ReadableIn(d, s, w, b, k, at, due) /\ due[k] = 0

\* The item that the error e speaks of is the first to be refused.
RefusedFirst(d, s, w, b, e) ==
  \E k \in Nat : \E at, due \in [0..k -> Nat] :
    /\ ReadableIn(d, s, w, b, k, at, due) /\ due[k] > 0 /\ at[k] < Len(d)
    /\ RefusedIn(d, w, b, e, at, due, k)

TrueOf(d, s, w, b, e) ==
  /\ e = "ErrUnexpectedEOF" => \A q \in Nat : ~IsValue(d, s, q)
  /\ e \in Errors \ {"ErrUnexpectedEOF"} => RefusedFirst(d, s, w, b, e)

\* The inductive invariant: a running walk stands behind a row of items that it has
\* no reason to refuse, and its loops are those of the containers around the next
\* one, with as many values left as the row still asks for.
RInv ==
  /\ status = "running" => StandsAt(data, start, walk, base, stack, pos)
  /\ status = "ok" => ValueTo(data, start, walk, base, pos)
  /\ TrueOf(data, start, walk, base, status)

\* Of a given buffer and call, they are what Decoder says.
LEMMA RefusedMeans ==
  ASSUME NEW e, NEW at, NEW due, NEW i
  PROVE  RefusedIn(data, walk, base, e, at, due, i) <=> Refuses(e, at, due, i)
BY Zenon DEF RefusedIn, Refuses, NoCase, KeyRefused, LengthRefused, NestingRefused, Tracked,
   Lengths

LEMMA ReadableMeans ==
  ASSUME NEW k, NEW at, NEW due
  PROVE  ReadableIn(data, start, walk, base, k, at, due) <=> Readable(k, at, due)
BY RefusedMeans, Zenon DEF ReadableIn, Readable

LEMMA RInvMeans == RInv => OneValueRead /\ ErrorIsTrue
<1>1. RInv => OneValueRead
  BY ReadableMeans, Zenon DEF RInv, ValueTo, OneValueRead
<1>2. RefusedFirst(data, start, walk, base, status) =>
        \E k \in Nat : \E at, due \in [0..k -> Nat] :
          /\ Readable(k, at, due) /\ due[k] > 0 /\ at[k] < Len(data)
          /\ Refuses(status, at, due, k)
  BY ReadableMeans, RefusedMeans, Zenon DEF RefusedFirst
<1>3. RInv => ErrorIsTrue
  BY <1>2, Zenon DEF RInv, TrueOf, ErrorIsTrue
<1>4. QED  BY <1>1, <1>3

\* Which items an item is in, and whether it is a key, is a matter of the row up to
\* that item.
LEMMA AroundSame ==
  ASSUME NEW i \in Nat, NEW at, NEW due, NEW bt, NEW eu, Begins(i, at, due, bt, eu)
  PROVE  Around(eu, i) = Around(due, i)
<1>1. ASSUME NEW j \in 0..i-1
      PROVE  (\A l \in j+1..i : eu[l] >= eu[j]) <=> (\A l \in j+1..i : due[l] >= due[j])
  <2>1. j \in 0..i /\ \A l \in j+1..i : l \in 0..i
    OBVIOUS
  <2>2. eu[j] = due[j] /\ \A l \in j+1..i : eu[l] = due[l]
    BY <2>1 DEF Begins
  <2>3. QED  BY <2>2
<1>2. QED  BY <1>1 DEF Around

LEMMA IsKeySame ==
  ASSUME NEW d, NEW i \in Nat, NEW at, NEW due, NEW bt, NEW eu, Begins(i, at, due, bt, eu)
  PROVE  IsKey(d, bt, eu, i) <=> IsKey(d, at, due, i)
<1>1. Around(eu, i) = Around(due, i)
  BY AroundSame
<1>2. ASSUME NEW j \in Around(due, i)
      PROVE  bt[j] = at[j] /\ eu[j] = due[j] /\ eu[i] = due[i]
  <2>1. j \in 0..i /\ i \in 0..i
    BY DEF Around
  <2>2. QED  BY <2>1 DEF Begins
<1>3. QED  BY <1>1, <1>2, Zenon DEF IsKey

LEMMA RefusedSame ==
  ASSUME NEW d, NEW w, NEW b, NEW e, NEW i \in Nat, NEW at, NEW due, NEW bt, NEW eu,
         Begins(i, at, due, bt, eu)
  PROVE  RefusedIn(d, w, b, e, bt, eu, i) <=> RefusedIn(d, w, b, e, at, due, i)
<1>1. Around(eu, i) = Around(due, i)
  BY AroundSame
<1>2. IsKey(d, bt, eu, i) <=> IsKey(d, at, due, i)
  BY IsKeySame
<1>3. bt[i] = at[i]
  <2>1. i \in 0..i
    OBVIOUS
  <2>2. QED  BY <2>1 DEF Begins
<1>4. QED  BY <1>1, <1>2, <1>3, Zenon DEF RefusedIn

\* The row at, due with the item behind it is bt, eu, and that is readable, too.
ReadsOn(d, s, w, b, k, at, due, m, bt, eu) ==
  /\ ReadableIn(d, s, w, b, m, bt, eu) /\ Begins(k, at, due, bt, eu)
  /\ bt \in [0..m -> Nat] /\ eu \in [0..m -> Nat]
  /\ bt[m] = ItemEnd(d, at[k]) /\ eu[m] = due[k] - 1 + ValuesIn(d, at[k])

\* A walk goes on with an item that is there and that it does not refuse.
LEMMA WalkGoesOn ==
  ASSUME NEW d \in Seq(Byte), NEW s, NEW w, NEW b, NEW k \in Nat, NEW at, NEW due,
         ReadableIn(d, s, w, b, k, at, due), due[k] > 0, IsItem(d, at[k]),
         \A e \in Errors : ~RefusedIn(d, w, b, e, at, due, k), NEW m, m = k + 1
  PROVE  \E bt, eu : ReadsOn(d, s, w, b, k, at, due, m, bt, eu)
<1>1. IsRow(d, k, at, due) /\ at[0] = s
  BY DEF ReadableIn
<1>2. PICK bt, eu : GrowsTo(d, k, at, due, bt, eu)
  BY <1>1, RowGrows
<1>3. /\ IsRow(d, m, bt, eu) /\ bt[m] = ItemEnd(d, at[k])
      /\ eu[m] = due[k] - 1 + ValuesIn(d, at[k])
      /\ \A i \in 0..k : bt[i] = at[i] /\ eu[i] = due[i]
  BY <1>2 DEF GrowsTo
<1>4. 0 \in 0..k /\ bt[0] = s
  BY <1>1, <1>3
<1>5. ASSUME NEW i \in 0..m-1, NEW e \in Errors PROVE ~RefusedIn(d, w, b, e, bt, eu, i)
  <2>1. i \in Nat /\ i \in 0..k /\ (i # k => i \in 0..k-1) /\ \A l \in 0..i : l \in 0..k
    OBVIOUS
  <2>2. Begins(i, at, due, bt, eu)
    BY <1>3, <2>1 DEF Begins
  <2>3. ~RefusedIn(d, w, b, e, at, due, i)
    BY <2>1 DEF ReadableIn
  <2>4. QED  BY <2>1, <2>2, <2>3, RefusedSame
<1>6. ReadableIn(d, s, w, b, m, bt, eu)
  BY <1>3, <1>4, <1>5, Zenon DEF ReadableIn
<1>7. bt \in [0..m -> Nat] /\ eu \in [0..m -> Nat]
  BY <1>3, Zenon DEF IsRow
<1>8. Begins(k, at, due, bt, eu)
  BY <1>3, Zenon DEF Begins
<1>9. QED  BY <1>3, <1>6, <1>7, <1>8, Zenon DEF ReadsOn

\* A walk begins in front of one value.
LEMMA WalkBegins ==
  ASSUME NEW d, NEW s \in Nat, NEW w, NEW b
  PROVE  StandsAt(d, s, w, b, <<>>, s)
<1> DEFINE at == [i \in 0..0 |-> s]  due == [i \in 0..0 |-> 1]  op == [i \in 1..1 |-> 0]
<1>1. at \in [0..0 -> Nat] /\ due \in [0..0 -> Nat] /\ at[0] = s /\ due[0] = 1
  OBVIOUS
<1>2. op \in [1..0+1 -> 0..0] /\ op[0+1] = 0 /\ op[1] = 0
  OBVIOUS
<1> HIDE DEF at, due, op
<1>3. (\A i : i \notin 0..0-1) /\ (\A i : i \notin 1..0) /\ 0 \in Nat /\ Len(<<>>) = 0
  OBVIOUS
<1>4. IsRow(d, 0, at, due)
  BY <1>1, <1>3, Zenon DEF IsRow
<1>5. ReadableIn(d, s, w, b, 0, at, due)
  BY <1>1, <1>3, <1>4, Zenon DEF ReadableIn
<1>6. Around(due, 0) = {}
  BY <1>3 DEF Around
<1>7. due[op[1]] = 1
  BY <1>1, <1>2
<1>8. LoopsOf(d, <<>>, 0, 0, at, due, op)
  BY <1>2, <1>3, <1>6, <1>7, Zenon DEF LoopsOf
<1>9. QED  BY <1>1, <1>3, <1>5, <1>8, Zenon DEF StandsAt

\* Where a walk that still has values due finds no whole item, or no room for
\* what the item opens, no value is whole.
LEMMA WalkIsCutShort ==
  ASSUME NEW d \in Seq(Byte), NEW s, NEW w, NEW b, NEW k \in Nat, NEW at, NEW due,
         ReadableIn(d, s, w, b, k, at, due), due[k] > 0,
         ~(IsItem(d, at[k]) /\ ItemEnd(d, at[k]) + ValuesIn(d, at[k]) <= Len(d))
  PROVE  \A q \in Nat : ~IsValue(d, s, q)
<1> SUFFICES ASSUME NEW q \in Nat, IsValue(d, s, q) PROVE FALSE
  OBVIOUS
<1>1. IsRow(d, k, at, due) /\ at[0] = s
  BY DEF ReadableIn
<1>2. QED  BY <1>1, WholeGoesOn

\* A call that refuses an item that a readable value would have to go on with: there
\* is no such value.
LEMMA RefusedHasNone ==
  ASSUME NEW d \in Seq(Byte), NEW s, NEW w, NEW b, NEW e \in Errors,
         RefusedFirst(d, s, w, b, e)
  PROVE  ~ValueFrom(d, s, w, b)
<1> SUFFICES ASSUME ValueFrom(d, s, w, b) PROVE FALSE
  OBVIOUS
<1>1. ASSUME NEW k \in Nat, NEW at, NEW due, NEW m \in Nat, NEW bt, NEW eu,
             ReadableIn(d, s, w, b, k, at, due), due[k] > 0,
             RefusedIn(d, w, b, e, at, due, k),
             ReadableIn(d, s, w, b, m, bt, eu), eu[m] = 0
      PROVE  FALSE
  <2>1. IsRow(d, k, at, due) /\ at[0] = s /\ IsRow(d, m, bt, eu) /\ bt[0] = s
    BY <1>1 DEF ReadableIn
  <2>2. k <= m
    BY <1>1, <2>1, RowEnds
  <2>3. ASSUME NEW j \in 0..k PROVE at[j] = bt[j] /\ due[j] = eu[j]
    <3>1. j \in Nat /\ j <= k /\ j <= m
      BY <2>2
    <3>2. QED  BY <2>1, <3>1, RowsAgree
  <2>4. k \in 0..k
    OBVIOUS
  <2>5. k # m
    BY <1>1, <2>3, <2>4
  <2>6. k \in 0..m-1
    BY <2>2, <2>5
  <2>7. Begins(k, bt, eu, at, due)
    BY <2>3 DEF Begins
  <2>8. RefusedIn(d, w, b, e, bt, eu, k)
    BY <1>1, <2>7, RefusedSame
  <2>9. QED  BY <1>1, <2>6, <2>8 DEF ReadableIn
<1>2. QED  BY <1>1, Zenon DEF RefusedFirst, ValueFrom

\* The item at pos, in the words of Rows.
LEMMA ItemWords ==
  /\ KindAt(data, pos) = kind /\ LenAt(data, pos) = itemLen
  /\ HeaderEnd(data, pos) = body
  /\ kind \in {"array", "map"} => ValuesIn(data, pos) = Values
  /\ kind \notin {"array", "map"} => ValuesIn(data, pos) = 0
  /\ kind = "scalar" => ItemEnd(data, pos) = pos + 1 + ScalarWidth(format)
  /\ kind \in {"str", "bin"} => ItemEnd(data, pos) = body + itemLen
  /\ kind = "ext" => ItemEnd(data, pos) = body + (1 + itemLen)
  /\ kind \in {"array", "map"} => ItemEnd(data, pos) = body + 0
BY DEF KindAt, LenAt, HeaderEnd, ValuesIn, ItemEnd, kind, itemLen, body, format, Values

\* The limits of the five kinds of length are numbers, and so are comparable.
LEMMA LimitType ==
  ASSUME NEW k \in Lengths
  PROVE  Limit(k) \in Int
BY ConfigAssumption DEF Lengths, Limit

\* The frames of a reading walk are loops that go on.
LEMMA FramesGoOn ==
  ASSUME IInv, Reading
  PROVE  /\ stack \in Seq(Frame) /\ Len(stack) \in Nat
         /\ \A i \in 1..Len(stack) : stack[i] \in Frame
         /\ \A i \in 1..Len(stack) : stack[i].left \in Nat /\ stack[i].left > 0
<1>1. stack \in Seq(Frame) /\ \A i \in 1..Len(stack) : stack[i].left > 0
  BY ReadingFrames DEF Reading, IInv, TypeOK
<1>2. Len(stack) \in Nat /\ \A i \in 1..Len(stack) : stack[i] \in Frame
  BY <1>1, ElementOfSeq
<1>3. QED  BY <1>1, <1>2 DEF Frame

\* The walk stands at the k-th item of the row at, due, with the loops op.
Stands(k, at, due, op) ==
  /\ ReadableIn(data, start, walk, base, k, at, due) /\ at[k] = pos
  /\ at \in [0..k -> Nat] /\ due \in [0..k -> Nat]
  /\ LoopsOf(data, stack, Len(stack), k, at, due, op)

\* A running walk stands at some item, and has a value due if it reads on.
LEMMA RunningStands ==
  ASSUME RInv, status = "running"
  PROVE  \E k \in Nat : \E at, due, op : Stands(k, at, due, op)
BY Zenon DEF RInv, StandsAt, Stands

LEMMA ReadingIsDue ==
  ASSUME IInv, Reading, NEW k \in Nat, NEW at, NEW due, NEW op, Stands(k, at, due, op)
  PROVE  due[k] > 0
<1>1. due \in [0..k -> Nat] /\ LoopsOf(data, stack, Len(stack), k, at, due, op)
  BY DEF Stands
<1>2. QED  BY <1>1, FramesGoOn, LoopsAround

\* The walk's own counting says where it is: what comes is a key, and so many
\* containers are open, as the row has it.
LEMMA ReadingKnows ==
  ASSUME IInv, Reading, NEW k \in Nat, NEW at, NEW due, NEW op, Stands(k, at, due, op)
  PROVE  /\ IsKey(data, at, due, k) <=> AtKey
         /\ Tracked => depth = base + Cardinality(Around(due, k))
<1>1. due \in [0..k -> Nat] /\ LoopsOf(data, stack, Len(stack), k, at, due, op)
  BY DEF Stands
<1>2. /\ Len(stack) \in Nat /\ (stack # <<>> <=> Len(stack) > 0)
      /\ \A i \in 1..Len(stack) : stack[i].left \in Nat /\ stack[i].left > 0
  BY FramesGoOn
<1>3. IsKey(data, at, due, k) <=> AtKey
  <2>1. IsKey(data, at, due, k) <=> /\ Len(stack) > 0 /\ stack[Len(stack)].kind = "map"
                                    /\ stack[Len(stack)].left % 2 = 0
    BY <1>1, <1>2, LoopsKey
  <2>2. QED  BY <1>2, <2>1 DEF AtKey
<1>4. Cardinality(Around(due, k)) = Len(stack)
  BY <1>1, <1>2, LoopsCount
<1>5. Tracked => depth = base + Len(stack)
  BY DEF IInv, DepthRestored, Reading
<1>6. QED  BY <1>3, <1>4, <1>5

\* The walk sees nothing to refuse in the item at pos.
Accepts ==
  /\ HasBytes(pos, 1) /\ Supported
  /\ AtKey => KeyAllowed
  /\ kind \in Lengths => LenReadable /\ Validate = "nil"
  /\ kind \in {"array", "map"} => ~(Tracked /\ depth + 1 > MaxDepth)

\* Then there is nothing to refuse in it.
LEMMA NothingToRefuse ==
  ASSUME IInv, Reading, Accepts,
         NEW k \in Nat, NEW at, NEW due, NEW op, Stands(k, at, due, op)
  PROVE  \A e \in Errors : ~RefusedIn(data, walk, base, e, at, due, k)
<1>1. at[k] = pos /\ KindAt(data, pos) = kind /\ LenAt(data, pos) = itemLen
  BY ItemWords DEF Stands
<1>2. kind # "invalid" /\ (kind = "ext" => walk = "value")
  BY DEF Accepts, Supported
<1>3. IsKey(data, at, due, k) => walk = "value" \/ kind = "str"
  BY ReadingKnows DEF Accepts, KeyAllowed
<1>4. ASSUME kind \in Lengths PROVE ~(itemLen > Limit(kind))
  <2>1. TooLong(kind) # "nil"
    BY <1>4 DEF TooLong, Lengths
  <2>2. QED  BY <1>4, <2>1 DEF Accepts, Validate
<1>5. ASSUME kind \in {"array", "map"}, walk # "typed"
      PROVE  ~(base + Cardinality(Around(due, k)) + 1 > MaxDepth)
  BY <1>5, ReadingKnows DEF Accepts, Tracked
<1>6. QED  BY <1>1, <1>2, <1>3, <1>4, <1>5, Zenon DEF RefusedIn

\* An error that is true of the buffer may be returned.
LEMMA FailTrue ==
  ASSUME Reading, NEW e \in Errors, NEW p, NEW c, Fail(e, p, c),
         TrueOf(data, start, walk, base, e)
  PROVE  RInv'
<1>1. status' = e /\ data' = data /\ start' = start /\ walk' = walk /\ base' = base
  BY DEF Fail, Reading
<1>2. e # "running" /\ e # "ok"
  BY DEF Errors
<1>3. QED
  BY <1>1, <1>2, Zenon DEF RInv

\* The result "ok", and a walk that runs on, say nothing of the kind.
LEMMA NoError ==
  ASSUME NEW e \in {"idle", "running", "ok"}, NEW d, NEW s, NEW w, NEW b
  PROVE  TrueOf(d, s, w, b, e)
BY DEF TrueOf, Errors

\* The walk that reads at pos may report that the buffer ends too early there.
LEMMA ReadEof ==
  ASSUME IInv, RInv, Reading, NEW p, Fail("ErrUnexpectedEOF", p, depth),
         ~(IsItem(data, pos) /\ ItemEnd(data, pos) + ValuesIn(data, pos) <= Len(data))
  PROVE  RInv'
<1>1. PICK k \in Nat : \E at, due, op : Stands(k, at, due, op)
  BY RunningStands DEF Reading
<1>2. PICK at, due, op : Stands(k, at, due, op)
  BY <1>1
<1>3. data \in Seq(Byte) /\ due[k] > 0
  BY <1>2, ReadingIsDue DEF IInv, TypeOK
<1>4. ReadableIn(data, start, walk, base, k, at, due) /\ at[k] = pos
  BY <1>2 DEF Stands
<1>5. \A q \in Nat : ~IsValue(data, start, q)
  BY <1>3, <1>4, WalkIsCutShort
<1>6. TrueOf(data, start, walk, base, "ErrUnexpectedEOF")
  BY <1>5 DEF TrueOf
<1>7. "ErrUnexpectedEOF" \in Errors
  BY DEF Errors
<1>8. QED  BY <1>6, <1>7, FailTrue

\* It may report what there is to refuse in the item there.
LEMMA ReadRefused ==
  ASSUME IInv, RInv, Reading, HasBytes(pos, 1),
         NEW e \in Errors \ {"ErrUnexpectedEOF"}, NEW p, NEW c, Fail(e, p, c),
         NEW k \in Nat, NEW at, NEW due, NEW op, Stands(k, at, due, op),
         RefusedIn(data, walk, base, e, at, due, k)
  PROVE  RInv'
<1>1. pos < Len(data) /\ due[k] > 0
  <2>1. pos \in Nat /\ Len(data) \in Nat
    BY DEF IInv, TypeOK
  <2>2. QED  BY <2>1, ReadingIsDue DEF HasBytes
<1>2. RefusedFirst(data, start, walk, base, e)
  BY <1>1, Zenon DEF RefusedFirst, Stands
<1>3. TrueOf(data, start, walk, base, e)
  BY <1>2 DEF TrueOf
<1>4. e \in Errors
  OBVIOUS
<1>5. QED  BY <1>3, <1>4, FailTrue

\* The walk returns: it has read the value.
LEMMA DoneValue ==
  ASSUME Quiet, NEW p, Done(<<>>, p), ValueTo(data, start, walk, base, p)
  PROVE  RInv'
<1>1. /\ pos' = p /\ status' = "ok"
      /\ data' = data /\ start' = start /\ walk' = walk /\ base' = base
  BY DEF Done, Quiet
<1>2. TrueOf(data, start, walk, base, "ok") /\ "ok" # "running"
  BY NoError
<1>3. QED  BY <1>1, <1>2, Zenon DEF RInv

\* The walk runs on, at the k-th item of another row.
LEMMA RunsOn ==
  ASSUME Quiet, status' = "running", NEW k \in Nat, NEW at, NEW due, NEW op,
         NEW st, stack' = st, NEW p, pos' = p,
         ReadableIn(data, start, walk, base, k, at, due), at[k] = p,
         at \in [0..k -> Nat], due \in [0..k -> Nat],
         LoopsOf(data, st, Len(st), k, at, due, op)
  PROVE  RInv'
<1>1. data' = data /\ start' = start /\ walk' = walk /\ base' = base
  BY DEF Quiet
<1>2. StandsAt(data, start, walk, base, st, p)
  BY Zenon DEF StandsAt
<1>3. TrueOf(data, start, walk, base, "running") /\ "ok" # "running"
  BY NoError
<1>4. QED  BY <1>1, <1>2, <1>3, Zenon DEF RInv

\* An item without values of its own was read.
LEMMA ReadRow ==
  ASSUME IInv, RInv, Reading, Accepts, IsItem(data, pos), ValuesIn(data, pos) = 0,
         Done(stack, ItemEnd(data, pos))
  PROVE  RInv'
<1>1. PICK k \in Nat : \E at, due, op : Stands(k, at, due, op)
  BY RunningStands DEF Reading
<1>2. PICK at, due, op : Stands(k, at, due, op)
  BY <1>1
<1>3. /\ ReadableIn(data, start, walk, base, k, at, due) /\ at[k] = pos
      /\ due \in [0..k -> Nat] /\ LoopsOf(data, stack, Len(stack), k, at, due, op)
  BY <1>2 DEF Stands
<1>4. data \in Seq(Byte) /\ due[k] > 0 /\ due[k] \in Nat
  <2>1. k \in 0..k
    OBVIOUS
  <2>2. QED  BY <1>2, <1>3, <2>1, ReadingIsDue DEF IInv, TypeOK
<1>5. \A e \in Errors : ~RefusedIn(data, walk, base, e, at, due, k)
  BY <1>2, NothingToRefuse
<1> DEFINE m == k + 1
<1>6. m \in Nat /\ m = k + 1
  OBVIOUS
<1> HIDE DEF m
<1>7. PICK bt, eu : ReadsOn(data, start, walk, base, k, at, due, m, bt, eu)
  BY <1>3, <1>4, <1>5, <1>6, WalkGoesOn
<1>8. /\ ReadableIn(data, start, walk, base, m, bt, eu) /\ bt[m] = ItemEnd(data, pos)
      /\ bt \in [0..m -> Nat] /\ eu \in [0..m -> Nat] /\ Begins(k, at, due, bt, eu)
      /\ eu[m] = due[k] - 1
  <2>1. eu[m] = due[k] - 1 + 0
    BY <1>3, <1>7 DEF ReadsOn
  <2>2. QED  BY <1>3, <1>4, <1>7, <2>1 DEF ReadsOn
<1>9. Quiet /\ status = "running"
  BY DEF Reading, Quiet
<1>10. CASE stack = <<>>
  <2>1. Len(stack) = 0
    BY <1>10
  <2>2. due[k] = 1
    BY <1>3, <2>1, LastRead
  <2>3. eu[m] = 0
    BY <1>8, <2>2
  <2>4. ValueTo(data, start, walk, base, ItemEnd(data, pos))
    BY <1>6, <1>8, <2>3, Zenon DEF ValueTo
  <2>5. QED  BY <1>9, <1>10, <2>4, DoneValue
<1>11. CASE stack # <<>>
  <2> DEFINE n == Len(stack)
             sv == [stack EXCEPT ![n] = CountOne(stack[n])]
  <2>1. /\ stack \in Seq(Frame) /\ n \in Nat /\ n > 0 /\ n \in 1..n
        /\ \A i \in 1..n : stack[i] \in Frame /\ stack[i].left \in Nat /\ stack[i].left > 0
    BY <1>11, FramesGoOn
  <2>2. /\ Len(sv) = n /\ sv[n] = CountOne(stack[n])
        /\ \A i \in 1..n-1 : sv[i] = stack[i]
    BY <2>1
  <2>3. sv[n].kind = stack[n].kind /\ sv[n].left = stack[n].left - 1
    BY <2>2 DEF CountOne
  <2>4. stack' = sv /\ status' = "running" /\ pos' = ItemEnd(data, pos)
    BY <1>9, <1>11 DEF Done
  <2>5. PICK oq : LoopsOf(data, sv, n, m, bt, eu, oq)
    <3>1. \A i \in 1..n : stack[i].left \in Nat /\ stack[i].left > 0
      BY <2>1
    <3>2. LoopsOf(data, stack, n, k, at, due, op) /\ n \in Nat /\ n > 0
      BY <1>3, <2>1
    <3>3. \A i \in 1..n-1 : sv[i] = stack[i]
      BY <2>2
    <3>4. sv[n].kind = stack[n].kind /\ sv[n].left = stack[n].left - 1
      BY <2>3
    <3>5. due \in [0..k -> Nat] /\ eu \in [0..m -> Nat] /\ Begins(k, at, due, bt, eu)
          /\ eu[m] = due[k] - 1
      BY <1>3, <1>8
    <3> HIDE DEF n, sv
    <3>6. QED  BY <1>6, <3>1, <3>2, <3>3, <3>4, <3>5, LoopsRead
  <2> HIDE DEF sv
  <2>6. LoopsOf(data, sv, Len(sv), m, bt, eu, oq)
    BY <2>2, <2>5
  <2>7. QED  BY <1>6, <1>8, <1>9, <2>4, <2>6, RunsOn
<1>12. QED  BY <1>10, <1>11

\* Opening a container: its values are due from now on.
LEMMA OpenRow == IInv /\ RInv /\ OpenContainer => RInv'
<1> SUFFICES ASSUME IInv, RInv, OpenContainer PROVE RInv'
  OBVIOUS
<1>1. /\ Reading /\ HasBytes(pos, 1) /\ kind \in {"array", "map"} /\ Supported
      /\ LenReadable /\ Validate = "nil" /\ (AtKey => KeyAllowed)
      /\ Quiet /\ status = "running"
  BY DEF OpenContainer, ReadingKind, Reading, Quiet
<1>2. /\ data \in Seq(Byte) /\ Len(data) \in Nat /\ pos \in Nat /\ pos < Len(data)
      /\ base \in Nat /\ depth \in Nat
  BY <1>1 DEF IInv, TypeOK, HasBytes
<1>3. body \in Nat /\ body <= Len(data) /\ Values \in Nat
  BY <1>1, ItemFacts
<1>4. /\ KindAt(data, pos) = kind /\ HeaderEnd(data, pos) = body
      /\ ValuesIn(data, pos) = Values /\ ItemEnd(data, pos) = body
  BY <1>1, <1>3, ItemWords
<1>5. HasHeader(data, pos)
  BY <1>2, <1>3, <1>4 DEF HasHeader
<1>6. PICK k \in Nat : \E at, due, op : Stands(k, at, due, op)
  BY <1>1, RunningStands
<1>7. PICK at, due, op : Stands(k, at, due, op)
  BY <1>6
<1>8. /\ ReadableIn(data, start, walk, base, k, at, due) /\ at[k] = pos
      /\ due \in [0..k -> Nat] /\ LoopsOf(data, stack, Len(stack), k, at, due, op)
  BY <1>7 DEF Stands
<1>9. CASE Tracked /\ depth + 1 > MaxDepth
  <2>1. Fail("ErrMaxDepthExceeded", body, depth + 1)
    BY <1>9 DEF OpenContainer
  <2>2. "ErrMaxDepthExceeded" \in Errors \ {"ErrUnexpectedEOF"}
    BY DEF Errors
  <2>3. base + Cardinality(Around(due, k)) + 1 > MaxDepth
    <3>1. depth = base + Cardinality(Around(due, k))
      BY <1>1, <1>7, <1>9, ReadingKnows
    <3>2. QED  BY <1>9, <3>1
  <2>4. RefusedIn(data, walk, base, "ErrMaxDepthExceeded", at, due, k)
    BY <1>1, <1>4, <1>5, <1>8, <1>9, <2>3, Zenon DEF RefusedIn, Tracked
  <2>5. QED  BY <1>1, <1>7, <2>1, <2>2, <2>4, ReadRefused
<1>10. CASE ~(Tracked /\ depth + 1 > MaxDepth)
  <2>1. Accepts
    BY <1>1, <1>10 DEF Accepts
  <2>2. \A e \in Errors : ~RefusedIn(data, walk, base, e, at, due, k)
    BY <1>1, <1>7, <2>1, NothingToRefuse
  <2>3. IsItem(data, pos) /\ due[k] > 0
    <3>1. kind # "invalid" /\ body <= Len(data)
      BY <1>1, <1>3 DEF Supported
    <3>2. QED  BY <1>1, <1>4, <1>5, <1>7, <3>1, ReadingIsDue DEF IsItem
  <2> DEFINE m == k + 1  n == Len(stack)  o == n + 1
             frame == [kind |-> kind, left |-> Values]
             sv == Append(stack, frame)
  <2>4. m \in Nat /\ m = k + 1 /\ o = n + 1 /\ n \in Nat
        /\ \A i \in 1..n : stack[i].left \in Nat /\ stack[i].left > 0
    BY <1>1, FramesGoOn
  <2>5. stack' = sv /\ pos' = body /\ status' = "running"
    BY <1>1, <1>10 DEF OpenContainer
  <2>6. frame \in Frame /\ frame.left = Values /\ frame.kind = kind
    BY <1>1, <1>3 DEF Frame
  <2> HIDE DEF frame
  <2>7. /\ Len(sv) = o /\ sv[o] = frame
        /\ \A i \in 1..n : sv[i] = stack[i]
    BY <1>1, <2>6, FramesGoOn
  <2> HIDE DEF m, n, o, sv
  <2>8. PICK bt, eu : ReadsOn(data, start, walk, base, k, at, due, m, bt, eu)
    BY <1>2, <1>8, <2>2, <2>3, <2>4, WalkGoesOn
  <2>9. /\ ReadableIn(data, start, walk, base, m, bt, eu) /\ bt[m] = body
        /\ bt \in [0..m -> Nat] /\ eu \in [0..m -> Nat] /\ Begins(k, at, due, bt, eu)
        /\ eu[m] = due[k] - 1 + sv[o].left
    BY <1>4, <1>8, <2>6, <2>7, <2>8 DEF ReadsOn
  <2>10. sv[o].left \in Nat /\ sv[o].kind = KindAt(data, at[k])
    BY <1>3, <1>4, <1>8, <2>6, <2>7
  <2>11. PICK oq : LoopsOf(data, sv, o, m, bt, eu, oq)
    <3>1. LoopsOf(data, stack, n, k, at, due, op)
      BY <1>8 DEF n
    <3>2. OpensLoop(data, stack, n, k, at, due, m, bt, eu, o, sv)
      BY <2>4, <2>7, <2>9, <2>10 DEF OpensLoop
    <3>3. \A i \in 1..n : stack[i].left \in Nat /\ stack[i].left > 0
      BY <2>4
    <3>4. n \in Nat /\ due \in [0..k -> Nat]
      BY <1>8, <2>4
    <3>5. QED  BY <3>1, <3>2, <3>3, <3>4, LoopsOpen, Zenon
  <2>12. LoopsOf(data, sv, Len(sv), m, bt, eu, oq)
    BY <2>7, <2>11
  <2>13. QED  BY <1>1, <2>4, <2>5, <2>9, <2>12, RunsOn
<1>11. QED  BY <1>9, <1>10

\* Closing a container: the container itself was one of the values due.
LEMMA CloseRow == IInv /\ RInv /\ CloseContainer => RInv'
<1> SUFFICES ASSUME IInv, RInv, CloseContainer PROVE RInv'
  OBVIOUS
<1> DEFINE n == Len(stack)  o == n - 1  outer == SubSeq(stack, 1, n - 1)
<1>1. /\ status = "running" /\ stack # <<>> /\ Quiet
      /\ Done(outer, pos) /\ stack[n].left = 0
  BY DEF CloseContainer, AtEnd, Quiet
<1>2. /\ stack \in Seq(Frame) /\ n \in Nat /\ n > 0 /\ pos \in Nat
      /\ \A i \in 1..n : stack[i] \in Frame
  BY <1>1, ElementOfSeq DEF IInv, TypeOK
<1>3. \A i \in 1..n : stack[i].left \in Nat
  BY <1>2 DEF Frame
<1>4. /\ outer \in Seq(Frame) /\ Len(outer) = o
      /\ \A i \in 1..o : outer[i] = stack[i]
  BY <1>2, FrontFrames
<1>5. PICK k \in Nat : \E at, due, op : Stands(k, at, due, op)
  BY <1>1, RunningStands
<1>6. PICK at, due, op : Stands(k, at, due, op)
  BY <1>5
<1>7. /\ ReadableIn(data, start, walk, base, k, at, due) /\ at[k] = pos
      /\ at \in [0..k -> Nat] /\ due \in [0..k -> Nat]
      /\ LoopsOf(data, stack, n, k, at, due, op)
  BY <1>6 DEF Stands
<1> HIDE DEF outer
<1>8. CASE outer = <<>>
  <2>1. n = 1
    <3>1. Len(outer) = 0
      BY <1>8
    <3>2. QED  BY <1>2, <1>4, <3>1
  <2>2. due[k] = 0
    <3>1. LoopsOf(data, stack, 1, k, at, due, op) /\ stack[1].left = 0
      BY <1>1, <1>7, <2>1
    <3>2. QED  BY <1>7, <3>1, LastClose
  <2>3. ValueTo(data, start, walk, base, pos)
    BY <1>7, <2>2, Zenon DEF ValueTo
  <2>4. QED  BY <1>1, <1>8, <2>3, DoneValue
<1>9. CASE outer # <<>>
  <2> DEFINE sv == [outer EXCEPT ![o] = CountOne(outer[o])]
  <2>1. o \in Nat /\ o > 0 /\ o \in 1..o /\ n > 1 /\ o \in 1..n
    <3>1. Len(outer) # 0 /\ Len(outer) \in Nat
      BY <1>4, <1>9
    <3>2. o \in Nat /\ o # 0
      BY <1>4, <3>1
    <3>3. n \in Nat /\ o = n - 1
      BY <1>2
    <3> HIDE DEF n, o
    <3>4. o > 0 /\ n > 1
      BY <3>2, <3>3
    <3>5. o \in 1..o
      BY <3>2, <3>4
    <3>6. o \in 1..n
      BY <3>2, <3>3, <3>4
    <3>7. QED  BY <3>2, <3>4, <3>5, <3>6
  <2>2. /\ Len(sv) = o /\ sv[o] = CountOne(outer[o])
        /\ \A i \in 1..o-1 : sv[i] = outer[i]
    BY <1>4, <2>1
  <2>3. /\ sv[o].kind = stack[o].kind /\ sv[o].left = stack[o].left - 1
        /\ \A i \in 1..o-1 : sv[i] = stack[i]
    <3>1. \A i \in 1..o-1 : i \in 1..o
      BY <2>1
    <3>2. QED  BY <1>4, <2>1, <2>2, <3>1 DEF CountOne
  <2>4. stack' = sv /\ status' = "running" /\ pos' = pos
    <3>1. stack' = [outer EXCEPT ![Len(outer)] = CountOne(outer[Len(outer)])]
          /\ status' = "running" /\ pos' = pos
      BY <1>1, <1>9 DEF Done
    <3>2. QED  BY <1>4, <3>1
  <2> HIDE DEF sv
  <2> HIDE DEF n
  <2>5. PICK oq : LoopsOf(data, sv, o, k, at, due, oq)
    <3>1. o = n - 1
      OBVIOUS
    <3> HIDE DEF o
    <3>2. QED  BY <1>1, <1>2, <1>3, <1>7, <2>1, <2>3, <3>1, LoopsClose
  <2>6. LoopsOf(data, sv, Len(sv), k, at, due, oq)
    BY <2>2, <2>5
  <2>7. QED  BY <1>1, <1>7, <2>4, <2>6, RunsOn
<1>10. QED  BY <1>8, <1>9

\* A length that is over its limit may be refused.
LEMMA LimitTrue ==
  ASSUME IInv, RInv, Reading, NEW p, HasBytes(pos, 1), kind \in Lengths, LenReadable,
         itemLen > Limit(kind), Fail(TooLong(kind), p, depth)
  PROVE  RInv'
<1>1. PICK k \in Nat : \E at, due, op : Stands(k, at, due, op)
  BY RunningStands DEF Reading
<1>2. PICK at, due, op : Stands(k, at, due, op)
  BY <1>1
<1>3. /\ at[k] = pos /\ KindAt(data, pos) = kind /\ LenAt(data, pos) = itemLen
      /\ HeaderEnd(data, pos) = body
  BY <1>2, ItemWords DEF Stands
<1>4. HasHeader(data, pos)
  <2>1. pos \in Nat /\ Len(data) \in Nat /\ pos < Len(data)
    BY DEF IInv, TypeOK, HasBytes
  <2>2. body <= Len(data)
    BY ItemFacts
  <2>3. QED  BY <1>3, <2>1, <2>2 DEF HasHeader
<1>5. RefusedIn(data, walk, base, TooLong(kind), at, due, k)
  BY <1>3, <1>4, Zenon DEF RefusedIn
<1>6. TooLong(kind) \in Errors \ {"ErrUnexpectedEOF"}
  BY DEF TooLong, Errors, Lengths
<1>7. QED  BY <1>2, <1>5, <1>6, ReadRefused

\* What a step of a walk that is reading may do: find that the item at pos is cut short,
\* or its length over its limit, or read all of it.
EofStep ==
  /\ Reading
  /\ \E p : Fail("ErrUnexpectedEOF", p, depth)
  /\ ~(IsItem(data, pos) /\ ItemEnd(data, pos) + ValuesIn(data, pos) <= Len(data))
LongStep ==
  /\ Reading /\ HasBytes(pos, 1) /\ kind \in Lengths /\ LenReadable
  /\ itemLen > Limit(kind)
  /\ \E p : Fail(TooLong(kind), p, depth)
ReadStep ==
  /\ Reading /\ Accepts /\ IsItem(data, pos)
  /\ kind \notin {"array", "map"} /\ ValuesIn(data, pos) = 0
  /\ Done(stack, ItemEnd(data, pos))

\* There are no others.
LEMMA StepIs ==
  ASSUME IInv, Step
  PROVE  \/ EofStep \/ Unsupported \/ BadKey \/ LongStep \/ ReadStep
         \/ OpenContainer \/ CloseContainer
<1>0. /\ pos \in Nat /\ Len(data) \in Nat /\ data \in Seq(Byte)
      /\ walk \in {"value", "any", "typed"}
  BY DEF IInv, TypeOK
<1>1. CASE NoFormatByte
  <2>1. Reading /\ Fail("ErrUnexpectedEOF", pos, depth)
    BY <1>1 DEF NoFormatByte
  <2>2. ~IsItem(data, pos)
    BY <1>0, <1>1 DEF NoFormatByte, HasBytes, IsItem, HasHeader
  <2>3. QED  BY <2>1, <2>2, Zenon DEF EofStep
<1>2. CASE Scalar
  <2>1. Reading /\ HasBytes(pos, 1) /\ kind = "scalar" /\ Supported /\ (AtKey => KeyAllowed)
    BY <1>2 DEF Scalar, ReadingKind
  <2>2. /\ ItemEnd(data, pos) = pos + 1 + ScalarWidth(format)
        /\ KindAt(data, pos) = kind /\ ValuesIn(data, pos) = 0
    BY <2>1, ItemWords
  <2>3. CASE HasBytes(pos + 1, ScalarWidth(format))
    <3>1. Done(stack, ItemEnd(data, pos))
      BY <1>2, <2>2, <2>3 DEF Scalar
    <3>2. IsItem(data, pos)
      BY <1>0, <2>1, <2>2, <2>3 DEF IsItem, HasHeader, HasBytes
    <3>3. Accepts
      BY <2>1 DEF Accepts, Lengths
    <3>4. QED  BY <2>1, <2>2, <3>1, <3>2, <3>3, Zenon DEF ReadStep
  <2>4. CASE ~HasBytes(pos + 1, ScalarWidth(format))
    <3>1. Fail("ErrUnexpectedEOF", pos + 1, depth)
      BY <1>2, <2>4 DEF Scalar
    <3>2. ~IsItem(data, pos)
      BY <2>2, <2>4 DEF IsItem, HasBytes
    <3>3. QED  BY <2>1, <3>1, <3>2, Zenon DEF EofStep
  <2>5. QED  BY <2>3, <2>4
<1>3. CASE BadLength
  <2>1. Reading /\ HasBytes(pos, 1) /\ kind \in Lengths /\ kind # "scalar"
    BY <1>3 DEF BadLength, ReadingKind, Lengths
  <2>2. KindAt(data, pos) = kind /\ HeaderEnd(data, pos) = body
    BY ItemWords
  <2>3. CASE ~LenReadable /\ Fail("ErrUnexpectedEOF", pos + 1, depth)
    <3>1. ~IsItem(data, pos)
      BY <2>1, <2>2, <2>3 DEF IsItem, HasHeader, LenReadable, HasBytes, body
    <3>2. QED  BY <2>1, <2>3, <3>1, Zenon DEF EofStep
  <2>4. CASE LenReadable /\ Validate # "nil" /\ Fail(Validate, body, depth)
    <3>1. CASE itemLen > Limit(kind)
      <4>1. Fail(TooLong(kind), body, depth)
        BY <2>4, <3>1 DEF Validate
      <4>2. QED  BY <2>1, <2>4, <3>1, <4>1, Zenon DEF LongStep
    <3>2. CASE ~(itemLen > Limit(kind))
      <4>1. Fail("ErrUnexpectedEOF", body, depth) /\ ~HasBytes(body, Values)
        BY <2>4, <3>2 DEF Validate
      <4>2. body \in Nat /\ itemLen \in Nat /\ Values \in Nat
        BY <2>1, <2>4, ItemFacts
      <4>3. ~(IsItem(data, pos) /\ ItemEnd(data, pos) + ValuesIn(data, pos) <= Len(data))
        <5>1. CASE kind \in {"array", "map"}
          <6>1. ItemEnd(data, pos) = body + 0 /\ ValuesIn(data, pos) = Values
            BY <5>1, ItemWords
          <6>2. QED  BY <1>0, <4>1, <4>2, <6>1 DEF HasBytes
        <5>2. CASE kind \in {"str", "bin", "ext"}
          <6>1. \/ ItemEnd(data, pos) = body + itemLen
                \/ ItemEnd(data, pos) = body + (1 + itemLen)
            BY <5>2, ItemWords
          <6>2. Values = itemLen
            BY <5>2 DEF Values
          <6>3. ~(ItemEnd(data, pos) <= Len(data))
            BY <1>0, <4>1, <4>2, <6>1, <6>2 DEF HasBytes
          <6>4. QED  BY <6>3 DEF IsItem
        <5>3. QED  BY <2>1, <5>1, <5>2 DEF Lengths
      <4>4. QED  BY <2>1, <4>1, <4>3, Zenon DEF EofStep
    <3>3. QED  BY <3>1, <3>2
  <2>5. QED  BY <1>3, <2>3, <2>4 DEF BadLength
<1>4. CASE StringOrBinary
  <2>1. /\ Reading /\ HasBytes(pos, 1) /\ LenReadable /\ Validate = "nil" /\ Supported
        /\ (AtKey => KeyAllowed) /\ kind \in {"str", "bin"} /\ kind \in Lengths
        /\ Done(stack, body + itemLen)
    BY <1>4 DEF StringOrBinary, ReadingKind, Lengths
  <2>2. HasBytes(body, itemLen)
    BY <2>1, ValidateNil DEF Values
  <2>3. /\ ItemEnd(data, pos) = body + itemLen /\ HeaderEnd(data, pos) = body
        /\ KindAt(data, pos) = kind /\ ValuesIn(data, pos) = 0
    BY <2>1, ItemWords
  <2>4. body <= Len(data) /\ pos < Len(data)
    BY <1>0, <2>1, ItemFacts DEF HasBytes
  <2>5. IsItem(data, pos)
    BY <2>1, <2>2, <2>3, <2>4 DEF IsItem, HasHeader, HasBytes
  <2>6. Accepts
    BY <2>1 DEF Accepts
  <2>7. Done(stack, ItemEnd(data, pos))
    BY <2>1, <2>3
  <2>8. QED  BY <2>1, <2>3, <2>5, <2>6, <2>7, Zenon DEF ReadStep
<1>5. CASE Extension
  <2>1. /\ Reading /\ HasBytes(pos, 1) /\ LenReadable /\ Validate = "nil" /\ Supported
        /\ (AtKey => KeyAllowed) /\ kind = "ext" /\ kind \in Lengths
    BY <1>5 DEF Extension, ReadingKind, Lengths
  <2>2. body \in Nat /\ body <= Len(data) /\ itemLen \in Nat /\ pos < Len(data)
    BY <1>0, <2>1, ItemFacts DEF HasBytes
  <2>3. /\ ItemEnd(data, pos) = body + (1 + itemLen) /\ HeaderEnd(data, pos) = body
        /\ KindAt(data, pos) = kind /\ ValuesIn(data, pos) = 0
    BY <2>1, ItemWords
  <2>4. CASE HasBytes(body, 1 + itemLen)
    <3>1. Done(stack, body + 1 + itemLen)
      BY <1>5, <2>2, <2>4 DEF Extension, HasBytes
    <3>2. body + 1 + itemLen = ItemEnd(data, pos)
      BY <2>2, <2>3
    <3>3. Done(stack, ItemEnd(data, pos))
      BY <3>1, <3>2
    <3>4. IsItem(data, pos)
      BY <2>1, <2>2, <2>3, <2>4 DEF IsItem, HasHeader, HasBytes
    <3>5. Accepts
      BY <2>1 DEF Accepts
    <3>6. QED  BY <2>1, <2>3, <3>3, <3>4, <3>5, Zenon DEF ReadStep
  <2>5. CASE ~HasBytes(body, 1 + itemLen)
    <3>1. ~IsItem(data, pos)
      BY <2>3, <2>5 DEF IsItem, HasBytes
    <3>2. CASE Fail("ErrUnexpectedEOF", body, depth)
      BY <2>1, <3>1, <3>2, Zenon DEF EofStep
    <3>3. CASE Fail("ErrUnexpectedEOF", body + 1, depth)
      BY <2>1, <3>1, <3>3, Zenon DEF EofStep
    <3>4. QED  BY <1>5, <2>5, <3>2, <3>3 DEF Extension
  <2>6. QED  BY <2>4, <2>5
<1>6. QED
  BY <1>1, <1>2, <1>3, <1>4, <1>5 DEF Step

\* Each step of a walk keeps the row and the count.
LEMMA StepRow == IInv /\ RInv /\ Step => RInv'
<1> SUFFICES ASSUME IInv, RInv, Step PROVE RInv'
  OBVIOUS
<1>1. CASE EofStep
  BY <1>1, ReadEof DEF EofStep
<1>2. CASE Unsupported
  <2>1. Reading /\ Fail("ErrInvalidFormat", pos + 1, depth) /\ HasBytes(pos, 1) /\ ~Supported
    BY <1>2 DEF Unsupported
  <2>2. PICK k \in Nat : \E at, due, op : Stands(k, at, due, op)
    BY <2>1, RunningStands DEF Reading
  <2>3. PICK at, due, op : Stands(k, at, due, op)
    BY <2>2
  <2>4. KindAt(data, at[k]) = kind
    BY <2>3, ItemWords DEF Stands
  <2>5. \/ KindAt(data, at[k]) = "invalid"
        \/ KindAt(data, at[k]) = "ext" /\ walk # "value"
    BY <2>1, <2>4, Zenon DEF Supported
  <2>6. RefusedIn(data, walk, base, "ErrInvalidFormat", at, due, k)
    BY <2>5, Zenon DEF RefusedIn
  <2>7. "ErrInvalidFormat" \in Errors \ {"ErrUnexpectedEOF"}
    BY DEF Errors
  <2>8. QED  BY <2>1, <2>3, <2>6, <2>7, ReadRefused
<1>3. CASE BadKey
  <2>1. /\ Reading /\ Fail(KeyError, pos + 1, depth) /\ HasBytes(pos, 1)
        /\ AtKey /\ ~KeyAllowed
    BY <1>3 DEF BadKey
  <2>2. PICK k \in Nat : \E at, due, op : Stands(k, at, due, op)
    BY <2>1, RunningStands DEF Reading
  <2>3. PICK at, due, op : Stands(k, at, due, op)
    BY <2>2
  <2>4. KindAt(data, at[k]) = kind
    BY <2>3, ItemWords DEF Stands
  <2>5. IsKey(data, at, due, k)
    BY <2>1, <2>3, ReadingKnows
  <2>6. walk # "value" /\ kind # "str"
    BY <2>1 DEF KeyAllowed
  <2>7. RefusedIn(data, walk, base, KeyError, at, due, k)
    BY <2>4, <2>5, <2>6, Zenon DEF RefusedIn, KeyError
  <2>8. KeyError \in Errors \ {"ErrUnexpectedEOF"}
    BY DEF Errors, KeyError
  <2>9. QED  BY <2>1, <2>3, <2>7, <2>8, ReadRefused
<1>4. CASE LongStep
  BY <1>4, LimitTrue DEF LongStep
<1>5. CASE ReadStep
  BY <1>5, ReadRow DEF ReadStep
<1>6. CASE OpenContainer
  BY <1>6, OpenRow
<1>7. CASE CloseContainer
  BY <1>7, CloseRow
<1>8. QED
  BY <1>1, <1>2, <1>3, <1>4, <1>5, <1>6, <1>7, StepIs

\* A call begins a row; Reset forgets the last one.
LEMMA CallerRow ==
  ASSUME IInv, RInv,
         \/ \E w \in Walks : Call(w)
         \/ \E m \in ResetMessages : Reset(m)
  PROVE  RInv'
<1>1. ASSUME NEW w \in Walks, Call(w) PROVE RInv'
  <2>1. /\ walk' = w /\ status' = "running" /\ start' = pos /\ pos' = pos
        /\ data' = data /\ stack' = stack /\ base' = depth /\ status # "running"
    BY <1>1 DEF Call, Errors
  <2>2. stack' = <<>> /\ pos \in Nat
    BY <2>1 DEF IInv, TypeOK
  <2>3. StandsAt(data, pos, w, depth, <<>>, pos)
    BY <2>2, WalkBegins
  <2>4. TrueOf(data, pos, w, depth, "running") /\ "running" # "ok"
    BY NoError
  <2>5. QED  BY <2>1, <2>2, <2>3, <2>4, Zenon DEF RInv
<1>2. ASSUME NEW m \in ResetMessages, Reset(m) PROVE RInv'
  <2>1. status' = "idle"
    BY <1>2 DEF Reset
  <2>2. TrueOf(data', start', walk', base', "idle")
    BY NoError
  <2>3. "idle" # "ok" /\ "idle" # "running"
    OBVIOUS
  <2>4. QED  BY <2>1, <2>2, <2>3, Zenon DEF RInv
<1>3. QED  BY <1>1, <1>2

\* The row and the loops hold of every Decoder.
LEMMA RowInvariance == Spec => []RInv
<1>1. Init => RInv
  <2> SUFFICES ASSUME Init PROVE RInv
    OBVIOUS
  <2>1. status = "idle"
    BY DEF Init
  <2>2. TrueOf(data, start, walk, base, "idle")
    BY NoError
  <2>3. "idle" # "ok" /\ "idle" # "running"
    OBVIOUS
  <2>4. QED  BY <2>1, <2>2, <2>3, Zenon DEF RInv
<1>2. IInv /\ RInv /\ [Next]_vars => RInv'
  <2> SUFFICES ASSUME IInv, RInv, [Next]_vars PROVE RInv'
    OBVIOUS
  <2>1. CASE Step
    BY <2>1, StepRow
  <2>2. CASE (\E w \in Walks : Call(w)) \/ (\E m \in ResetMessages : Reset(m))
    BY <2>2, CallerRow
  <2>3. CASE UNCHANGED vars
    <3>1. /\ data' = data /\ start' = start /\ walk' = walk /\ base' = base /\ pos' = pos
          /\ stack' = stack /\ status' = status
      BY <2>3 DEF vars
    <3>2. QED  BY <3>1, Zenon DEF RInv
  <2>4. QED  BY <2>1, <2>2, <2>3 DEF Next
<1>3. QED  BY Invariance, <1>1, <1>2, PTL DEF Spec

\* A walk that returns a value has read exactly one, and let nothing through: it
\* stands where the value ends, and of its items none has a length over its limit,
\* is nested too deeply, or is a key or of a kind that the walk does not read --
\* whatever the buffer, the limits and the calls before.
THEOREM OkReadsOneValue == Spec => []OneValueRead
<1>1. RInv => OneValueRead
  BY RInvMeans
<1>2. QED  BY RowInvariance, <1>1, PTL

\* No error is made up: a whole value is never reported as truncated, and any other
\* error is true of the first item that there is anything to say of -- the containers
\* around it are as many as ErrMaxDepthExceeded says, the key is a key.
THEOREM ErrorsAreTrue == Spec => []ErrorIsTrue
<1>1. RInv => ErrorIsTrue
  BY RInvMeans
<1>2. QED  BY RowInvariance, <1>1, PTL

\* A readable value is a value.
LEMMA ReadableIsValue ==
  ASSUME NEW d, NEW s, NEW w, NEW b, NEW p, ValueTo(d, s, w, b, p)
  PROVE  IsValue(d, s, p)
BY Zenon DEF ValueTo, ReadableIn, IsValue

\* Every message is decided: the walk returns a value where a value that it may read
\* is whole, and an error everywhere else. The three walks, and the calls before,
\* differ in what they may read and in nothing else.
THEOREM SucceedsExactly == Spec => []SucceedsIfReadable
<1>1. ASSUME IInv, RInv, status \in {"ok"} \cup Errors
      PROVE  (status = "ok") <=> ValueFrom(data, start, walk, base)
  <2>1. CASE status = "ok"
    <3>1. ValueTo(data, start, walk, base, pos)
      BY <1>1, <2>1 DEF RInv
    <3>2. QED  BY <2>1, <3>1, Zenon DEF ValueTo, ValueFrom
  <2>2. CASE status = "ErrUnexpectedEOF"
    <3>1. \A q \in Nat : ~IsValue(data, start, q)
      BY <1>1, <2>2 DEF RInv, TrueOf
    <3>2. ASSUME NEW k \in Nat, NEW at \in [0..k -> Nat], NEW due \in [0..k -> Nat],
                 ReadableIn(data, start, walk, base, k, at, due), due[k] = 0
          PROVE  FALSE
      <4>1. at[k] \in Nat
        OBVIOUS
      <4>2. ValueTo(data, start, walk, base, at[k])
        BY <3>2, Zenon DEF ValueTo
      <4>3. QED  BY <3>1, <4>1, <4>2, ReadableIsValue
    <3>3. ~ValueFrom(data, start, walk, base)
      BY <3>2, Zenon DEF ValueFrom
    <3>4. QED  BY <2>2, <3>3
  <2>3. CASE status \in Errors \ {"ErrUnexpectedEOF"}
    <3>1. RefusedFirst(data, start, walk, base, status)
      BY <1>1, <2>3 DEF RInv, TrueOf
    <3>2. data \in Seq(Byte) /\ status \in Errors /\ status # "ok"
      BY <1>1, <2>3 DEF IInv, TypeOK, Errors
    <3>3. ~ValueFrom(data, start, walk, base)
      BY <3>1, <3>2, RefusedHasNone
    <3>4. QED  BY <3>2, <3>3
  <2>4. QED  BY <1>1, <2>1, <2>2, <2>3
<1>2. ValueFrom(data, start, walk, base) <=>
        \E k \in Nat : \E at, due \in [0..k -> Nat] : Readable(k, at, due) /\ due[k] = 0
  BY ReadableMeans, Zenon DEF ValueFrom
<1>3. IInv /\ RInv => SucceedsIfReadable
  BY <1>1, <1>2, Zenon DEF SucceedsIfReadable
<1>4. QED  BY Invariance, RowInvariance, <1>3, PTL

\* No other byte is the end of the value that was read.
EndsWithTheValue ==
  status = "ok" => \A q \in Nat : IsValue(data, start, q) <=> q = pos

\* A walk that returns a value stands at the one end that the value has: so do
\* the three walks alike, each time one of them reads that value.
THEOREM OkEndsWithTheValue == Spec => []EndsWithTheValue
<1>1. ASSUME IInv, RInv, status = "ok", NEW q \in Nat
      PROVE  IsValue(data, start, q) <=> q = pos
  <2>1. data \in Seq(Byte) /\ start \in Nat /\ pos \in Nat
    BY <1>1 DEF IInv, TypeOK
  <2>2. ValueTo(data, start, walk, base, pos)
    BY <1>1 DEF RInv
  <2>3. IsValue(data, start, pos)
    BY <2>2, ReadableIsValue
  <2>4. QED  BY <2>1, <2>3, ValuesEndOnce
<1>2. IInv /\ RInv => EndsWithTheValue
  BY <1>1 DEF EndsWithTheValue
<1>3. QED  BY Invariance, RowInvariance, <1>2, PTL

-----------------------------------------------------------------------------
(* What Grammar finds in the rest of a value.                              *)

\* What Refused and OkIsOneValue say of an item, and of what a call of the walk w reads
\* that is inside b + i containers.
RefusedBy(w, item) ==
  \/ item.kind = "invalid"
  \/ item.kind = "ext" /\ w # "value"
  \/ item.key /\ item.kind # "str" /\ w # "value"
Fine(w, item) == ~OverLimit(item) /\ ~RefusedBy(w, item)
Clean(w, b, i, r) ==
  /\ r.ok
  /\ \A item \in r.items : Fine(w, item)
  /\ w # "typed" => r.nest = 0 \/ b + i + r.nest <= MaxDepth

\* t is the rest of r: as much as was read of r is in order.
RestOf(w, b, i, r, t) ==
  /\ r.ok = t.ok
  /\ t.ok => r.end = t.end
  /\ Clean(w, b, i, t) => Clean(w, b, i, r)
  /\ t.items \subseteq r.items /\ t.nest <= r.nest

\* r is what is found inside i containers of v.
Inside(i, v, r) ==
  /\ v.ok => r.ok
  /\ r.items \subseteq v.items /\ i + r.nest <= v.nest

\* The rest of the rest is the rest, and inside where that is.
LEMMA RestOfRest ==
  ASSUME NEW w, NEW b, NEW i, NEW r, NEW t, NEW u,
         r.nest \in Nat, t.nest \in Nat, u.nest \in Nat,
         RestOf(w, b, i, r, t), RestOf(w, b, i, t, u)
  PROVE  RestOf(w, b, i, r, u)
<1>1. r.ok = u.ok /\ (u.ok => r.end = u.end)
  BY DEF RestOf
<1>2. Clean(w, b, i, u) => Clean(w, b, i, r)
  BY Zenon DEF RestOf
<1>3. u.items \subseteq r.items
  BY Zenon DEF RestOf
<1>4. u.nest <= r.nest
  BY DEF RestOf
<1> QED
  BY <1>1, <1>2, <1>3, <1>4, Zenon DEF RestOf

LEMMA InsideRest ==
  ASSUME NEW w, NEW b, NEW i \in Nat, NEW v, NEW r, NEW t,
         v.nest \in Nat, r.nest \in Nat, t.nest \in Nat,
         Inside(i, v, r), RestOf(w, b, i, r, t)
  PROVE  Inside(i, v, t)
<1>1. v.ok => t.ok
  BY Zenon DEF RestOf, Inside
<1>2. t.items \subseteq v.items
  BY Zenon DEF RestOf, Inside
<1>3. i + t.nest <= v.nest
  BY DEF RestOf, Inside
<1> QED
  BY <1>1, <1>2, <1>3, Zenon DEF Inside

\* What was read first is in order, and the rest is what comes next.
LEMMA FirstInOrder ==
  ASSUME NEW w, NEW b \in Nat, NEW i \in Nat, NEW first, NEW t,
         t.ok \in BOOLEAN, first.ok, first.nest \in Nat, t.nest \in Nat,
         Clean(w, b, i, first)
  PROVE  RestOf(w, b, i, G!Both(first, t), t)
<1> DEFINE r == G!Both(first, t)
<1>1. /\ r.ok = (first.ok /\ t.ok) /\ r.end = t.end
      /\ r.nest = G!LargerOf(first.nest, t.nest) /\ r.items = first.items \cup t.items
  BY DEF G!Both
<1> HIDE DEF r
<1>2. r.ok = t.ok
  BY <1>1
<1>3. t.nest <= r.nest /\ (r.nest = first.nest \/ r.nest = t.nest)
  BY <1>1 DEF G!LargerOf
<1>4. ASSUME Clean(w, b, i, t) PROVE Clean(w, b, i, r)
  <2>1. r.ok
    BY <1>2, <1>4 DEF Clean
  <2>2. \A item \in r.items : Fine(w, item)
    BY <1>1, <1>4, Zenon DEF Clean
  <2>3. w # "typed" => r.nest = 0 \/ b + i + r.nest <= MaxDepth
    <3>1. CASE r.nest = first.nest
      BY <3>1 DEF Clean
    <3>2. CASE r.nest = t.nest
      BY <1>4, <3>2 DEF Clean
    <3> QED
      BY <1>3, <3>1, <3>2
  <2> QED
    BY <2>1, <2>2, <2>3, Zenon DEF Clean
<1>5. t.items \subseteq r.items
  BY <1>1, Zenon
<1>6. RestOf(w, b, i, r, t)
  BY <1>1, <1>2, <1>3, <1>4, <1>5, Zenon DEF RestOf
<1> QED
  BY <1>6 DEF r

\* Behind an item that is no container, in order and there.
LEMMA LeafRest ==
  ASSUME NEW d \in Seq(Byte), NEW w, NEW b \in Nat, NEW i \in Nat,
         NEW x \in G!Places, x.due > 0, IsItem(d, x.at),
         KindAt(d, x.at) \notin {"array", "map"}, Fine(w, ItemAt(d, x))
  PROVE  RestOf(w, b, i, RestAt(d, x), RestAt(d, NextPlace(x, ItemEnd(d, x.at))))
<1> DEFINE e == ItemEnd(d, x.at)
           item == ItemAt(d, x)
           first == [ok |-> TRUE, end |-> e, nest |-> 0, items |-> {item}]
           y == NextPlace(x, e)
           t == RestAt(d, y)
<1>1. HasFirst(d, x) /\ e \in Nat
  BY ItemHasFirst
<1>2. e \in Nat /\ ~(e > Len(d))
  BY <1>1 DEF IsItem
<1>3. G!First(d, G!Parsed(d), x) = first
  BY <1>1, <1>2, FirstKinds
<1>4. first.ok = TRUE /\ first.end = e /\ first.nest = 0 /\ first.items = {item}
  OBVIOUS
<1>5. Fine(w, item)
  OBVIOUS
<1> HIDE DEF first, item, e
<1>6. y \in G!Places
  BY <1>2, NextIsPlace
<1>7. t.ok \in BOOLEAN /\ t.nest \in Nat
  BY <1>6, FoundAt
<1>8. RestAt(d, x) = G!Both(first, t)
  BY <1>1, <1>3, <1>4, ReadFirst, Zenon
<1>9. Clean(w, b, i, first)
  BY <1>4, <1>5 DEF Clean
<1> HIDE DEF t
<1>10. first.ok /\ first.nest \in Nat
  BY <1>4
<1>11. RestOf(w, b, i, G!Both(first, t), t)
  BY <1>7, <1>9, <1>10, FirstInOrder
<1> QED
  BY <1>8, <1>11 DEF t, e

\* Behind a container, in order and there, whose header is at x.
LEMMA ContainerRest ==
  ASSUME NEW d \in Seq(Byte), NEW w, NEW b \in Nat, NEW i \in Nat,
         NEW x \in G!Places, HasFirst(d, x),
         KindAt(d, x.at) \in {"array", "map"}, Fine(w, ItemAt(d, x)),
         Clean(w, b, i + 1, InnerAt(d, x.at)), w # "typed" => b + i + 1 <= MaxDepth
  PROVE  RestOf(w, b, i, RestAt(d, x), RestAt(d, NextPlace(x, InnerAt(d, x.at).end)))
<1> DEFINE item == ItemAt(d, x)
           inner == InnerAt(d, x.at)
           first == G!Container(item, inner)
           y == NextPlace(x, inner.end)
           t == RestAt(d, y)
<1>1. G!First(d, G!Parsed(d), x) = first /\ HasHeader(d, x.at) /\ x.at \in Nat /\ x.due > 0
  BY FirstKinds DEF HasFirst
<1>2. inner.ok \in BOOLEAN /\ inner.end \in Nat /\ inner.nest \in Nat
  BY <1>1, InnerIsPlace, FoundAt DEF InnerAt
<1>3. inner.ok = TRUE
  BY <1>2 DEF Clean
<1>4. /\ first.ok = inner.ok /\ first.end = inner.end /\ first.nest = inner.nest + 1
      /\ first.items = inner.items \cup {item}
  BY DEF G!Container
<1>5. Fine(w, item) /\ Clean(w, b, i + 1, inner)
  OBVIOUS
<1> HIDE DEF first, item, inner
<1>6. y \in G!Places
  BY <1>1, <1>2, NextIsPlace
<1>7. t.ok \in BOOLEAN /\ t.nest \in Nat
  BY <1>6, FoundAt
<1>8. RestAt(d, x) = G!Both(first, t)
  BY <1>1, <1>3, <1>4, ReadFirst, Zenon
<1>9. Clean(w, b, i, first)
  <2>1. \A it \in first.items : Fine(w, it)
    BY <1>4, <1>5, Zenon DEF Clean
  <2>2. w # "typed" => b + i + first.nest <= MaxDepth
    <3>1. CASE w # "typed" /\ inner.nest = 0
      BY <1>4, <3>1
    <3>2. CASE w # "typed" /\ b + (i + 1) + inner.nest <= MaxDepth
      BY <1>2, <1>4, <3>2, ConfigAssumption
    <3> QED
      BY <1>5, <3>1, <3>2 DEF Clean
  <2> QED
    BY <1>3, <1>4, <2>1, <2>2, Zenon DEF Clean
<1> HIDE DEF t
<1>10. first.ok /\ first.nest \in Nat
  BY <1>2, <1>3, <1>4
<1>11. RestOf(w, b, i, G!Both(first, t), t)
  BY <1>7, <1>9, <1>10, FirstInOrder
<1> QED
  BY <1>8, <1>11 DEF t, inner

\* What is in the container whose header is at x is inside one more.
LEMMA InnerInside ==
  ASSUME NEW d \in Seq(Byte), NEW i \in Nat, NEW v, v.nest \in Nat,
         NEW x \in G!Places, HasFirst(d, x),
         KindAt(d, x.at) \in {"array", "map"}, Inside(i, v, RestAt(d, x))
  PROVE  Inside(i + 1, v, InnerAt(d, x.at))
<1> DEFINE item == ItemAt(d, x)
           inner == InnerAt(d, x.at)
           first == G!Container(item, inner)
           r == RestAt(d, x)
<1>1. G!First(d, G!Parsed(d), x) = first /\ HasHeader(d, x.at) /\ x.at \in Nat
  BY FirstKinds
<1>2. inner.ok \in BOOLEAN /\ inner.nest \in Nat
  BY <1>1, InnerIsPlace, FoundAt DEF InnerAt
<1>3. /\ first.ok = inner.ok /\ first.nest = inner.nest + 1
      /\ first.items = inner.items \cup {item}
  BY DEF G!Container
<1>4. (r.ok => first.ok) /\ first.items \subseteq r.items /\ first.nest <= r.nest
  BY <1>1, FirstInside
<1>5. r.nest \in Nat
  BY FoundAt
<1>6. Inside(i, v, r)
  OBVIOUS
<1> HIDE DEF first, item, inner, r
<1>7. v.ok => inner.ok
  BY <1>3, <1>4, <1>6, Zenon DEF Inside
<1>8. inner.items \subseteq v.items
  BY <1>3, <1>4, <1>6, Zenon DEF Inside
<1>9. (i + 1) + inner.nest <= v.nest
  BY <1>2, <1>3, <1>4, <1>5, <1>6 DEF Inside
<1> QED
  BY <1>7, <1>8, <1>9, Zenon DEF Inside, inner

\* The format byte that is at x is one of an item that is reported, with the length
\* that follows it.
LEMMA FirstItem ==
  ASSUME NEW d \in Seq(Byte), NEW x \in G!Places, x.due > 0, x.at < Len(d)
  PROVE  \E n : /\ G!Item(KindAt(d, x.at), n, x) \in RestAt(d, x).items
                /\ HeaderEnd(d, x.at) <= Len(d) /\ KindAt(d, x.at) \in Lengths
                     => n = LenAt(d, x.at)
<1>1. CASE HasFirst(d, x)
  <2> DEFINE first == G!First(d, G!Parsed(d), x)
  <2>1. first.items \subseteq RestAt(d, x).items
    BY <1>1, FirstInside
  <2>2. ItemAt(d, x) \in first.items
    <3>1. CASE KindAt(d, x.at) \in {"array", "map"}
      <4>1. first = G!Container(ItemAt(d, x), InnerAt(d, x.at))
        BY <1>1, <3>1, FirstKinds
      <4> HIDE DEF first
      <4> QED
        BY <4>1 DEF G!Container
    <3>2. CASE KindAt(d, x.at) \notin {"array", "map"}
      <4>1. first = IF ItemEnd(d, x.at) > Len(d) THEN G!Broken({ItemAt(d, x)})
                    ELSE [ok |-> TRUE, end |-> ItemEnd(d, x.at), nest |-> 0,
                          items |-> {ItemAt(d, x)}]
        BY <1>1, <3>2, FirstKinds
      <4> HIDE DEF first
      <4> QED
        BY <4>1 DEF G!Broken
    <3> QED
      BY <3>1, <3>2
  <2> DEFINE n == IF KindAt(d, x.at) = "scalar" THEN ScalarWidth(d[x.at+1]) ELSE LenAt(d, x.at)
  <2>3. G!Item(KindAt(d, x.at), n, x) \in RestAt(d, x).items
    BY <2>1, <2>2 DEF ItemAt
  <2>4. KindAt(d, x.at) \in Lengths => n = LenAt(d, x.at)
    BY DEF Lengths
  <2> HIDE DEF n
  <2> QED
    BY <2>3, <2>4
<1>2. CASE ~HasFirst(d, x)
  <2>1. RestAt(d, x) = G!Broken({G!Item(KindAt(d, x.at), 0, x)})
    BY <1>2, NoFirst
  <2>2. G!Item(KindAt(d, x.at), 0, x) \in RestAt(d, x).items
    BY <2>1 DEF G!Broken
  <2>3. ~(HeaderEnd(d, x.at) <= Len(d) /\ KindAt(d, x.at) \in Lengths)
    <3>1. 193 \in Byte
      BY DEF Byte
    <3>2. Kind(193) = "invalid"
      BY <3>1, NeverUsed
    <3> QED
      BY <1>2, <3>2 DEF HasFirst, Lengths, KindAt
  <2> QED
    BY <2>2, <2>3
<1> QED
  BY <1>1, <1>2

\* A container nests.
LEMMA ContainerNests ==
  ASSUME NEW d \in Seq(Byte), NEW x \in G!Places, HasFirst(d, x),
         KindAt(d, x.at) \in {"array", "map"}
  PROVE  RestAt(d, x).nest >= 1
<1> DEFINE first == G!First(d, G!Parsed(d), x)
           inner == InnerAt(d, x.at)
           r == RestAt(d, x)
<1>1. first = G!Container(ItemAt(d, x), inner) /\ HasHeader(d, x.at) /\ x.at \in Nat
  BY FirstKinds
<1>2. inner.nest \in Nat
  BY <1>1, InnerIsPlace, FoundAt DEF InnerAt
<1>3. first.nest <= r.nest
  BY FirstInside
<1>4. r.nest \in Nat
  BY FoundAt
<1> HIDE DEF first, inner, r
<1>5. first.nest = inner.nest + 1
  BY <1>1 DEF G!Container
<1>6. r.nest >= 1
  BY <1>2, <1>3, <1>4, <1>5
<1> QED
  BY <1>6 DEF r

-----------------------------------------------------------------------------
(* The walks read what Grammar reads.                                      *)

\* What is found of the value at s where it is inside i containers: those that are read
\* have the first items at xs[0] .. xs[i-1].
WholeAt(d, s, xs, i) == IF i = 0 THEN G!ValueAt(d, s) ELSE InnerAt(d, xs[i-1].at)

\* A container the walk w has opened, and whose values it reads.
Opened(d, w, x) ==
  HasFirst(d, x) /\ KindAt(d, x.at) \in {"array", "map"} /\ Fine(w, ItemAt(d, x))

\* A walk with the n loops st has, in each of them, what is found at xs still to read.
LoopsAt(d, s, w, b, st, n, xs) ==
  /\ xs \in [0..n -> G!Places]
  /\ xs[0].due = 1 /\ ~xs[0].pairs
  /\ \A i \in 1..n : xs[i].due = st[i].left /\ (xs[i].pairs <=> st[i].kind = "map")
  /\ \A i \in 0..n : /\ RestOf(w, b, i, WholeAt(d, s, xs, i), RestAt(d, xs[i]))
                     /\ Inside(i, G!ValueAt(d, s), WholeAt(d, s, xs, i))
  /\ \A i \in 0..n-1 : Opened(d, w, xs[i])

WalksAt(d, s, w, b, st, p) ==
  \E xs : LoopsAt(d, s, w, b, st, Len(st), xs) /\ xs[Len(st)].at = p

\* ErrorIsJustified of a given document and call.
Justified(doc, w, b, e) ==
  /\ e = "ErrUnexpectedEOF" => ~doc.ok
  /\ e = "ErrInvalidFormat" => \E i \in doc.items : RefusedBy(w, i)
  /\ e = "ErrTypeMismatch" => w = "typed" /\ \E i \in doc.items : i.key /\ i.kind # "str"
  /\ e = "ErrMaxDepthExceeded" => w # "typed" /\ doc.nest > 0 /\ b + doc.nest > MaxDepth
  /\ e \in Errors \ {"ErrUnexpectedEOF", "ErrInvalidFormat", "ErrTypeMismatch",
                     "ErrMaxDepthExceeded"} =>
       \E i \in doc.items : OverLimit(i) /\ TooLong(i.kind) = e

\* The inductive invariant: a running walk has read what Grammar has in front of the places
\* that its loops stand at, and what is behind them decides of the rest.
GInv ==
  /\ status = "running" => WalksAt(data, start, walk, base, stack, pos)
  /\ status = "ok" => Clean(walk, base, 0, G!ValueAt(data, start))
                      /\ G!ValueAt(data, start).end = pos
  /\ status \in Errors => Justified(G!ValueAt(data, start), walk, base, status)

\* The value at s is what is found at one of the places.
LEMMA ValueIs ==
  ASSUME NEW d \in Seq(Byte), NEW s \in Nat
  PROVE  LET x == G!Place(s, 1, FALSE)
         IN  /\ x \in G!Places /\ x.at = s /\ x.due = 1 /\ ~x.pairs
             /\ G!ValueAt(d, s) = RestAt(d, x) /\ G!ValueAt(d, s).nest \in Nat
<1> DEFINE x == G!Place(s, 1, FALSE)
<1>1. FALSE \in BOOLEAN /\ 1 \in Nat
  OBVIOUS
<1>2. x \in G!Places /\ x.at = s /\ x.due = 1 /\ x.pairs = FALSE
  BY <1>1, PlaceIs
<1>3. G!ValueAt(d, s) = RestAt(d, x)
  BY DEF RestAt, G!ValueAt, G!Parse
<1> HIDE DEF x
<1>4. RestAt(d, x).nest \in Nat
  BY <1>2, FoundAt
<1>5. ~x.pairs
  BY <1>2
<1> QED
  BY <1>2, <1>3, <1>4, <1>5 DEF x

\* It says what the two properties say.
LEMMA GInvMeans ==
  ASSUME TypeOK, GInv
  PROVE  OkIsOneValue /\ ErrorIsJustified
<1> DEFINE doc == G!ValueAt(data, start)
<1>1. doc = Doc /\ (Tracked <=> walk # "typed")
  BY DEF Doc, Tracked
<1>2. \A i : Refused(i) <=> RefusedBy(walk, i)
  BY Zenon DEF Refused, RefusedBy
<1>3. start \in Nat /\ base \in Nat /\ data \in Seq(Byte)
  BY DEF TypeOK
<1>4. doc.nest \in Nat
  BY <1>3, ValueIs
<1> HIDE DEF doc
<1>5. OkIsOneValue
  <2> SUFFICES ASSUME status = "ok"
               PROVE  /\ Doc.ok /\ pos = Doc.end
                      /\ \A item \in Doc.items : ~OverLimit(item) /\ ~Refused(item)
                      /\ ~TooDeep
    BY DEF OkIsOneValue
  <2>1. Clean(walk, base, 0, doc) /\ doc.end = pos
    BY DEF GInv, doc
  <2>2. \A item \in doc.items : ~OverLimit(item) /\ ~Refused(item)
    BY <1>2, <2>1, Zenon DEF Clean, Fine
  <2>3. walk # "typed" => doc.nest = 0 \/ base + doc.nest <= MaxDepth
    BY <1>3, <1>4, <2>1 DEF Clean
  <2>4. ~(Tracked /\ doc.nest > 0 /\ base + doc.nest > MaxDepth)
    BY <1>1, <1>3, <1>4, <2>3, ConfigAssumption
  <2> QED
    BY <1>1, <2>1, <2>2, <2>4, Zenon DEF Clean, TooDeep
<1>6. ErrorIsJustified
  <2> SUFFICES ASSUME status \in Errors
               PROVE  CASE status = "ErrUnexpectedEOF"  -> ~Doc.ok
                        [] status = "ErrInvalidFormat"  -> \E i \in Doc.items : Refused(i)
                        [] status = "ErrTypeMismatch"   ->
                             walk = "typed" /\ \E i \in Doc.items : i.key /\ i.kind # "str"
                        [] status = "ErrMaxDepthExceeded" -> TooDeep
                        [] OTHER -> \E i \in Doc.items : OverLimit(i) /\ TooLong(i.kind) = status
    BY DEF ErrorIsJustified
  <2>1. Justified(doc, walk, base, status)
    BY DEF GInv, doc
  <2> DEFINE broken == ~doc.ok
             refused == \E i \in doc.items : RefusedBy(walk, i)
             badKey == walk = "typed" /\ \E i \in doc.items : i.key /\ i.kind # "str"
             deep == walk # "typed" /\ doc.nest > 0 /\ base + doc.nest > MaxDepth
             long == \E i \in doc.items : OverLimit(i) /\ TooLong(i.kind) = status
  <2>2. /\ status = "ErrUnexpectedEOF" => broken
        /\ status = "ErrInvalidFormat" => refused
        /\ status = "ErrTypeMismatch" => badKey
        /\ status = "ErrMaxDepthExceeded" => deep
        /\ status \in Errors \ {"ErrUnexpectedEOF", "ErrInvalidFormat", "ErrTypeMismatch",
                                "ErrMaxDepthExceeded"} => long
    BY <2>1, Zenon DEF Justified
  <2>3. refused => \E i \in Doc.items : Refused(i)
    BY <1>1, <1>2, Zenon
  <2>4. deep => TooDeep
    BY <1>1 DEF TooDeep
  <2>5. badKey => walk = "typed" /\ \E i \in Doc.items : i.key /\ i.kind # "str"
    BY <1>1, Zenon
  <2>6. long => \E i \in Doc.items : OverLimit(i) /\ TooLong(i.kind) = status
    BY <1>1, Zenon
  <2>7. broken => ~Doc.ok
    BY <1>1, Zenon
  <2> HIDE DEF refused, badKey, deep, long, broken
  <2> DEFINE reason1 == \E i \in Doc.items : Refused(i)
             reason2 == walk = "typed" /\ \E i \in Doc.items : i.key /\ i.kind # "str"
             reason3 == \E i \in Doc.items : OverLimit(i) /\ TooLong(i.kind) = status
             reason4 == ~Doc.ok
  <2>8. /\ status = "ErrUnexpectedEOF" => reason4
        /\ status = "ErrInvalidFormat" => reason1
        /\ status = "ErrTypeMismatch" => reason2
        /\ status = "ErrMaxDepthExceeded" => TooDeep
        /\ status \notin {"ErrUnexpectedEOF", "ErrInvalidFormat", "ErrTypeMismatch",
                          "ErrMaxDepthExceeded"} => reason3
    BY <2>2, <2>3, <2>4, <2>5, <2>6, <2>7
  <2> HIDE DEF reason1, reason2, reason3, reason4
  <2>9. (CASE status = "ErrUnexpectedEOF" -> reason4
           [] status = "ErrInvalidFormat" -> reason1
           [] status = "ErrTypeMismatch" -> reason2
           [] status = "ErrMaxDepthExceeded" -> TooDeep
           [] OTHER -> reason3)
    BY <2>8
  <2> QED
    BY <2>9, Zenon DEF reason1, reason2, reason3, reason4
<1> QED
  BY <1>5, <1>6

\* Numbers of what the loops are in.
LEMMA WholeIs ==
  ASSUME NEW d \in Seq(Byte), NEW s \in Nat, NEW w, NEW b, NEW st, NEW n \in Nat, NEW xs,
         LoopsAt(d, s, w, b, st, n, xs), NEW i \in 0..n
  PROVE  WholeAt(d, s, xs, i).nest \in Nat
<1>1. CASE i = 0
  BY <1>1, ValueIs DEF WholeAt
<1>2. CASE i # 0
  <2> DEFINE x == xs[i-1]
  <2>1. i - 1 \in 0..n-1 /\ i - 1 \in 0..n
    BY <1>2
  <2>2. x \in G!Places /\ HasFirst(d, x)
    BY <2>1 DEF LoopsAt, Opened
  <2> HIDE DEF x
  <2>3. x.at \in Nat /\ HasHeader(d, x.at)
    BY <2>2, FirstKinds
  <2>4. InnerAt(d, x.at).nest \in Nat
    BY <2>3, InnerIsPlace, FoundAt DEF InnerAt
  <2> QED
    BY <1>2, <2>4 DEF WholeAt, x
<1> QED
  BY <1>1, <1>2

\* What is left to read is inside the value.
LEMMA RestInside ==
  ASSUME NEW d \in Seq(Byte), NEW s \in Nat, NEW w, NEW b, NEW st, NEW n \in Nat, NEW xs,
         LoopsAt(d, s, w, b, st, n, xs), NEW i \in 0..n
  PROVE  Inside(i, G!ValueAt(d, s), RestAt(d, xs[i]))
<1>1. WholeAt(d, s, xs, i).nest \in Nat /\ G!ValueAt(d, s).nest \in Nat
  BY WholeIs, ValueIs
<1>2. xs[i] \in G!Places
  BY DEF LoopsAt
<1>3. RestAt(d, xs[i]).nest \in Nat
  BY <1>2, FoundAt
<1>4. /\ RestOf(w, b, i, WholeAt(d, s, xs, i), RestAt(d, xs[i]))
      /\ Inside(i, G!ValueAt(d, s), WholeAt(d, s, xs, i))
  BY DEF LoopsAt
<1> QED
  BY <1>1, <1>3, <1>4, InsideRest

\* The m-th loop has read one value more, those inside it are over.
LEMMA LoopMoves ==
  ASSUME NEW d \in Seq(Byte), NEW s \in Nat, NEW w, NEW b, NEW st, NEW sv,
         NEW n \in Nat, NEW xs, LoopsAt(d, s, w, b, st, n, xs),
         NEW m \in 1..n, xs[m].due > 0, NEW p \in Nat,
         RestOf(w, b, m, RestAt(d, xs[m]), RestAt(d, NextPlace(xs[m], p))),
         sv[m].left = st[m].left - 1, sv[m].kind = st[m].kind,
         \A i \in 1..m-1 : sv[i] = st[i]
  PROVE  \E ys : LoopsAt(d, s, w, b, sv, m, ys) /\ ys[m].at = p
<1> DEFINE y == NextPlace(xs[m], p)
           ys == [i \in 0..m |-> IF i = m THEN y ELSE xs[i]]
<1>1. /\ xs \in [0..n -> G!Places] /\ xs[0].due = 1 /\ ~xs[0].pairs
      /\ \A i \in 1..n : xs[i].due = st[i].left /\ (xs[i].pairs <=> st[i].kind = "map")
      /\ \A i \in 0..n-1 : Opened(d, w, xs[i])
  BY DEF LoopsAt
<1>2. xs[m] \in G!Places /\ y \in G!Places /\ y.at = p /\ y.due = xs[m].due - 1
      /\ y.pairs = xs[m].pairs
  BY <1>1, NextIsPlace
<1>3. RestOf(w, b, m, RestAt(d, xs[m]), RestAt(d, y))
  OBVIOUS
<1> HIDE DEF y
<1>4. /\ ys \in [0..m -> G!Places] /\ ys[m] = y
      /\ \A i \in 0..m-1 : ys[i] = xs[i]
  BY <1>2, <1>1
<1> HIDE DEF ys
<1>5. ys[0].due = 1 /\ ~ys[0].pairs
  BY <1>1, <1>4
<1>6. ASSUME NEW i \in 1..m
      PROVE  ys[i].due = sv[i].left /\ (ys[i].pairs <=> sv[i].kind = "map")
  <2>1. i \in 1..n
    OBVIOUS
  <2>2. CASE i = m
    BY <1>2, <1>1, <1>4, <2>1, <2>2
  <2>3. CASE i # m
    <3>1. i \in 1..m-1 /\ i \in 0..m-1
      BY <2>3
    <3> QED
      BY <1>1, <1>4, <2>1, <3>1
  <2> QED
    BY <2>2, <2>3
<1>7. ASSUME NEW i \in 0..m
      PROVE  /\ RestOf(w, b, i, WholeAt(d, s, ys, i), RestAt(d, ys[i]))
             /\ Inside(i, G!ValueAt(d, s), WholeAt(d, s, ys, i))
  <2>1. i \in 0..n
    OBVIOUS
  <2>2. WholeAt(d, s, ys, i) = WholeAt(d, s, xs, i)
    <3>1. i # 0 => ys[i-1] = xs[i-1]
      BY <1>4
    <3> QED
      BY <3>1 DEF WholeAt
  <2>3. /\ RestOf(w, b, i, WholeAt(d, s, xs, i), RestAt(d, xs[i]))
        /\ Inside(i, G!ValueAt(d, s), WholeAt(d, s, xs, i))
    BY <2>1 DEF LoopsAt
  <2>4. CASE i = m
    <3>1. xs[i] \in G!Places
      BY <1>1, <2>1
    <3>2. RestAt(d, xs[i]).nest \in Nat /\ RestAt(d, y).nest \in Nat
      BY <1>2, <3>1, FoundAt
    <3>3. WholeAt(d, s, xs, i).nest \in Nat
      BY <2>1, WholeIs
    <3>4. RestOf(w, b, i, RestAt(d, xs[i]), RestAt(d, y))
      BY <1>3, <2>4
    <3>5. RestOf(w, b, i, WholeAt(d, s, xs, i), RestAt(d, y))
      BY <2>3, <3>2, <3>3, <3>4, RestOfRest
    <3> QED
      BY <1>4, <2>2, <2>3, <2>4, <3>5
  <2>5. CASE i # m
    <3>1. ys[i] = xs[i]
      BY <1>4, <2>5
    <3> QED
      BY <2>2, <2>3, <3>1
  <2> QED
    BY <2>4, <2>5
<1>8. \A i \in 0..m-1 : Opened(d, w, ys[i])
  BY <1>1, <1>4
<1>9. LoopsAt(d, s, w, b, sv, m, ys)
  BY <1>4, <1>5, <1>6, <1>7, <1>8 DEF LoopsAt
<1> QED
  BY <1>2, <1>4, <1>9

\* Another loop begins, inside the n-th.
LEMMA LoopBegins ==
  ASSUME NEW d \in Seq(Byte), NEW s \in Nat, NEW w, NEW b, NEW st, NEW sv,
         NEW n \in Nat, NEW xs, LoopsAt(d, s, w, b, st, n, xs), Opened(d, w, xs[n]),
         sv[n+1].left = ValuesIn(d, xs[n].at), sv[n+1].kind = KindAt(d, xs[n].at),
         \A i \in 1..n : sv[i] = st[i]
  PROVE  \E ys : LoopsAt(d, s, w, b, sv, n + 1, ys) /\ ys[n+1].at = HeaderEnd(d, xs[n].at)
<1> DEFINE q == xs[n].at
           y == InnerPlace(d, q)
           ys == [i \in 0..n+1 |-> IF i = n + 1 THEN y ELSE xs[i]]
<1>1. /\ xs \in [0..n -> G!Places] /\ xs[0].due = 1 /\ ~xs[0].pairs
      /\ \A i \in 1..n : xs[i].due = st[i].left /\ (xs[i].pairs <=> st[i].kind = "map")
      /\ \A i \in 0..n-1 : Opened(d, w, xs[i])
  BY DEF LoopsAt
<1>2. xs[n] \in G!Places /\ HasFirst(d, xs[n]) /\ KindAt(d, q) \in {"array", "map"}
  BY <1>1 DEF Opened
<1>3. q \in Nat /\ HasHeader(d, q)
  BY <1>2, FirstKinds
<1>4. /\ y \in G!Places /\ y.at = HeaderEnd(d, q) /\ y.due = ValuesIn(d, q)
      /\ y.pairs = (KindAt(d, q) = "map")
  BY <1>3, InnerIsPlace
<1>5. y.pairs <=> KindAt(d, q) = "map"
  BY <1>4, Zenon
<1> HIDE DEF y
<1>6. /\ ys \in [0..n+1 -> G!Places] /\ ys[n+1] = y
      /\ \A i \in 0..n : ys[i] = xs[i]
  BY <1>1, <1>4
<1> HIDE DEF ys
<1>7. ys[0].due = 1 /\ ~ys[0].pairs
  BY <1>1, <1>6
<1>8. ASSUME NEW i \in 1..n+1
      PROVE  ys[i].due = sv[i].left /\ (ys[i].pairs <=> sv[i].kind = "map")
  <2>1. CASE i = n + 1
    BY <1>4, <1>5, <1>6, <2>1
  <2>2. CASE i # n + 1
    <3>1. i \in 1..n /\ i \in 0..n
      BY <2>2
    <3> QED
      BY <1>1, <1>6, <3>1
  <2> QED
    BY <2>1, <2>2
<1>9. ASSUME NEW i \in 0..n+1
      PROVE  /\ RestOf(w, b, i, WholeAt(d, s, ys, i), RestAt(d, ys[i]))
             /\ Inside(i, G!ValueAt(d, s), WholeAt(d, s, ys, i))
  <2>1. CASE i = n + 1
    <3> DEFINE r == RestAt(d, y)
    <3>1. WholeAt(d, s, ys, i) = InnerAt(d, q)
      BY <1>6, <2>1 DEF WholeAt
    <3>2. InnerAt(d, q) = r
      BY DEF InnerAt, y
    <3>3. r.nest \in Nat
      BY <1>4, FoundAt
    <3>4. Inside(n, G!ValueAt(d, s), RestAt(d, xs[n]))
      <4>1. n \in 0..n
        OBVIOUS
      <4> QED
        BY <4>1, RestInside
    <3>5. G!ValueAt(d, s).nest \in Nat
      BY ValueIs
    <3>6. Inside(n + 1, G!ValueAt(d, s), InnerAt(d, q))
      <4> DEFINE v == G!ValueAt(d, s)
                 x == xs[n]
      <4>1. v.nest \in Nat /\ x \in G!Places /\ HasFirst(d, x) /\ Inside(n, v, RestAt(d, x))
            /\ KindAt(d, x.at) \in {"array", "map"}
        BY <1>2, <3>4, <3>5
      <4> HIDE DEF v, x
      <4>2. Inside(n + 1, v, InnerAt(d, x.at))
        BY <4>1, InnerInside
      <4> QED
        BY <4>2 DEF v, x
    <3> HIDE DEF r
    <3>7. RestOf(w, b, i, r, r)
      <4>1. r.nest <= r.nest
        BY <3>3
      <4> QED
        BY <4>1, Zenon DEF RestOf
    <3> QED
      BY <1>6, <2>1, <3>1, <3>2, <3>6, <3>7 DEF r
  <2>2. CASE i # n + 1
    <3>1. i \in 0..n /\ ys[i] = xs[i] /\ (i # 0 => ys[i-1] = xs[i-1])
      BY <1>6, <2>2
    <3>2. WholeAt(d, s, ys, i) = WholeAt(d, s, xs, i)
      BY <3>1 DEF WholeAt
    <3> QED
      BY <3>1, <3>2 DEF LoopsAt
  <2> QED
    BY <2>1, <2>2
<1>10. \A i \in 0..(n+1)-1 : Opened(d, w, ys[i])
  BY <1>1, <1>6
<1>11. LoopsAt(d, s, w, b, sv, n + 1, ys)
  BY <1>6, <1>7, <1>8, <1>9, <1>10 DEF LoopsAt
<1> QED
  BY <1>4, <1>6, <1>11

\* The call's own value was read.
LEMMA ValueReturns ==
  ASSUME NEW d \in Seq(Byte), NEW s \in Nat, NEW w, NEW b, NEW st, NEW n \in Nat, NEW xs,
         LoopsAt(d, s, w, b, st, n, xs), NEW y \in G!Places, y.due = 0,
         RestOf(w, b, 0, RestAt(d, xs[0]), RestAt(d, y))
  PROVE  Clean(w, b, 0, G!ValueAt(d, s)) /\ G!ValueAt(d, s).end = y.at
<1> DEFINE t == RestAt(d, y)
           r == RestAt(d, xs[0])
           v == G!ValueAt(d, s)
<1>1. t = [ok |-> TRUE, end |-> y.at, nest |-> 0, items |-> {}]
  BY NothingDue
<1>2. xs[0] \in G!Places /\ 0 \in 0..n
  BY DEF LoopsAt
<1>3. RestOf(w, b, 0, v, r)
  BY <1>2 DEF LoopsAt, WholeAt
<1>4. v.nest \in Nat /\ r.nest \in Nat /\ t.nest \in Nat
  BY <1>2, FoundAt, ValueIs
<1>5. RestOf(w, b, 0, r, t)
  OBVIOUS
<1> HIDE DEF t, r, v
<1>6. RestOf(w, b, 0, v, t)
  BY <1>3, <1>4, <1>5, RestOfRest
<1>7. t.ok /\ t.end = y.at /\ t.nest = 0 /\ t.items = {}
  BY <1>1
<1>8. Clean(w, b, 0, t)
  BY <1>7 DEF Clean
<1> QED
  BY <1>6, <1>7, <1>8, Zenon DEF RestOf, v

\* The loops of the walk stand at xs.
Here(xs) ==
  /\ LoopsAt(data, start, walk, base, stack, Len(stack), xs)
  /\ xs[Len(stack)].at = pos

LEMMA RunningHere ==
  ASSUME GInv, status = "running"
  PROVE  \E xs : Here(xs)
BY Zenon DEF GInv, WalksAt, Here

\* Where a walk reads on, a value is due; it is a key where the walk takes it for one.
LEMMA HereIsDue ==
  ASSUME IInv, Reading, NEW xs, Here(xs)
  PROVE  LET x == xs[Len(stack)]
         IN  /\ Len(stack) \in Nat /\ x \in G!Places /\ x.at = pos /\ x.due > 0
             /\ x.pairs /\ x.due % 2 = 0 <=> AtKey
<1> DEFINE n == Len(stack)
           x == xs[n]
<1>1. /\ stack \in Seq(Frame) /\ n \in Nat
      /\ \A i \in 1..n : stack[i].left \in Nat /\ stack[i].left > 0
  BY FramesGoOn
<1>2. /\ xs \in [0..n -> G!Places] /\ xs[0].due = 1 /\ ~xs[0].pairs
      /\ \A i \in 1..n : xs[i].due = stack[i].left /\ (xs[i].pairs <=> stack[i].kind = "map")
  BY DEF Here, LoopsAt
<1>3. x \in G!Places /\ x.at = pos
  BY <1>1, <1>2 DEF Here
<1>4. CASE n = 0
  <2>1. stack = <<>>
    BY <1>1, <1>4
  <2>2. x.due = 1 /\ ~x.pairs /\ ~AtKey
    BY <1>2, <1>4, <2>1 DEF AtKey
  <2> QED
    BY <1>1, <1>3, <2>2
<1>5. CASE n # 0
  <2>1. n \in 1..n /\ stack # <<>>
    BY <1>1, <1>5
  <2>2. x.due = stack[n].left /\ (x.pairs <=> stack[n].kind = "map") /\ x.due > 0
    BY <1>1, <1>2, <2>1
  <2> HIDE DEF x
  <2>3. x.pairs /\ x.due % 2 = 0 <=> AtKey
    BY <2>1, <2>2 DEF AtKey
  <2> QED
    BY <1>1, <1>3, <2>2, <2>3 DEF x
<1> QED
  BY <1>4, <1>5

\* What is left to read where the walk stands is part of the value.
LEMMA HereInside ==
  ASSUME IInv, Reading, NEW xs, Here(xs)
  PROVE  LET r == RestAt(data, xs[Len(stack)])
             v == G!ValueAt(data, start)
         IN  /\ v.ok => r.ok
             /\ r.items \subseteq v.items
             /\ r.nest \in Nat /\ v.nest \in Nat /\ Len(stack) + r.nest <= v.nest
<1> DEFINE n == Len(stack)
           r == RestAt(data, xs[n])
           v == G!ValueAt(data, start)
<1>1. data \in Seq(Byte) /\ start \in Nat
  BY DEF IInv, TypeOK
<1>2. n \in Nat /\ xs[n] \in G!Places
  BY HereIsDue
<1>3. r.nest \in Nat /\ v.nest \in Nat
  BY <1>1, <1>2, FoundAt, ValueIs
<1>4. Inside(n, v, r)
  <2>1. LoopsAt(data, start, walk, base, stack, n, xs) /\ n \in 0..n
    BY <1>2 DEF Here
  <2> QED
    BY <1>1, <1>2, <2>1, RestInside
<1> HIDE DEF r, v
<1>5. (v.ok => r.ok) /\ r.items \subseteq v.items /\ n + r.nest <= v.nest
  BY <1>4, Zenon DEF Inside
<1> QED
  BY <1>3, <1>5 DEF r, v

\* The item there is reported.
LEMMA ItemHere ==
  ASSUME IInv, Reading, HasBytes(pos, 1), NEW xs, Here(xs)
  PROVE  \E item \in G!ValueAt(data, start).items :
           /\ item.kind = kind /\ (item.key <=> AtKey)
           /\ LenReadable /\ kind \in Lengths => item.len = itemLen
<1> DEFINE x == xs[Len(stack)]
<1>1. data \in Seq(Byte) /\ pos \in Nat /\ Len(data) \in Nat /\ pos < Len(data)
  BY DEF IInv, TypeOK, HasBytes
<1>2. x \in G!Places /\ x.at = pos /\ x.due > 0 /\ (x.pairs /\ x.due % 2 = 0 <=> AtKey)
  BY HereIsDue
<1>3. RestAt(data, x).items \subseteq G!ValueAt(data, start).items
  BY HereInside
<1> HIDE DEF x
<1>4. PICK n : /\ G!Item(KindAt(data, x.at), n, x) \in RestAt(data, x).items
               /\ HeaderEnd(data, x.at) <= Len(data) /\ KindAt(data, x.at) \in Lengths
                    => n = LenAt(data, x.at)
  BY <1>1, <1>2, FirstItem
<1>5. KindAt(data, pos) = kind /\ LenAt(data, pos) = itemLen /\ HeaderEnd(data, pos) = body
  BY ItemWords
<1>6. LenReadable => body <= Len(data)
  BY DEF LenReadable, HasBytes, body
<1> DEFINE item == G!Item(kind, n, x)
<1>7. item \in G!ValueAt(data, start).items
  BY <1>2, <1>3, <1>4, <1>5, Zenon
<1>8. LenReadable /\ kind \in Lengths => n = itemLen
  BY <1>2, <1>4, <1>5, <1>6, Zenon
<1>9. item.kind = kind /\ item.len = n /\ (item.key <=> x.pairs /\ x.due % 2 = 0)
  BY DEF G!Item
<1> HIDE DEF item
<1> QED
  BY <1>2, <1>7, <1>8, <1>9, Zenon

\* It is in order if the walk accepts it.
LEMMA FineHere ==
  ASSUME IInv, Reading, Accepts, NEW xs, Here(xs)
  PROVE  Fine(walk, ItemAt(data, xs[Len(stack)]))
<1> DEFINE x == xs[Len(stack)]
           n == IF KindAt(data, x.at) = "scalar" THEN ScalarWidth(data[x.at+1])
                ELSE LenAt(data, x.at)
           item == G!Item(KindAt(data, x.at), n, x)
<1>1. x.at = pos /\ (x.pairs /\ x.due % 2 = 0 <=> AtKey)
  BY HereIsDue
<1>2. KindAt(data, pos) = kind /\ LenAt(data, pos) = itemLen
  BY ItemWords
<1>3. ItemAt(data, x) = item
  BY DEF ItemAt
<1>4. /\ item.kind = kind /\ (kind # "scalar" => item.len = itemLen)
      /\ item.key <=> x.pairs /\ x.due % 2 = 0
  <2>1. item.kind = KindAt(data, x.at) /\ item.len = n /\ (item.key <=> x.pairs /\ x.due % 2 = 0)
    BY DEF G!Item
  <2>2. n = IF kind = "scalar" THEN ScalarWidth(data[x.at+1]) ELSE itemLen
    BY <1>1, <1>2, Zenon
  <2> HIDE DEF item, n, x
  <2> QED
    BY <1>1, <1>2, <2>1, <2>2
<1> HIDE DEF item, n, x
<1>5. /\ kind # "invalid" /\ (kind = "ext" => walk = "value")
      /\ AtKey => walk = "value" \/ kind = "str"
  BY DEF Accepts, Supported, KeyAllowed
<1>6. ~RefusedBy(walk, item)
  BY <1>1, <1>4, <1>5, Zenon DEF RefusedBy
<1>7. ~OverLimit(item)
  <2> SUFFICES ASSUME kind \notin {"scalar", "invalid"}, itemLen > Limit(kind) PROVE FALSE
    BY <1>4 DEF OverLimit
  <2>1. /\ pos < Len(data) /\ data \in Seq(Byte) /\ pos \in Nat
        /\ format \in Byte
    BY ItemFacts DEF Accepts, HasBytes, IInv, TypeOK
  <2>2. kind \in Lengths
    BY <1>5, <2>1, NeverUsed DEF kind, Lengths
  <2>3. TooLong(kind) # "nil"
    BY <2>2 DEF TooLong, Lengths
  <2> QED
    BY <2>2, <2>3 DEF Accepts, Validate
<1> QED
  BY <1>3, <1>6, <1>7 DEF Fine, x

\* The loop m has read its value, those inside it are over; or the call has.
LEMMA DoneMoves ==
  ASSUME IInv, status = "running", Quiet, NEW xs, Here(xs),
         NEW m \in 0..Len(stack), NEW outer \in Seq(Frame), Len(outer) = m,
         \A i \in 1..m : outer[i] = stack[i],
         NEW p \in Nat, Done(outer, p), xs[m].due > 0,
         RestOf(walk, base, m, RestAt(data, xs[m]), RestAt(data, NextPlace(xs[m], p)))
  PROVE  GInv'
<1> DEFINE n == Len(stack)
           y == NextPlace(xs[m], p)
           v == G!ValueAt(data, start)
<1>1. /\ data \in Seq(Byte) /\ start \in Nat /\ n \in Nat /\ m \in Nat
      /\ data' = data /\ start' = start /\ walk' = walk /\ base' = base /\ pos' = p
  BY DEF IInv, TypeOK, Quiet, Done
<1>2. LoopsAt(data, start, walk, base, stack, n, xs) /\ xs[m] \in G!Places
  BY <1>1 DEF Here, LoopsAt
<1>3. y \in G!Places /\ y.at = p /\ y.due = xs[m].due - 1 /\ y.pairs = xs[m].pairs
  BY <1>2, NextIsPlace
<1>4. RestOf(walk, base, m, RestAt(data, xs[m]), RestAt(data, y))
  OBVIOUS
<1> HIDE DEF y
<1>5. CASE m = 0
  <2>1. outer = <<>>
    BY <1>5
  <2>2. status' = "ok"
    BY <2>1 DEF Done
  <2>3. y.due = 0
    BY <1>2, <1>3, <1>5 DEF LoopsAt
  <2>4. Clean(walk, base, 0, v) /\ v.end = y.at
    BY <1>1, <1>2, <1>3, <1>4, <1>5, <2>3, ValueReturns
  <2>5. "ok" # "running" /\ "ok" \notin Errors
    BY DEF Errors
  <2> QED
    BY <1>1, <1>3, <2>2, <2>4, <2>5, Zenon DEF GInv
<1>6. CASE m # 0
  <2> DEFINE sv == [outer EXCEPT ![m] = CountOne(outer[m])]
  <2>1. m \in 1..m /\ m \in 1..n /\ outer # <<>>
    BY <1>1, <1>6
  <2>2. /\ Len(sv) = m /\ sv[m] = CountOne(outer[m])
        /\ \A i \in 1..m-1 : sv[i] = outer[i]
    BY <2>1
  <2>3. stack' = sv /\ status' = "running"
    BY <2>1 DEF Done
  <2> HIDE DEF sv
  <2>4. sv[m].left = stack[m].left - 1 /\ sv[m].kind = stack[m].kind
    BY <2>1, <2>2 DEF CountOne
  <2>5. \A i \in 1..m-1 : sv[i] = stack[i]
    <3>1. \A i \in 1..m-1 : i \in 1..m
      BY <1>1
    <3> QED
      BY <2>2, <3>1
  <2>6. \E ys : LoopsAt(data, start, walk, base, sv, m, ys) /\ ys[m].at = p
    <3>1. /\ data \in Seq(Byte) /\ start \in Nat /\ n \in Nat /\ m \in 1..n
          /\ LoopsAt(data, start, walk, base, stack, n, xs)
      BY <1>1, <1>2, <2>1
    <3>2. RestOf(walk, base, m, RestAt(data, xs[m]), RestAt(data, NextPlace(xs[m], p)))
      OBVIOUS
    <3> HIDE DEF n
    <3> QED
      BY <3>1, <3>2, <2>4, <2>5, LoopMoves
  <2>7. WalksAt(data, start, walk, base, sv, p)
    BY <2>2, <2>6 DEF WalksAt
  <2>8. "running" # "ok" /\ "running" \notin Errors
    BY DEF Errors
  <2> QED
    BY <1>1, <2>3, <2>7, <2>8, Zenon DEF GInv
<1> QED
  BY <1>5, <1>6

\* An error may be returned that the document justifies.
LEMMA FailJustified ==
  ASSUME Reading, NEW e \in Errors, NEW p, NEW c, Fail(e, p, c),
         Justified(G!ValueAt(data, start), walk, base, e)
  PROVE  GInv'
<1>1. status' = e /\ data' = data /\ start' = start /\ walk' = walk /\ base' = base
  BY DEF Fail, Reading
<1>2. e # "running" /\ e # "ok"
  BY DEF Errors
<1> QED
  BY <1>1, <1>2, Zenon DEF GInv

\* Where the item that is read is cut short, or what it claims is not there, no value is
\* whole.
LEMMA EofJustified == IInv /\ GInv /\ EofStep => GInv'
<1> SUFFICES ASSUME IInv, GInv, EofStep PROVE GInv'
  OBVIOUS
<1> DEFINE v == G!ValueAt(data, start)
<1>1. PICK xs : Here(xs)
  BY RunningHere DEF EofStep, Reading
<1> DEFINE x == xs[Len(stack)]
<1>2. data \in Seq(Byte) /\ Reading
  BY DEF IInv, TypeOK, EofStep
<1>3. x \in G!Places /\ x.at = pos /\ x.due > 0
  BY <1>1, <1>2, HereIsDue
<1>4. v.ok => RestAt(data, x).ok
  BY <1>1, <1>2, HereInside
<1> HIDE DEF x, v
<1>5. ~(IsItem(data, x.at) /\ ItemEnd(data, x.at) + ValuesIn(data, x.at) <= Len(data))
  BY <1>3, Zenon DEF EofStep
<1>6. ~RestAt(data, x).ok
  BY <1>2, <1>3, <1>5, NotWhole
<1>7. ~v.ok
  BY <1>4, <1>6
<1>8. Justified(v, walk, base, "ErrUnexpectedEOF")
  BY <1>7 DEF Justified
<1>9. PICK p : Fail("ErrUnexpectedEOF", p, depth)
  BY DEF EofStep
<1>10. "ErrUnexpectedEOF" \in Errors
  BY DEF Errors
<1> QED
  BY <1>2, <1>8, <1>9, <1>10, FailJustified DEF v

\* The item that the walk has no case for, the key it does not take and the length over
\* its limit are items of the document.
LEMMA UnsupportedJustified == IInv /\ GInv /\ Unsupported => GInv'
<1> SUFFICES ASSUME IInv, GInv, Unsupported PROVE GInv'
  OBVIOUS
<1> DEFINE v == G!ValueAt(data, start)
<1>1. Reading /\ HasBytes(pos, 1) /\ ~Supported /\ Fail("ErrInvalidFormat", pos + 1, depth)
  BY DEF Unsupported
<1>2. PICK xs : Here(xs)
  BY <1>1, RunningHere DEF Reading
<1>3. PICK item \in v.items : item.kind = kind
  BY <1>1, <1>2, ItemHere
<1> HIDE DEF v
<1>4. RefusedBy(walk, item)
  BY <1>1, <1>3, Zenon DEF RefusedBy, Supported
<1>5. \E i \in v.items : RefusedBy(walk, i)
  BY <1>4
<1>6. Justified(v, walk, base, "ErrInvalidFormat")
  BY <1>5 DEF Justified
<1>7. "ErrInvalidFormat" \in Errors
  BY DEF Errors
<1> QED
  BY <1>1, <1>6, <1>7, FailJustified DEF v

LEMMA BadKeyJustified == IInv /\ GInv /\ BadKey => GInv'
<1> SUFFICES ASSUME IInv, GInv, BadKey PROVE GInv'
  OBVIOUS
<1> DEFINE v == G!ValueAt(data, start)
<1>1. /\ Reading /\ HasBytes(pos, 1) /\ AtKey /\ ~KeyAllowed
      /\ Fail(KeyError, pos + 1, depth) /\ walk \in {"value", "any", "typed"}
  BY DEF BadKey, IInv, TypeOK
<1>2. PICK xs : Here(xs)
  BY <1>1, RunningHere DEF Reading
<1>3. PICK item \in v.items : item.kind = kind /\ (item.key <=> AtKey)
  BY <1>1, <1>2, ItemHere
<1> HIDE DEF v
<1>4. item.key /\ item.kind # "str" /\ walk # "value"
  BY <1>1, <1>3 DEF KeyAllowed
<1>5. \E i \in v.items : RefusedBy(walk, i)
  BY <1>4, Zenon DEF RefusedBy
<1>6. \E i \in v.items : i.key /\ i.kind # "str"
  BY <1>4
<1>7. Justified(v, walk, base, KeyError)
  <2>1. CASE walk = "any"
    <3>1. KeyError = "ErrInvalidFormat"
      BY <2>1 DEF KeyError
    <3> QED
      BY <1>5, <3>1 DEF Justified
  <2>2. CASE walk = "typed"
    <3>1. KeyError = "ErrTypeMismatch"
      BY <2>2 DEF KeyError
    <3> QED
      BY <1>6, <2>2, <3>1 DEF Justified
  <2> QED
    BY <1>1, <1>4, <2>1, <2>2
<1>8. KeyError \in Errors
  BY DEF Errors, KeyError
<1> QED
  BY <1>1, <1>7, <1>8, FailJustified DEF v

LEMMA LongJustified == IInv /\ GInv /\ LongStep => GInv'
<1> SUFFICES ASSUME IInv, GInv, LongStep PROVE GInv'
  OBVIOUS
<1> DEFINE v == G!ValueAt(data, start)
<1>1. /\ Reading /\ HasBytes(pos, 1) /\ kind \in Lengths /\ LenReadable
      /\ itemLen > Limit(kind)
  BY DEF LongStep
<1>2. PICK xs : Here(xs)
  BY <1>1, RunningHere DEF Reading
<1>3. PICK item \in v.items : item.kind = kind /\ item.len = itemLen
  BY <1>1, <1>2, ItemHere
<1> HIDE DEF v
<1>4. OverLimit(item) /\ TooLong(item.kind) = TooLong(kind)
  BY <1>1, <1>3 DEF OverLimit, Lengths
<1>5. \E i \in v.items : OverLimit(i) /\ TooLong(i.kind) = TooLong(kind)
  BY <1>4
<1>6. TooLong(kind) \in Errors \ {"ErrUnexpectedEOF", "ErrInvalidFormat", "ErrTypeMismatch",
                                  "ErrMaxDepthExceeded"}
  BY <1>1 DEF TooLong, Errors, Lengths
<1>7. Justified(v, walk, base, TooLong(kind))
  <2> DEFINE e == TooLong(kind)
  <2>1. e \notin {"ErrUnexpectedEOF", "ErrInvalidFormat", "ErrTypeMismatch",
                  "ErrMaxDepthExceeded"}
    BY <1>6
  <2>2. \E i \in v.items : OverLimit(i) /\ TooLong(i.kind) = e
    BY <1>5
  <2> HIDE DEF e
  <2>3. Justified(v, walk, base, e)
    BY <2>1, <2>2, Zenon DEF Justified
  <2> QED
    BY <2>3 DEF e
<1>8. PICK p : Fail(TooLong(kind), p, depth)
  BY DEF LongStep
<1> QED
  BY <1>1, <1>6, <1>7, <1>8, FailJustified DEF v

\* An item is read, a loop begins or is over.
LEMMA ReadMoves == IInv /\ GInv /\ ReadStep => GInv'
<1> SUFFICES ASSUME IInv, GInv, ReadStep PROVE GInv'
  OBVIOUS
<1> DEFINE n == Len(stack)
           e == ItemEnd(data, pos)
<1>1. /\ Reading /\ Accepts /\ IsItem(data, pos) /\ kind \notin {"array", "map"}
      /\ Done(stack, e) /\ Quiet /\ status = "running"
  BY DEF ReadStep, Reading, Quiet
<1>2. PICK xs : Here(xs)
  BY <1>1, RunningHere
<1> DEFINE x == xs[n]
<1>3. n \in Nat /\ x \in G!Places /\ x.at = pos /\ x.due > 0
  BY <1>1, <1>2, HereIsDue
<1>4. Fine(walk, ItemAt(data, x))
  BY <1>1, <1>2, FineHere
<1>5. /\ data \in Seq(Byte) /\ base \in Nat /\ stack \in Seq(Frame)
      /\ KindAt(data, pos) = kind
  BY ItemWords DEF IInv, TypeOK
<1>6. RestOf(walk, base, n, RestAt(data, x), RestAt(data, NextPlace(x, ItemEnd(data, x.at))))
  <2> HIDE DEF x, n
  <2> QED
    BY <1>1, <1>3, <1>4, <1>5, LeafRest
<1>7. e \in Nat
  <2> HIDE DEF x
  <2> QED
    BY <1>1, <1>3, <1>5, ItemHasFirst
<1>8. RestOf(walk, base, n, RestAt(data, x), RestAt(data, NextPlace(x, e)))
  BY <1>3, <1>6
<1>9. n \in 0..Len(stack) /\ \A i \in 1..n : stack[i] = stack[i]
  BY <1>3
<1> HIDE DEF e
<1> QED
  BY <1>1, <1>2, <1>3, <1>5, <1>7, <1>8, <1>9, DoneMoves

LEMMA OpenMoves == IInv /\ GInv /\ OpenContainer => GInv'
<1> SUFFICES ASSUME IInv, GInv, OpenContainer PROVE GInv'
  OBVIOUS
<1> DEFINE n == Len(stack)
           v == G!ValueAt(data, start)
<1>1. /\ Reading /\ HasBytes(pos, 1) /\ kind \in {"array", "map"} /\ Supported
      /\ LenReadable /\ Validate = "nil" /\ (AtKey => KeyAllowed)
      /\ Quiet /\ status = "running"
  BY DEF OpenContainer, ReadingKind, Reading, Quiet
<1>2. PICK xs : Here(xs)
  BY <1>1, RunningHere
<1> DEFINE x == xs[n]
<1>3. n \in Nat /\ x \in G!Places /\ x.at = pos /\ x.due > 0
  BY <1>1, <1>2, HereIsDue
<1>4. /\ data \in Seq(Byte) /\ Len(data) \in Nat /\ pos \in Nat /\ pos < Len(data)
      /\ start \in Nat /\ base \in Nat /\ depth \in Nat /\ stack \in Seq(Frame)
  BY <1>1 DEF IInv, TypeOK, HasBytes
<1>5. body \in Nat /\ body <= Len(data) /\ Values \in Nat /\ format \in Byte
  BY <1>1, ItemFacts
<1>6. /\ KindAt(data, pos) = kind /\ HeaderEnd(data, pos) = body
      /\ ValuesIn(data, pos) = Values
  BY <1>1, ItemWords
<1>7. data[pos+1] # 193
  <2>1. kind # "invalid"
    BY <1>1
  <2> QED
    BY <1>5, <2>1, NeverUsed DEF kind, format
<1> HIDE DEF x, v
<1>8. HasFirst(data, x) /\ KindAt(data, x.at) \in {"array", "map"}
  BY <1>1, <1>3, <1>4, <1>5, <1>6, <1>7 DEF HasFirst
<1>9. CASE Tracked /\ depth + 1 > MaxDepth
  <2> DEFINE r == RestAt(data, x)
  <2>1. r.nest >= 1
    BY <1>3, <1>4, <1>8, ContainerNests
  <2>2. r.nest \in Nat /\ v.nest \in Nat /\ n + r.nest <= v.nest
    BY <1>1, <1>2, HereInside DEF x, v
  <2>3. depth = base + n /\ walk # "typed"
    BY <1>1, <1>9 DEF IInv, DepthRestored, Tracked
  <2> HIDE DEF r
  <2>4. v.nest > 0 /\ base + v.nest > MaxDepth
    <3>1. v.nest >= n + 1
      BY <1>3, <2>1, <2>2
    <3>2. base + n + 1 > MaxDepth
      BY <1>9, <2>3
    <3> HIDE DEF n
    <3> QED
      BY <1>3, <1>4, <2>2, <3>1, <3>2, ConfigAssumption
  <2>5. Justified(v, walk, base, "ErrMaxDepthExceeded")
    BY <2>3, <2>4 DEF Justified
  <2>6. Fail("ErrMaxDepthExceeded", body, depth + 1)
    BY <1>9 DEF OpenContainer
  <2>7. "ErrMaxDepthExceeded" \in Errors
    BY DEF Errors
  <2> QED
    BY <1>1, <2>5, <2>6, <2>7, FailJustified DEF v
<1>10. CASE ~(Tracked /\ depth + 1 > MaxDepth)
  <2> DEFINE new == [kind |-> kind, left |-> Values]
             sv == Append(stack, new)
  <2>1. stack' = sv /\ pos' = body /\ status' = "running"
    BY <1>1, <1>10 DEF OpenContainer
  <2>2. Accepts
    BY <1>1, <1>10 DEF Accepts
  <2>3. Opened(data, walk, x)
    BY <1>1, <1>2, <1>8, <2>2, FineHere DEF Opened, x
  <2>4. new.kind = kind /\ new.left = Values /\ new \in Frame
    BY <1>1, <1>5 DEF Frame
  <2> HIDE DEF new
  <2>5. Len(sv) = n + 1 /\ sv[n+1] = new /\ \A i \in 1..n : sv[i] = stack[i]
    BY <1>4, <2>4
  <2> HIDE DEF sv
  <2>6. \E ys : LoopsAt(data, start, walk, base, sv, n + 1, ys)
                /\ ys[n+1].at = HeaderEnd(data, x.at)
    <3>1. /\ LoopsAt(data, start, walk, base, stack, n, xs) /\ Opened(data, walk, xs[n])
          /\ sv[n+1].left = ValuesIn(data, xs[n].at) /\ sv[n+1].kind = KindAt(data, xs[n].at)
      BY <1>2, <1>3, <1>6, <2>3, <2>4, <2>5 DEF Here, x
    <3>2. \A i \in 1..n : sv[i] = stack[i]
      BY <2>5
    <3>3. n \in Nat /\ data \in Seq(Byte) /\ start \in Nat
      BY <1>3, <1>4
    <3> HIDE DEF n
    <3>4. \E ys : LoopsAt(data, start, walk, base, sv, n + 1, ys)
                  /\ ys[n+1].at = HeaderEnd(data, xs[n].at)
      BY <3>1, <3>2, <3>3, LoopBegins
    <3> QED
      BY <3>4 DEF x
  <2>7. WalksAt(data, start, walk, base, sv, body)
    BY <1>3, <1>6, <2>5, <2>6 DEF WalksAt
  <2>8. "running" # "ok" /\ "running" \notin Errors
    BY DEF Errors
  <2>9. data' = data /\ start' = start /\ walk' = walk /\ base' = base
    BY <1>1 DEF Quiet
  <2> QED
    BY <2>1, <2>7, <2>8, <2>9, Zenon DEF GInv
<1> QED
  BY <1>9, <1>10

LEMMA CloseMoves == IInv /\ GInv /\ CloseContainer => GInv'
<1> SUFFICES ASSUME IInv, GInv, CloseContainer PROVE GInv'
  OBVIOUS
<1> DEFINE n == Len(stack)
           m == n - 1
           outer == SubSeq(stack, 1, n - 1)
<1>1. /\ status = "running" /\ stack # <<>> /\ Quiet
      /\ Done(outer, pos) /\ stack[n].left = 0
  BY DEF CloseContainer, AtEnd, Quiet
<1>2. /\ stack \in Seq(Frame) /\ n \in Nat /\ n > 0 /\ pos \in Nat
      /\ data \in Seq(Byte) /\ start \in Nat /\ base \in Nat /\ depth \in Nat
  BY <1>1 DEF IInv, TypeOK
<1>3. /\ outer \in Seq(Frame) /\ Len(outer) = m
      /\ \A i \in 1..m : outer[i] = stack[i]
  BY <1>2, FrontFrames
<1>4. PICK xs : Here(xs)
  BY <1>1, RunningHere
<1> DEFINE x == xs[m]
           z == xs[n]
           inner == InnerAt(data, x.at)
<1>5. /\ m \in Nat /\ m \in 0..n /\ m \in 0..n-1 /\ m + 1 = n
      /\ n \in 1..n /\ n \in 0..n /\ n # 0
  BY <1>2
<1>6. /\ x \in G!Places /\ z \in G!Places /\ z.at = pos /\ z.due = 0
      /\ Opened(data, walk, x)
      /\ RestOf(walk, base, n, WholeAt(data, start, xs, n), RestAt(data, z))
  BY <1>1, <1>4, <1>5 DEF Here, LoopsAt
<1>7. WholeAt(data, start, xs, n) = inner
  BY <1>5 DEF WholeAt
<1>8. x.due > 0
  BY <1>6 DEF Opened, HasFirst
<1> HIDE DEF outer, inner, z
<1>9. inner.ok /\ inner.end = pos /\ Clean(walk, base, n, inner)
  <2> DEFINE t == RestAt(data, z)
  <2>1. t = [ok |-> TRUE, end |-> z.at, nest |-> 0, items |-> {}]
    BY <1>2, <1>6, NothingDue
  <2>2. RestOf(walk, base, n, inner, t)
    BY <1>6, <1>7
  <2> HIDE DEF t
  <2>3. t.ok /\ t.end = pos /\ t.nest = 0 /\ t.items = {}
    BY <1>6, <2>1
  <2>4. Clean(walk, base, n, t)
    BY <2>3 DEF Clean
  <2> QED
    BY <2>2, <2>3, <2>4 DEF RestOf
<1>10. walk # "typed" => base + m + 1 <= MaxDepth
  <2> SUFFICES ASSUME walk # "typed" PROVE base + m + 1 <= MaxDepth
    OBVIOUS
  <2>1. depth <= MaxDepth /\ depth = base + n
    BY <1>1 DEF IInv, OpenWithinLimit, DepthRestored, Tracked
  <2>2. base + m + 1 = base + n
    BY <1>2
  <2> QED
    BY <2>1, <2>2
<1>11. RestOf(walk, base, m, RestAt(data, x), RestAt(data, NextPlace(x, pos)))
  <2>1. /\ HasFirst(data, x) /\ KindAt(data, x.at) \in {"array", "map"}
        /\ Fine(walk, ItemAt(data, x))
    BY <1>6 DEF Opened
  <2>2. Clean(walk, base, m + 1, InnerAt(data, x.at))
    BY <1>5, <1>9 DEF inner
  <2> HIDE DEF x, m
  <2>3. RestOf(walk, base, m, RestAt(data, x),
               RestAt(data, NextPlace(x, InnerAt(data, x.at).end)))
    BY <1>2, <1>5, <1>6, <1>10, <2>1, <2>2, ContainerRest
  <2> QED
    BY <1>9, <2>3 DEF inner
<1> QED
  <2>1. m \in 0..Len(stack) /\ xs[m].due > 0
        /\ RestOf(walk, base, m, RestAt(data, xs[m]), RestAt(data, NextPlace(xs[m], pos)))
    BY <1>5, <1>8, <1>11
  <2> HIDE DEF x, m
  <2> QED
    BY <1>1, <1>2, <1>3, <1>4, <2>1, DoneMoves

\* Each step of a walk keeps to the grammar.
LEMMA StepGrammar == IInv /\ GInv /\ Step => GInv'
BY StepIs, EofJustified, UnsupportedJustified, BadKeyJustified, LongJustified, ReadMoves,
   OpenMoves, CloseMoves

\* A call has all of a value to read; Reset forgets it.
LEMMA CallerGrammar ==
  ASSUME IInv, GInv,
         \/ \E w \in Walks : Call(w)
         \/ \E m \in ResetMessages : Reset(m)
  PROVE  GInv'
<1>1. ASSUME NEW w \in Walks, Call(w) PROVE GInv'
  <2>1. /\ walk' = w /\ status' = "running" /\ start' = pos /\ pos' = pos
        /\ data' = data /\ stack' = stack /\ base' = depth /\ status # "running"
    BY <1>1 DEF Call, Errors
  <2>2. stack' = <<>> /\ pos \in Nat /\ data \in Seq(Byte)
    BY <2>1 DEF IInv, TypeOK
  <2> DEFINE x == G!Place(pos, 1, FALSE)
             xs == [i \in 0..0 |-> x]
             v == G!ValueAt(data, pos)
  <2>3. /\ x \in G!Places /\ x.at = pos /\ x.due = 1 /\ ~x.pairs
        /\ v = RestAt(data, x) /\ v.nest \in Nat
    BY <2>2, ValueIs
  <2> HIDE DEF x, v
  <2>4. xs \in [0..0 -> G!Places] /\ xs[0] = x
    BY <2>3
  <2> HIDE DEF xs
  <2>5. WholeAt(data, pos, xs, 0) = v
    BY DEF WholeAt, v
  <2>6. RestOf(w, depth, 0, v, v) /\ Inside(0, v, v)
    <3>1. v.nest <= v.nest /\ 0 + v.nest <= v.nest
      BY <2>3
    <3> QED
      BY <3>1, Zenon DEF RestOf, Inside
  <2>7. LoopsAt(data, pos, w, depth, <<>>, 0, xs)
    <3>1. \A i \in 0..0 : i = 0
      OBVIOUS
    <3>2. \A i \in 1..0 : FALSE
      OBVIOUS
    <3>3. \A i \in 0..0-1 : FALSE
      OBVIOUS
    <3> QED
      BY <2>3, <2>4, <2>5, <2>6, <3>1, <3>2, <3>3, Zenon DEF LoopsAt, v
  <2>8. WalksAt(data, pos, w, depth, <<>>, pos)
    <3>1. Len(<<>>) = 0
      OBVIOUS
    <3> QED
      BY <2>3, <2>4, <2>7, <3>1, Zenon DEF WalksAt
  <2>9. "running" # "ok" /\ "running" \notin Errors
    BY DEF Errors
  <2> QED
    BY <2>1, <2>2, <2>8, <2>9, Zenon DEF GInv
<1>2. ASSUME NEW m \in ResetMessages, Reset(m) PROVE GInv'
  <2>1. status' = "idle"
    BY <1>2 DEF Reset
  <2>2. "idle" # "ok" /\ "idle" # "running" /\ "idle" \notin Errors
    BY DEF Errors
  <2> QED
    BY <2>1, <2>2, Zenon DEF GInv
<1> QED
  BY <1>1, <1>2

\* The places hold of every Decoder.
LEMMA GrammarInvariance == Spec => [](IInv /\ GInv)
<1>1. Init => GInv
  <2> SUFFICES ASSUME Init PROVE GInv
    OBVIOUS
  <2>1. status = "idle"
    BY DEF Init
  <2>2. "idle" # "ok" /\ "idle" # "running" /\ "idle" \notin Errors
    BY DEF Errors
  <2> QED
    BY <2>1, <2>2, Zenon DEF GInv
<1>2. IInv /\ GInv /\ [Next]_vars => GInv'
  <2> SUFFICES ASSUME IInv, GInv, [Next]_vars PROVE GInv'
    OBVIOUS
  <2>1. CASE Step
    BY <2>1, StepGrammar
  <2>2. CASE (\E w \in Walks : Call(w)) \/ (\E m \in ResetMessages : Reset(m))
    BY <2>2, CallerGrammar
  <2>3. CASE UNCHANGED vars
    <3>1. /\ data' = data /\ start' = start /\ walk' = walk /\ base' = base /\ pos' = pos
          /\ stack' = stack /\ status' = status
      BY <2>3 DEF vars
    <3> QED
      BY <3>1, Zenon DEF GInv
  <2> QED
    BY <2>1, <2>2, <2>3 DEF Next
<1> QED
  BY Invariance, <1>1, <1>2, PTL DEF Spec

\* A walk that returns a value stands where the grammar of the format has the value end
\* that begins where it was called, and the value has no length over its limit, no item
\* and no key that the walk does not read, and nests within what base leaves of MaxDepth:
\* whatever the buffer and however deep, in the words of a definition that has neither
\* loops nor limits.
THEOREM OkIsRight == Spec => []OkIsOneValue
<1>1. IInv /\ GInv => OkIsOneValue
  BY GInvMeans DEF IInv
<1> QED
  BY GrammarInvariance, <1>1, PTL

\* Each error names a flaw that the grammar finds in the message too: the value is not
\* whole, it has an item or a key that the walk does not read, a length over its limit,
\* or it nests more deeply than base leaves room for.
THEOREM ErrorsAreRight == Spec => []ErrorIsJustified
<1>1. IInv /\ GInv => ErrorIsJustified
  BY GInvMeans DEF IInv
<1> QED
  BY GrammarInvariance, <1>1, PTL

\* What the grammar says of a message that a walk accepts.
Acceptable ==
  /\ Doc.ok
  /\ \A item \in Doc.items : ~OverLimit(item) /\ ~Refused(item)
  /\ ~TooDeep
DecidedByGrammar == status \in {"ok"} \cup Errors => (status = "ok" <=> Acceptable)

\* The grammar and the limits decide every call: a walk returns a value where they have one
\* and an error where they have none.
THEOREM GrammarDecides == Spec => []DecidedByGrammar
<1>1. ASSUME IInv, GInv, status \in {"ok"} \cup Errors
      PROVE  status = "ok" <=> Acceptable
  <2>1. OkIsOneValue
    BY <1>1, GInvMeans DEF IInv
  <2>2. CASE status = "ok"
    BY <2>1, <2>2 DEF OkIsOneValue, Acceptable
  <2>3. CASE status \in Errors
    <3> DEFINE v == G!ValueAt(data, start)
    <3>1. Justified(v, walk, base, status) /\ v = Doc
      BY <1>1, <2>3 DEF GInv, Doc
    <3>2. \A i : Refused(i) <=> RefusedBy(walk, i)
      BY Zenon DEF Refused, RefusedBy
    <3> HIDE DEF v
    <3>3. CASE status = "ErrUnexpectedEOF"
      BY <3>1, <3>3 DEF Justified, Acceptable, Errors
    <3>4. CASE status = "ErrInvalidFormat"
      BY <3>1, <3>2, <3>4 DEF Justified, Acceptable, Errors
    <3>5. CASE status = "ErrTypeMismatch"
      <4>1. PICK i \in Doc.items : i.key /\ i.kind # "str" /\ walk = "typed"
        BY <3>1, <3>5, Zenon DEF Justified
      <4>2. Refused(i)
        BY <4>1 DEF Refused
      <4> QED
        BY <3>5, <4>2 DEF Acceptable
    <3>6. CASE status = "ErrMaxDepthExceeded"
      BY <3>1, <3>6 DEF Justified, Acceptable, TooDeep, Tracked
    <3>7. CASE status \notin {"ErrUnexpectedEOF", "ErrInvalidFormat", "ErrTypeMismatch",
                              "ErrMaxDepthExceeded"}
      <4>1. status # "ok"
        BY <2>3 DEF Errors
      <4>2. \E i \in Doc.items : OverLimit(i)
        BY <2>3, <3>1, <3>7, Zenon DEF Justified
      <4> QED
        BY <4>1, <4>2 DEF Acceptable
    <3> QED
      BY <3>3, <3>4, <3>5, <3>6, <3>7
  <2> QED
    BY <1>1, <2>2, <2>3
<1>2. IInv /\ GInv => DecidedByGrammar
  BY <1>1, Zenon DEF DecidedByGrammar
<1> QED
  BY GrammarInvariance, <1>2, PTL
=============================================================================
