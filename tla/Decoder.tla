------------------------------ MODULE Decoder -------------------------------
(***************************************************************************)
(* One Decoder of decoder.go and the three recursive walks that read a     *)
(* value of unknown type from it:                                          *)
(*   "value"  Decode / decodeValue              (decode_value.go)          *)
(*   "any"    DecodeAny / (d *Decoder) decodeAnyValue   (decode_any.go)    *)
(*   "typed"  decodeAnyValue(d, zeroCopy)       (typed_decode.go), the     *)
(*            walk the cached struct decoders use for map[string]any.      *)
(* The Go call stack is the variable "stack": one frame per decodeArray,   *)
(* decodeMap, ... that is executing.  What the walk returns is abstracted  *)
(* to where it stops and which error it reports; int is taken as unbounded *)
(* (the widths of int are not modelled here).                              *)
(***************************************************************************)
EXTENDS Reader, Rows, FiniteSets

CONSTANTS
  Messages,        \* buffers a decoder may be created on
  ResetMessages,   \* buffers Reset may be called with
  Walks,           \* which of the three walks the caller uses
  ReuseAfterError, \* may the caller decode again after an error, no Reset
  DepthBound       \* exploration bound: no call starts with depth above it

ASSUME MessagesAssumption ==
  /\ Messages \subseteq Seq(Byte)
  /\ ResetMessages \subseteq Messages
ASSUME CallerAssumption ==
  /\ Walks \subseteq {"value", "any", "typed"}
  /\ ReuseAfterError \in BOOLEAN
  /\ DepthBound \in Nat

VARIABLES
  walk,              \* which walk is (or was last) running
  stack,             \* its open containers, innermost last
  status,            \* "idle", "running", "ok" or the error returned
  start, base        \* history: pos and depth when the walk was called

vars == <<data, pos, depth, walk, stack, status, start, base>>

\* A frame counts the values its loop has still to read.  A map reads two
\* per pair, so an even count means that a key comes next.
Frame == [kind : {"array", "map"}, left : Nat]

-----------------------------------------------------------------------------
(* Which items a walk reads, and where.                                    *)

\* Only decodeValue has cases for the ext formats.
Supported == kind # "invalid" /\ (kind = "ext" => walk = "value")

AtKey == stack # <<>> /\ stack[Len(stack)].kind = "map"
                      /\ stack[Len(stack)].left % 2 = 0

\* decodeMapKey takes any value as a key; decodeMapAny and
\* decodeMapStringAnyWithLen take strings only.
KeyAllowed == walk = "value" \/ kind = "str"

KeyError == IF walk = "any" THEN "ErrInvalidFormat" ELSE "ErrTypeMismatch"

\* decodeArrayAnyWithLen and decodeMapStringAnyWithLen keep no depth.
Tracked == walk # "typed"

-----------------------------------------------------------------------------
(* How a step ends.                                                        *)

\* The loop of a container has read one value more.
CountOne(f) == [kind |-> f.kind, left |-> f.left - 1]

\* The walk has read one value, which ends before p: the loop of the
\* innermost container goes on, or the walk returns.
Done(outer, p) ==
  /\ pos' = p
  /\ IF outer = <<>>
       THEN stack' = <<>> /\ status' = "ok"
       ELSE /\ stack' = [outer EXCEPT ![Len(outer)] = CountOne(outer[Len(outer)])]
            /\ UNCHANGED status

\* Mutant of Fail: leaveContainer called at the end of the loop, not deferred.
Fail_NoDefer(e, p, d) ==
  status' = e /\ pos' = p /\ stack' = <<>> /\ depth' = d

\* An error returns through every open container; each runs its deferred
\* leaveContainer.  d is depth where the error arose.
Fail(e, p, d) ==
  /\ status' = e
  /\ pos' = p
  /\ stack' = <<>>
  /\ depth' = IF Tracked THEN d - Len(stack) ELSE d

-----------------------------------------------------------------------------
Init ==
  /\ data \in Messages
  /\ pos = 0 /\ depth = 0
  /\ walk \in Walks
  /\ stack = <<>>
  /\ status = "idle"
  /\ start = 0 /\ base = 0

Reset(m) ==
  /\ status # "running"
  /\ data' = m
  /\ pos' = 0 /\ depth' = 0
  /\ start' = 0 /\ base' = 0
  /\ stack' = <<>> /\ status' = "idle"
  /\ UNCHANGED walk

\* The caller asks for the next value of the buffer.
Call(w) ==
  /\ \/ status \in {"idle", "ok"}
     \/ status \in Errors /\ ReuseAfterError
  /\ depth <= DepthBound
  /\ walk' = w
  /\ status' = "running"
  /\ start' = pos /\ base' = depth
  /\ UNCHANGED <<data, pos, depth, stack>>

\* The loop of the innermost container has read its last value.
AtEnd == stack # <<>> /\ stack[Len(stack)].left = 0

Reading ==
  /\ status = "running"
  /\ ~AtEnd
  /\ UNCHANGED <<data, walk, start, base>>

\* A format byte is there, it is of a kind the walk reads here.
ReadingKind(kinds) ==
  /\ Reading
  /\ HasBytes(pos, 1)
  /\ kind \in kinds
  /\ AtKey => KeyAllowed
  /\ Supported

NoFormatByte ==
  /\ Reading
  /\ ~HasBytes(pos, 1)
  /\ Fail("ErrUnexpectedEOF", pos, depth)

Unsupported ==
  /\ Reading
  /\ HasBytes(pos, 1)
  /\ ~Supported
  /\ AtKey => KeyAllowed
  /\ Fail("ErrInvalidFormat", pos + 1, depth)

BadKey ==
  /\ Reading
  /\ HasBytes(pos, 1)
  /\ AtKey /\ ~KeyAllowed
  /\ Fail(KeyError, pos + 1, depth)

Scalar ==
  /\ ReadingKind({"scalar"})
  /\ IF HasBytes(pos + 1, ScalarWidth(format))
       THEN Done(stack, pos + 1 + ScalarWidth(format)) /\ UNCHANGED depth
       ELSE Fail("ErrUnexpectedEOF", pos + 1, depth)

\* The length field, or what it claims, is refused.
BadLength ==
  /\ ReadingKind({"str", "bin", "ext", "array", "map"})
  /\ \/ ~LenReadable /\ Fail("ErrUnexpectedEOF", pos + 1, depth)
     \/ LenReadable /\ Validate # "nil" /\ Fail(Validate, body, depth)

StringOrBinary ==
  /\ ReadingKind({"str", "bin"})
  /\ LenReadable /\ Validate = "nil"
  /\ Done(stack, body + itemLen)
  /\ UNCHANGED depth

\* validateExtLen has left the type byte out of account.
Extension ==
  /\ ReadingKind({"ext"})
  /\ LenReadable /\ Validate = "nil"
  /\ CASE HasBytes(body, 1 + itemLen) ->
            Done(stack, body + 1 + itemLen) /\ UNCHANGED depth
       [] ~HasBytes(body, 1) -> Fail("ErrUnexpectedEOF", body, depth)
       [] OTHER -> Fail("ErrUnexpectedEOF", body + 1, depth)

\* Mutants of OpenContainer: the comparison before the count; the header put
\* back (the d.pos-- idiom of struct_decoder.go) and not read again.
OpenContainer_ComparesFirst ==
  /\ ReadingKind({"array", "map"})
  /\ LenReadable /\ Validate = "nil"
  /\ IF Tracked /\ depth > MaxDepth
       THEN Fail("ErrMaxDepthExceeded", body, depth)
       ELSE /\ stack' = Append(stack, [kind |-> kind, left |-> Values])
            /\ depth' = IF Tracked THEN depth + 1 ELSE depth
            /\ pos' = body
            /\ UNCHANGED status
OpenContainer_Unread ==
  /\ ReadingKind({"array", "map"})
  /\ LenReadable /\ Validate = "nil"
  /\ IF Tracked /\ depth + 1 > MaxDepth
       THEN Fail("ErrMaxDepthExceeded", body, depth + 1)
       ELSE /\ stack' = Append(stack, [kind |-> kind, left |-> Values])
            /\ depth' = IF Tracked THEN depth + 1 ELSE depth
            /\ UNCHANGED <<pos, status>>

\* enterContainer counts before it compares, and the walk installs its
\* deferred leaveContainer only when it succeeds.
OpenContainer ==
  /\ ReadingKind({"array", "map"})
  /\ LenReadable /\ Validate = "nil"
  /\ IF Tracked /\ depth + 1 > MaxDepth
       THEN Fail("ErrMaxDepthExceeded", body, depth + 1)
       ELSE /\ stack' = Append(stack, [kind |-> kind, left |-> Values])
            /\ depth' = IF Tracked THEN depth + 1 ELSE depth
            /\ pos' = body
            /\ UNCHANGED status

\* Mutants of CloseContainer: leaveContainer in the walk that has no
\* enterContainer; a loop whose exit is never taken.
CloseContainer_AlwaysLeaves ==
  /\ status = "running"
  /\ AtEnd
  /\ Done(SubSeq(stack, 1, Len(stack) - 1), pos)
  /\ depth' = depth - 1
  /\ UNCHANGED <<data, walk, start, base>>
CloseContainer_Loops ==
  /\ status = "running"
  /\ AtEnd
  /\ UNCHANGED vars

CloseContainer ==
  /\ status = "running"
  /\ AtEnd
  /\ Done(SubSeq(stack, 1, Len(stack) - 1), pos)
  /\ depth' = IF Tracked THEN depth - 1 ELSE depth
  /\ UNCHANGED <<data, walk, start, base>>

Step == \/ NoFormatByte \/ Unsupported \/ BadKey \/ Scalar \/ BadLength
        \/ StringOrBinary \/ Extension \/ OpenContainer \/ CloseContainer

Next == \/ Step
        \/ \E w \in Walks : Call(w)
        \/ \E m \in ResetMessages : Reset(m)

\* A walk that was called runs: nothing in it blocks.
Spec == Init /\ [][Next]_vars /\ WF_vars(Step)
-----------------------------------------------------------------------------
(* Properties.                                                             *)

\* The type invariant; depth never goes below zero.
TypeOK ==
  /\ data \in Seq(Byte)
  /\ pos \in Nat /\ depth \in Nat
  /\ walk \in {"value", "any", "typed"}
  /\ stack \in Seq(Frame)
  /\ status \in {"idle", "running", "ok"} \cup Errors
  /\ start \in Nat /\ base \in Nat

\* No walk moves pos past the end of the buffer (every slice expression of
\* readBytes and every index of readByte is in range), and a call never moves
\* it back: Remaining() is never negative and never grows within a call.
PosInBounds == start <= pos /\ pos <= Len(data)

\* enterContainer bounds the recursion of Decode and DecodeAny: however often
\* the decoder is reused, at most MaxDepth containers are open at once.
RecursionBounded ==
  Tracked /\ stack # <<>> => Len(stack) <= MaxDepth

\* make([]Value, length), make(map[string]any, length) and their like are
\* sized by a length read from the wire; validateArrayLen and validateMapLen
\* see to it that no open container was given more slots than the buffer has
\* bytes.
SlotsBackedByBytes ==
  \A i \in 1..Len(stack) : stack[i].left <= Len(data)

\* The deferred leaveContainer calls balance the counter: whatever the result,
\* a finished call has put depth back where it was -- except that a call
\* refused for its nesting leaves the count of the refused container behind.
DepthRestored ==
  /\ status \in {"ok"} \cup Errors =>
       depth = base + IF status = "ErrMaxDepthExceeded" THEN 1 ELSE 0
  /\ status = "running" => depth = base + IF Tracked THEN Len(stack) ELSE 0

\* Every step of a walk consumes input, closes a container or ends the walk;
\* no step gives back what was consumed.
Progress ==
  status = "running" =>
    /\ pos' >= pos
    /\ \/ pos' > pos
       \/ Len(stack') < Len(stack)
       \/ status' # "running"
StepMakesProgress == [][Step => Progress]_vars

\* What the walk may say of the i-th item of a row: that it has no case for it; that
\* a key is no string; that a length is over its limit; that a container is nested
\* too deeply.
NoCase(at, i) ==
  KindAt(data, at[i]) = "invalid" \/ (KindAt(data, at[i]) = "ext" /\ walk # "value")
KeyRefused(at, due, i) ==
  IsKey(data, at, due, i) /\ KindAt(data, at[i]) # "str" /\ walk # "value"
LengthRefused(at, i) ==
  /\ HasHeader(data, at[i]) /\ KindAt(data, at[i]) \in {"str", "bin", "ext", "array", "map"}
  /\ LenAt(data, at[i]) > Limit(KindAt(data, at[i]))
NestingRefused(at, due, i) ==
  /\ HasHeader(data, at[i]) /\ KindAt(data, at[i]) \in {"array", "map"}
  /\ Tracked /\ base + Cardinality(Around(due, i)) + 1 > MaxDepth

\* The error e says so.
Refuses(e, at, due, i) ==
  \/ e = "ErrInvalidFormat" /\ NoCase(at, i)
  \/ e = (IF walk = "any" THEN "ErrInvalidFormat" ELSE "ErrTypeMismatch")
       /\ KeyRefused(at, due, i)
  \/ LengthRefused(at, i) /\ e = TooLong(KindAt(data, at[i]))
  \/ e = "ErrMaxDepthExceeded" /\ NestingRefused(at, due, i)

\* From where the call began, k whole items lie in a row, and there is nothing to
\* say of them.
Readable(k, at, due) ==
  /\ IsRow(data, k, at, due) /\ at[0] = start
  /\ \A i \in 0..k-1 : \A e \in Errors : ~Refuses(e, at, due, i)

\* A walk that succeeds has read one whole value, and stands behind it: wherever
\* the open containers were counted, none was left too early or too late, and no
\* key, length or nesting was let through that is refused elsewhere.
OneValueRead ==
  status = "ok" =>
    \E k \in Nat : \E at, due \in [0..k -> Nat] :
      Readable(k, at, due) /\ at[k] = pos /\ due[k] = 0

\* What an error says is true: "unexpected EOF" of a message in which no value is
\* whole (validateArrayLen and validateMapLen, which look at the bytes that
\* remain before the elements are read, refuse no other); the others of the
\* first item there is anything to say of.
ErrorIsTrue ==
  /\ status = "ErrUnexpectedEOF" => \A q \in Nat : ~IsValue(data, start, q)
  /\ status \in Errors \ {"ErrUnexpectedEOF"} =>
       \E k \in Nat : \E at, due \in [0..k -> Nat] :
         /\ Readable(k, at, due) /\ due[k] > 0 /\ at[k] < Len(data)
         /\ Refuses(status, at, due, k)

\* A walk succeeds if and only if one whole value begins where it was called, of
\* whose items there is nothing to say.
SucceedsIfReadable ==
  status \in {"ok"} \cup Errors =>
    (status = "ok") = \E k \in Nat : \E at, due \in [0..k -> Nat] :
                        Readable(k, at, due) /\ due[k] = 0

-----------------------------------------------------------------------------
(* What a finished call is compared with: the message as Grammar reads it. *)

Doc == G!ValueAt(data, start)      \* what is written where the call began

OverLimit(item) == item.kind \notin {"scalar", "invalid"} /\ item.len > Limit(item.kind)

\* An item the walk has no case for where it stands.
Refused(item) ==
  \/ item.kind = "invalid"
  \/ item.kind = "ext" /\ walk # "value"
  \/ item.key /\ item.kind # "str" /\ walk # "value"

TooDeep == Tracked /\ Doc.nest > 0 /\ base + Doc.nest > MaxDepth

\* A walk that succeeds has consumed exactly the one value that was written
\* there: it ends where the value ends, and it let nothing through that it
\* refuses elsewhere (a limit, a kind, a key, the nesting).
OkIsOneValue ==
  status = "ok" =>
    /\ Doc.ok
    /\ pos = Doc.end
    /\ \A item \in Doc.items : ~OverLimit(item) /\ ~Refused(item)
    /\ ~TooDeep

\* A walk that fails names a flaw the buffer has.  In particular a complete
\* value is never reported as truncated: the "each element needs at least 1
\* byte" checks that run before a container is read are no stricter than the
\* reading itself.
ErrorIsJustified ==
  status \in Errors =>
    CASE status = "ErrUnexpectedEOF"  -> ~Doc.ok
      [] status = "ErrInvalidFormat"  -> \E i \in Doc.items : Refused(i)
      [] status = "ErrTypeMismatch"   ->
           walk = "typed" /\ \E i \in Doc.items : i.key /\ i.kind # "str"
      [] status = "ErrMaxDepthExceeded" -> TooDeep
      [] OTHER -> \E i \in Doc.items : OverLimit(i) /\ TooLong(i.kind) = status

\* A call of Decode, DecodeAny or decodeAnyValue returns, whatever the buffer.
CallsReturn == status = "running" ~> status # "running"
=============================================================================
