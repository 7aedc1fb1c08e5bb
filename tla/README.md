# msgpck in TLA+

A verification development for [msgpck](../src/README.md), a MessagePack codec for
Go. It models the parts of the library where a mistake would be hard to find by
testing -- the recursive walks over untrusted bytes and over Go values, the way from
an encoder to a decoder, the boundaries between the widths of numbers, the codecs that
calls share through pools, the per-type codecs that goroutines share through caches --
checks them with TLC on small instances and proves the safety properties of each of
them, all but the ones that compare with a recursive reference, with TLAPS for every
instance.

Line references are to `src/`.

## 1. The system

msgpck has no goroutines, no files and no network of its own. It is called by many
goroutines at once, reads buffers nobody has validated, and keeps state in four
places: inside a codec while a call runs, in `sync.Pool`s between calls, in
`sync.Map`s for ever, and in the destination the caller passes.

| Component | State it keeps | Operations | Talks to |
|---|---|---|---|
| **Wire format** `format.go` | none | classification of format bytes by masks and constants; length fields (`parse*Len`, `decode_struct.go:98-190`) | everything below |
| **Decoder core and generic walks** `decoder.go`, `decode_value.go`, `decode_any.go`, `typed_decode.go` | `data`, `pos`, `depth`, `config`; the Go call stack | `NewDecoder*`, `Reset`, `Decode`, `DecodeAny`, `decodeAnyValue(d, zeroCopy)`; `readByte/readBytes/...`, `validate*Len`, `enterContainer/leaveContainer` | the pools, the struct decoders (map[string]any fields, skipped values) |
| **Codec pools** `encode.go:248-270`, `decode_any.go:585-640`, `timestamp.go`, `struct_decoder.go` | `encoderPool`, `decoderPool`; what the last call left in each codec | `Marshal`, `MarshalTimestamp`, `Unmarshal*`, `UnmarshalTimestamp*`, `StructDecoder.Decode` | encoder, decoder, garbage collector |
| **Codec caches** `struct_decoder.go`, `struct_encoder.go`, `decode_struct.go` | `structDecoderCache`, `structDecoderZeroCopyCache`, `structEncoderCache`, `structCache`, `nestedFieldMapCache`; the shared instances and their `zeroCopy` flag | `GetStructDecoder`, `GetStructEncoder`, `getStructInfo`, `getNestedFieldMap`, `ZeroCopy` | reflection; the instances' users |
| **Reflective struct decode** `decode_struct.go`, `decode_any.go` | the destination | `DecodeStruct`, `decodeIntoValue`, `decodeIntoStruct`, `decodeSliceReflect`, `decodeMapReflect` | decoder core, `structCache` |
| **Cached struct decoder** `struct_decoder.go` | the destination | `Decode`, `DecodeWith`, `decodeInto`, `decodeField`, `decodeNestedStruct`, the map and slice handlers | decoder core, pool, caches |
| **Encoder** `encoder.go`, `encode.go` | `buf` | the `Encode*` methods, growth, `Reset` | pool |
| **Cached struct encoder** `struct_encoder.go` | none of its own | `Encode`, `EncodeWith` | encoder, cache |
| **Timestamp extension** `timestamp.go` | none | three payload formats, encode and decode | encoder, decoder, pool |
| **Value accessors** `value.go` | none | constructors and field reads | |

How they interact: a package-level call takes a codec from a pool, resets it, lets it
walk the Go value or the buffer, copies the result out and puts the codec back. A
struct decoder is looked up in a cache, takes a decoder from the pool and drives it
with the field plan of the struct type; for a field of type `map[string]any` it hands
over to the typed walk, for an unknown key to the skipping `decodeValue`. Nothing is
locked: exclusivity of codecs rests on the pool, immutability of the cached instances
on nobody writing to them after `Store`.

What is hard, and what makes each component correct:

* **Walks.** Mutual recursion whose depth, allocation and loop bounds all come from
  the input. Correct when every call stays in the buffer, consumes exactly the value
  that is written there, opens no more than `MaxDepth` containers, allocates no more
  slots than there are bytes, puts `depth` back on every way out, names a real flaw
  when it fails, and returns. A decoder is an object: all this has to hold for any
  sequence of calls, after errors too.
* **Pools.** A codec carries `depth`, `pos` and a buffer from one caller to the next;
  the calls may fail half-way or panic (there is no deferred `Put`); the collector
  may drop pooled codecs. Correct when each call answers as if it were alone with a
  new codec, and a result stays what it was.
* **Caches.** Load, build and Store are separate steps, so goroutines build twice and
  the last one wins. Correct when every use of an instance sees a complete field plan
  and the options its caller asked for, and the maps come to rest.
* **Decoding into Go values.** Two independent implementations of one mapping from maps
  to structs, a third around them for everything that is no struct. Correct when each
  consumes exactly one value, stores what the message says where it says it, and refuses
  nothing it has a case for.
* **Encoder.** Three ways to write a value (fast paths, reflection, `StructEncoder`), a
  buffer that moves while callers hold slices of it, errors that leave half a value
  behind. Correct when each call appends one well-formed value that says what was
  encoded, and what was handed out stays as it was.
* **Numbers, times and lengths.** Every value chooses among formats by comparisons with
  boundaries, every reader converts on its own. Correct when nothing changes on the way
  that the types on the way can hold.

The list of hazards, each at its line and with the properties that would notice it, is
in `PROJECT.json` under `hazards`; those without a property say why.

## 2. The modules

| Module | What it is |
|---|---|
| `Wire` | format bytes and length fields as the code classifies them |
| `Grammar` | the format once more, from the format's own table, as a recursive descent; shares nothing with `Wire` and `Decoder` |
| `Trees` | a message as a tree, read off the buffer by `Grammar`; what decoded and encoded values are compared with |
| `Rows`, `WireProofs` | a whole value as a row of items, read from left to right and without recursion, for proofs; lemmas about lengths, rows, the loops that read them and the writes that make them; that rows are what `Grammar` reads |
| `Reader` | what every walk sees of the bytes at `pos`: the format byte, the length it claims, the limits and errors |
| `GoTypes` | types as the walks over Go values see them: a kind of `reflect` with its element or field types |
| `Decoder` | one decoder, its three generic walks, reuse |
| `MCDecoder`, `DecoderProofs` | buffers for TLC and the comparison of the items of `Rows` with those of `Grammar`; theorems about `Decoder`, its comparison with `Grammar` among them |
| `StructDecode` | the walks into a Go value, which are directed by its type, and the destination they write |
| `MCStructDecode`, `StructDecodeProofs` | types and messages for TLC, and what a message says about a type, as a recursive definition; theorems about `StructDecode` |
| `Buffer`, `BufferProofs` | abstract specification of an encoder: bytes are appended, slices are handed out; its theorems |
| `Encoder`, `EncoderProofs` | the walks over a Go value that write to a `Buffer`; the proofs that they implement it, that each call is one value, and of what they refuse |
| `RoundTrip`, `MCRoundTrip` | `Encoder` composed with `StructDecode`: what was encoded is decoded; types and values for TLC |
| `Scalars` | the bytes of numbers, times and lengths, encoded and read again and again |
| `MCScalars`, `ScalarsProofs` | its instance, its theorems |
| `AtomicCodec` | abstract specification of the pooled calls: begin, answer |
| `CodecPool` | the pooled calls step by step; implements `AtomicCodec` |
| `MCCodecPool`, `CodecPoolProofs` | its instance, its theorems |
| `CodecCache` | the five `sync.Map`s and the shared instances |
| `MCCodecCache`, `CodecCacheProofs` | its instance, its theorems |

Some definitions are followed (or preceded) by *mutants*: `Validate_LimitOnly`,
`Reset_KeepsDepth` and so on. Each is the definition it is named after with a bug the
code could plausibly have. No specification uses them; put in the place of the
original, each makes TLC find a property violated, which shows that the property
depends on that line of the code (`PROJECT.json`, `mutants`).

### Decoder

The variables `data`, `pos` and `depth` are the fields of the Go object. The Go call
stack is `stack`: a frame for each `decodeArray`, `decodeMap`, `decodeArrayAny`,
`decodeMapAny`, `decodeArrayAnyWithLen`, `decodeMapStringAnyWithLen` that is
executing, with the number of values its loop has still to read (a map reads two per
pair). `walk` says which of the three walks runs -- `Decode` ("value"), `DecodeAny`
("any"), the `decodeAnyValue` function of the struct decoders ("typed") -- because
they differ in what they support, in the keys they take, in the error they report and
in whether they count depth. `start` and `base` are history variables.

| Action | Code |
|---|---|
| `Call(w)`, `Reset(m)` | the caller's side |
| `NoFormatByte` | `readByte` at the end of the buffer |
| `Unsupported`, `BadKey` | the `default` cases; keys of a kind the walk refuses |
| `Scalar`, `StringOrBinary`, `Extension` | the leaf cases of the switches, with the reads they make |
| `BadLength` | the `parse*Len` and `validate*Len` errors, the limit before the bytes |
| `OpenContainer` | `validate*Len`, `enterContainer` and the entry into the loop |
| `CloseContainer` | the end of a loop, the deferred `leaveContainer`, the return |

An error unwinds all frames in one step (`Fail`), running the deferred
`leaveContainer` of each; nothing can observe the frames in between. Values are
abstracted to where they end: what the walks build (a `Value`, a string, a number) is
not in the model, nor is whether a string is copied. `int` is unbounded here.

### StructDecode

`walk` is one of three:

* "reflect" is `Unmarshal`: `decodeReflect` until the first struct, then `DecodeStruct`,
  `decodeIntoValue` and what they call;
* "cached" is a `StructDecoder`: `decodeInto`, `decodeField`, `decodeNestedStruct` and the
  slice and map helpers;
* "plain" is what needs no reflection: `DecodeInt64Array` .. `DecodeStringArray`, and
  `Decode` for a destination that is a `Value`.

A frame of `stack` is again a loop that is executing, now with the type it decodes into,
the field the last key named (`field`) and the place it stores at (`into`); the frame at
the bottom is the pointer the caller passes. Types are those of `GoTypes`; `InField` and
`InNested` are the cases `decodeField` and `decodeNestedStruct` have. What comes next is
decided by `Type` (a key or a value, of what type; `Types` is a set of types that is
closed under going to an element or a field), whether it may be nil by
`NilAccepted`, which formats it takes by `Accepted`, which length is checked against which
limit by `Check`, which containers count towards `MaxDepth` by `Tracked`: these operators
are where the walks differ, the actions are the same.

| Action | Code |
|---|---|
| `Call(m)` | `Unmarshal`, `Decode`, `DecodeWith` into a destination that was used before |
| `UnsupportedType` | `decodeReflect` at an array, before it reads anything |
| `NoFormatByte`, `Mismatch` | `readByte` at the end; the `default` cases |
| `ReadNil` | the test for `formatNil` in front of each switch, and what it stores |
| `Scalar`, `StringOrBinary`, `Extension`, `BadLength` | the leaf cases, their reads and checks |
| `Timestamp` | `DecodeTimestamp` as `decodeReflect` calls it for a `time.Time`, with every read that can fail |
| `Key` | `decodeStringKey`, `readStringBytes`, and the search for the field |
| `NestedBool` | the bool of `decodeNestedStruct`, which reads nothing |
| `Follow` | a pointer, in `decodeIntoValue` (a format byte has been read) and in `decodeReflect` (none has) |
| `OpenContainer`, `CloseContainer` | entry and end of the loops, `enterContainer` where there is one |

The destination `dst` maps places (sequences of field names and array indices) to the
bytes that were stored there. That is enough to tell a value from another, from the zero
value and from what an earlier message left; what the bytes become as a Go number is in
`Scalars`. `before` is a history variable. An error unwinds the frames in one step, except
at a key of `decodeIntoStruct`, which swallows it (`ErrorsSwallowed`).

### Buffer and Encoder

`Buffer` is what `encoder.go` does with memory. `arrays` are the arrays there have been,
each with its whole capacity; `buf` is the slice that is written to. A write fits
(`HasRoomFor`) or moves the contents to a new array of `NewCap` bytes (`Grow`). `written`
and `held` are history variables: what was written since `Reset`, and the slices that
`Bytes` returned, which alias the arrays. Its specification, `BufferSpec`, allows any bytes
to be appended, and is the abstract specification of an encoder.

`Encoder` says which. Its walks are a list `todo`, the head first, of bytes to write,
values to encode and loops to go on with: the Go stack of the encoder, read from the
inside out. Every write is a step, so an error finds a buffer with half a value in it.
Values are Go values in TLA+ (numbers, byte sequences, sequences, functions from names),
and an interface carries the type of what it holds.

| Action | Code |
|---|---|
| `Call(j)`, `Reset`, `Hold` | the caller: `Encode`, `EncodeWith`, `EncodeValue`, `Encode*Array`; `Reset`; `Bytes` |
| `Write` | `writeByte`, `writeBytes`, `writeUint16` .. and `grow` |
| `EncodeAny` | `Encode(v any)` with its fast paths |
| `EncodeReflect` | `encodeValue`, `encodeSlice`, `encodeMap`, `encodeStruct`; `ErrUnsupportedType` |
| `EncodeInto`, `EncodeField` | `StructEncoder`: the count of fields that are not left out, then each by its kind, with a fallback to `Encode` for what has no fast path |
| `EncodeTree`, `EncodeArray` | `EncodeValue` of a `Value`; `EncodeInt64Array` .. `EncodeStringArray` |
| `NextElement`, `NextPair`, `NextField` | one turn of a loop; a map is ranged over in any order; `NextField` decides a second time what `omitempty` leaves out |
| `Return` | the call returns |

After an error nothing is taken back (`Fail`): `broken` remembers that. What an encoder
refuses is said without its walks: `ChanIn` is whether there is a channel in a value,
however deep, as a recursive function over `Universe`; `Refusable(j)` is whether the call
`j` looks at one.

### RoundTrip

`RoundTrip` extends `Encoder` and has the decoder as `D == INSTANCE StructDecode`. `Deliver`
hands the bytes of an encoder whose calls succeeded to one of the decoders that should
give back the first value (`Decoders`), into a new destination of its type; then `D!Step`
runs. `Says` is the reference: whether a tree, as `Trees` reads it off the bytes, is an
encoding of a Go value, number for number. `Holds` asks the same of what a place of the
destination holds. `AsWritten` and `Carried` name what gets lost on the way because the
code has no case for it:

* `StructEncoder` writes nil for fields that are interfaces, arrays or unsupported
  (`AsWritten`);
* `time.Time` is written as a struct without exported fields, and read as a timestamp
  only outside of structs;
* in the reflective walk, pointers inside of structs that are not nil (hazard at
  `decode_struct.go:435`) and nil for pointers outside of them;
* in the cached walk, fields whose kind `decodeField` or `decodeNestedStruct` has no case
  for, and nil for an inner map.

### Scalars

What a number, an instant or a length is as bytes, without the bytes: a format, a width
and the word in it. `Span[w]` is the number of values that `w` bytes have, 2^(8w) in Go and
a parameter here; `Second` is the number of nanoseconds of a second. `held` is what there
is now -- a variable of a Go type, or an encoded item -- and `origin` what there was first;
`fits` and `narrowest` remember the types on the way.

| Action | Code |
|---|---|
| `Write` | `EncodeInt`, `EncodeUint`, `EncodeTimestamp`, the headers of strings, binaries, extensions, arrays and maps |
| `ReadNumber` | the six integer readers: `decodeInt`, `decodeValueInt`, `decodeIntValue` and their unsigned counterparts, each with its own cases; `Decode` and `DecodeAny`, which choose the type |
| `As` | `Value.AsInt`, `Value.AsUint` |
| `ReadInstant` | `DecodeTimestamp`; `Decode` and `ExtToTimestamp` |
| `ReadLength` | `parse*Len` and `validate*Len`, with an `int` of `IntWidth` bytes |

### CodecPool and AtomicCodec

A goroutine goes through `get`, `reset`, `run` and `put`; every statement that touches
the pool, a codec or the result is a step of its own, and steps of goroutines
interleave freely. The value or message of a call is a sequence of items, each with a
nesting level and with what happens at it: fine, an error, a panic in reflection. That
is all of the data that decides how a codec is left behind. `mem` is the contents of
byte arrays, so that returning the encoder's own buffer instead of a copy is
expressible (and is the mutant `Copy_Aliases`). `depth` is the decoder's counter with
the behaviour `Decoder` establishes for it: balanced, except for the one count a
refused container leaves. `Collect` is the garbage collector emptying a pool, `Panic`
the way out that skips `Put`.

`AtomicCodec` says what the callers are promised: `Begin`, and one `Return` whose
answer is the function of the argument that `Answer` defines. `CodecPool` maps its
state on it (`Atomic == INSTANCE AtomicCodec WITH ...`): busy are the goroutines
inside a call, and the reply is the error plus what the *current* contents of the
result array are, so a later call that scribbled on it would show.

### CodecCache

`cached` is the contents of the maps, `plan` how many fields an instance has so far,
`zeroCopy` the flag of a `StructDecoder`. A look-up is `Hit`, or `Miss`, `AddField`
for every field, `Built`, `Store`; a use reads the flag once per field (`UseField`),
as `decodeStringField` does, so a flag that changes in the middle of a decode is seen.
`ZeroCopy` is the exported method called by a user on an instance it got from the
cache; `turned` is a history variable, the instances on which that was done, so that
`UnturnedAsAsked` can say of all others that a use of them is what its caller asked for.
Maps of encoders and of field information have the same look-up and no flag.
Whether two names stand for the same instance is kept by identity; an identity is
used again when nothing refers to the instance any more (what the collector would
reclaim).

## 3. What TLC checks

| Run | Bounds | Shows |
|---|---|---|
| `decoder_walks` | every buffer of up to 3 bytes over 14 format bytes (one or two of each kind), every one of 4 bytes over the 6 that nest, 40 longer ones for the wide length fields; `MaxDepth` 2, other limits 1 or 2; reuse in any order of walks, also after errors | type invariant; `PosInBounds`, `RecursionBounded`, `SlotsBackedByBytes`, `DepthRestored`; `OkIsOneValue`, `ErrorIsJustified` against `Grammar`; `StepMakesProgress`; `CallsReturn` |
| `nesting_limit_typed` | longer buffers, typed walk | a violation: finding 1 |
| `nesting_error_after_reuse` | longer buffers, `Decode` after an error | a violation: finding 2 |
| `struct_decode` | Unmarshal and the cached decoders into 9 struct types that have every kind of field (basic, slices, maps, maps of maps, `any`, pointers, arrays, `time.Time`, structs in structs and slices); Unmarshal into 12 other types; the 4 array helpers; some 940 messages per struct type, among them every truncation of three; 6 messages for a second call into the same destination; limits 1 to 3, `MaxDepth` 3 | type invariant; `OkMeansItFits`, `GoodMessagesDecode`, `FieldsAsWritten` against the reference; `RecursionBounded`; `CallsReturn` |
| `inner_keys_skipped` | the same | a violation: finding 4 |
| `nested_map_limit` | the same | a violation: finding 5 |
| `scalars` | bytes of 32 values: `Span` 32, 64, 256, 65536 for 1, 2, 4, 8 bytes; seconds of 50 ns; `IntWidth` 8; numbers, seconds and lengths on both sides of every boundary; items of other programs with every format | type invariant; `NumbersKept`, `NumbersWrap`, `RefusalsJustified`, `InstantsKept`, `LengthsKept`, `LengthsBacked`, `MostCompact` |
| `round_trip` | 14 struct types by reflection and by `StructEncoder`, 6 other types, Values of all types, the array methods; for each type the values at which the encoder or a decoder takes another turn; 2 calls, arrays of 0 and of 6 bytes to begin with | type invariant; `NothingIsLost`, `HeldIsKept`, `EachCallIsOneValue`, `RefusedIfUnsupported`, `RoundTrips`; `Encoder` implements `Buffer` |
| `unsupported_is_refused` | the same | a violation: finding 6 |
| `codec_pool` | 2 goroutines, 2 encoders, 2 decoders, 7 calls that succeed, fail, nest too deeply and panic; `MaxDepth` 1 | `Exclusive`, `ResultsAreSafe`; `CodecPool` implements `AtomicCodec`; `CallsReturn` |
| `codec_cache` | 2 goroutines, both decoder maps, 1 type of 2 fields, 3 instances, anybody may call `ZeroCopy` | `ZeroCopyIsKept`, `UnturnedAsAsked`; `MapsSettle`, `LookupsReturn` |
| `zero_copy_is_shared` | the same | a violation: finding 3 |

Why the bounds are enough to meet the interesting cases:

* *Buffers.* The walks branch on the kind of a format byte, on the width of a length,
  on a length against a limit and against the bytes left. Three free bytes already
  give containers that are empty, full, truncated in front of and inside an element,
  and a container in a container; four bytes over the nesting alphabet give nests at,
  under and over `MaxDepth`; the listed buffers give each wide length field, read and
  truncated, and several siblings after a nest. Limits of 1 and 2 are exceeded by
  three-byte buffers. `DepthBound` is the only bound on the exploration: no call
  starts with `depth` above 3, one more than `MaxDepth`, so that a decoder that has
  leaked more counts than the limit allows is still explored.
* *Struct messages.* What the walks decide depends on a pair's key (known, unknown,
  too long, truncated, not a string, a container), on the format of its value and on
  the kind of field it meets; `Whole` crosses keys with values at the first level, at
  the second, and a first pair with a second one behind it, which is where a wrong
  position shows. Three levels exceed `MaxDepth` in one walk and not in the other. What is
  read into something else than a struct (`Unwrapped`) is every value bare, in an array and
  in a map, nests around `MaxDepth`, and timestamps in all formats with every truncation.
  `MaxCalls` is 2: what a destination holds at the beginning of a call is either
  nothing or what one call left, and the second call overwrites, adds and resets.
  Some cases are set aside by name, because there the code does something else than the
  message says: `OddKeys` (finding 4) and, in `OkMeansItFits`, `Loose`: malformed
  messages into a struct in a struct, where the same code goes on behind an error;
  pointer fields of the reflective walk (`decode_struct.go:435` reads a format byte
  twice; `decode_struct_test.go:3236` calls them not yet supported); bool fields of
  inner structs of the cached walk (`struct_decoder.go:1577` takes any format byte).
  `FieldsAsWritten` is stated by the words of the documents: nil stores the zero value
  (`decode_struct.go:275`: "nil decodes to zero value", `struct_decoder.go:205`: "leave as
  zero value"), and every field that a key names is stored (`README.md:136-142` lists the
  kinds, nested structs among them). The places where the code is known to do something
  else are set aside by name (`LeftAlone`), and nothing is claimed of them: what is below a
  nil in the cached walk and a whole message that is nil keep what an earlier message left
  there, and `PassedOver` are the fields whose kind `decodeField` or, in an inner struct,
  `decodeNestedStruct` (`struct_decoder.go:1588`) has no case for, whose values are skipped
  without an error. Without these exemptions TLC finds each of them.
* *Scalars.* Code and model only compare with boundaries and with powers of the span of a
  byte. With 32 the fixint, fixstr and fixarray ranges (`Span \div 8`, `Span \div 16`) and
  all the boundaries are apart from each other and in the order they have in Go; for all
  other spans there are the theorems.
* *Round trips.* Widths are in `Scalars`, so a few numbers per width do here; what matters
  is structure: structs, slices, maps, pointers and interfaces in each other, nil and empty where the code
  tells them apart, 16 elements and 32 bytes, where headers change. Two calls are enough
  for a call to meet what another has left: a value in front of it, half of one, a buffer
  without room. A capacity of 0 grows at the first byte, 6 in the middle of a value. The
  bounds on numbers (16 bits) and lengths (below 2^16) are those of `Encoder`'s operators.
* *Pool.* Interference needs two calls; each goroutine makes calls without end, so a
  codec used by one is used again by the other, after success, after an error at every
  depth, and after a panic. Two codecs of a kind are as many as two calls can hold.
* *Cache.* Two goroutines that miss together need two instances; with the one that is
  stored in the other map three are in use at a time, so a third identity is always free
  where one is taken.

### Fairness

* `Decoder`: weak fairness on the steps of a walk. A walk that was called is sequential
  code that never waits. Callers are not assumed to call.
* `StructDecode`: the same, for `Step`. Its run allows the end of a behaviour
  (`CHECK_DEADLOCK FALSE`): after `MaxCalls` calls the caller is done with the
  destination.
* `Encoder`, `RoundTrip`, `Scalars`: safety only, no fairness. `round_trip` allows the end of
  a behaviour: it ends with the decode. So does `scalars`: nothing is done with what was
  refused.
* `CodecPool`: weak fairness for each goroutine's steps inside a call: the Go scheduler
  runs every runnable goroutine, and `sync.Pool` never blocks -- `Get` calls `New`.
  Neither callers nor the collector are assumed to do anything.
* `CodecCache`: weak fairness for each goroutine's look-up and for a use that was
  begun. `sync.Map` never makes a goroutine wait for another.

### Findings

1. **The nesting limit does not hold on the typed walk.** `decodeArrayAnyWithLen` and
   `decodeMapStringAnyWithLen` (`typed_decode.go:186`) never call `enterContainer`;
   the comment on `MaxDepth` (`config.go:33`) promises a "maximum allowed nesting depth
   for arrays and maps". Only the length of the input bounds the recursion.
2. **A refused container leaves `depth` one too high.** `enterContainer`
   (`decoder.go:163`) increments before it compares, and callers defer
   `leaveContainer` only when it succeeds. A decoder that is used on without `Reset`
   refuses values nested no deeper than `MaxDepth`. Pooled decoders are reset, which is
   what `PooledCallsAreAtomic` needs `Reset` for.
3. **`ZeroCopy` changes the shared decoder.** The comment (`struct_decoder.go:101`) says
   it returns a zero-copy version; it sets the flag of its receiver, which
   `GetStructDecoder` has handed to everybody (`README.md:208`: "cached, thread-safe").
   Strings of a goroutine that asked for copies then alias its input.
4. **Keys that are no strings put an inner struct out of step.** `decodeIntoStruct`
   (`decode_struct.go:796`) says it skips "non-string key and its value". The failed read
   has consumed the key's format byte; the one `Decode` that follows reads the rest of
   the key, or the value if there is no rest. `{a: {[97]: 1}, b: 1}` decodes without
   an error and without `b`. `DecodeStruct` has the code that does it right.
5. **`MaxMapLen` does not hold for a map in a map.** `decodeNestedMap`
   (`struct_decoder.go:1227`) takes the length of the inner map from `parseMapLen` to
   `MakeMapWithSize`; every other map goes through `validateMapLen`, which `config.go:27`
   describes as the maximum.
6. **A `StructEncoder` writes nil for what cannot be encoded.** `errors.go:39` says that
   `ErrUnsupportedType` "is returned when encoding an unsupported Go type", and `encodeValue`
   (`encode.go:148`) does so. The `default` of `encodeField` (`struct_encoder.go:466`) writes
   nil for a channel, a function or a complex number, and the call succeeds;
   it also does for an interface or an array, which `encodeValue` writes. `RoundTrips`
   and `EachCallIsOneValue` compare with the value in which these fields are nil (`AsWritten`).

## 4. What is proved

All proofs are checked by TLAPS to the last leaf, for every value of the constants
that satisfies the named assumptions. Each proof module begins with its inductive
invariant, has one lemma per way a step can end, and one case per action.

**Whole values** (`Rows`, `WireProofs`). To speak of a message in a proof there has to be
a definition of one that needs no recursion. `Rows` reads a message from left to right: a
*row* of items, each beginning where the one before it ends, and next to it the number of
values still due, which begins at 1, loses one with each item and gains those an array or
map announces. A value ends where the count is 0 (`IsValue`). The count also says how
an item is nested: the containers around it (`Around`) are the items since which the count
has never been below what it was in front of them, and it is a key (`IsKey`) if the
innermost of these is a map of which an even number of values is due. `MCDecoder` has TLC
compare all this with `Grammar` on all buffers of its run (`RowsAreTheGrammar`): where
values end, which items with which lengths and which keys are in them, how deeply they
nest. Proved of it: `ValuesEndOnce` -- of two rows from one place one is the beginning of
the other, so a value has one end --; that a row stays a row when more is written behind it
(`RowStays`); and how the loops of a walk account for a row. `StillDue` says that what the
open loops have left, added up, is what is due, and `DueOne`, `DueOpen`, `DueClose` that
reading an item, entering and leaving a loop keep it so. `LoopsOf` says more, which loop
was opened by which item: `LoopsRead`, `LoopsOpen` and `LoopsClose` keep it, and from it
follows that while no loop is over the containers around the next item are exactly the open
loops (`LoopsAround`), as many (`LoopsCount`), and that it is a key where the innermost loop
has it so (`LoopsKey`). Where an induction over the items of a row was needed, the
proof takes the least item that is wrong instead: the least-element principle is a theorem
without an operator parameter.

`RowsAreGrammar` ties this to `Grammar`, which has the table of the format's specification
where `Rows` has the masks of the code, and a recursive descent where `Rows` counts: for
every message, from every byte on, the two find the same end of the value there, or none.
What is proved with rows is thereby proved of the format. What takes part in it:

* `TableAgrees`: for each of the 256 first bytes the rows of the table say what the masks
  say, and `HeaderIs` the same of what follows it.
* `ParseReads`: `Parsed[x] = Read(d, Parsed, x)` at every place, that there is a function as
  `Grammar` describes. Of a function defined by recursion the provers know only that it
  satisfies its equation if any function does, and that one does is an induction over the
  buffer, which has to be done by hand: there is a function that satisfies it where nothing
  of the buffer is left (`ReadsNothing`), and with one that does so in the last n bytes there
  is one for n + 1 (`ReadsMore`), because `Read` asks only for what lies behind the header it
  reads (`ReadIs`). If some n had none, take the least.
* `DueJoins`: of m + n values the first m are read first, then the n behind them, whether or
  not some of them are keys (`RestAlike`). So an array whose values are read with those
  behind it as one run of values ends them where reading it first does, and what is due
  behind a row ends, from item to item, where the value does (`RowKeeps`).

Which items there are, with which lengths and keys and how deeply nested, is for these two
definitions what TLC compares; the theorems about `Decoder` below prove it of the walks.

**Decoder** (`DecoderProofs`), for all buffers, limits and callers, the assumptions
being only that messages are byte sequences and limits integers (`ConfigAssumption`,
`MessagesAssumption`, `CallerAssumption`):

* `TypeCorrect`, `PosStaysInBounds`, `SlotsAreBacked`, `DepthIsRestored`,
  `RecursionIsBounded`, `WalksMakeProgress`. The inductive invariant `IInv` adds to these
  that frames below the innermost one still wait for a value (so the count that
  `CloseContainer` takes off exists), that no frames are left when nothing runs, and that
  `depth` is at most `MaxDepth` while containers are counted. None of the properties is
  inductive alone: that `depth` never drops below zero needs `DepthRestored`, which needs
  the stack.
* `SucceedsExactly`: a walk succeeds if and only if a whole value begins where it was
  called of whose items there is nothing to say (`Readable`), that is: none is of a kind the
  walk has no case for, none has a length over its limit, no key is one the walk refuses,
  and none is a container in so many others that `MaxDepth` is passed -- counted by what the
  message says, not by `depth` or the stack. This is what the three walks accept, stated
  without them. `OkReadsOneValue`: they stand where that value ends; `OkEndsWithTheValue`: at
  no other byte is the end of a value, so the three walks agree on it. `ErrorsAreTrue`:
  `ErrUnexpectedEOF` means that no whole value begins there, any other error is true of the
  first item there is anything to say of. The invariant `RInv` says of a running walk that
  it stands behind a readable row and that `LoopsOf` holds of its frames; what the walk
  knows by its own counting (`AtKey`, `depth`) is then what the row has (`ReadingKnows`), so
  it refuses an item exactly when there is something to say of it (`NothingToRefuse`,
  `ReadRefused`); and rows agree for as long as both last (`RowsAgree`), so that another
  reading of the message cannot get round that item (`RefusedHasNone`).
* `OkIsRight`, `ErrorsAreRight`: the same two things against `Grammar`, the properties
  `OkIsOneValue` and `ErrorIsJustified` of the run. `Rows` shares its table with the walks
  (`Wire`); `Grammar` has the one of the format's specification and a recursive descent of
  its own, so a wrong mask in `format.go`, a wrong width or a miscounted container would
  show here. `GrammarDecides` is what a caller would ask: a call succeeds if and only if
  `Grammar` reads a whole value there in which the walk refuses nothing; the typed walk is the
  one that has no limit on nesting.

That takes, besides `TableAgrees` and `ParseReads`, the inductive invariant `GInv`. It
keeps a place of `Grammar` for each open loop (`LoopsAt`): as many values are due there as
the loop has left, and what is found there is what decides (`RestOf`): the value the loop
reads is complete if and only if this is, ends where this ends, and is free of anything to
refuse if this is. `Inside` says that what is wrong within a loop's value is wrong with the
value as a whole. A step moves the innermost place one item on or opens one inside, and
keeps both; in the end no value is due, and nothing is found that could decide otherwise.

**StructDecode** (`StructDecodeProofs`), for all sets of types, of messages and of calls
into one destination (`TypesAssumption`: elements and fields of types are types, which may
be recursive; `LevelsAssumption`: `OuterLevels` counts the slices and maps in front of the
structs of a type, which leaves out Go types that are a slice or pointer of themselves
without a struct between; `JobsAssumption`: the array helpers take slices of basic types):

* `TypeCorrect`; `DepthIsRestored`, which for these walks no run asks for by itself;
  `EachStepAdvances`, with which a call can only take finitely many steps: bytes, loops
  and what they have left run out, and a pointer that is followed without reading is one
  of the finitely many of the type in front of its first container.
* `RecursionIsBounded`: `Unmarshal` has no more containers open than `MaxDepth` and
  `OuterLevels` of its type, an array helper one. `LevelsLeft` makes it inductive: what
  `decodeReflect` has opened without counting, added to the levels that may still
  come behind each frame, is never more than the type has.
* `OkReadsOneValue`: as for `Decoder`, a walk by a type that succeeds has read exactly one
  whole value, and one that reports an unexpected end was given none -- under the
  hypothesis `[][~LooseStep]_vars`. A `LooseStep` is one of three, each a hazard or a
  finding of its own: an error at a key of an inner struct that is swallowed
  (`decode_struct.go:796`, finding 4), the format byte lost in front of a pointer
  (`decode_struct.go:435`), and a bool that is none (`struct_decoder.go:1577`). The theorem
  says that these are *all* the places where the walks leave the format: every other step
  keeps `RInv`, for every type. For the array helpers, which have none of them,
  `ArraysReadOneValue` says it without the hypothesis.
* `WalksAreGrammatical`, `ArraysAreGrammatical`: the same of the value that `Grammar` reads,
  by `RowsAreGrammar`. This is what `OkMeansItFits` says of where a decode ends, for all
  types and messages; that the items are within their limits and that the value fits the
  type is left to TLC.

**CodecPool** (`CodecPoolProofs`), for any number of goroutines, codecs and calls
(`CallsAssumption`, `MaxDepthAssumption`, `CodecsAssumption`: the names of encoders,
decoders and goroutines are distinct): `TypeCorrect`, `CodecsAreExclusive`,
`ResultsAreRetained` and `PooledCallsAreAtomic`, the refinement
`Spec => ImplementsAtomicCodec`. The invariant says of each goroutine (`Good`) that it
holds a codec exactly between `get` and `put`; that while it runs, its output is the
prefix of its argument it has been through and none of those items stops a call; that
its decoder's `depth` is its own nesting level -- which is where `Reset` and the
balance of `Decoder` enter; and that before `put` it has its `Answer`. A frame lemma
(`GoodStays`) covers all other goroutines in every step: exclusivity makes a step leave
alone all they rely on. In the refinement `Begin` maps to `Begin`, `Put` and `Panic` to
`Return`, everything else to a stutter.

**CodecCache** (`CodecCacheProofs`), for any number of goroutines, maps, types and fields:
`TypeCorrect` and `ZeroCopyKept`, whether callers call `ZeroCopy` or not, and
`UsesAreAsAsked`: an instance on which nobody has called `ZeroCopy` -- finding 3 shows that
this has to be said -- is used as its caller asked, whoever else calls it on others. The
invariant says that what a map holds is complete and has at least the flag
of its map, that an instance under construction is private, and that no step takes a flag
away (`KeepsFlag`).

**Scalars** (`ScalarsProofs`), for every span that is consistent (`SpanAssumption`: a byte
has a multiple of 16 values, wider words have more and a multiple, 8 bytes the square of
4), every second that 30 bits hold (`SecondAssumption`), every `int` of 4 or 8 bytes
(`IntAssumption`) and all numbers, instants, lengths and items to begin with
(`InputAssumption`): `ScalarTypes`, `NumbersSurvive`, `NumbersAreWrapped`,
`RefusalsMeanNegative`, `InstantsSurvive`, `LengthsSurvive`, `EncodingIsCompact`, and
`LengthsAreBacked`, which needs `IntWidth = 8`: with 4, TLC finds a length that is negative
after the conversion and passes the comparisons (the hazard at `decode_struct.go:105`).
`EncodingIsCompact` compares what is written with all sizes the format has for it
(`NumberSizes`, `InstantSizes`, `LengthSizes`), the ones whose value or length is in the
format byte among them, so that five elements behind an array16 would be noticed as well. The
arguments are lemmas on conversions -- a word read as the type it was written as is the
number it was, and read as any other agrees with it in the bits both have (`Multiple`) --
and, for instants, on the 34 bits of seconds under 30 bits of nanoseconds. Most are about
`%` and `\div` of products, which the provers only do in small steps; that is what makes
the module long.

**Buffer** (`BufferProofs`), for every initial capacity and every sequence of writes:
`BufferTypes`, `NothingLost`, `HeldKept`. The invariant adds `HeldIsInFront`: a slice that was
handed out of the array in use ends before `buf.len`, where the next write begins.

**Encoder** (`EncoderProofs`), for all Go values of a universe that is closed under taking
elements, fields and what interfaces hold (`UniverseAssumption`) and all calls with values
of it (`JobsAssumption`): `WritesAreBytes`, by the invariant `TodoOK` that each item of the
list of work is one its constructor makes of a type and a value of it;
`EncoderImplementsBuffer`, which rests on it, and from it `EncoderKeepsBytes`: all that is
proved of `Buffer` holds of every encoder, whatever is encoded; `CallsAreAppended`: the
calls that succeeded lie in the buffer one behind the other with nothing between, until
one fails; and `CallsAreValues`: what each call that succeeded has appended is exactly one
whole value (`IsValue` of `Rows`), ends at no other byte, and stays that until `Reset`,
whatever is written behind it and whichever calls fail. That is the part of
`EachCallIsOneValue` about the format, for every value: no header counts more or fewer
elements, pairs or fields than follow it, whether `encodeInto` and the loop behind it, or
`encodeStruct` and `encodeValue`, decide what is left out; no length disagrees with its
payload. The invariant `RowOK` says of a running call that `todo` is the rest of the
writes of one item, then tasks; that what is written, once that item is finished, is a
row from where the call began; and that the values this row still asks for are as many as
the tasks are worth: `Due` is 1 for a value, one for each element left, two for each pair
left and for each field left that is `Kept`. A step replaces a task by an item and tasks
that are worth what the item opens (`Stands`; `StandsElements`, `StandsPairs`,
`StandsStruct` and one lemma for each walk), and `RowAppends` of `WireProofs` is the format's
side of it. It needs what `IsStruct` says of a struct type, that `order` has each field
once. `CallsAreGrammatical` says it with `Grammar`: who reads the buffer by the format's own
table and by recursive descent finds a whole value where each of these calls began, and its
last byte is the last the call wrote. With `ValuesEndOnce` and `OkEndsWithTheValue` of `DecoderProofs`, a decoder that
succeeds on an encoded value stops where the call that encoded it did, and by
`ErrorsAreTrue` none of the generic walks finds that its end is missing.

`RefusesWhatItMeets` is `RefusedIfUnsupported` for every value: a call that fails with
`ErrUnsupportedType` was given a channel, and one that succeeds has looked at none; that it was
given none is not so of `StructEncoder` (finding 6). The invariant
`RefusalInv` says of a running call that one of its tasks still meets a channel (`Met`) if
and only if its job has one. `TaskMeets` says it of a task: of a value, of the elements, the
pairs or the fields that are left. A step replaces a task by tasks of which one meets a
channel exactly if it did (`Passed`; one lemma for each walk), or the call fails and the task
is a channel. A field that is left out (`omitempty`) is passed by without a look, so it takes
`EmptyHasNone`: an empty field holds no channel. `ChanIn` is a recursive function, and that
there is such a function has to be proved: it is that there is a way to a channel (`HasWay`,
a sequence of values each of which is a part of the one before), and the ways satisfy the
equation of `ChanIn` (`WayUnfolds`, `ChanInIs`). What holds of `ChanIn` is then found level by
level (`ChanFacts`), without induction. `EncoderTypes` is the type invariant; that a call
begins within the buffer takes `MarkKept`: only `Reset` shortens the buffer.

These are theorems of `Spec`, the encoder as its callers use it. The run `round_trip` checks
the same properties of `RoundTripSpec`, which hands the buffer to a decoder in the end and
changes nothing of the encoder's then.

Only model-checked:

* `OkMeansItFits`, `GoodMessagesDecode`, `FieldsAsWritten` of `MCStructDecode` and
  `EachCallIsOneValue`, `RoundTrips` of `RoundTrip`: their references (`Fits`, `Stored`, `Says`,
  `Holds`) are recursive operators over types and values, and the proof modules cannot use
  them. What `EachCallIsOneValue` says of the format and of the buffer is `CallsAreGrammatical` and
  `CallsAreAppended`, and only that the value written says what was to be encoded (`Says`) is
  left to TLC.
* Liveness (`CallsReturn` of all three modules, `LookupsReturn`, `MapsSettle`): outside the
  prover. For `Decoder` and `StructDecode` the proved `StepMakesProgress` and
  `EachStepAdvances` are the argument.

## 5. What is not modelled

* The readers of single values that are exported (`Remaining`, `Position` and the `Decode*` of
  one type each) as entry points of their own, and a caller who composes `Encode*` calls by
  hand. The maps and `Value` trees the generic walks build: `Decoder` knows where a value
  ends, `RoundTrip` what a tree of Values says.
* Reflection: how a Go type is taken apart (`buildStructInfo`, `newStructDecoder`) is
  represented by the number of its fields in `CodecCache` and by the finished field table
  in `StructDecode` and `Encoder`; tags, embedded and unexported fields do not occur,
  nor do two fields with one key.
* Decoding: map keys that are no strings; the fallback of the cached walk for maps of maps
  of other values than `[]byte`; what an `any` holds is the bytes it was read from; a
  `[]byte` of the message that a destination goes on to alias (`decode_struct.go:415`).
* Encoding: integers of more than 16 bits and lengths of more than 2^16 in `Encoder` (they
  are in `Scalars`); values that contain themselves, on which the code does not return;
  floats are their bytes, and only zero is told from other numbers.
* `isEmptyField` reads integers of the platform's width through a pointer; only 64-bit
  platforms are modelled there.
* `sync.Pool` and `sync.Map` are taken at their documentation: linearizable, never
  blocking, a pool may lose what it holds.
* The Go memory model: a data race on the `zeroCopy` flag is the interleaving of an
  atomic read and write; a one-byte flag can show no other value.
* Formatting of error messages; performance; the benchmark and generator scripts.

## 6. Plan

Done: the generic walks, the pools, the caches, the walks directed by types, the
encoders, numbers and times, the round trip, and the theorems about each. Next, in this
order:

1. Zero-copy strings and the `[]byte` of `decode_struct.go:415` with the buffer they point
   into, and a caller who uses that buffer again: `CodecCache`, `StructDecode` and `Buffer`
   composed.
2. `Says` and `Fits` as recursive functions over a closed universe, as `ChanIn` is one, so
   that proofs can speak of them too.
