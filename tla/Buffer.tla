-------------------------------- MODULE Buffer --------------------------------
(***************************************************************************)
(* The buffer of an Encoder (encoder.go): a slice of an array, which moves *)
(* to a larger array when what is written does not fit.  Bytes returns the *)
(* slice itself, so the caller may hold several slices of several arrays.  *)
(***************************************************************************)
EXTENDS Integers, Sequences

CONSTANT Capacities   \* capacities of the array an Encoder may begin with

ASSUME CapacitiesAssumption == Capacities \subseteq Nat

VARIABLES
  arrays,   \* the arrays there have been, each with all of its capacity
  buf,      \* [array, len]: the slice that is written to
  written,  \* history: what was written since Reset
  held      \* history: the slices that Bytes returned since Reset

buffer == <<arrays, buf, written, held>>

Byte == 0..255

-----------------------------------------------------------------------------
\* The bytes of a slice of an array.
View(array, len) == [i \in 1..len |-> arrays[array][i]]
Contents == View(buf.array, buf.len)

Cap == Len(arrays[buf.array])
HasRoomFor(n) == Cap - buf.len >= n

\* Mutant of NewCap: twice the capacity, enough or not.
NewCap_Doubles(n) == 2 * Cap

\* Twice the capacity, or what is needed if that is more.
NewCap(n) == IF 2 * Cap < buf.len + n THEN buf.len + n ELSE 2 * Cap

\* Mutant of Grow: the new array is not filled from the old one.
Grow_NoCopy(n) == Append(arrays, [i \in 1..NewCap(n) |-> 0])

\* The arrays with a new one for n more bytes.
Grow(n) ==
  Append(arrays, [i \in 1..NewCap(n) |-> IF i <= buf.len THEN arrays[buf.array][i] ELSE 0])

\* An array with bs behind its first len bytes.
Put(array, len, bs) ==
  [i \in 1..Len(array) |-> IF i \in len + 1 .. len + Len(bs) THEN bs[i - len] ELSE array[i]]

BufferInit ==
  /\ \E n \in Capacities : arrays = << [i \in 1..n |-> 0] >>
  /\ buf = [array |-> 1, len |-> 0]
  /\ written = <<>> /\ held = {}

\* writeByte, writeBytes, writeUint16 ..
WriteBytes(bs) ==
  /\ IF HasRoomFor(Len(bs))
       THEN /\ arrays' = [arrays EXCEPT ![buf.array] = Put(@, buf.len, bs)]
            /\ buf' = [buf EXCEPT !.len = @ + Len(bs)]
       ELSE \E grown \in {Grow(Len(bs))} :
            /\ arrays' = [grown EXCEPT ![Len(grown)] = Put(@, buf.len, bs)]
            /\ buf' = [array |-> Len(grown), len |-> buf.len + Len(bs)]
  /\ written' = written \o bs
  /\ UNCHANGED held

\* What Bytes returned before is from now on written over.
ResetBuffer ==
  /\ buf' = [buf EXCEPT !.len = 0]
  /\ written' = <<>> /\ held' = {}
  /\ UNCHANGED arrays

\* The caller keeps what Bytes returns.
HoldBytes ==
  /\ held' = held \cup {[array |-> buf.array, len |-> buf.len, bytes |-> Contents]}
  /\ UNCHANGED <<arrays, buf, written>>

\* What a step appends to "written".
Appended == SubSeq(written', Len(written) + 1, Len(written'))
WriteSome == Appended \in Seq(Byte) /\ WriteBytes(Appended)

BufferNext == WriteSome \/ ResetBuffer \/ HoldBytes

\* Bytes are appended, whatever they are, slices are handed out, and Reset is
\* the only way back.
BufferSpec == BufferInit /\ [][BufferNext]_buffer
-----------------------------------------------------------------------------
(* Properties.                                                             *)

Slices == [array : 1..Len(arrays), len : Nat, bytes : Seq(Byte)]

\* The type invariant: every slice lies within the capacity of an array.
BufferOK ==
  /\ arrays \in Seq(Seq(Byte)) /\ arrays # <<>>
  /\ buf \in [array : 1..Len(arrays), len : Nat] /\ buf.len <= Cap
  /\ written \in Seq(Byte)
  /\ held \subseteq Slices
  /\ \A h \in held : h.len <= Len(arrays[h.array])

\* The buffer holds exactly what was written since Reset, in order, however
\* often grow moved it to a larger array on the way.
NothingIsLost == Contents = written

\* A slice that Bytes has returned does not change before Reset: later writes
\* go behind it or to another array.
HeldIsKept == \A h \in held : View(h.array, h.len) = h.bytes
=============================================================================
