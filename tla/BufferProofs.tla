----------------------------- MODULE BufferProofs -----------------------------
(***************************************************************************)
(* Proofs about Buffer, for every capacity, every sequence of writes and   *)
(* whatever the caller holds on to.                                        *)
(***************************************************************************)
EXTENDS Buffer, TLAPS

\* What Bytes has returned of the array in use lies in front of what is written
\* next.
HeldIsInFront == \A h \in held : h.array = buf.array => h.len <= buf.len

Inv == BufferOK /\ NothingIsLost /\ HeldIsKept /\ HeldIsInFront

\* A view of an array has as many bytes as it is long.
LEMMA Views ==
  ASSUME BufferOK, NEW k \in 1..Len(arrays), NEW n \in Nat, n <= Len(arrays[k])
  PROVE  View(k, n) \in Seq(Byte) /\ Len(View(k, n)) = n
<1>1. arrays[k] \in Seq(Byte)
  BY DEF BufferOK
<1>2. \A i \in 1..n : arrays[k][i] \in Byte
  BY <1>1
<1> QED
  BY <1>2 DEF View

\* What is appended comes behind what is there.
LEMMA Concatenation ==
  ASSUME NEW S, NEW s \in Seq(S), NEW t \in Seq(S)
  PROVE  /\ s \o t \in Seq(S) /\ Len(s \o t) = Len(s) + Len(t)
         /\ \A i \in 1..Len(s) : (s \o t)[i] = s[i]
         /\ \A i \in Len(s) + 1 .. Len(s) + Len(t) : (s \o t)[i] = t[i - Len(s)]
  OBVIOUS

\* Put writes behind the first len bytes, and nowhere else.
LEMMA PutWrites ==
  ASSUME NEW array \in Seq(Byte), NEW len \in Nat, NEW bs \in Seq(Byte),
         len + Len(bs) <= Len(array)
  PROVE  /\ Put(array, len, bs) \in Seq(Byte)
         /\ Len(Put(array, len, bs)) = Len(array)
         /\ \A i \in 1..len : Put(array, len, bs)[i] = array[i]
         /\ \A i \in len + 1 .. len + Len(bs) : Put(array, len, bs)[i] = bs[i - len]
<1>1. \A i \in 1..Len(array) :
        (IF i \in len + 1 .. len + Len(bs) THEN bs[i - len] ELSE array[i]) \in Byte
  <2> TAKE i \in 1..Len(array)
  <2>1. CASE i \in len + 1 .. len + Len(bs)
    <3>1. i - len \in 1..Len(bs)
      BY <2>1
    <3>2. bs[i - len] \in Byte
      BY <3>1
    <3> QED
      BY <2>1, <3>2
  <2>2. CASE i \notin len + 1 .. len + Len(bs)
    BY <2>2
  <2> QED
    BY <2>1, <2>2
<1>2. Put(array, len, bs) \in [1..Len(array) -> Byte]
  BY <1>1 DEF Put
<1>3. Put(array, len, bs) \in Seq(Byte) /\ Len(Put(array, len, bs)) = Len(array)
  BY <1>2
<1> QED
  BY <1>3 DEF Put

\* The array that Grow adds has room for n more bytes and begins with those of
\* the slice.
LEMMA GrowMakesRoom ==
  ASSUME BufferOK, NEW n \in Nat
  PROVE  /\ Grow(n) \in Seq(Seq(Byte)) /\ Len(Grow(n)) = Len(arrays) + 1
         /\ \A k \in 1..Len(arrays) : Grow(n)[k] = arrays[k]
         /\ buf.len + n <= Len(Grow(n)[Len(arrays) + 1])
         /\ \A i \in 1..buf.len : Grow(n)[Len(arrays) + 1][i] = arrays[buf.array][i]
<1> DEFINE new == [i \in 1..NewCap(n) |-> IF i <= buf.len THEN arrays[buf.array][i] ELSE 0]
<1>1. /\ buf.len \in Nat /\ buf.array \in 1..Len(arrays) /\ arrays \in Seq(Seq(Byte))
      /\ buf.len <= Len(arrays[buf.array])
  BY DEF BufferOK, Cap
<1>2. Cap \in Nat
  BY <1>1 DEF Cap
<1>3. NewCap(n) \in Nat /\ buf.len + n <= NewCap(n)
  BY <1>1, <1>2 DEF NewCap
<1>4. \A i \in 1..NewCap(n) :
        (IF i <= buf.len THEN arrays[buf.array][i] ELSE 0) \in Byte
  <2> TAKE i \in 1..NewCap(n)
  <2>1. arrays[buf.array] \in Seq(Byte)
    BY <1>1
  <2>2. i <= buf.len => arrays[buf.array][i] \in Byte
    BY <1>1, <1>3, <2>1
  <2>3. 0 \in Byte
    BY DEF Byte
  <2> QED
    BY <2>2, <2>3
<1>5. new \in Seq(Byte) /\ Len(new) = NewCap(n)
  <2>1. new \in [1..NewCap(n) -> Byte]
    BY <1>4
  <2> QED
    BY <2>1, <1>3
<1>6. Grow(n) = Append(arrays, new)
  BY DEF Grow
<1>7. \A i \in 1..buf.len : new[i] = arrays[buf.array][i]
  BY <1>1, <1>3
<1> QED
  BY <1>1, <1>3, <1>5, <1>6, <1>7

\* What a write leaves behind: the slice it writes to lies in an array with room
\* for it, which agrees with the old slice where that has bytes.
LEMMA Written ==
  ASSUME Inv, NEW bs \in Seq(Byte), WriteBytes(bs)
  PROVE  /\ arrays' \in Seq(Seq(Byte)) /\ Len(arrays) <= Len(arrays')
         /\ buf' \in [array : 1..Len(arrays'), len : Nat]
         /\ buf'.len = buf.len + Len(bs) /\ buf'.len <= Len(arrays'[buf'.array])
         /\ \A i \in 1..buf.len : arrays'[buf'.array][i] = arrays[buf.array][i]
         /\ \A i \in buf.len + 1 .. buf'.len : arrays'[buf'.array][i] = bs[i - buf.len]
         /\ \A k \in 1..Len(arrays) :
              Len(arrays'[k]) = Len(arrays[k]) /\ (k # buf.array => arrays'[k] = arrays[k])
         /\ \A i \in 1..buf.len : arrays'[buf.array][i] = arrays[buf.array][i]
         /\ buf'.array # buf.array => buf'.array = Len(arrays) + 1
<1>1. /\ buf \in [array : 1..Len(arrays), len : Nat] /\ arrays \in Seq(Seq(Byte))
      /\ buf.len <= Len(arrays[buf.array])
  BY DEF Inv, BufferOK, Cap
<1>2. Len(bs) \in Nat /\ buf.len \in Nat /\ buf.array \in 1..Len(arrays)
  BY <1>1
<1>3. CASE HasRoomFor(Len(bs))
  <2> DEFINE new == Put(arrays[buf.array], buf.len, bs)
  <2>1. arrays' = [arrays EXCEPT ![buf.array] = new] /\ buf' = [buf EXCEPT !.len = @ + Len(bs)]
    BY <1>3 DEF WriteBytes
  <2>2. buf.len + Len(bs) <= Len(arrays[buf.array])
    BY <1>3, <1>1, <1>2 DEF HasRoomFor, Cap
  <2>3. /\ new \in Seq(Byte) /\ Len(new) = Len(arrays[buf.array])
        /\ \A i \in 1..buf.len : new[i] = arrays[buf.array][i]
        /\ \A i \in buf.len + 1 .. buf.len + Len(bs) : new[i] = bs[i - buf.len]
    BY <1>1, <1>2, <2>2, PutWrites
  <2>4. buf'.len = buf.len + Len(bs) /\ buf'.array = buf.array
        /\ buf' \in [array : 1..Len(arrays), len : Nat]
    <3> DEFINE n == buf.len + Len(bs)
    <3>1. n \in Nat
      BY <1>2
    <3>2. buf' = [buf EXCEPT !.len = n]
      BY <2>1
    <3> HIDE DEF n
    <3>3. buf'.len = n /\ buf'.array = buf.array /\ buf' \in [array : 1..Len(arrays), len : Nat]
      BY <1>1, <3>1, <3>2
    <3> QED
      BY <3>3 DEF n
  <2> HIDE DEF new
  <2>5. arrays' \in Seq(Seq(Byte)) /\ Len(arrays') = Len(arrays) /\ arrays'[buf.array] = new
        /\ \A k \in 1..Len(arrays) : k # buf.array => arrays'[k] = arrays[k]
    BY <1>1, <1>2, <2>1, <2>3
  <2> QED
    BY <1>1, <1>2, <2>2, <2>3, <2>4, <2>5
<1>4. CASE ~HasRoomFor(Len(bs))
  <2> DEFINE g == Grow(Len(bs))
             m == Len(arrays) + 1
             new == Put(g[m], buf.len, bs)
  <2>1. /\ g \in Seq(Seq(Byte)) /\ Len(g) = m
        /\ \A k \in 1..Len(arrays) : g[k] = arrays[k]
        /\ buf.len + Len(bs) <= Len(g[m])
        /\ \A i \in 1..buf.len : g[m][i] = arrays[buf.array][i]
    BY <1>2, GrowMakesRoom DEF Inv
  <2>2. /\ arrays' = [g EXCEPT ![Len(g)] = Put(@, buf.len, bs)]
        /\ buf' = [array |-> Len(g), len |-> buf.len + Len(bs)]
    BY <1>4 DEF WriteBytes
  <2>3. arrays' = [g EXCEPT ![m] = new] /\ buf' = [array |-> m, len |-> buf.len + Len(bs)]
    BY <2>1, <2>2
  <2>4. m \in 1..Len(g) /\ g[m] \in Seq(Byte)
    BY <1>1, <2>1
  <2> HIDE DEF g
  <2>5. /\ new \in Seq(Byte) /\ Len(new) = Len(g[m])
        /\ \A i \in 1..buf.len : new[i] = g[m][i]
        /\ \A i \in buf.len + 1 .. buf.len + Len(bs) : new[i] = bs[i - buf.len]
    BY <1>2, <2>1, <2>4, PutWrites
  <2> HIDE DEF new
  <2>6. arrays' \in Seq(Seq(Byte)) /\ Len(arrays') = m /\ arrays'[m] = new
        /\ \A k \in 1..Len(arrays) : arrays'[k] = arrays[k]
    BY <1>1, <2>1, <2>3, <2>4, <2>5
  <2>7. /\ buf' \in [array : 1..m, len : Nat] /\ buf'.array = m
        /\ buf'.len = buf.len + Len(bs)
    BY <1>1, <1>2, <2>3
  <2>8. \A i \in 1..buf.len : arrays'[buf.array][i] = arrays[buf.array][i]
    BY <1>2, <2>6
  <2>9. Len(arrays) <= m /\ \A k \in 1..Len(arrays) : arrays'[k] = arrays[k]
    BY <1>1, <2>6
  <2>10. buf.len + Len(bs) <= Len(new)
    BY <2>1, <2>5
  <2>11. \A i \in 1..buf.len : new[i] = arrays[buf.array][i]
    BY <2>1, <2>5
  <2> HIDE DEF m
  <2>12. /\ buf'.len <= Len(arrays'[buf'.array])
         /\ \A i \in 1..buf.len : arrays'[buf'.array][i] = arrays[buf.array][i]
         /\ \A i \in buf.len + 1 .. buf'.len : arrays'[buf'.array][i] = bs[i - buf.len]
    BY <2>5, <2>6, <2>7, <2>10, <2>11
  <2>13. arrays' \in Seq(Seq(Byte)) /\ Len(arrays) <= Len(arrays')
         /\ buf' \in [array : 1..Len(arrays'), len : Nat]
    BY <2>6, <2>7, <2>9
  <2>14. buf'.array = Len(arrays) + 1
    BY <2>7 DEF m
  <2>15. \A k \in 1..Len(arrays) :
           Len(arrays'[k]) = Len(arrays[k]) /\ (k # buf.array => arrays'[k] = arrays[k])
    BY <2>9
  <2> QED
    BY <2>7, <2>8, <2>12, <2>13, <2>14, <2>15
<1> QED
  BY <1>3, <1>4

\* A write keeps what was written and what is held.
LEMMA WriteKeeps ==
  ASSUME Inv, NEW bs \in Seq(Byte), WriteBytes(bs)
  PROVE  Inv'
<1>1. written' = written \o bs /\ held' = held
  BY DEF WriteBytes
<1>2. BufferOK
  BY DEF Inv
<1>3. /\ buf.len \in Nat /\ buf.array \in 1..Len(arrays) /\ Len(bs) \in Nat
      /\ arrays \in Seq(Seq(Byte)) /\ buf.len <= Len(arrays[buf.array])
      /\ written \in Seq(Byte)
  BY <1>2 DEF BufferOK, Cap
<1>4. /\ arrays' \in Seq(Seq(Byte)) /\ Len(arrays) <= Len(arrays')
      /\ buf' \in [array : 1..Len(arrays'), len : Nat]
      /\ buf'.len = buf.len + Len(bs) /\ buf'.len <= Len(arrays'[buf'.array])
  BY Written
<1>5. /\ \A i \in 1..buf.len : arrays'[buf'.array][i] = arrays[buf.array][i]
      /\ \A i \in buf.len + 1 .. buf'.len : arrays'[buf'.array][i] = bs[i - buf.len]
  BY Written
<1>6. /\ \A k \in 1..Len(arrays) :
           Len(arrays'[k]) = Len(arrays[k]) /\ (k # buf.array => arrays'[k] = arrays[k])
      /\ \A i \in 1..buf.len : arrays'[buf.array][i] = arrays[buf.array][i]
      /\ buf'.array # buf.array => buf'.array = Len(arrays) + 1
  BY Written
<1>7. \A h \in held : /\ h.array \in 1..Len(arrays) /\ h.len \in Nat /\ h.bytes \in Seq(Byte)
                      /\ h.len <= Len(arrays[h.array])
  BY <1>2 DEF BufferOK, Slices
<1>8. BufferOK'
  <2>1. written' \in Seq(Byte)
    BY <1>1, <1>3
  <2>2. (held \subseteq Slices)'
    <3> SUFFICES ASSUME NEW h \in held PROVE h \in Slices'
      BY <1>1
    <3>1. h \in [array : 1..Len(arrays), len : Nat, bytes : Seq(Byte)]
      BY <1>2 DEF BufferOK, Slices
    <3>2. 1..Len(arrays) \subseteq 1..Len(arrays')
      BY <1>3, <1>4
    <3> QED
      BY <3>1, <3>2 DEF Slices
  <2>3. (\A h \in held : h.len <= Len(arrays[h.array]))'
    BY <1>1, <1>6, <1>7
  <2>4. arrays' # <<>>
    BY <1>3, <1>4
  <2> QED
    BY <1>4, <2>1, <2>2, <2>3, <2>4 DEF BufferOK, Cap
<1>9. NothingIsLost'
  <2>1. Len(written) = buf.len /\ \A i \in 1..buf.len : written[i] = arrays[buf.array][i]
    <3>1. View(buf.array, buf.len) = written
      BY DEF Inv, NothingIsLost, Contents
    <3>2. Len(View(buf.array, buf.len)) = buf.len
      BY <1>2, <1>3, Views
    <3> QED
      BY <3>1, <3>2 DEF View
  <2>2. /\ written' \in Seq(Byte) /\ Len(written') = buf'.len
        /\ \A i \in 1..buf.len : written'[i] = written[i]
        /\ \A i \in buf.len + 1 .. buf'.len : written'[i] = bs[i - buf.len]
    <3>1. /\ written' \in Seq(Byte) /\ Len(written') = Len(written) + Len(bs)
          /\ \A i \in 1..Len(written) : written'[i] = written[i]
          /\ \A i \in Len(written) + 1 .. Len(written) + Len(bs) :
               written'[i] = bs[i - Len(written)]
      BY <1>1, <1>3, Concatenation
    <3>2. Len(written) = buf.len /\ buf'.len = buf.len + Len(bs)
      BY <1>4, <2>1
    <3> QED
      BY <3>1, <3>2
  <2>3. \A i \in 1..buf'.len : written'[i] = arrays'[buf'.array][i]
    <3> TAKE i \in 1..buf'.len
    <3>1. CASE i \in 1..buf.len
      BY <3>1, <1>5, <2>1, <2>2
    <3>2. CASE i \in buf.len + 1 .. buf'.len
      BY <3>2, <1>5, <2>2
    <3> QED
      BY <1>3, <1>4, <3>1, <3>2
  <2>4. written' = [i \in 1..buf'.len |-> written'[i]]
    BY <2>2
  <2>5. written' = [i \in 1..buf'.len |-> arrays'[buf'.array][i]]
    BY <2>3, <2>4
  <2> QED
    BY <2>5 DEF NothingIsLost, Contents, View
<1>10. HeldIsKept' /\ HeldIsInFront'
  <2> SUFFICES ASSUME NEW h \in held
               PROVE  /\ View(h.array, h.len)' = h.bytes
                      /\ h.array = buf'.array => h.len <= buf'.len
    BY <1>1 DEF HeldIsKept, HeldIsInFront, View
  <2>1. h.array = buf.array => h.len <= buf.len
    BY DEF Inv, HeldIsInFront
  <2>a. h.array \in 1..Len(arrays) /\ h.len \in Nat
    BY <1>7
  <2>2. \A i \in 1..h.len : arrays'[h.array][i] = arrays[h.array][i]
    <3>1. CASE h.array = buf.array
      <4>1. \A i \in 1..h.len : i \in 1..buf.len
        BY <1>3, <2>a, <2>1, <3>1
      <4> QED
        BY <1>6, <3>1, <4>1
    <3>2. CASE h.array # buf.array
      BY <1>6, <2>a, <3>2
    <3> QED
      BY <3>1, <3>2
  <2>3. View(h.array, h.len)' = View(h.array, h.len)
    BY <2>2 DEF View
  <2>4. View(h.array, h.len) = h.bytes
    BY DEF Inv, HeldIsKept
  <2>5. h.array = buf'.array => h.len <= buf'.len
    <3>1. CASE buf'.array = buf.array
      <4>1. buf.len <= buf'.len /\ buf'.len \in Nat
        BY <1>3, <1>4
      <4> QED
        BY <1>3, <2>a, <2>1, <3>1, <4>1
    <3>2. CASE buf'.array # buf.array
      <4>1. h.array # Len(arrays) + 1
        BY <1>3, <2>a
      <4> QED
        BY <1>6, <3>2, <4>1
    <3> QED
      BY <3>1, <3>2
  <2> QED
    BY <2>3, <2>4, <2>5
<1> QED
  BY <1>8, <1>9, <1>10 DEF Inv

\* A new Encoder has written nothing.
LEMMA InvInit == BufferInit => Inv
<1> SUFFICES ASSUME BufferInit PROVE Inv
  OBVIOUS
<1>1. PICK n \in Capacities : arrays = << [i \in 1..n |-> 0] >>
  BY DEF BufferInit
<1>2. n \in Nat
  BY CapacitiesAssumption
<1>3. buf = [array |-> 1, len |-> 0] /\ written = <<>> /\ held = {}
  BY DEF BufferInit
<1>4. [i \in 1..n |-> 0] \in Seq(Byte) /\ Len([i \in 1..n |-> 0]) = n
  BY <1>2 DEF Byte
<1>5. arrays \in Seq(Seq(Byte)) /\ Len(arrays) = 1 /\ Len(arrays[1]) = n
  <2> DEFINE first == [i \in 1..n |-> 0]
  <2>1. arrays = <<first>> /\ first \in Seq(Byte) /\ Len(first) = n
    BY <1>1, <1>4
  <2> HIDE DEF first
  <2> QED
    BY <2>1
<1>6. BufferOK
  <2>1. buf \in [array : 1..Len(arrays), len : Nat] /\ buf.len = 0 /\ buf.array = 1
    BY <1>3, <1>5
  <2>2. arrays # <<>>
    BY <1>5
  <2>3. Cap = n
    BY <1>5, <2>1 DEF Cap
  <2> QED
    BY <1>2, <1>3, <1>5, <2>1, <2>2, <2>3 DEF BufferOK
<1>7. NothingIsLost
  BY <1>3 DEF NothingIsLost, Contents, View
<1> QED
  BY <1>3, <1>6, <1>7 DEF Inv, HeldIsKept, HeldIsInFront

\* Reset lets go of what is held; Bytes hands out what is there.
LEMMA InvStep == Inv /\ [BufferNext]_buffer => Inv'
<1> SUFFICES ASSUME Inv, [BufferNext]_buffer PROVE Inv'
  OBVIOUS
<1>1. CASE WriteSome
  BY <1>1, WriteKeeps DEF WriteSome
<1>2. CASE ResetBuffer
  <2>1. buf' = [buf EXCEPT !.len = 0] /\ written' = <<>> /\ held' = {} /\ arrays' = arrays
    BY <1>2 DEF ResetBuffer
  <2>2. buf \in [array : 1..Len(arrays), len : Nat] /\ arrays \in Seq(Seq(Byte)) /\ arrays # <<>>
    BY DEF Inv, BufferOK
  <2>3. buf' \in [array : 1..Len(arrays), len : Nat] /\ buf'.len = 0
    BY <2>1, <2>2
  <2>4. Len(arrays[buf'.array]) \in Nat
    BY <2>2, <2>3
  <2>5. BufferOK'
    BY <2>1, <2>2, <2>3, <2>4 DEF BufferOK, Cap
  <2>6. NothingIsLost'
    BY <2>1, <2>3 DEF NothingIsLost, Contents, View
  <2> QED
    BY <2>1, <2>5, <2>6 DEF Inv, HeldIsKept, HeldIsInFront
<1>3. CASE HoldBytes
  <2> DEFINE new == [array |-> buf.array, len |-> buf.len, bytes |-> Contents]
  <2>1. held' = held \cup {new} /\ arrays' = arrays /\ buf' = buf /\ written' = written
    BY <1>3 DEF HoldBytes
  <2>2. /\ BufferOK /\ buf.len \in Nat /\ buf.array \in 1..Len(arrays)
        /\ buf.len <= Len(arrays[buf.array])
    BY DEF Inv, BufferOK, Cap
  <2>3. Contents \in Seq(Byte)
    BY <2>2, Views DEF Contents
  <2>4. new \in Slices
    BY <2>2, <2>3 DEF Slices
  <2>5. BufferOK'
    BY <2>1, <2>2, <2>4 DEF BufferOK, Slices, Cap
  <2>6. HeldIsKept'
    <3> SUFFICES ASSUME NEW h \in held' PROVE View(h.array, h.len) = h.bytes
      BY <2>1 DEF HeldIsKept, View
    <3>1. CASE h \in held
      BY <3>1 DEF Inv, HeldIsKept
    <3>2. CASE h = new
      <4>1. h.array = buf.array /\ h.len = buf.len /\ h.bytes = Contents
        BY <3>2
      <4> QED
        BY <4>1 DEF Contents
    <3> QED
      BY <2>1, <3>1, <3>2
  <2>7. HeldIsInFront'
    BY <2>1, <2>2 DEF Inv, HeldIsInFront
  <2> QED
    BY <2>1, <2>5, <2>6, <2>7 DEF Inv, NothingIsLost, Contents, View
<1>4. CASE UNCHANGED buffer
  BY <1>4 DEF buffer, Inv, BufferOK, Cap, Slices, NothingIsLost, Contents, View,
               HeldIsKept, HeldIsInFront
<1> QED
  BY <1>1, <1>2, <1>3, <1>4 DEF BufferNext

\* Inv is inductive.
LEMMA Always == BufferSpec => []Inv
  BY InvInit, InvStep, PTL DEF BufferSpec

\* The Encoder never writes outside the array it has (the type invariant).
THEOREM BufferTypes == BufferSpec => []BufferOK
<1>1. Inv => BufferOK
  BY DEF Inv
<1> QED
  BY <1>1, Always, PTL

\* However often grow moves the buffer, it holds what was written since Reset.
THEOREM NothingLost == BufferSpec => []NothingIsLost
<1>1. Inv => NothingIsLost
  BY DEF Inv
<1> QED
  BY <1>1, Always, PTL

\* What Bytes has returned stays as it is until Reset, whatever is written.
THEOREM HeldKept == BufferSpec => []HeldIsKept
<1>1. Inv => HeldIsKept
  BY DEF Inv
<1> QED
  BY <1>1, Always, PTL
=============================================================================
