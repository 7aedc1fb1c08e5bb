-------------------------- MODULE CodecPoolProofs ---------------------------
(***************************************************************************)
(* For any number of goroutines, codecs and calls: the pools never give a  *)
(* codec to two calls, and the calls implement AtomicCodec.                *)
(***************************************************************************)
EXTENDS CodecPool, SequenceTheorems, TLAPS

-----------------------------------------------------------------------------
(* The inductive invariant: what is true of goroutine g.                   *)

Using(g) == pc[g] \in {"reset", "run", "put"}

Output(g) == IF IsEncoding(g) THEN codec[g] ELSE g

\* A call that runs has put out exactly the items before the next one, none
\* of which stops it; a decoder's depth is the number of open containers.
Running(g) ==
  /\ next[g] \in 1..Len(Arg(g)) + 1
  /\ \A j \in 1..next[g] - 1 : Atomic!Flaw(call[g], j) = "nil"
  /\ mem[Output(g)] = SubSeq(Arg(g), 1, next[g] - 1)
  /\ IF IsEncoding(g) THEN mem[g] = <<>> ELSE depth[codec[g]] = level[g]

Good(g) ==
  /\ Using(g) => codec[g] \in (IF IsEncoding(g) THEN Encoders ELSE Decoders)
  /\ ~Using(g) => codec[g] = NoCodec
  /\ result[g] = g
  /\ pc[g] \notin {"run", "put"} => next[g] = 1 /\ level[g] = 0
  /\ pc[g] \in {"get", "reset"} => mem[g] = <<>>
  /\ pc[g] = "run" => Running(g)
  /\ pc[g] = "put" => Atomic!Answer(call[g], [err |-> err[g], out |-> mem[g]])

IInv == TypeOK /\ Exclusive /\ \A g \in G : Good(g)

\* Everything goroutine h reads or relies on stays as it is.
Untouched(h) ==
  /\ pc'[h] = pc[h] /\ call'[h] = call[h] /\ codec'[h] = codec[h]
  /\ next'[h] = next[h] /\ level'[h] = level[h] /\ err'[h] = err[h]
  /\ result'[h] = result[h] /\ mem'[h] = mem[h]
  /\ codec[h] \in Encoders => mem'[codec[h]] = mem[codec[h]]
  /\ codec[h] \in Decoders => depth'[codec[h]] = depth[codec[h]]

\* A goroutine another one's step does not touch is as well off as before.
LEMMA GoodStays ==
  ASSUME NEW h \in G, Good(h), Untouched(h)
  PROVE  Good(h)'
<1>1. /\ IsEncoding(h)' = IsEncoding(h) /\ Arg(h)' = Arg(h)
      /\ Using(h)' = Using(h) /\ Output(h)' = Output(h)
  BY DEF Untouched, IsEncoding, Arg, Using, Output
<1>2. pc[h] = "run" => mem'[Output(h)] = mem[Output(h)]
  BY DEF Untouched, Good, Using, Output
<1>3. pc[h] = "run" => Running(h)'
  <2> SUFFICES ASSUME pc[h] = "run" PROVE Running(h)'
    OBVIOUS
  <2>1. /\ next'[h] = next[h] /\ level'[h] = level[h] /\ call'[h] = call[h]
        /\ codec'[h] = codec[h] /\ mem'[h] = mem[h]
        /\ mem'[Output(h)] = mem[Output(h)]
    BY <1>2 DEF Untouched
  <2>2. ~IsEncoding(h) => depth'[codec[h]] = depth[codec[h]]
    BY DEF Untouched, Good, Using
  <2>3. Running(h)
    BY DEF Good
  <2>4. \A j \in 1..next[h] - 1 : Atomic!Flaw(call'[h], j) = "nil"
    BY <2>1, <2>3 DEF Running
  <2>5. QED
    BY <1>1, <2>1, <2>2, <2>3, <2>4 DEF Running
<1>4. pc[h] = "put" => Atomic!Answer(call'[h], [err |-> err'[h], out |-> mem'[h]])
  BY DEF Good, Untouched
<1>5. QED
  BY <1>1, <1>3, <1>4 DEF Good, Untouched

\* Taking one more item extends the prefix that was taken.
LEMMA PrefixGrows ==
  ASSUME NEW S, NEW s \in Seq(S), NEW n \in 1..Len(s)
  PROVE  Append(SubSeq(s, 1, n - 1), s[n]) = SubSeq(s, 1, n)
<1>1. s[n] \in S /\ Len(s) \in Nat
  BY ElementOfSeq
<1>2. \A i \in 1..n - 1 : s[i] \in S
  <2>1. \A i \in 1..n - 1 : i \in 1..Len(s)
    BY <1>1
  <2>2. QED  BY <2>1, ElementOfSeq
<1>3. SubSeq(s, 1, n - 1) \in Seq(S)
  BY <1>1, <1>2, SubSeqProperties
<1>4. SubSeq(s, 1, n) = SubSeq(s, 1, n - 1) \o <<s[n]>>
  <2>1. 1 \in 1..Len(s) /\ n \in 1..Len(s)
    BY <1>1
  <2>2. QED  BY <2>1, SubSeqRecursiveSecond
<1>5. QED  BY <1>1, <1>3, <1>4, AppendIsConcat

\* What a goroutine knows of its own call.
LEMMA CallFacts ==
  ASSUME TypeOK, NEW g \in G
  PROVE  /\ call[g] \in Atomic!Call
         /\ Arg(g) \in Seq(Atomic!Item) /\ Len(Arg(g)) \in Nat
         /\ next[g] \in Nat /\ level[g] \in Nat
         /\ \A i \in 1..Len(Arg(g)) : Arg(g)[i] \in Atomic!Item
<1>1. call[g] \in Atomic!Call
  BY DEF TypeOK
<1>2. Arg(g) \in Seq(Atomic!Item)
  BY <1>1 DEF Arg, Atomic!Call
<1>3. QED  BY <1>1, <1>2, ElementOfSeq DEF TypeOK

-----------------------------------------------------------------------------
(* Every step preserves the invariant: it touches nothing of the others,   *)
(* and leaves its own goroutine well off.                                  *)

\* What a step of goroutine g has to establish.
Kept(g) ==
  /\ TypeOK' /\ Exclusive'
  /\ \A h \in G \ {g} : Untouched(h)
  /\ Good(g)'

\* The codec a goroutine holds is nobody else's, and no goroutine's name.
LEMMA CodecFacts ==
  ASSUME IInv, NEW g \in G, Using(g)
  PROVE  /\ codec[g] \in Codecs /\ codec[g] \notin pool /\ codec[g] \notin G
         /\ codec[g] # NoCodec
         /\ IsEncoding(g) => codec[g] \in Encoders /\ codec[g] \notin Decoders
         /\ ~IsEncoding(g) => codec[g] \in Decoders /\ codec[g] \notin Encoders
         /\ \A h \in G \ {g} : codec[h] # codec[g]
<1>1. codec[g] \in (IF IsEncoding(g) THEN Encoders ELSE Decoders)
  BY DEF IInv, Good
<1>2. codec[g] \in Codecs /\ codec[g] # NoCodec /\ codec[g] \notin G
  BY <1>1, CodecsAssumption DEF Codecs
<1>3. QED  BY <1>1, <1>2, CodecsAssumption DEF IInv, Exclusive

\* One lemma for each action: a call begins, with no codec.
LEMMA BeginInv ==
  ASSUME IInv, NEW g \in G, Begin(g)
  PROVE  Kept(g)
<1> USE DEF IInv
<1>1. PICK c \in Calls : call' = [call EXCEPT ![g] = c]
  BY DEF Begin
<1>2. c \in Atomic!Call
  BY CallsAssumption DEF Atomic!CallsOK
<1>3. TypeOK'
  <2>1. <<>> \in Seq(Atomic!Item)
    OBVIOUS
  <2>2. QED  BY <1>1, <1>2, <2>1 DEF TypeOK, Begin
<1>4. Exclusive'
  BY DEF Begin, Exclusive
<1>5. ASSUME NEW h \in G \ {g} PROVE Untouched(h)
  BY CodecsAssumption, <1>1 DEF Begin, Untouched, TypeOK, Codecs
<1>6. Good(g)'
  BY DEF Begin, TypeOK, Good, Using
<1>7. QED  BY <1>3, <1>4, <1>5, <1>6 DEF Kept

\* The codec that Get returns is nobody else's.
LEMMA GetInv ==
  ASSUME IInv, NEW g \in G, Get(g)
  PROVE  Kept(g)
<1> USE DEF IInv
<1>1. PICK c \in IF IsEncoding(g) THEN Encoders ELSE Decoders :
        ~Held(c) /\ codec' = [codec EXCEPT ![g] = c] /\ pool' = pool \ {c}
  BY DEF Get
<1>2. c \in Codecs
  BY <1>1 DEF Codecs
<1>3. TypeOK'
  BY <1>1, <1>2 DEF TypeOK, Get, Go
<1>4. Exclusive'
  BY <1>1 DEF Exclusive, Held, TypeOK
<1>5. ASSUME NEW h \in G \ {g} PROVE Untouched(h)
  BY <1>1 DEF Get, Go, Untouched, TypeOK
<1>6. Good(g)'
  BY <1>1 DEF Get, Go, TypeOK, Good, Using, IsEncoding
<1>7. QED  BY <1>3, <1>4, <1>5, <1>6 DEF Kept

\* Reset makes buffer and depth those of a new codec.
LEMMA ResetInv ==
  ASSUME IInv, NEW g \in G, Reset(g)
  PROVE  Kept(g)
<1> USE DEF IInv
<1>0. Using(g)
  BY DEF Using, Reset, Go
<1>1. TypeOK'
  BY <1>0, CodecFacts DEF TypeOK, Reset, Go
<1>2. Exclusive'
  BY DEF Exclusive, Reset
<1>3. ASSUME NEW h \in G \ {g} PROVE Untouched(h)
  BY <1>0, CodecFacts DEF Reset, Go, Untouched, TypeOK
<1>4. Running(g)'
  <2>1. SubSeq(Arg(g), 1, 0) = <<>>
    BY CallFacts, SubSeqEmpty
  <2>2. next[g] = 1 /\ level[g] = 0 /\ mem[g] = <<>> /\ codec[g] \in Encoders \cup Decoders
    BY <1>0, CodecFacts DEF Reset, Go, Good, Codecs
  <2>3. IsEncoding(g)' = IsEncoding(g) /\ Arg(g)' = Arg(g) /\ Output(g)' = Output(g)
    BY DEF Reset, IsEncoding, Arg, Output
  <2>4. mem'[Output(g)] = <<>>
    BY <1>0, <2>2, CodecFacts DEF Reset, TypeOK, Output
  <2>5. IF IsEncoding(g) THEN mem'[g] = <<>> ELSE depth'[codec[g]] = level[g]
    BY <1>0, <2>2, CodecFacts DEF Reset, TypeOK
  <2>6. next[g] \in 1..Len(Arg(g)) + 1 /\ next[g] - 1 = 0
    BY <2>2, CallFacts
  <2>7. next' = next /\ level' = level /\ codec' = codec
    BY DEF Reset
  <2>8. \A j \in 1..next[g] - 1 : FALSE
    BY <2>6
  <2>9. QED  BY <2>1, <2>3, <2>4, <2>5, <2>6, <2>7, <2>8 DEF Running
<1>5. Good(g)'
  <2>1. /\ pc'[g] = "run" /\ codec' = codec /\ result' = result
        /\ IsEncoding(g)' = IsEncoding(g)
    BY DEF Reset, Go, TypeOK, IsEncoding
  <2>2. Using(g)'
    BY <2>1 DEF Using
  <2>3. codec[g] \in (IF IsEncoding(g) THEN Encoders ELSE Decoders) /\ result[g] = g
    BY <1>0 DEF Good
  <2>4. QED  BY <1>4, <2>1, <2>2, <2>3 DEF Good
<1>6. QED  BY <1>1, <1>2, <1>3, <1>5 DEF Kept

\* What a running call finds at its next item, if there is one.
LEMMA ItemFacts ==
  ASSUME TypeOK, NEW g \in G, pc[g] = "run", Running(g), next[g] <= Len(Arg(g))
  PROVE  /\ next[g] \in 1..Len(Arg(g)) /\ Current(g) \in Atomic!Item
         /\ Current(g) = call[g].arg[next[g]]
         /\ Append(SubSeq(Arg(g), 1, next[g] - 1), Current(g))
              = SubSeq(Arg(g), 1, next[g])
         /\ ~IsEncoding(g) => DepthAtItem(g) = Current(g).level
         /\ IsEncoding(g) <=> call[g].fn \notin Atomic!Decoding
<1>1. next[g] \in 1..Len(Arg(g))
  BY CallFacts DEF Running
<1>2. Current(g) \in Atomic!Item
  BY <1>1, CallFacts DEF Current
<1>3. Append(SubSeq(Arg(g), 1, next[g] - 1), Current(g)) = SubSeq(Arg(g), 1, next[g])
  BY <1>1, CallFacts, PrefixGrows DEF Current
<1>4. ASSUME ~IsEncoding(g) PROVE DepthAtItem(g) = Current(g).level
  <2>1. depth[codec[g]] = level[g] /\ level[g] \in Nat /\ Current(g).level \in Nat
    BY <1>2, <1>4, CallFacts DEF Running, Atomic!Item
  <2>2. \A a, b \in Nat : a + b - a = b
    OBVIOUS
  <2>3. QED  BY <2>1, <2>2 DEF DepthAtItem
<1>5. IsEncoding(g) <=> call[g].fn \notin Atomic!Decoding
  BY CallFacts DEF IsEncoding, Atomic!Call, Atomic!Encoding, Atomic!Decoding
<1>6. QED  BY <1>1, <1>2, <1>3, <1>4, <1>5 DEF Current, Arg

\* A call that stops at an item has the answer the item determines ...
LEMMA StopsHere ==
  ASSUME TypeOK, NEW g \in G, pc[g] = "run", Running(g), next[g] <= Len(Arg(g)),
         Atomic!Flaw(call[g], next[g]) # "nil"
  PROVE  Atomic!Answer(call[g],
           [err |-> Atomic!Flaw(call[g], next[g]), out |-> mem[g]])
<1>1. mem[g] = Atomic!Partial(call[g], next[g])
  <2>1. CASE IsEncoding(g)
    BY <2>1 DEF Running, Atomic!Partial, IsEncoding
  <2>2. CASE ~IsEncoding(g)
    BY <2>2 DEF Running, Atomic!Partial, IsEncoding, Output, Arg
  <2>3. QED  BY <2>1, <2>2
<1>2. next[g] \in 1..Len(call[g].arg)
  BY ItemFacts DEF Arg
<1>3. \A j \in 1..next[g] - 1 : Atomic!Flaw(call[g], j) = "nil"
  BY DEF Running
<1>4. QED  BY <1>1, <1>2, <1>3 DEF Atomic!Answer

\* ... and one that has run out of items has put out all of them.
LEMMA RunsOut ==
  ASSUME TypeOK, NEW g \in G, pc[g] = "run", Running(g), next[g] > Len(Arg(g))
  PROVE  /\ mem[Output(g)] = Arg(g)
         /\ Atomic!Answer(call[g], [err |-> "nil", out |-> Arg(g)])
<1>1. next[g] - 1 = Len(Arg(g))
  BY CallFacts DEF Running
<1>2. SubSeq(Arg(g), 1, Len(Arg(g))) = Arg(g)
  BY CallFacts, SubSeqFull
<1>3. mem[Output(g)] = Arg(g)
  BY <1>1, <1>2 DEF Running
<1>4. \A j \in 1..Len(call[g].arg) : Atomic!Flaw(call[g], j) = "nil"
  BY <1>1 DEF Running, Arg
<1>5. Atomic!Answer(call[g], [err |-> "nil", out |-> Arg(g)])
  BY <1>4 DEF Atomic!Answer, Arg
<1>6. QED  BY <1>3, <1>5

\* An encoder appends what its own goroutine encodes.
LEMMA EncodeItemInv ==
  ASSUME IInv, NEW g \in G, EncodeItem(g)
  PROVE  Kept(g)
<1> USE DEF IInv
<1>0. /\ Using(g) /\ IsEncoding(g) /\ Running(g) /\ pc[g] = "run"
      /\ next[g] <= Len(Arg(g))
  BY DEF Using, EncodeItem, Encodes, Good
<1>1. TypeOK'
  <2>1. Append(mem[codec[g]], Current(g)) \in Seq(Atomic!Item)
    BY <1>0, CodecFacts, ItemFacts, AppendProperties DEF TypeOK
  <2>2. next[g] + 1 \in Nat
    BY CallFacts
  <2>3. mem' \in [Encoders \cup G -> Seq(Atomic!Item)]
    BY <2>1 DEF TypeOK, EncodeItem
  <2>4. next' \in [G -> Nat]
    BY <2>2 DEF TypeOK, EncodeItem
  <2>5. QED  BY <2>3, <2>4 DEF TypeOK, EncodeItem
<1>2. Exclusive'
  BY DEF Exclusive, EncodeItem
<1>3. ASSUME NEW h \in G \ {g} PROVE Untouched(h)
  BY <1>0, CodecFacts DEF EncodeItem, Untouched, TypeOK
<1>4. Running(g)'
  <2>1. /\ IsEncoding(g)' /\ Arg(g)' = Arg(g) /\ Output(g)' = codec[g]
        /\ call'[g] = call[g]
    BY <1>0 DEF EncodeItem, IsEncoding, Arg, Output
  <2>2. next'[g] = next[g] + 1 /\ next'[g] - 1 = next[g]
    BY CallFacts DEF EncodeItem, TypeOK
  <2>3. next'[g] \in 1..Len(Arg(g)) + 1
    BY <1>0, <2>2, CallFacts
  <2>4. mem'[codec[g]] = Append(mem[codec[g]], Current(g)) /\ mem'[g] = mem[g]
    BY <1>0, CodecFacts DEF EncodeItem, TypeOK
  <2>5. mem'[codec[g]] = SubSeq(Arg(g), 1, next[g])
    BY <1>0, <2>4, ItemFacts DEF Running, Output
  <2>6. Atomic!Flaw(call[g], next[g]) = "nil"
    BY <1>0, ItemFacts DEF EncodeItem, Atomic!Flaw
  <2>7. \A j \in 1..next'[g] - 1 : j \in 1..next[g] - 1 \/ j = next[g]
    BY <2>2, CallFacts
  <2>8. \A j \in 1..next'[g] - 1 : Atomic!Flaw(call'[g], j) = "nil"
    BY <1>0, <2>1, <2>6, <2>7 DEF Running
  <2>9. mem'[g] = <<>>
    BY <1>0, <2>4 DEF Running
  <2>10. QED  BY <2>1, <2>2, <2>3, <2>5, <2>8, <2>9 DEF Running
<1>5. Good(g)'
  <2>1. Good(g) /\ IsEncoding(g)' = IsEncoding(g) /\ Using(g)' = Using(g)
        /\ pc' = pc /\ codec' = codec /\ result' = result
    BY DEF EncodeItem, IsEncoding, Using
  <2>2. QED  BY <1>0, <1>4, <2>1 DEF Good
<1>6. QED  BY <1>1, <1>2, <1>3, <1>5 DEF Kept

\* The step that ends the running of a call: what Good asks for then.
LEMMA PutIsGood ==
  ASSUME IInv, NEW g \in G, pc[g] = "run", NEW e, Finish(g, e),
         call' = call, codec' = codec, result'[g] = g,
         Atomic!Answer(call[g], [err |-> e, out |-> mem'[g]])
  PROVE  Good(g)'
<1>1. /\ pc'[g] = "put" /\ err'[g] = e /\ IsEncoding(g)' = IsEncoding(g)
  BY DEF IInv, TypeOK, Finish, Go, IsEncoding
<1>2. codec[g] \in (IF IsEncoding(g) THEN Encoders ELSE Decoders)
  BY DEF IInv, Good, Using
<1>3. QED  BY <1>1, <1>2 DEF Good, Using

\* Marshal puts the encoder back and returns the error.
LEMMA EncodeFailsInv ==
  ASSUME IInv, NEW g \in G, EncodeFails(g)
  PROVE  Kept(g)
<1> USE DEF IInv
<1>0. /\ Using(g) /\ IsEncoding(g) /\ Running(g) /\ pc[g] = "run"
      /\ next[g] <= Len(Arg(g)) /\ Finish(g, "error")
  BY DEF Using, EncodeFails, Encodes, Good
<1>1. TypeOK'
  BY DEF TypeOK, EncodeFails, Finish, Go
<1>2. Exclusive'
  BY DEF Exclusive, EncodeFails
<1>3. ASSUME NEW h \in G \ {g} PROVE Untouched(h)
  BY DEF EncodeFails, Finish, Go, Untouched, TypeOK
<1>4. Atomic!Flaw(call[g], next[g]) = "error"
  BY <1>0, ItemFacts DEF EncodeFails, Atomic!Flaw
<1>5. Atomic!Answer(call[g], [err |-> "error", out |-> mem[g]])
  BY <1>0, <1>4, StopsHere
<1>6. /\ call' = call /\ codec' = codec /\ result'[g] = g
      /\ Atomic!Answer(call[g], [err |-> "error", out |-> mem'[g]])
  BY <1>5 DEF EncodeFails, Good
<1>7. Good(g)'
  BY <1>0, <1>6, PutIsGood
<1>8. QED  BY <1>1, <1>2, <1>3, <1>7 DEF Kept

\* Marshal copies the buffer before it puts the encoder back.
LEMMA CopyInv ==
  ASSUME IInv, NEW g \in G, Copy(g)
  PROVE  Kept(g)
<1> USE DEF IInv
<1>0. /\ Using(g) /\ IsEncoding(g) /\ Running(g) /\ pc[g] = "run"
      /\ next[g] > Len(Arg(g)) /\ Finish(g, "nil")
  BY DEF Using, Copy, Encodes, Good
<1>1. TypeOK'
  BY <1>0, CodecFacts DEF TypeOK, Copy, Finish, Go
<1>2. Exclusive'
  BY DEF Exclusive, Copy
<1>3. ASSUME NEW h \in G \ {g} PROVE Untouched(h)
  BY CodecsAssumption DEF Copy, Finish, Go, Untouched, TypeOK, Codecs
<1>4. mem'[g] = Arg(g)
  BY <1>0, RunsOut DEF Copy, TypeOK, Output
<1>5. Atomic!Answer(call[g], [err |-> "nil", out |-> mem'[g]])
  BY <1>0, <1>4, RunsOut
<1>6. call' = call /\ codec' = codec /\ result'[g] = g
  BY DEF Copy, TypeOK
<1>7. Good(g)'
  BY <1>0, <1>5, <1>6, PutIsGood
<1>8. QED  BY <1>1, <1>2, <1>3, <1>7 DEF Kept

\* A decoder goes to the next item, its depth the level of that.
LEMMA DecodeItemInv ==
  ASSUME IInv, NEW g \in G, DecodeItem(g)
  PROVE  Kept(g)
<1> USE DEF IInv
<1>0. /\ Using(g) /\ ~IsEncoding(g) /\ Running(g) /\ pc[g] = "run"
      /\ next[g] <= Len(Arg(g))
  BY DEF Using, DecodeItem, Decodes, Good
<1>1. DepthAtItem(g) = Current(g).level /\ Current(g).level \in Nat
  BY <1>0, ItemFacts DEF Atomic!Item
<1>2. TypeOK'
  <2>1. Append(mem[g], Current(g)) \in Seq(Atomic!Item)
    BY <1>0, ItemFacts, AppendProperties DEF TypeOK
  <2>2. next[g] + 1 \in Nat
    BY CallFacts
  <2>3. mem' \in [Encoders \cup G -> Seq(Atomic!Item)]
    BY <2>1 DEF TypeOK, DecodeItem
  <2>4. next' \in [G -> Nat] /\ level' \in [G -> Nat] /\ depth' \in [Decoders -> Nat]
    BY <1>1, <2>2 DEF TypeOK, DecodeItem
  <2>5. QED  BY <2>3, <2>4 DEF TypeOK, DecodeItem
<1>3. Exclusive'
  BY DEF Exclusive, DecodeItem
<1>4. ASSUME NEW h \in G \ {g} PROVE Untouched(h)
  BY <1>0, CodecFacts, CodecsAssumption DEF DecodeItem, Untouched, TypeOK, Codecs
<1>5. Running(g)'
  <2>1. /\ ~IsEncoding(g)' /\ Arg(g)' = Arg(g) /\ Output(g)' = g
        /\ call'[g] = call[g] /\ codec'[g] = codec[g]
    BY <1>0 DEF DecodeItem, IsEncoding, Arg, Output
  <2>2. next'[g] = next[g] + 1 /\ next'[g] - 1 = next[g]
    BY CallFacts DEF DecodeItem, TypeOK
  <2>3. next'[g] \in 1..Len(Arg(g)) + 1
    BY <1>0, <2>2, CallFacts
  <2>4. mem'[g] = Append(mem[g], Current(g)) /\ mem[g] = SubSeq(Arg(g), 1, next[g] - 1)
    BY <1>0 DEF DecodeItem, TypeOK, Running, Output
  <2>5. mem'[g] = SubSeq(Arg(g), 1, next[g])
    BY <1>0, <2>4, ItemFacts
  <2>6. Atomic!Flaw(call[g], next[g]) = "nil"
    <3>1. Current(g).is = "ok" /\ Current(g).level <= MaxDepth
      BY <1>1 DEF DecodeItem
    <3>2. ~(Current(g).level > MaxDepth)
      BY <1>1, <3>1, MaxDepthAssumption
    <3>3. QED  BY <1>0, <3>1, <3>2, ItemFacts DEF Atomic!Flaw
  <2>7. \A j \in 1..next'[g] - 1 : j \in 1..next[g] - 1 \/ j = next[g]
    BY <2>2, CallFacts
  <2>8. \A j \in 1..next'[g] - 1 : Atomic!Flaw(call'[g], j) = "nil"
    BY <1>0, <2>1, <2>6, <2>7 DEF Running
  <2>9. depth'[codec[g]] = level'[g]
    BY <1>0, <1>1, CodecFacts DEF DecodeItem, TypeOK
  <2>10. QED  BY <2>1, <2>2, <2>3, <2>5, <2>8, <2>9 DEF Running
<1>6. Good(g)'
  <2>1. Good(g) /\ IsEncoding(g)' = IsEncoding(g) /\ Using(g)' = Using(g)
        /\ pc' = pc /\ codec' = codec /\ result' = result
    BY DEF DecodeItem, IsEncoding, Using
  <2>2. QED  BY <1>0, <1>5, <2>1 DEF Good
<1>7. QED  BY <1>2, <1>3, <1>4, <1>6 DEF Kept

\* Ending a decode takes what its open containers had added off the depth.
LEMMA DepthTakenOff ==
  ASSUME IInv, NEW g \in G, pc[g] = "run", ~IsEncoding(g)
  PROVE  depth[codec[g]] - level[g] = 0
<1>1. depth[codec[g]] = level[g] /\ level[g] \in Nat
  BY CallFacts DEF IInv, Good, Running
<1>2. \A n \in Nat : n - n = 0
  OBVIOUS
<1>3. QED  BY <1>1, <1>2

\* A decode ends with an error, its depth whatever the walk left.
LEMMA DecodeFailsInv ==
  ASSUME IInv, NEW g \in G, DecodeFails(g)
  PROVE  Kept(g)
<1> USE DEF IInv
<1>0. /\ Using(g) /\ ~IsEncoding(g) /\ Running(g) /\ pc[g] = "run"
      /\ next[g] <= Len(Arg(g))
      /\ UNCHANGED <<pool, mem, call, codec, next, level, result>>
  BY DEF Using, DecodeFails, Decodes, Good
<1>1. DepthAtItem(g) = Current(g).level /\ Current(g).level \in Nat
  BY <1>0, ItemFacts DEF Atomic!Item
<1>2. PICK e \in {"ErrMaxDepthExceeded", "error"}, n \in {0, 1} :
        /\ depth' = [depth EXCEPT ![codec[g]] = n]
        /\ Finish(g, e)
        /\ Atomic!Flaw(call[g], next[g]) = e
  <2>1. CASE DepthAtItem(g) > MaxDepth /\ Finish(g, "ErrMaxDepthExceeded")
               /\ depth' = [depth EXCEPT ![codec[g]] = @ - level[g] + 1]
    <3>1. Atomic!Flaw(call[g], next[g]) = "ErrMaxDepthExceeded"
      BY <1>0, <1>1, <2>1, ItemFacts DEF Atomic!Flaw
    <3>2. depth[codec[g]] - level[g] + 1 = 1
      BY <1>0, DepthTakenOff
    <3>3. QED  BY <2>1, <3>1, <3>2
  <2>2. CASE DepthAtItem(g) <= MaxDepth /\ Current(g).is = "bad" /\ Finish(g, "error")
               /\ depth' = [depth EXCEPT ![codec[g]] = @ - level[g]]
    <3>1. ~(Current(g).level > MaxDepth)
      BY <1>1, <2>2, MaxDepthAssumption
    <3>2. Atomic!Flaw(call[g], next[g]) = "error"
      BY <1>0, <2>2, <3>1, ItemFacts DEF Atomic!Flaw
    <3>3. depth[codec[g]] - level[g] = 0
      BY <1>0, DepthTakenOff
    <3>4. QED  BY <2>2, <3>2, <3>3
  <2>3. QED  BY <2>1, <2>2 DEF DecodeFails
<1>3. TypeOK'
  <2>1. n \in Nat
    OBVIOUS
  <2>2. depth' \in [Decoders -> Nat]
    BY <1>2, <2>1 DEF TypeOK
  <2>3. pc' \in [G -> {"start", "get", "reset", "run", "put", "returned"}]
    BY <1>2 DEF TypeOK, Finish, Go
  <2>4. err' \in [G -> {"nil", "error", "panic", "ErrMaxDepthExceeded"}]
    BY <1>2 DEF TypeOK, Finish
  <2>5. QED  BY <1>0, <2>2, <2>3, <2>4 DEF TypeOK
<1>4. Exclusive'
  BY <1>0 DEF Exclusive
<1>5. ASSUME NEW h \in G \ {g} PROVE Untouched(h)
  BY <1>0, <1>2, CodecFacts DEF Finish, Go, Untouched, TypeOK
<1>6. e # "nil"
  OBVIOUS
<1>7. Atomic!Answer(call[g], [err |-> e, out |-> mem'[g]])
  BY <1>0, <1>2, <1>6, StopsHere
<1>8. call' = call /\ codec' = codec /\ result'[g] = g
  BY <1>0 DEF Good
<1>9. Good(g)'
  BY <1>0, <1>2, <1>7, <1>8, PutIsGood
<1>10. QED  BY <1>3, <1>4, <1>5, <1>9 DEF Kept

\* A decode ends well.
LEMMA DecodeDoneInv ==
  ASSUME IInv, NEW g \in G, DecodeDone(g)
  PROVE  Kept(g)
<1> USE DEF IInv
<1>0. /\ Using(g) /\ ~IsEncoding(g) /\ Running(g) /\ pc[g] = "run"
      /\ next[g] > Len(Arg(g)) /\ Finish(g, "nil")
      /\ UNCHANGED <<pool, mem, call, codec, next, level, result>>
  BY DEF Using, DecodeDone, Decodes, Good
<1>1. depth' = [depth EXCEPT ![codec[g]] = 0]
  BY <1>0, DepthTakenOff DEF DecodeDone
<1>2. TypeOK'
  BY <1>0, <1>1 DEF TypeOK, Finish, Go
<1>3. Exclusive'
  BY <1>0 DEF Exclusive
<1>4. ASSUME NEW h \in G \ {g} PROVE Untouched(h)
  BY <1>0, <1>1, CodecFacts DEF Finish, Go, Untouched, TypeOK
<1>5. Atomic!Answer(call[g], [err |-> "nil", out |-> mem'[g]])
  BY <1>0, RunsOut DEF Output
<1>6. call' = call /\ codec' = codec /\ result'[g] = g
  BY <1>0 DEF Good
<1>7. Good(g)'
  BY <1>0, <1>5, <1>6, PutIsGood
<1>8. QED  BY <1>2, <1>3, <1>4, <1>7 DEF Kept

\* A panic leaves the call without putting the codec back.
LEMMA PanicInv ==
  ASSUME IInv, NEW g \in G, Panic(g)
  PROVE  Kept(g) /\ Atomic!Answer(call[g], [err |-> err'[g], out |-> mem'[g]])
<1> USE DEF IInv
<1>0. /\ Using(g) /\ ~IsEncoding(g) /\ Running(g) /\ pc[g] = "run"
      /\ next[g] <= Len(Arg(g))
  BY DEF Using, Panic, Decodes, Go, Good
<1>1. /\ codec[g] \in Decoders /\ mem' = mem
      /\ depth' = [depth EXCEPT ![codec[g]] = 0]
  BY <1>0, CodecFacts DEF Panic, Forget
<1>2. TypeOK'
  BY <1>1 DEF TypeOK, Panic, Go, Leave
<1>3. Exclusive'
  BY DEF Exclusive, Panic, TypeOK
<1>4. ASSUME NEW h \in G \ {g} PROVE Untouched(h)
  BY <1>0, <1>1, CodecFacts DEF Panic, Go, Leave, Untouched, TypeOK
<1>5. Good(g)'
  BY DEF Panic, Go, Leave, Good, Using, TypeOK
<1>6. Atomic!Flaw(call[g], next[g]) = "panic"
  <2>1. DepthAtItem(g) = Current(g).level /\ Current(g).level \in Nat
    BY <1>0, ItemFacts DEF Atomic!Item
  <2>2. ~(Current(g).level > MaxDepth) /\ Current(g).is = "boom"
    BY <2>1, MaxDepthAssumption DEF Panic
  <2>3. QED  BY <1>0, <2>2, ItemFacts DEF Atomic!Flaw
<1>7. err'[g] = "panic" /\ mem'[g] = mem[g]
  BY <1>1 DEF Panic, TypeOK
<1>8. Atomic!Answer(call[g], [err |-> err'[g], out |-> mem'[g]])
  BY <1>0, <1>6, <1>7, StopsHere
<1>9. QED  BY <1>2, <1>3, <1>4, <1>5, <1>8 DEF Kept

\* A codec goes back to its pool when its goroutine is done with it.
LEMMA PutInv ==
  ASSUME IInv, NEW g \in G, Put(g)
  PROVE  Kept(g)
<1> USE DEF IInv
<1>0. Using(g)
  BY DEF Using, Put, Go
<1>1. TypeOK'
  BY <1>0, CodecFacts DEF TypeOK, Put, Go, Leave
<1>2. Exclusive'
  BY <1>0, CodecFacts DEF Exclusive, Put, TypeOK
<1>3. ASSUME NEW h \in G \ {g} PROVE Untouched(h)
  BY DEF Put, Go, Leave, Untouched, TypeOK
<1>4. Good(g)'
  BY DEF Put, Go, Leave, Good, Using, TypeOK
<1>5. QED  BY <1>1, <1>2, <1>3, <1>4 DEF Kept

\* The collector takes codecs that are in no use.
LEMMA CollectInv ==
  ASSUME IInv, Collect
  PROVE  TypeOK' /\ Exclusive' /\ \A h \in G : Untouched(h)
<1> USE DEF IInv
<1>1. PICK c \in pool : pool' = pool \ {c} /\ Forget(c)
  BY DEF Collect
<1>2. c \in Codecs /\ c \notin G /\ \A h \in G : codec[h] # c
  <2>1. c \in Codecs /\ c \notin G /\ c # NoCodec
    BY CodecsAssumption DEF TypeOK
  <2>2. QED  BY <2>1 DEF Exclusive
<1>3. TypeOK'
  <2>1. <<>> \in Seq(Atomic!Item)
    OBVIOUS
  <2>2. mem' \in [Encoders \cup G -> Seq(Atomic!Item)] /\ depth' \in [Decoders -> Nat]
    BY <1>1, <2>1 DEF TypeOK, Forget
  <2>3. QED  BY <1>1, <2>2 DEF TypeOK, Collect
<1>4. Exclusive'
  BY <1>1 DEF Exclusive, Collect
<1>5. ASSUME NEW h \in G PROVE Untouched(h)
  BY <1>1, <1>2 DEF Collect, Forget, Untouched, TypeOK
<1>6. QED  BY <1>3, <1>4, <1>5

-----------------------------------------------------------------------------
(* The invariant holds, and with it what it was strengthened from.         *)

\* The invariant holds before the first call.
LEMMA InitInv == Init => IInv
<1> SUFFICES ASSUME Init PROVE IInv
  OBVIOUS
<1>1. Atomic!NoCall \in Atomic!Call
  BY DEF Atomic!NoCall, Atomic!Call, Atomic!Encoding
<1>2. <<>> \in Seq(Atomic!Item)
  OBVIOUS
<1>3. TypeOK
  BY <1>1, <1>2 DEF Init, TypeOK
<1>4. Exclusive
  BY DEF Init, Exclusive
<1>5. ASSUME NEW g \in G PROVE Good(g)
  BY <1>5 DEF Init, Good, Using
<1>6. QED  BY <1>3, <1>4, <1>5 DEF IInv

\* Every step of a goroutine keeps the invariant.
LEMMA GoroutineInv ==
  ASSUME IInv, NEW g \in G, Begin(g) \/ Step(g)
  PROVE  Kept(g)
<1>1. CASE Begin(g)        BY <1>1, BeginInv
<1>2. CASE Get(g)          BY <1>2, GetInv
<1>3. CASE Reset(g)        BY <1>3, ResetInv
<1>4. CASE EncodeItem(g)   BY <1>4, EncodeItemInv
<1>5. CASE EncodeFails(g)  BY <1>5, EncodeFailsInv
<1>6. CASE Copy(g)         BY <1>6, CopyInv
<1>7. CASE DecodeItem(g)   BY <1>7, DecodeItemInv
<1>8. CASE DecodeFails(g)  BY <1>8, DecodeFailsInv
<1>9. CASE DecodeDone(g)   BY <1>9, DecodeDoneInv
<1>10. CASE Panic(g)       BY <1>10, PanicInv
<1>11. CASE Put(g)         BY <1>11, PutInv
<1>12. QED
  BY <1>1, <1>2, <1>3, <1>4, <1>5, <1>6, <1>7, <1>8, <1>9, <1>10, <1>11 DEF Step

\* Every step keeps the invariant.
LEMMA NextInv == IInv /\ [Next]_vars => IInv'
<1> SUFFICES ASSUME IInv, [Next]_vars PROVE IInv'
  OBVIOUS
<1>1. ASSUME NEW h \in G, Untouched(h) PROVE Good(h)'
  BY <1>1, GoodStays DEF IInv
<1>2. ASSUME NEW g \in G, Begin(g) \/ Step(g) PROVE IInv'
  <2>1. Kept(g)
    BY <1>2, GoroutineInv
  <2>2. \A h \in G : Good(h)'
    BY <1>1, <2>1 DEF Kept
  <2>3. QED  BY <2>1, <2>2 DEF Kept, IInv
<1>3. CASE Collect
  BY <1>1, <1>3, CollectInv DEF IInv
<1>4. CASE UNCHANGED vars
  <2>1. TypeOK' /\ Exclusive'
    BY <1>4 DEF IInv, vars, TypeOK, Exclusive
  <2>2. ASSUME NEW h \in G PROVE Untouched(h)
    BY <1>4 DEF vars, Untouched
  <2>3. QED  BY <1>1, <2>1, <2>2 DEF IInv
<1>5. QED  BY <1>2, <1>3, <1>4 DEF Next

\* The inductive invariant holds for all goroutines, codecs and calls (encode.go:247,
\* decode_any.go:601).
THEOREM Invariance == Spec => []IInv
  BY InitInv, NextInv, PTL DEF Spec

\* The variables keep their types (Decoder.depth never goes below zero).
THEOREM TypeCorrect == Spec => []TypeOK
<1>1. IInv => TypeOK  BY DEF IInv
<1>2. QED  BY <1>1, Invariance, PTL

\* No two calls ever use one codec, and no codec in use is offered again.
THEOREM CodecsAreExclusive == Spec => []Exclusive
<1>1. IInv => Exclusive  BY DEF IInv
<1>2. QED  BY <1>1, Invariance, PTL

\* What a caller was given is not written to by the steps of others.
LEMMA NextKeeps == IInv /\ [Next]_vars => [\A g \in G : Keeps(g)]_vars
<1> SUFFICES ASSUME IInv, [Next]_vars, NEW h \in G,
                    pc[h] = "returned", pc'[h] = "returned"
             PROVE  mem'[result'[h]] = mem[result[h]]
  BY DEF Keeps
<1>1. result[h] = h
  BY DEF IInv, Good
<1>2. ASSUME Untouched(h) PROVE mem'[result'[h]] = mem[result[h]]
  BY <1>1, <1>2 DEF Untouched
<1>3. ASSUME NEW g \in G, Begin(g) \/ Step(g) PROVE g # h
  BY <1>3 DEF Begin, Step, Get, Reset, EncodeItem, EncodeFails, Copy, DecodeItem,
              DecodeFails, DecodeDone, Panic, Put, Encodes, Decodes, Go, IInv, TypeOK
<1>4. ASSUME NEW g \in G, Begin(g) \/ Step(g) PROVE Untouched(h)
  BY <1>3, <1>4, GoroutineInv DEF Kept
<1>5. CASE Collect
  BY <1>2, <1>5, CollectInv
<1>6. CASE UNCHANGED vars
  BY <1>6 DEF vars
<1>7. QED  BY <1>2, <1>4, <1>5, <1>6 DEF Next

\* No codec's next user writes to a result that was returned: "safe to retain".
THEOREM ResultsAreRetained == Spec => ResultsAreSafe
  BY NextKeeps, Invariance, PTL DEF Spec, ResultsAreSafe

-----------------------------------------------------------------------------
(* The refinement: Begin is the abstract Begin, the return that follows    *)
(* Put and the panic are the abstract Return, and the rest is not seen.    *)

Busy == {g \in G : pc[g] \notin {"start", "returned"}}
Reply == [g \in G |-> IF pc[g] = "returned"
                        THEN [err |-> err[g], out |-> mem[result[g]]]
                        ELSE [err |-> "none", out |-> <<>>]]

\* What the callers see of a goroutine does not change with its neighbours.
LEMMA ReplyStays ==
  ASSUME IInv, NEW h \in G, Untouched(h)
  PROVE  (h \in Busy' <=> h \in Busy) /\ Reply'[h] = Reply[h]
<1>1. result[h] = h
  BY DEF IInv, Good
<1>2. QED  BY <1>1 DEF Untouched, Busy, Reply

\* Initial states map to initial states.
LEMMA RefinesInit == Init => Atomic!Init
  BY DEF Init, Atomic!Init, Atomic!NoReply

\* Every step maps to a call that begins, a call that returns or no step.
LEMMA RefinesNext == IInv /\ [Next]_vars => [Atomic!Next]_Atomic!vars
<1> SUFFICES ASSUME IInv, [Next]_vars PROVE [Atomic!Next]_Atomic!vars
  OBVIOUS
<1> DEFINE Seen(g) == /\ \A h \in G \ {g} : h \in Busy' <=> h \in Busy
                      /\ \A h \in G \ {g} : Reply'[h] = Reply[h]
<1>1. ASSUME NEW g \in G, Begin(g) \/ Step(g) PROVE Seen(g) /\ Good(g)'
  BY <1>1, GoroutineInv, ReplyStays DEF Kept
<1>2. ASSUME NEW g \in G, Begin(g) PROVE Atomic!Begin(g)
  <2>1. Seen(g) /\ g \notin Busy /\ g \in Busy' /\ Reply'[g] = Atomic!NoReply
    BY <1>1, <1>2 DEF Begin, Busy, Reply, Atomic!NoReply, IInv, TypeOK
  <2>2. Busy' = Busy \cup {g}
    BY <2>1 DEF Busy
  <2>3. Reply' = [Reply EXCEPT ![g] = Atomic!NoReply]
    BY <2>1 DEF Reply
  <2>4. QED  BY <1>2, <2>1, <2>2, <2>3 DEF Atomic!Begin, Begin, Busy, Reply
<1>3. ASSUME NEW g \in G, Put(g) \/ Panic(g) PROVE Atomic!Return(g)
  <2>1. Seen(g) /\ g \in Busy /\ g \notin Busy' /\ result'[g] = g
    <3>1. Seen(g) /\ Good(g)'
      BY <1>1, <1>3 DEF Step
    <3>2. pc[g] \in {"run", "put"} /\ pc'[g] = "returned"
      BY <1>3 DEF Put, Panic, Go, IInv, TypeOK
    <3>3. QED  BY <3>1, <3>2 DEF Busy, Good
  <2>2. Reply'[g] = [err |-> err'[g], out |-> mem'[g]]
    BY <1>3, <2>1 DEF Reply, Put, Panic, Go, IInv, TypeOK
  <2>3. Atomic!Answer(call[g], Reply'[g])
    <3>1. CASE Put(g)
      BY <2>2, <3>1 DEF Put, Go, IInv, Good
    <3>2. CASE Panic(g)
      BY <2>2, <3>2, PanicInv
    <3>3. QED  BY <1>3, <3>1, <3>2
  <2>4. Busy' = Busy \ {g}
    BY <2>1 DEF Busy
  <2>5. Reply' = [Reply EXCEPT ![g] = Reply'[g]]
    BY <2>1 DEF Reply
  <2>6. call' = call
    BY <1>3 DEF Put, Panic
  <2>7. QED  BY <2>1, <2>3, <2>4, <2>5, <2>6 DEF Atomic!Return, Busy, Reply
<1>4. ASSUME NEW g \in G,
             Get(g) \/ Reset(g) \/ EncodeItem(g) \/ EncodeFails(g) \/ Copy(g)
               \/ DecodeItem(g) \/ DecodeFails(g) \/ DecodeDone(g)
      PROVE  UNCHANGED Atomic!vars
  <2>1. Seen(g)
    BY <1>1, <1>4 DEF Step
  <2>2. pc[g] \notin {"start", "returned"} /\ pc'[g] \notin {"start", "returned"}
    BY <1>4 DEF Get, Reset, EncodeItem, EncodeFails, Copy, DecodeItem, DecodeFails,
                DecodeDone, Encodes, Decodes, Finish, Go, IInv, TypeOK
  <2>3. Reply'[g] = Reply[g]
    BY <2>2 DEF Reply
  <2>4. Busy' = Busy /\ Reply' = Reply
    BY <2>1, <2>2, <2>3 DEF Busy, Reply
  <2>5. call' = call
    BY <1>4 DEF Get, Reset, EncodeItem, EncodeFails, Copy, DecodeItem, DecodeFails,
                DecodeDone
  <2>6. QED  BY <2>4, <2>5 DEF Atomic!vars, Busy, Reply
<1>5. CASE Collect
  <2>1. \A h \in G : (h \in Busy' <=> h \in Busy) /\ Reply'[h] = Reply[h]
    BY <1>5, CollectInv, ReplyStays
  <2>2. Busy' = Busy /\ Reply' = Reply
    BY <2>1 DEF Busy, Reply
  <2>3. QED  BY <1>5, <2>2 DEF Collect, Atomic!vars, Busy, Reply
<1>6. CASE UNCHANGED vars
  BY <1>6 DEF vars, Atomic!vars
<1>7. QED
  BY <1>2, <1>3, <1>4, <1>5, <1>6 DEF Next, Step, Atomic!Next

\* Every behaviour of the pooled codecs is one of calls that each ran alone.
THEOREM PooledCallsAreAtomic == Spec => ImplementsAtomicCodec
  BY RefinesInit, RefinesNext, Invariance, PTL DEF Spec, ImplementsAtomicCodec, Atomic!Spec

=============================================================================
