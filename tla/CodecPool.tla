----------------------------- MODULE CodecPool ------------------------------
(***************************************************************************)
(* Goroutines that call Marshal, MarshalTimestamp, Unmarshal,              *)
(* UnmarshalTimestamp and StructDecoder.Decode at the same time.  Each     *)
(* call takes a codec from encoderPool or decoderPool, resets it, runs,    *)
(* and puts it back; what one call leaves in a codec the next one finds.   *)
(* A statement that touches the pool, a codec or a result is a step; the   *)
(* steps of different goroutines interleave.                               *)
(***************************************************************************)
EXTENDS Naturals, Sequences

CONSTANTS
  G, Calls, MaxDepth,    \* as in AtomicCodec
  Encoders, Decoders,    \* identities for the codecs that exist at one time
  NoCodec                \* "holds no codec"

VARIABLES
  pool,       \* the codecs sync.Pool holds, of both pools
  mem,        \* contents of byte arrays: an encoder's buf, under the encoder's
              \* name; what a caller owns (result, destination), under its own
  depth,      \* Decoder.depth of each decoder
  pc,         \* where each goroutine is
  call,       \* the call it makes or made last
  codec,      \* the codec it holds
  next,       \* local: the item it reads or encodes next
  level,      \* local: the containers it has open
  err,        \* local: the error it will return
  result      \* the array its result refers to

\* The calls as their callers see them.
Atomic == INSTANCE AtomicCodec WITH
  busy  <- {g \in G : pc[g] \notin {"start", "returned"}},
  reply <- [g \in G |-> IF pc[g] = "returned"
                          THEN [err |-> err[g], out |-> mem[result[g]]]
                          ELSE [err |-> "none", out |-> <<>>]]

Codecs == Encoders \cup Decoders

ASSUME CallsAssumption == Atomic!CallsOK
ASSUME MaxDepthAssumption == MaxDepth \in Nat
ASSUME CodecsAssumption ==
  /\ Encoders \cap Decoders = {}
  /\ NoCodec \notin Codecs
  /\ G \cap Codecs = {}

vars == <<pool, mem, depth, pc, call, codec, next, level, err, result>>

IsEncoding(g) == call[g].fn \in Atomic!Encoding
Arg(g) == call[g].arg
Current(g) == Arg(g)[next[g]]

Go(g, from, to) == pc[g] = from /\ pc' = [pc EXCEPT ![g] = to]

-----------------------------------------------------------------------------
Init ==
  /\ pool = {}
  /\ mem = [a \in Encoders \cup G |-> <<>>]
  /\ depth = [d \in Decoders |-> 0]
  /\ pc = [g \in G |-> "start"]
  /\ call = [g \in G |-> Atomic!NoCall]
  /\ codec = [g \in G |-> NoCodec]
  /\ next = [g \in G |-> 1]
  /\ level = [g \in G |-> 0]
  /\ err = [g \in G |-> "nil"]
  /\ result = [g \in G |-> g]

\* A goroutine calls: with a new destination, if it decodes.
Begin(g) ==
  /\ pc[g] \in {"start", "returned"}
  /\ pc' = [pc EXCEPT ![g] = "get"]
  /\ \E c \in Calls : call' = [call EXCEPT ![g] = c]
  /\ mem' = [mem EXCEPT ![g] = <<>>]
  /\ result' = [result EXCEPT ![g] = g]
  /\ err' = [err EXCEPT ![g] = "nil"]
  /\ UNCHANGED <<pool, depth, codec, next, level>>

\* Codec c is garbage: the next codec of that name is a new one.
Forget(c) ==
  /\ mem' = IF c \in Encoders THEN [mem EXCEPT ![c] = <<>>] ELSE mem
  /\ depth' = IF c \in Decoders THEN [depth EXCEPT ![c] = 0] ELSE depth

\* The locals of the function that returns are gone.
Leave(g) ==
  /\ next' = [next EXCEPT ![g] = 1]
  /\ level' = [level EXCEPT ![g] = 0]

\* Some goroutine holds codec c.
Held(c) == \E g \in G : codec[g] = c

\* Mutant of Get: no New, a call waits for a codec that was put back.
Get_Waits(g) ==
  /\ Go(g, "get", "reset")
  /\ \E c \in pool \cap (IF IsEncoding(g) THEN Encoders ELSE Decoders) :
       codec' = [codec EXCEPT ![g] = c] /\ pool' = pool \ {c}
  /\ UNCHANGED <<mem, depth, call, next, level, err, result>>

\* pool.Get: any codec the pool holds, or one made by New, which takes a name
\* that neither the pool nor a goroutine uses.
Get(g) ==
  /\ Go(g, "get", "reset")
  /\ \E c \in IF IsEncoding(g) THEN Encoders ELSE Decoders :
       /\ ~Held(c)
       /\ codec' = [codec EXCEPT ![g] = c]
       /\ pool' = pool \ {c}
  /\ UNCHANGED <<mem, depth, call, next, level, err, result>>

\* Mutant of Reset: the depth of the last call is kept.
Reset_KeepsDepth(g) ==
  /\ Go(g, "reset", "run")
  /\ mem' = IF IsEncoding(g) THEN [mem EXCEPT ![codec[g]] = <<>>] ELSE mem
  /\ UNCHANGED <<pool, depth, call, codec, next, level, err, result>>

\* e.Reset() or d.Reset(data)
Reset(g) ==
  /\ Go(g, "reset", "run")
  /\ mem' = IF IsEncoding(g) THEN [mem EXCEPT ![codec[g]] = <<>>] ELSE mem
  /\ depth' = IF IsEncoding(g) THEN depth ELSE [depth EXCEPT ![codec[g]] = 0]
  /\ UNCHANGED <<pool, call, codec, next, level, err, result>>

Encodes(g) == pc[g] = "run" /\ IsEncoding(g)
Decodes(g) == pc[g] = "run" /\ ~IsEncoding(g)

\* The rest of the call is Put and return.
Finish(g, e) ==
  /\ Go(g, "run", "put")
  /\ err' = [err EXCEPT ![g] = e]

\* Encode appends the next part of the value to the buffer ...
EncodeItem(g) ==
  /\ Encodes(g)
  /\ next[g] <= Len(Arg(g)) /\ Current(g).is = "ok"
  /\ mem' = [mem EXCEPT ![codec[g]] = Append(@, Current(g))]
  /\ next' = [next EXCEPT ![g] = @ + 1]
  /\ UNCHANGED <<pool, depth, pc, call, codec, level, err, result>>

\* Mutant of EncodeFails: Put on the error path and again on the way out.
EncodeFails_PutsTwice(g) ==
  /\ Encodes(g)
  /\ next[g] <= Len(Arg(g)) /\ Current(g).is = "bad"
  /\ pool' = pool \cup {codec[g]}
  /\ Finish(g, "error")
  /\ UNCHANGED <<mem, depth, call, codec, next, level, result>>

\* ... or returns an error, and what it wrote stays in the buffer.
EncodeFails(g) ==
  /\ Encodes(g)
  /\ next[g] <= Len(Arg(g)) /\ Current(g).is = "bad"
  /\ Finish(g, "error")
  /\ UNCHANGED <<pool, mem, depth, call, codec, next, level, result>>

\* Mutant of Copy: the encoder's own buffer is returned.
Copy_Aliases(g) ==
  /\ Encodes(g)
  /\ next[g] > Len(Arg(g))
  /\ result' = [result EXCEPT ![g] = codec[g]]
  /\ Finish(g, "nil")
  /\ UNCHANGED <<pool, mem, depth, call, codec, next, level>>

\* result := make(...); copy(result, e.buf)
Copy(g) ==
  /\ Encodes(g)
  /\ next[g] > Len(Arg(g))
  /\ mem' = [mem EXCEPT ![g] = mem[codec[g]]]
  /\ result' = [result EXCEPT ![g] = g]
  /\ Finish(g, "nil")
  /\ UNCHANGED <<pool, depth, call, codec, next, level>>

\* The depth at which the decoder finds its next item.
DepthAtItem(g) == depth[codec[g]] + Current(g).level - level[g]

\* The decoder reads its next item, entering and leaving the containers
\* between the last one and this, and stores it in the destination.
DecodeItem(g) ==
  /\ Decodes(g)
  /\ next[g] <= Len(Arg(g)) /\ Current(g).is = "ok"
  /\ DepthAtItem(g) <= MaxDepth
  /\ depth' = [depth EXCEPT ![codec[g]] = DepthAtItem(g)]
  /\ level' = [level EXCEPT ![g] = Current(g).level]
  /\ mem' = [mem EXCEPT ![g] = Append(@, Current(g))]
  /\ next' = [next EXCEPT ![g] = @ + 1]
  /\ UNCHANGED <<pool, pc, call, codec, err, result>>

\* An error returns through the open containers; enterContainer's own leaves
\* one count behind (Decoder, DepthRestored).
DecodeFails(g) ==
  /\ Decodes(g)
  /\ next[g] <= Len(Arg(g))
  /\ \/ /\ DepthAtItem(g) > MaxDepth
        /\ depth' = [depth EXCEPT ![codec[g]] = @ - level[g] + 1]
        /\ Finish(g, "ErrMaxDepthExceeded")
     \/ /\ DepthAtItem(g) <= MaxDepth /\ Current(g).is = "bad"
        /\ depth' = [depth EXCEPT ![codec[g]] = @ - level[g]]
        /\ Finish(g, "error")
  /\ UNCHANGED <<pool, mem, call, codec, next, level, result>>

\* Mutant of DecodeDone: leaveContainer deferred and called as well.
DecodeDone_LeavesTwice(g) ==
  /\ Decodes(g)
  /\ next[g] > Len(Arg(g))
  /\ depth' = [depth EXCEPT ![codec[g]] = @ - 2 * level[g]]
  /\ Finish(g, "nil")
  /\ UNCHANGED <<pool, mem, call, codec, next, level, result>>

DecodeDone(g) ==
  /\ Decodes(g)
  /\ next[g] > Len(Arg(g))
  /\ depth' = [depth EXCEPT ![codec[g]] = @ - level[g]]
  /\ Finish(g, "nil")
  /\ UNCHANGED <<pool, mem, call, codec, next, level, result>>

\* A panic leaves the function without Put (there is no defer): the decoder
\* is garbage, the caller may recover.
Panic(g) ==
  /\ Go(g, "run", "returned")
  /\ Decodes(g)
  /\ next[g] <= Len(Arg(g)) /\ Current(g).is = "boom"
  /\ DepthAtItem(g) <= MaxDepth
  /\ codec' = [codec EXCEPT ![g] = NoCodec]
  /\ err' = [err EXCEPT ![g] = "panic"]
  /\ Forget(codec[g])
  /\ Leave(g)
  /\ UNCHANGED <<pool, call, result>>

\* pool.Put(codec), and the return that follows it.
Put(g) ==
  /\ Go(g, "put", "returned")
  /\ pool' = pool \cup {codec[g]}
  /\ codec' = [codec EXCEPT ![g] = NoCodec]
  /\ Leave(g)
  /\ UNCHANGED <<mem, depth, call, err, result>>

\* The garbage collector empties pools when it likes.
Collect ==
  /\ \E c \in pool : pool' = pool \ {c} /\ Forget(c)
  /\ UNCHANGED <<pc, call, codec, next, level, err, result>>

Step(g) == \/ Get(g) \/ Reset(g) \/ EncodeItem(g) \/ EncodeFails(g) \/ Copy(g)
           \/ DecodeItem(g) \/ DecodeFails(g) \/ DecodeDone(g) \/ Panic(g) \/ Put(g)

Next == \/ \E g \in G : Begin(g) \/ Step(g)
        \/ Collect

\* The scheduler runs every goroutine; nothing in a call blocks.
Spec == Init /\ [][Next]_vars /\ \A g \in G : WF_vars(Step(g))

-----------------------------------------------------------------------------
(* Properties.                                                             *)

\* The type invariant.
TypeOK ==
  /\ pool \subseteq Codecs
  /\ mem \in [Encoders \cup G -> Seq(Atomic!Item)]
  /\ depth \in [Decoders -> Nat]
  /\ pc \in [G -> {"start", "get", "reset", "run", "put", "returned"}]
  /\ call \in [G -> Atomic!Call]
  /\ codec \in [G -> Codecs \cup {NoCodec}]
  /\ next \in [G -> Nat] /\ level \in [G -> Nat]
  /\ err \in [G -> {"nil", "error", "panic", "ErrMaxDepthExceeded"}]
  /\ result \in [G -> Encoders \cup G]

\* A codec a call is using is used by that call alone: no other goroutine
\* holds it and no pool offers it.  (The encoders and decoders have no lock.)
Exclusive ==
  \A g \in G : codec[g] # NoCodec =>
    /\ codec[g] \notin pool
    /\ \A h \in G : codec[h] = codec[g] => h = g

\* "The returned bytes are a copy and safe to retain": from the moment a call
\* has returned, no step of another call, on whatever codec, writes to what its
\* caller holds, until the caller itself calls again.
Keeps(g) ==
  pc[g] = "returned" /\ pc'[g] = "returned" => mem'[result'[g]] = mem[result[g]]
ResultsAreSafe == [][\A g \in G : Keeps(g)]_vars

\* The calls behave as if each ran alone, on a codec of its own: every answer
\* is the one the argument determines, and it stays what it was when it was
\* returned while other calls reuse the codec.
ImplementsAtomicCodec == Atomic!Spec

\* Every call returns (or panics).
CallsReturn == \A g \in G : pc[g] = "get" ~> pc[g] = "returned"
=============================================================================
