---------------------------- MODULE AtomicCodec -----------------------------
(***************************************************************************)
(* What the package-level functions that borrow a pooled codec promise:    *)
(* Marshal, MarshalTimestamp, Unmarshal, UnmarshalTimestamp and            *)
(* StructDecoder.Decode.  A goroutine makes a call and the call returns    *)
(* the answer its argument determines; no goroutine, no earlier call and   *)
(* no pool shows through, and an answer once returned never changes.       *)
(*                                                                         *)
(* A call's argument is a sequence of items: the parts of the Go value in  *)
(* the order Encode visits them, or the parts of the message in the order  *)
(* the decoder reads them.  An item has a nesting level (the containers    *)
(* around it that enterContainer counts) and is "ok", "bad" (the codec     *)
(* returns an error at it) or "boom" (reflection panics at it:             *)
(* decodeNestedMap on a value it cannot assign, decodeMapReflect on a key  *)
(* that cannot be hashed).                                                 *)
(***************************************************************************)
EXTENDS Naturals, Sequences

CONSTANTS
  G,          \* the goroutines
  Calls,      \* the calls they may make
  MaxDepth    \* DefaultMaxDepth: pooled decoders keep the default Config

Encoding == {"Marshal", "MarshalTimestamp"}
Decoding == {"Unmarshal", "UnmarshalTimestamp", "Decode"}
Item == [level : Nat, is : {"ok", "bad", "boom"}]
Call == [fn : Encoding \cup Decoding, arg : Seq(Item)]

\* What the calls may ask for: EncodeTimestamp has no error to return, and
\* only the calls that store through reflection reach code that panics.
CallsOK ==
  /\ Calls \subseteq Call
  /\ \A c \in Calls : c.fn = "MarshalTimestamp" =>
       \A i \in 1..Len(c.arg) : c.arg[i].is = "ok"
  /\ \A c \in Calls : c.fn \notin {"Unmarshal", "Decode"} =>
       \A i \in 1..Len(c.arg) : c.arg[i].is # "boom"

VARIABLES
  busy,     \* the goroutines that are inside a call
  call,     \* call[g]: the call g makes or made last
  reply     \* reply[g]: what it returned, NoReply before

NoCall  == [fn |-> "Marshal", arg |-> <<>>]
NoReply == [err |-> "none", out |-> <<>>]

\* What stops a call at item i, "nil" when nothing does.
Flaw(c, i) ==
  IF c.fn \in Decoding /\ c.arg[i].level > MaxDepth THEN "ErrMaxDepthExceeded"
  ELSE IF c.arg[i].is = "bad"  THEN "error"
  ELSE IF c.arg[i].is = "boom" THEN "panic"
  ELSE "nil"

\* The items a call has put into its output when it stops before item i:
\* Marshal returns no bytes with an error, a decoder leaves in the caller's
\* destination what it had stored there.
Partial(c, i) == IF c.fn \in Encoding THEN <<>> ELSE SubSeq(c.arg, 1, i - 1)

Answer(c, r) ==
  \/ /\ \A i \in 1..Len(c.arg) : Flaw(c, i) = "nil"
     /\ r = [err |-> "nil", out |-> c.arg]
  \/ \E i \in 1..Len(c.arg) :
       /\ Flaw(c, i) # "nil"
       /\ \A j \in 1..i-1 : Flaw(c, j) = "nil"
       /\ r = [err |-> Flaw(c, i), out |-> Partial(c, i)]

Init ==
  /\ busy = {}
  /\ call = [g \in G |-> NoCall]
  /\ reply = [g \in G |-> NoReply]

Begin(g) ==
  /\ g \notin busy
  /\ busy' = busy \cup {g}
  /\ \E c \in Calls : call' = [call EXCEPT ![g] = c]
  /\ reply' = [reply EXCEPT ![g] = NoReply]

Return(g) ==
  /\ g \in busy
  /\ busy' = busy \ {g}
  /\ UNCHANGED call
  /\ reply' = [reply EXCEPT ![g] = reply'[g]]
  /\ Answer(call[g], reply'[g])

Next == \E g \in G : Begin(g) \/ Return(g)

vars == <<busy, call, reply>>

Spec == Init /\ [][Next]_vars
=============================================================================
