----------------------------- MODULE MCDecoder ------------------------------
(***************************************************************************)
(* Decoder on a bounded set of buffers, compared with Grammar.             *)
(***************************************************************************)
EXTENDS Decoder, TLC

-----------------------------------------------------------------------------
(* Buffers.  Every sequence of up to three bytes over one or two           *)
(* representatives of every kind of format byte, every one of four bytes   *)
(* over the bytes that build maps and arrays, and longer ones.             *)

Tuples(S, n) == [1..n -> S]

\* fixints 0 and 1, fixmap 1, fixarray 1 and 2, fixstr 0 and 1, nil, never
\* used, bin8, ext8, uint8, fixext1, str8
Kinds == {0, 1, 129, 145, 146, 160, 161, 192, 193, 196, 199, 204, 212, 217}

Short == UNION {Tuples(Kinds, n) : n \in 0..3}
Nests == Tuples({1, 129, 145, 146, 161, 193}, 4)

Long ==
  { <<147, 1, 1, 1>>,                   \* array of 3: over MaxArrayLen
    <<130, 161, 1, 1, 161, 2, 1>>,      \* map of 2: over MaxMapLen
    <<163, 1, 1, 1>>, <<217, 3, 1, 1, 1>>, <<218, 0, 3, 1, 1, 1>>,
    <<219, 0, 0, 0, 2, 1, 1>>,          \* str32
    <<196, 2, 1, 1>>, <<197, 0, 1, 1>>, <<198, 0, 0, 0, 1, 1>>,
    <<213, 1, 1, 1>>, <<214, 1, 1, 1, 1, 1>>, <<200, 0, 1, 1, 1>>,
    <<201, 0, 0, 0, 1, 1, 1>>, <<199, 1, 5, 1>>, <<199, 1, 5>>,
    <<220, 0, 2, 1, 192>>, <<220, 0, 2, 1>>, <<220, 1, 0, 1>>,
    <<221, 0, 0, 0, 1, 145, 1>>, <<222, 0, 1, 161, 7, 1>>,
    <<223, 0, 0, 0, 1, 1, 1>>, <<222, 0, 1, 145, 161, 7, 1>>,
    <<205, 1, 1>>, <<206, 1, 1, 1, 1>>, <<203, 1, 1, 1, 1, 1, 1, 1>>,
    <<207, 1, 1, 1, 1, 1, 1, 1, 1>>, <<202, 1, 1, 1>>,
    <<145, 145, 145, 1>>,               \* three deep: over MaxDepth
    <<145, 145, 145, 145, 145, 1>>,     \* its rear is only two deep
    <<129, 161, 1, 129, 161, 2, 145, 1>>,
    <<146, 145, 1, 145, 192, 145, 1>>, <<129, 145, 145, 1, 1>>,
    <<145, 145, 144>>, <<129, 129, 1, 1, 1>>, <<129, 161, 7, 212, 1, 1>>,
    <<215, 1, 1>>, <<216, 1>>, <<208, 1, 209, 1, 1, 210, 1, 1, 1, 1>>,
    <<211, 1, 1, 1, 1, 1, 1, 1, 1, 194, 195>>, <<255, 128, 144>> }

MCMessages == Short \cup Nests \cup Long
MCResetMessages == {<<145, 145, 1>>, <<129, 161, 1, 1>>, <<>>}
MCLongMessages == Long \cup Nests \cup MCResetMessages

\* The items of the values that begin at p, n of which are due: the rows of Rows,
\* followed for as long as they go on.
RECURSIVE RowFrom(_, _, _)
RowFrom(d, p, n) ==
  <<[at |-> p, due |-> n]>> \o
    IF n > 0 /\ IsItem(d, p) THEN RowFrom(d, ItemEnd(d, p), n - 1 + ValuesIn(d, p)) ELSE <<>>

\* A value read as a row of items is the value that Grammar reads as a tree: they
\* end together, have the same lengths and keys in them and nest as deeply.
ASSUME RowsAreTheGrammar ==
  \A d \in Messages :
    LET v   == G!ValueAt(d, 0)
        r   == RowFrom(d, 0, 1)
        k   == Len(r) - 1
        at  == [i \in 0..k |-> r[i+1].at]
        due == [i \in 0..k |-> r[i+1].due]
        Len0(i) == IF KindAt(d, at[i]) = "scalar" THEN ScalarWidth(d[at[i]+1])
                   ELSE LenAt(d, at[i])
        Nest(i) == Cardinality(Around(due, i))
                   + IF KindAt(d, at[i]) \in {"array", "map"} THEN 1 ELSE 0
    IN  /\ IsRow(d, k, at, due)
        /\ v.ok = (due[k] = 0)
        /\ v.ok => /\ v.end = at[k]
                   /\ v.items = {[kind |-> KindAt(d, at[i]), len |-> Len0(i),
                                  key |-> IsKey(d, at, due, i)] : i \in 0..k-1}
                   /\ \A i \in 0..k-1 : Nest(i) <= v.nest
                   /\ v.nest = 0 \/ \E i \in 0..k-1 : Nest(i) = v.nest

-----------------------------------------------------------------------------
(* What the documentation says.                                            *)

\* Of MaxDepth ("the maximum allowed nesting depth for arrays and maps"): a value
\* nested deeper is not decoded.
NestingLimitEnforced == status = "ok" => Doc.nest <= MaxDepth

\* Of ErrMaxDepthExceeded ("returned when nesting exceeds MaxDepth"): a value nested
\* no deeper is not refused for it.
NestingErrorIsTrue == status = "ErrMaxDepthExceeded" => Doc.nest > MaxDepth
=============================================================================
