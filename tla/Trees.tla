-------------------------------- MODULE Trees --------------------------------
(***************************************************************************)
(* A well-formed message as a tree, read off the buffer by Grammar.  It is *)
(* what decoded and encoded values are compared with, type by type.        *)
(***************************************************************************)
EXTENDS Grammar

\* The value at offset q, which is well formed, as a tree: its format byte, kind
\* and length, its bytes with and without the header, the values in it and where
\* it ends.
RECURSIVE Tree(_, _)
Tree(d, q) ==
  LET h == HeaderAt(d, q)
      n == Values(h)
      kid[i \in 0..n] == IF i = 0 THEN [end |-> h.rear] ELSE Tree(d, kid[i-1].end)
      end == IF h.kind \in {"array", "map"} THEN kid[n].end ELSE h.end
  IN  [first |-> h.first, kind |-> h.kind, len |-> h.len, end |-> end,
       bytes |-> SubSeq(d, q + 1, end), text |-> SubSeq(d, h.rear + 1, end),
       kids  |-> [i \in 1..n |-> kid[i]]]

\* Is it nil; the i-th pair of a map.
IsNil(v) == v.first = 192
KeyOf(v, i)  == v.kids[2 * i - 1]
ItemOf(v, i) == v.kids[2 * i]
=============================================================================
