------------------------------ MODULE Grammar -------------------------------
(***************************************************************************)
(* The MessagePack format, stated from the table of the format's own       *)
(* specification (format.go names it) and apart from Wire and Decoder: a   *)
(* recursive-descent definition of what is written at an offset of a       *)
(* buffer.  It has no decoder state, no limits and no error precedence; it *)
(* is what the walks of Decoder are compared with.                         *)
(***************************************************************************)
EXTENDS Integers, Sequences

\* The rows of the table: first bytes lo..hi; the item's kind; the width of its
\* length field, the length being first - lo when there is none; and "fixed",
\* bytes that follow beside those the length counts.
Rows ==
  { <<0, 127, "scalar", 0, 0>>,      <<224, 255, "scalar", 0, 0>>,
    <<128, 143, "map", 0, 0>>,       <<222, 222, "map", 2, 0>>,
    <<223, 223, "map", 4, 0>>,       <<144, 159, "array", 0, 0>>,
    <<220, 220, "array", 2, 0>>,     <<221, 221, "array", 4, 0>>,
    <<160, 191, "str", 0, 0>>,       <<217, 217, "str", 1, 0>>,
    <<218, 218, "str", 2, 0>>,       <<219, 219, "str", 4, 0>>,
    <<196, 196, "bin", 1, 0>>,       <<197, 197, "bin", 2, 0>>,
    <<198, 198, "bin", 4, 0>>,       <<199, 199, "ext", 1, 1>>,
    <<200, 200, "ext", 2, 1>>,       <<201, 201, "ext", 4, 1>>,
    <<212, 212, "ext", 0, 2>>,       <<213, 213, "ext", 0, 3>>,
    <<214, 214, "ext", 0, 5>>,       <<215, 215, "ext", 0, 9>>,
    <<216, 216, "ext", 0, 17>>,      <<192, 192, "scalar", 0, 0>>,
    <<194, 195, "scalar", 0, 0>>,    <<204, 204, "scalar", 0, 1>>,
    <<205, 205, "scalar", 0, 2>>,    <<206, 206, "scalar", 0, 4>>,
    <<207, 207, "scalar", 0, 8>>,    <<208, 208, "scalar", 0, 1>>,
    <<209, 209, "scalar", 0, 2>>,    <<210, 210, "scalar", 0, 4>>,
    <<211, 211, "scalar", 0, 8>>,    <<202, 202, "scalar", 0, 4>>,
    <<203, 203, "scalar", 0, 8>> }

Table == {[lo |-> r[1], hi |-> r[2], kind |-> r[3], width |-> r[4], fixed |-> r[5]] : r \in Rows}

RowOf(first) == CHOOSE r \in Table : first \in r.lo..r.hi

LargerOf(m, n) == IF m > n THEN m ELSE n

\* The number that the w bytes behind offset q are.
Big(d, q, w) == LET n[i \in 0..w] == IF i = 0 THEN 0 ELSE 256 * n[i-1] + d[q+i] IN n[w]

\* The header at offset q: its format byte, the kind of item, where the header
\* ends, the length, and where an item ends that is no container.
HeaderBy(row, d, q) ==
  LET len == IF row.kind = "scalar" THEN row.fixed
             ELSE IF row.width > 0 THEN Big(d, q + 1, row.width)
             ELSE IF row.kind = "ext" THEN row.fixed - 1
             ELSE d[q+1] - row.lo
  IN  [first |-> d[q+1], kind |-> row.kind, rear |-> q + 1 + row.width, len |-> len,
       end |-> q + 1 + row.width + len + (IF row.kind = "ext" THEN 1 ELSE 0)]
HeaderAt(d, q) == HeaderBy(RowOf(d[q+1]), d, q)

\* How many values a container has.
Values(h) == CASE h.kind = "array" -> h.len [] h.kind = "map" -> 2 * h.len [] OTHER -> 0

\* Where values are to be read: at an offset, so many in a row, which are the keys
\* and values of a map or not.
Places == [at : Nat, due : Nat, pairs : BOOLEAN]
Place(q, k, pairs) == [at |-> q, due |-> k, pairs |-> pairs]

\* One item of a value, the first at x; it is a key if an even number is due.
Item(kind, len, x) == [kind |-> kind, len |-> len, key |-> x.pairs /\ x.due % 2 = 0]

\* What is found where something is missing or malformed.
Broken(items) == [ok |-> FALSE, end |-> 0, nest |-> 0, items |-> items]

\* A container with "item" for its header, and "inner" read in it.
Container(item, inner) == [ok |-> inner.ok, end |-> inner.end,
                           nest |-> inner.nest + 1, items |-> inner.items \cup {item}]

\* x was read, then y behind it.
Both(x, y) == [ok |-> x.ok /\ y.ok, end |-> y.end,
               nest |-> LargerOf(x.nest, y.nest), items |-> x.items \cup y.items]

\* The first value at x, the header of which is there; f reads what is behind it.
First(d, f, x) ==
  LET h    == HeaderAt(d, x.at)
      item == Item(h.kind, h.len, x)
  IN  IF h.kind \in {"array", "map"}
        THEN Container(item, f[Place(h.rear, Values(h), h.kind = "map")])
      ELSE IF h.end > Len(d) THEN Broken({item})
      ELSE [ok |-> TRUE, end |-> h.end, nest |-> 0, items |-> {item}]

\* The values at x, where f reads what is behind the first header.  The result: are
\* they all there and well formed, where does the last one end, how deeply do they
\* nest and which items do they consist of.  When ok is FALSE, nest and items cover
\* what comes before the flaw.
Read(d, f, x) ==
  IF x.due = 0 THEN [ok |-> TRUE, end |-> x.at, nest |-> 0, items |-> {}]
  ELSE IF x.at >= Len(d) THEN Broken({})
  ELSE IF d[x.at+1] = 193 THEN Broken({Item("invalid", 0, x)})
  ELSE IF x.at + 1 + RowOf(d[x.at+1]).width > Len(d)
    THEN Broken({Item(RowOf(d[x.at+1]).kind, 0, x)})
  ELSE LET first == First(d, f, x)
       IN  IF ~first.ok THEN first
           ELSE Both(first, f[Place(first.end, x.due - 1, x.pairs)])

Parsed(d) == LET p[x \in Places] == Read(d, p, x) IN p
Parse(d, q, k, pairs) == Parsed(d)[Place(q, k, pairs)]

\* The one value at offset q.
ValueAt(d, q) == Parse(d, q, 1, FALSE)
=============================================================================
