-------------------------------- MODULE Rows --------------------------------
(***************************************************************************)
(* The MessagePack format, read from left to right: a value is a row of    *)
(* items, each of which says where the next one begins and how many values *)
(* are in it.  Counting the values that are still due tells where the      *)
(* value ends.  There is no stack here and no recursion, so that proofs    *)
(* can speak of whole messages; what a single item says is taken from      *)
(* Wire, which Grammar is compared with.                                   *)
(***************************************************************************)
EXTENDS Wire

\* The reference that rows and walks are compared with.
G == INSTANCE Grammar

KindAt(d, p)    == Kind(d[p+1])
LenAt(d, p)     == ItemLen(d, p, d[p+1])
HeaderEnd(d, p) == p + 1 + LenWidth(d[p+1])

\* How many values are in the item at p.
ValuesIn(d, p) ==
  IF KindAt(d, p) = "array" THEN LenAt(d, p)
  ELSE IF KindAt(d, p) = "map" THEN 2 * LenAt(d, p)
  ELSE 0

\* Where the next item begins: behind the header of a container, behind the
\* payload of anything else.
ItemEnd(d, p) ==
  IF KindAt(d, p) = "scalar" THEN p + 1 + ScalarWidth(d[p+1])
  ELSE HeaderEnd(d, p) + (IF KindAt(d, p) \in {"str", "bin"} THEN LenAt(d, p)
                          ELSE IF KindAt(d, p) = "ext" THEN 1 + LenAt(d, p)
                          ELSE 0)

\* There is an item at p, and all of it.
HasHeader(d, p) == p < Len(d) /\ (KindAt(d, p) = "scalar" \/ HeaderEnd(d, p) <= Len(d))
IsItem(d, p) == HasHeader(d, p) /\ KindAt(d, p) # "invalid" /\ ItemEnd(d, p) <= Len(d)

\* k items in a row, the i-th (from 0) at at[i], where due[i] values are still to
\* come; behind them, at at[k], it is due[k].
IsRow(d, k, at, due) ==
  /\ at \in [0..k -> Nat] /\ due \in [0..k -> Nat]
  /\ due[0] = 1
  /\ \A i \in 0..k-1 :
       /\ IsItem(d, at[i]) /\ due[i] > 0
       /\ at[i+1] = ItemEnd(d, at[i])
       /\ due[i+1] = due[i] - 1 + ValuesIn(d, at[i])

\* The containers of a row that its i-th item is in: those since which it has never
\* been due less than what was due in front of them.
Around(due, i) == {j \in 0..i-1 : \A l \in j+1..i : due[l] >= due[j]}

\* The i-th item is the key of a pair: of the innermost container, which is a map,
\* keys and values are still due.
IsKey(d, at, due, i) ==
  \E j \in Around(due, i) :
    /\ \A l \in Around(due, i) : l <= j
    /\ KindAt(d, at[j]) = "map" /\ (due[i] - due[j] + 1) % 2 = 0

\* One whole value lies between p and q.
IsValue(d, p, q) ==
  \E k \in Nat : \E at, due \in [0..k -> Nat] :
    IsRow(d, k, at, due) /\ at[0] = p /\ at[k] = q /\ due[k] = 0
=============================================================================
