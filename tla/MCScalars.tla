------------------------------ MODULE MCScalars -----------------------------
(***************************************************************************)
(* Scalars with bytes of 32 values, so that every boundary between two     *)
(* formats, widths and timestamp payloads is met, with the values on both  *)
(* sides of it.                                                            *)
(***************************************************************************)
EXTENDS Scalars, TLC

MCSpan == 1 :> 32 @@ 2 :> 64 @@ 4 :> 256 @@ 8 :> 65536

Around(S) == {x + d : x \in S, d \in {-1, 0, 1}}

Edges == Around({0, -(Span[1] \div 8)} \cup {Span[w] : w \in Widths}
                \cup {Half(w) : w \in Widths} \cup {-Half(w) : w \in Widths})

MCNumbers == {x \in Edges : -Half(8) <= x /\ x < Span[8]}

Words(w) == {x % Span[w] : x \in MCNumbers}

Secs  == {x \in Edges \cup Around({SecondsIn8}) : -Half(8) <= x /\ x < Half(8)}
Nsecs == Around({0, Second}) \cup {Span[4] \div 4 - 1}

MCInstants == {Instant(s, n) : s \in Secs, n \in {m \in Nsecs : 0 <= m /\ m < Second}}

Sizes == {x \in Edges \cup Around({1, 3, 15}) : 0 <= x /\ x <= Span[4]}
MCLengths == {LengthOf(k, n, Needed(k, n)) : k \in Sized, n \in Sizes}

MCForeign ==
  UNION { {NumberItem(f, w, x) : f \in {"uint", "int"}, x \in Words(w)} : w \in Widths }
  \cup {NumberItem("fixint", 1, x) : x \in 0..(Half(1) - 1) \cup {-1, -(Span[1] \div 8)}}
  \cup {InstantItem(f, 4, 0, x) : f \in {"fixext", "ext8"}, x \in Words(4)}
  \cup {InstantItem(f, 8, 0, n * SecondsIn8 + s) : f \in {"fixext", "ext8"},
          s \in {0, 1, Span[4], SecondsIn8 - 1}, n \in {m \in Nsecs : m >= 0}}
  \cup {InstantItem("ext8", 12, n, x) : n \in {m \in Nsecs : m >= 0}, x \in Words(8)}
  \cup UNION { {LengthItem(k, w, n, r) : k \in Sized, n \in {x \in Words(w) : x >= 0},
                  r \in {0, 1, 40, 64, 600}} : w \in {1, 2, 4} }
=============================================================================
