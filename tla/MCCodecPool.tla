---------------------------- MODULE MCCodecPool -----------------------------
(* CodecPool with two goroutines that make every pair of these calls.        *)
EXTENDS CodecPool, TLC

CONSTANTS g1, g2, e1, e2, d1, d2

I(n, what) == [level |-> n, is |-> what]

MCCalls ==
  { [fn |-> "Marshal", arg |-> <<I(0, "ok"), I(1, "ok")>>],
    [fn |-> "Marshal", arg |-> <<I(1, "ok"), I(0, "bad")>>],
    [fn |-> "MarshalTimestamp", arg |-> <<I(0, "ok")>>],
    [fn |-> "Unmarshal", arg |-> <<I(1, "ok")>>],
    [fn |-> "Unmarshal", arg |-> <<I(1, "ok"), I(2, "ok")>>],
    [fn |-> "UnmarshalTimestamp", arg |-> <<I(0, "bad")>>],
    [fn |-> "Decode", arg |-> <<I(1, "ok"), I(0, "boom")>>] }
=============================================================================
