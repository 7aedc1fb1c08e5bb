---------------------------- MODULE MCCodecCache ----------------------------
(* CodecCache with two goroutines.                                           *)
EXTENDS CodecCache, TLC

CONSTANTS g1, g2, i1, i2, i3, T
=============================================================================
