------------------------------ MODULE MCVfmCap ------------------------------
(* Instances of VfmCap for TLC: two or three buffers, an 8-bit and a       *)
(* 10-bit source format.                                                   *)
EXTENDS VfmCap

MCFmt == {"f8", "f10"}
MCBitDepth == [f \in {"f8", "f10", "f0"} |-> IF f = "f10" THEN 10 ELSE 8]
=============================================================================
