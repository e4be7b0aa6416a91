------------------------------ MODULE MCPathB ------------------------------
(* Instances of PathB for TLC.                                             *)
EXTENDS PathB

(* One session with the GPU; two without, the second a restart.            *)
BothDepths == {<<TRUE>>, <<FALSE, FALSE>>}

TenBitOnce == {<<TRUE>>}
=============================================================================
