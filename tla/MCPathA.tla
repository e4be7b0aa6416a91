------------------------------ MODULE MCPathA ------------------------------
(* Instances of PathA for TLC.                                             *)
EXTENDS PathA
=============================================================================
