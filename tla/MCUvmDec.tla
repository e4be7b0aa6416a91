------------------------------ MODULE MCUvmDec ------------------------------
(* Instance of UvmDec for TLC.                                             *)
EXTENDS UvmDec
=============================================================================
