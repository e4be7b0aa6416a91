------------------------------ MODULE MCWfdRtp ------------------------------
(* Instances of WfdRtp for TLC.                                            *)
EXTENDS WfdRtp
=============================================================================
