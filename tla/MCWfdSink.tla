------------------------------ MODULE MCWfdSink ------------------------------
(* Instances of WfdSink for TLC.                                            *)
EXTENDS WfdSink
=============================================================================
