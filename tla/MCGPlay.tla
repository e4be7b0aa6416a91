------------------------------- MODULE MCGPlay -------------------------------
(* Instances of GPlay for TLC.                                              *)
EXTENDS GPlay

(* Every repeat mode, a list played twice, both ways of buffering.          *)
MCSettings ==
  {[repeat |-> "NONE", times |-> -1, handle |-> FALSE],
   [repeat |-> "PLAYLIST", times |-> 2, handle |-> TRUE],
   [repeat |-> "CURRENT", times |-> -1, handle |-> FALSE]}
=============================================================================
