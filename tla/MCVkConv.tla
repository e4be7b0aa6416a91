------------------------------ MODULE MCVkConv ------------------------------
(* VkConv for TLC.  The elements of these sets are interchangeable. *)
EXTENDS VkConv, TLC

AllConfigs == {[path |-> "render8", layout |-> "single"],
               [path |-> "afbc8", layout |-> "single"],
               [path |-> "render10", layout |-> "single"],
               [path |-> "render10", layout |-> "two"],
               [path |-> "afbc10", layout |-> "single"]}

A2B10 == {[path |-> "a2b10", layout |-> "single"]}

TwoDmabuf8 == {[path |-> "render8", layout |-> "two"]}

Symmetry == Permutations(Buf) \cup Permutations(Fd)
            \cup Permutations(Entry) \cup Permutations(Size)
=============================================================================
