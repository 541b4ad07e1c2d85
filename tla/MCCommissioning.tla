--------------------------- MODULE MCCommissioning ---------------------------
(***************************************************************************)
(* Commissioning for TLC: devices and commands are interchangeable.        *)
(***************************************************************************)
EXTENDS Commissioning, TLC

Symmetry == Permutations(Devices) \cup Permutations(Calls)
=============================================================================
