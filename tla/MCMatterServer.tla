--------------------------- MODULE MCMatterServer ---------------------------
(***************************************************************************)
(* An instance of MatterServer for TLC: two certificates of one source.    *)
(***************************************************************************)
EXTENDS MatterServer

OneSource(c) == "dcl"
=============================================================================
