--------------------------- MODULE MCAttributeCache ----------------------------
(***************************************************************************)
(* AttributeCache for TLC: interviews are interchangeable.                 *)
(***************************************************************************)
EXTENDS AttributeCache, TLC

Symmetry == Permutations(Interviewers)
=============================================================================
