---------------------------- MODULE MCOtaUpdate ----------------------------
(***************************************************************************)
(* OtaUpdate with two update_node calls that overlap while steps of theirs *)
(* fail, and with one call: against everything the node and its provider   *)
(* may do, and against interviews.                                         *)
(***************************************************************************)
EXTENDS OtaUpdate

CONSTANTS u1, u2

TwoCalls == {u1, u2}

ThreeSettings == {
  [calls  |-> {u1, u2},
   events |-> {"check", "fetch", "launch", "commission", "announce", "query"}],
  [calls  |-> {u1},
   events |-> {"launch", "announce", "query", "delay", "abandon", "apply"}],
  [calls  |-> {u1},
   events |-> {"announce", "query", "abandon", "apply", "interview"}]}
=============================================================================
