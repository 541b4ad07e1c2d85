---------------------------- MODULE MCGroupKeys ----------------------------
(***************************************************************************)
(* Instances of GroupKeys for TLC: the settings of one run.                *)
(***************************************************************************)
EXTENDS GroupKeys, TLC

CONSTANTS c1, c2

\* Every sequence of calls for two nodes that can hold both groups.
Sequential ==
  [faults |-> FALSE, restarts |-> FALSE, keysetSlots |-> 2, groupSlots |-> 2,
   exposed |-> FALSE, keys |-> 3,
   operations |-> {"add", "remove", "removeall", "reset", "keysetremove", "send"},
   nodesOf |-> c1 :> Nodes @@ c2 :> {}]

\* Two calls at a time, each for a node of its own.
Concurrent ==
  [Sequential EXCEPT !.exposed = TRUE, !.keys = 2,
                     !.operations = {"add", "remove", "removeall"},
                     !.nodesOf = c1 :> {1} @@ c2 :> {2}]

\* A node is reset while another one is added.
Resetting == [Concurrent EXCEPT !.operations = {"add", "reset"}]

\* Exchanges that fail, restarts, and tables for one keyset and one group.
Faulty ==
  [Sequential EXCEPT !.faults = TRUE, !.restarts = TRUE, !.keysetSlots = 1,
                     !.groupSlots = 1, !.keys = 2, !.nodesOf = c1 :> {1} @@ c2 :> {},
                     !.operations = @ \ {"reset"}]

\* The same with resets.
FaultyReset ==
  [Faulty EXCEPT !.operations = {"add", "reset", "send", "keysetremove"}]

\* A client that also writes the tables of the device itself.
Direct ==
  [Sequential EXCEPT !.keys = 2, !.nodesOf = c1 :> {1} @@ c2 :> {},
                     !.operations = {"add", "remove", "keysetadd", "bind", "setacl",
                                     "keysetremove"}]

AllSettings == {Sequential, Concurrent, Resetting, Faulty, FaultyReset, Direct}
=============================================================================
