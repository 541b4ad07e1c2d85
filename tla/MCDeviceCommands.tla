-------------------------- MODULE MCDeviceCommands --------------------------
(***************************************************************************)
(* An instance of DeviceCommands for TLC: three binding targets, two of    *)
(* them endpoints of the same node.                                        *)
(***************************************************************************)
EXTENDS DeviceCommands, TLC

TargetSet == {<<1, 1>>, <<1, 2>>, <<2, 1>>}
FirstOf(t) == t[1]
Symmetry == Permutations(Calls)
=============================================================================
