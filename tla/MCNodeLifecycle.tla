-------------------------- MODULE MCNodeLifecycle --------------------------
(***************************************************************************)
(* Instances of NodeLifecycle for TLC.  Identities of subscriptions and of *)
(* setup tasks are interchangeable.                                        *)
(***************************************************************************)
EXTENDS NodeLifecycle, TLC

Symmetry == Permutations(SetupTasks) \cup Permutations(SubIds)
              \cup Permutations(OfflineTasks) \cup Permutations(Removers)
=============================================================================
