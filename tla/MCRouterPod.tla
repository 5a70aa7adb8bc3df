---------------------------- MODULE MCRouterPod -----------------------------
(* The successive pods of a node. *)
EXTENDS RouterPod, TLC

\* A node with both families; a reboot may leave it any of them.
DualInit == PodInit /\ addrs = Families
DualSpec == DualInit /\ [][PodNext]_allVars /\ PodFairness

\* One fault or one lost deletion; no step that a fair action must take is excluded.
OneMishap == lost' # {} => faults' = 0

\* The pods are interchangeable; for invariants only.
PodSymmetry == Permutations(Pods)
=============================================================================
