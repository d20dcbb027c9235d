-------------------------- MODULE MCAppSupervisor --------------------------
(* Instances of AppSupervisor for TLC. *)
EXTENDS AppSupervisor, TLC

CONSTANTS c1, c2, w1, w2, w3

\* Callers and watcher tasks are interchangeable in the runs that check safety only.
ActorSymmetry == Permutations(Users) \cup Permutations(Watchers)
=============================================================================
