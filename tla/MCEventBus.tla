----------------------------- MODULE MCEventBus -----------------------------
(***************************************************************************)
(* Small instances of EventBus: two groups on two topics, with fewer       *)
(* topics or groups where that leaves room for more events.                *)
(***************************************************************************)
EXTENDS EventBus, TLC

Symmetry == Permutations(Subscription) \cup Permutations(Topic)
              \cup Permutations(Group)
=============================================================================
