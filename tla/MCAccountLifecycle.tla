------------------------- MODULE MCAccountLifecycle -------------------------
(***************************************************************************)
(* An instance of AccountLifecycle with the fairness its liveness needs.   *)
(***************************************************************************)
EXTENDS AccountLifecycle

CONSTANTS a1, a2, r1, k1

TwoAccounts == {a1, a2}
BusyOne     == {a1}
StuckOne    == {a2}
OneCall     == {r1}
OneRun      == {k1}

FairSpec == LifecycleSpec /\ LifecycleFairness

=============================================================================
