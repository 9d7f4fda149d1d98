----------------------------- MODULE MCSavePath -----------------------------
(***************************************************************************)
(* An instance of SavePath with the fairness its liveness needs.           *)
(***************************************************************************)
EXTENDS SavePath

FairSpec == SaveSpec /\ SaveFairness

=============================================================================
