---------------------------- MODULE MCTruthEmission ----------------------------
(* A small instance of TruthEmission for TLC. *)
EXTENDS TruthEmission, TLC

CONSTANTS o1, o2, o3, s1, s2

TwoSites == (o1 :> s1) @@ (o2 :> s1) @@ (o3 :> s2)
================================================================================
