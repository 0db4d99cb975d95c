------------------------------ MODULE MCProjection ------------------------------
(* Small instances of Projection for TLC. *)
EXTENDS Projection, TLC

CONSTANTS u, e, v, q, test

OneEach == (u :> "users") @@ (e :> "endpoints") @@ (v :> "venues") @@ (q :> "requests")
             @@ (test :> "requests")
ByProcess == {{"users", "endpoints"}, {"venues"}, {"requests"}}
================================================================================
