------------------------------- MODULE MCCellar --------------------------------
(* Small instances of Cellar for TLC. *)
EXTENDS Cellar, TLC

CONSTANTS c1, c2, h1, h2, w1, w2

MCStepsOf == (c1 :> <<h1, h2>>) @@ (c2 :> <<h2>>)
MCBuilds == {{h1, h2}, {h1}}
MCBatches == {{}, {c2}}
================================================================================
