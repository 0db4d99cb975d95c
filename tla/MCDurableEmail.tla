---------------------------- MODULE MCDurableEmail -----------------------------
(* Small instances of DurableEmail for TLC. *)
EXTENDS DurableEmail, TLC

CONSTANTS r1, r2, op1, op2, op3, f1, f2

SameContent == [c \in Op |-> "a"]
OneConflict == [c \in Op |-> IF c = op3 THEN "b" ELSE "a"]
EveryEvent == {"Sent", "Delivered", "SoftBounce", "HardBounce", "ProxyOpen", "HumanOpen",
               "Click", "SpamComplaint"}
Interchangeable == Permutations({op1, op2}) \cup Permutations({f1, f2})
================================================================================
