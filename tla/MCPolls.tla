-------------------------------- MODULE MCPolls --------------------------------
(* Small instances of PollNotices for TLC. *)
EXTENDS PollNotices

CONSTANTS p1, a, b, u1, u2

OneOfEach == [about \in {"opened", "completed"} |-> IF about = "opened" THEN {} ELSE {u1, u2}]
================================================================================
