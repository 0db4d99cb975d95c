----------------------------- MODULE MCAdminDelete -----------------------------
(* Instances of AdminDelete for TLC.                                       *)
EXTENDS AdminDelete
================================================================================
