----------------------------- MODULE MCPushDelivery ----------------------------
(* A small instance of PushDelivery for TLC. *)
EXTENDS PushDelivery, TLC

CONSTANTS u1, u2, e1, e2

OneEach == (e1 :> u1) @@ (e2 :> u2)
Live == [silence |-> FALSE, actor |-> FALSE, chat |-> FALSE]
Silent == [silence |-> TRUE, actor |-> TRUE, chat |-> FALSE]
SilentButChat == [silence |-> TRUE, actor |-> FALSE, chat |-> TRUE]
ThreeConfigs == {Live, Silent, SilentButChat}
================================================================================
