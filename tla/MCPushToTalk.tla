---------------------------- MODULE MCPushToTalk ----------------------------
(* TLC instance of PushToTalk: the bounds are given by the configurations. *)
EXTENDS PushToTalk

=============================================================================
