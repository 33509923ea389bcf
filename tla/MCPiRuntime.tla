---------------------------- MODULE MCPiRuntime -----------------------------
(* TLC instance of PiRuntime: one operator page. *)
EXTENDS PiRuntime

CONSTANT c1

OneClient == {c1}

=============================================================================
