--------------------------- MODULE MCPendingFlow ---------------------------
(* Small instances of PendingFlow for TLC. *)
EXTENDS PendingFlow

CONSTANTS c1, c2

OneClient  == {c1}
TwoClients == {c1, c2}

=============================================================================
