--------------------------- MODULE MCOperatorPage ---------------------------
(* TLC instance of OperatorPage: the bounds are given by the configurations. *)
EXTENDS OperatorPage

=============================================================================
