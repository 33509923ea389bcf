--------------------------- MODULE MCAudioCapture ---------------------------
(* TLC instance of AudioCapture: the bounds are given by the configurations. *)
EXTENDS AudioCapture

=============================================================================
