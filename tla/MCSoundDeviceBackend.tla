------------------------ MODULE MCSoundDeviceBackend ------------------------
(* TLC instance of SoundDeviceBackend: the bounds are in the configuration. *)
EXTENDS SoundDeviceBackend

=============================================================================
