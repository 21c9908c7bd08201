--------------------------- MODULE MCDevicePairing ---------------------------
(* Model-checking instances of DevicePairing. *)
EXTENDS DevicePairing
=============================================================================
