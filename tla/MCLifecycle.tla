----------------------------- MODULE MCLifecycle -----------------------------
(***************************************************************************)
(* A tablet with three devices for TLC, which no property tells apart.     *)
(***************************************************************************)
EXTENDS WacomLifecycle, TLC

CONSTANTS stylus, eraser, pad

MCDevices == {stylus, eraser, pad}
=============================================================================
