---------------------------- MODULE MCCameraAlerts ----------------------------
(* CameraAlerts with one administrator. *)
EXTENDS CameraAlerts
CONSTANT x
=============================================================================
