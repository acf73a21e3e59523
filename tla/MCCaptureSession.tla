-------------------------- MODULE MCCaptureSession --------------------------
(* A small instance of CaptureSession for TLC.                             *)
EXTENDS CaptureSession

PhotoOrder == <<"front", "tag">>
=============================================================================
