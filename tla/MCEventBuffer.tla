---------------------------- MODULE MCEventBuffer ----------------------------
(* A buffer of two events and one device with two statuses. *)
EXTENDS EventBuffer
================================================================================
