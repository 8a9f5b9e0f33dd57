----------------------------- MODULE MCFastSlots ------------------------------
(***************************************************************************)
(* The instances of FastSlots that TLC checks.                             *)
(***************************************************************************)
EXTENDS FastSlots
=============================================================================
