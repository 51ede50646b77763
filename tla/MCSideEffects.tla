----------------------------- MODULE MCSideEffects -----------------------------
(* Instances of SideEffects for TLC.                                         *)
EXTENDS SideEffects

=============================================================================
