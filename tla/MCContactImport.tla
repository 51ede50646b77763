---------------------------- MODULE MCContactImport ----------------------------
(* Instances of ContactImport for TLC.                                        *)
EXTENDS ContactImport

=============================================================================
