-------------------------- MODULE MCAutomationProcess --------------------------
(* Instances of AutomationProcess for TLC. *)
EXTENDS AutomationProcess

\* One contact of the second batch may be deleted.
MCDeletable == {<<2, 1>>}
=============================================================================
