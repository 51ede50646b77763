---------------------------- MODULE MCServiceSteps ----------------------------
(* Instances of ServiceSteps for TLC. The workflows of a step are alike.      *)
EXTENDS ServiceSteps, TLC

AutomationSymmetry == Permutations(Automations)
=============================================================================
