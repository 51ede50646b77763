--------------------------- MODULE MCAutomationQueue ---------------------------
(* Instances of AutomationQueue for TLC.                                     *)
EXTENDS AutomationQueue

\* The second dispatch was filtered out when the event was queued.
MCDecision == [d \in Dispatch |-> IF d = 2 THEN "SKIP" ELSE "RUN"]
=============================================================================
