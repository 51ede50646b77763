-------------------------- MODULE MCAutomationChains --------------------------
(* Instances of AutomationChains for TLC. *)
EXTENDS AutomationChains, TLC

CONSTANTS n1, n2

Does(kind, of) == [kind |-> kind, of |-> of]

\* 3 and 4 claim the places of 1 and 2 in either order, 1 starts 3 again and
\* 2 starts 1 as a workflow, and itself, which is refused; 1 and 2 wait.
MCEffect == <<
  (n1 :> Does("open", {3}))        @@ (n2 :> Does("wait", {})),
  (n1 :> Does("workflow", {1, 2})) @@ (n2 :> Does("wait", {})),
  (n1 :> Does("claimed", {1}))     @@ (n2 :> Does("claimed", {2})),
  (n1 :> Does("claimed", {1}))     @@ (n2 :> Does("claimed", {2})) >>
=============================================================================
