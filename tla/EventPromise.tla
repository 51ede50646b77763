----------------------------- MODULE EventPromise -----------------------------
(***************************************************************************)
(* What the automation queue promises about one event: its dispatches are  *)
(* carried out in their order, each is settled once and for good, and the  *)
(* event closes only when nothing of it is left open.                      *)
(***************************************************************************)
EXTENDS Naturals

CONSTANT N        \* number of dispatches

VARIABLES outcome, closed

Dispatch == 1 .. N
Outcome == {"COMPLETED", "FAILED", "SKIPPED", "CANCELED"}

TypeOK == outcome \in [Dispatch -> Outcome \cup {"QUEUED"}] /\ closed \in BOOLEAN

Init == outcome = [d \in Dispatch |-> "QUEUED"] /\ closed = FALSE

First(d) == outcome[d] = "QUEUED" /\ \A c \in 1 .. d - 1 : outcome[c] # "QUEUED"

Settle(d, o) ==
    /\ ~closed /\ First(d)
    /\ outcome' = [outcome EXCEPT ![d] = o]
    /\ UNCHANGED closed

\* A dispatch deletes the contact or moves the enrollment.
SettleAndCancel(d) ==
    /\ ~closed /\ First(d)
    /\ outcome' = [c \in Dispatch |-> IF c = d THEN "COMPLETED"
                                      ELSE IF outcome[c] = "QUEUED" THEN "CANCELED" ELSE outcome[c]]
    /\ closed' \in BOOLEAN

\* The enrollment moved on or is gone.
Cancel ==
    /\ ~closed
    /\ outcome' = [c \in Dispatch |-> IF outcome[c] = "QUEUED" THEN "CANCELED" ELSE outcome[c]]
    /\ closed' \in BOOLEAN

Close ==
    /\ ~closed
    /\ \A d \in Dispatch : outcome[d] # "QUEUED"
    /\ closed' = TRUE
    /\ UNCHANGED outcome

Next ==
    \/ \E d \in Dispatch : SettleAndCancel(d) \/ \E o \in Outcome : Settle(d, o)
    \/ Cancel
    \/ Close

Spec == Init /\ [][Next]_<<outcome, closed>>
=============================================================================
