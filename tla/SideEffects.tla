------------------------------ MODULE SideEffects ------------------------------
(***************************************************************************)
(* The outbox of the automation engine (automation-event-worker.ts): what  *)
(* a committed segment still owes the outside world, a notification to     *)
(* emit or the object of a deleted file to remove.  Every backend instance *)
(* polls it. The lease of a claim keeps others away until it expires, but  *)
(* the results are written by id alone: an execution that outlives its     *)
(* lease overwrites what its successors have written.  Names that          *)
(* AutomationProcess has too are prefixed: WorkerQueues_proofs extends     *)
(* both modules.                                                           *)
(***************************************************************************)
EXTENDS Integers, FiniteSets

CONSTANTS
  Effects,             \* the AutomationSideEffect rows
  Files,               \* those that delete a file; the others deliver a notification
  Executions,          \* calls of processSideEffect that may overlap
  MaxEffectAttempts,   \* attempts before a failure is terminal
  MaxEffectFaults      \* bound on crashes, expired leases and failed attempts

ASSUME EffectsAssumption ==
  /\ Files \subseteq Effects
  /\ MaxEffectAttempts \in Nat \ {0}
  /\ MaxEffectFaults \in Nat

VARIABLES
  rows,            \* the stored rows
  effectCalls,     \* the executions
  done,            \* the effects that have reached the outside world
  effectFaults     \* faults so far

effectVars == <<rows, effectCalls, done, effectFaults>>

RowStates == {"PENDING", "PROCESSING", "COMPLETED", "FAILED"}
Terminal == {"COMPLETED", "FAILED"}

Rows == [status: RowStates, leased: BOOLEAN, attempts: Nat]

\* An execution keeps the attemptCount its claim returned.
NoEffect == [stage |-> "IDLE"]
EffectCalls == {NoEffect} \cup
  [stage: {"CLAIMED", "ATTEMPTED", "THROWN"}, effect: Effects, attempt: Nat]

EffectsInit ==
  /\ rows = [e \in Effects |-> [status |-> "PENDING", leased |-> FALSE, attempts |-> 0]]
  /\ effectCalls = [x \in Executions |-> NoEffect]
  /\ done = {}
  /\ effectFaults = 0

Doing(x, stage) == effectCalls[x].stage = stage
Goes(x, stage) == effectCalls' = [effectCalls EXCEPT ![x].stage = stage]

\* Mutant of Due: only pending rows are claimed.
DuePending(e) == rows[e].status = "PENDING"

Due(e) ==
  \/ rows[e].status = "PENDING"
  \/ rows[e].status = "PROCESSING" /\ ~rows[e].leased

ClaimEffect(x, e) ==
  /\ Doing(x, "IDLE")
  /\ Due(e)
  /\ rows' = [rows EXCEPT ![e] =
       [status |-> "PROCESSING", leased |-> TRUE, attempts |-> @.attempts + 1]]
  /\ effectCalls' = [effectCalls EXCEPT ![x] =
       [stage |-> "CLAIMED", effect |-> e, attempt |-> rows[e].attempts + 1]]
  /\ UNCHANGED <<done, effectFaults>>

\* The notification is read and emitted, or the object is deleted.
Perform(x) ==
  /\ Doing(x, "CLAIMED")
  /\ done' = done \cup {effectCalls[x].effect}
  /\ Goes(x, "ATTEMPTED")
  /\ UNCHANGED <<rows, effectFaults>>

\* Mutant of AfterFailure: a notification that fails is taken for delivered.
AfterFailureSwallowed(e) == "ATTEMPTED"

\* A notification that cannot be read throws. deleteAutomationContactFileObjects
\* tries three times, then logs the error and returns.
AfterFailure(e) == IF e \in Files THEN "ATTEMPTED" ELSE "THROWN"

PerformFails(x) ==
  /\ Doing(x, "CLAIMED")
  /\ effectFaults < MaxEffectFaults
  /\ effectFaults' = effectFaults + 1
  /\ Goes(x, AfterFailure(effectCalls[x].effect))
  /\ UNCHANGED <<rows, done>>

Written(e, status) ==
  [rows EXCEPT ![e] = [status |-> status, leased |-> FALSE, attempts |-> @.attempts]]

Complete(x) ==
  /\ Doing(x, "ATTEMPTED")
  /\ rows' = Written(effectCalls[x].effect, "COMPLETED")
  /\ effectCalls' = [effectCalls EXCEPT ![x] = NoEffect]
  /\ UNCHANGED <<done, effectFaults>>

\* The update throws after the effect was performed, and is caught like the rest.
CompleteFails(x) ==
  /\ Doing(x, "ATTEMPTED")
  /\ effectFaults < MaxEffectFaults
  /\ effectFaults' = effectFaults + 1
  /\ Goes(x, "THROWN")
  /\ UNCHANGED <<rows, done>>

\* Mutant of IsLast: the last attempt is not counted.
IsLastEarly(attempt) == attempt >= MaxEffectAttempts - 1

IsLast(attempt) == attempt >= MaxEffectAttempts

Retry(x) ==
  /\ Doing(x, "THROWN")
  /\ rows' = Written(effectCalls[x].effect,
                      IF IsLast(effectCalls[x].attempt) THEN "FAILED" ELSE "PENDING")
  /\ effectCalls' = [effectCalls EXCEPT ![x] = NoEffect]
  /\ UNCHANGED <<done, effectFaults>>

\* The instance dies, or the write of the result is lost.
Die(x) ==
  /\ ~Doing(x, "IDLE")
  /\ effectFaults < MaxEffectFaults
  /\ effectFaults' = effectFaults + 1
  /\ effectCalls' = [effectCalls EXCEPT ![x] = NoEffect]
  /\ UNCHANGED <<rows, done>>

\* The lease of a slow execution runs out.
Expire(e) ==
  /\ rows[e].leased
  /\ effectFaults < MaxEffectFaults
  /\ effectFaults' = effectFaults + 1
  /\ rows' = [rows EXCEPT ![e].leased = FALSE]
  /\ UNCHANGED <<effectCalls, done>>

\* The lease of a dead one runs out in the end.
ExpireDead(e) ==
  /\ rows[e].leased
  /\ \A x \in Executions : ~Doing(x, "IDLE") => effectCalls[x].effect # e
  /\ rows' = [rows EXCEPT ![e].leased = FALSE]
  /\ UNCHANGED <<effectCalls, done, effectFaults>>

-----------------------------------------------------------------------------
ProcessSideEffect(x) == Perform(x) \/ PerformFails(x) \/ Complete(x) \/ CompleteFails(x) \/ Retry(x)

EffectsNext ==
  \/ \E x \in Executions : ProcessSideEffect(x) \/ Die(x)
  \/ \E x \in Executions, e \in Effects : ClaimEffect(x, e)
  \/ \E e \in Effects : Expire(e) \/ ExpireDead(e)

EffectsSpec == EffectsInit /\ [][EffectsNext]_effectVars

\* The outbox is polled for ever, the oldest rows first, and an execution that has
\* not crashed goes on.
EffectsFairness ==
  /\ \A e \in Effects : /\ WF_effectVars(\E x \in Executions : ClaimEffect(x, e))
                        /\ WF_effectVars(ExpireDead(e))
  /\ \A x \in Executions : WF_effectVars(ProcessSideEffect(x))

FairEffectsSpec == EffectsSpec /\ EffectsFairness

-----------------------------------------------------------------------------
(* Properties.                                                             *)

\* Every variable stays in its type, and no row is claimed more often than there
\* were faults, and once.
EffectsTypeOK ==
  /\ rows \in [Effects -> Rows]
  /\ \A e \in Effects : rows[e].attempts <= effectFaults + 1
  /\ effectCalls \in [Executions -> EffectCalls]
  /\ done \subseteq Effects
  /\ effectFaults \in 0 .. MaxEffectFaults

\* A notification whose row is COMPLETED was emitted, whichever execution wrote it.
\* This is not so for files, whose failures do not reach processSideEffect.
CompletedIsEmitted ==
  \A e \in Effects \ Files : rows[e].status = "COMPLETED" => e \in done

\* An effect is given up only after MaxEffectAttempts attempts were made for it.
GivenUpLast ==
  \A e \in Effects : rows[e].status = "FAILED" => rows[e].attempts >= MaxEffectAttempts

\* Each effect ends for good: crashes and late writes reopen a row only for a while.
EffectsSettle == \A e \in Effects : <>[](rows[e].status \in Terminal)
=============================================================================
