--------------------------- MODULE AutomationProcess ---------------------------
(***************************************************************************)
(* The bulk enrollment of contacts in an automation: the routes of         *)
(* automation-processes.routes.ts that upload and start a process, and the *)
(* queue of automation-process-worker.ts, which every backend instance runs.*)
(*                                                                         *)
(* A batch has no token: a lock that is ten minutes old is recovered, and an*)
(* instance that is still at work then writes beside its successor.  Totals*)
(* are counted and written in separate statements.                         *)
(***************************************************************************)
EXTENDS Integers, FiniteSets, FiniteSetsExt

CONSTANTS
  Workers,      \* instances whose queue runs may overlap
  NBatches,     \* the batches are uploaded as 1 .. NBatches
  BatchSize,    \* contacts in each batch
  MaxAttempts,  \* MAX_BATCH_ATTEMPTS
  Deletable,    \* contacts that staff may delete meanwhile, by batch and place in it
  MaxFaults,    \* bound on crashes and failing statements
  MaxStalls,    \* bound on instances that outlive the lock of their batch
  MaxStarts     \* bound on start requests under way

ASSUME ProcessAssumption ==
  /\ NBatches \in Nat \ {0}
  /\ BatchSize \in Nat \ {0}
  /\ MaxAttempts \in Nat \ {0}
  /\ Deletable \subseteq (1 .. NBatches) \X (1 .. BatchSize)
  /\ {MaxFaults, MaxStalls, MaxStarts} \subseteq Nat

VARIABLES
  status,    \* AutomationProcess.status
  shown,     \* the totals stored with the process
  uploaded,  \* totalBatches
  starting,  \* start requests that have read PREPARING
  batch,     \* the AutomationProcessBatch rows
  item,      \* AutomationProcessContact.status of each contact
  gone,      \* contacts that were deleted
  logged,    \* enrollments logged for each contact
  calls,     \* what each instance is doing
  faults,    \* faults so far
  stalls     \* stalls so far

routes == <<uploaded, starting>>
bounds == <<faults, stalls>>
vars == <<status, shown, routes, batch, item, gone, logged, calls, bounds>>

Batches == 1 .. NBatches
Items == Batches \X (1 .. BatchSize)
Of(b) == {i \in Items : i[1] = b}

Statuses == {"PREPARING", "QUEUED", "RUNNING", "COMPLETED", "COMPLETED_WITH_ERRORS", "FAILED"}
Completed == {"COMPLETED", "COMPLETED_WITH_ERRORS"}
BatchStates == {"PENDING", "PROCESSING"} \cup Completed
ItemStates == {"PENDING", "SUCCEEDED", "FAILED"}

\* locked: lockedAt is not older than STALE_BATCH_MS.
BatchRows == [status: BatchStates, locked: BOOLEAN, attempts: Nat]
Fields == {"succeeded", "failed", "batches"}
Totals == [Fields -> Nat]
Zero == [f \in Fields |-> 0]

\* todo: the contacts loaded with the batch that are still to come; seen and uncounted:
\* the totals counted so far and those still to count.
Stages == {"IDLE", "CLAIMED", "ENROLLING", "COUNTING"}
Calls == [stage: Stages, batch: Batches, attempt: Nat, todo: SUBSET Items,
          seen: Totals, uncounted: SUBSET Fields]
Idle == [stage |-> "IDLE", batch |-> 1, attempt |-> 0, todo |-> {},
         seen |-> Zero, uncounted |-> {}]

Init ==
  /\ status = "PREPARING"
  /\ shown = Zero
  /\ uploaded = 0 /\ starting = 0
  /\ batch = [b \in Batches |-> [status |-> "PENDING", locked |-> FALSE, attempts |-> 0]]
  /\ item = [i \in Items |-> "PENDING"]
  /\ gone = {}
  /\ logged = [i \in Items |-> 0]
  /\ calls = [w \in Workers |-> Idle]
  /\ faults = 0 /\ stalls = 0

CountItems(st) == Cardinality({i \in Items : item[i] = st})
Counted ==
  [succeeded |-> CountItems("SUCCEEDED"), failed |-> CountItems("FAILED"),
   batches |-> Cardinality({b \in Batches : batch[b].status \in Completed})]

WithErrors(failed) == IF failed THEN "COMPLETED_WITH_ERRORS" ELSE "COMPLETED"

-----------------------------------------------------------------------------
(* The routes.                                                             *)

Upload ==
  /\ status = "PREPARING"
  /\ uploaded < NBatches
  /\ uploaded' = uploaded + 1
  /\ UNCHANGED <<status, shown, starting, batch, item, gone, logged, calls, bounds>>

\* POST .../start reads the process and checks that the upload is complete.
StartRead ==
  /\ starting < MaxStarts
  /\ status = "PREPARING"
  /\ uploaded = NBatches
  /\ starting' = starting + 1
  /\ UNCHANGED <<status, shown, uploaded, batch, item, gone, logged, calls, bounds>>

\* It then writes the status by id alone.
StartWrite ==
  /\ starting > 0
  /\ starting' = starting - 1
  /\ status' = "QUEUED"
  /\ UNCHANGED <<shown, uploaded, batch, item, gone, logged, calls, bounds>>

\* The browser gives the upload up, or the recovery finds it an hour old.
FailPreparing ==
  /\ status = "PREPARING"
  /\ status' = "FAILED"
  /\ UNCHANGED <<shown, routes, batch, item, gone, logged, calls, bounds>>

DeleteContact(i) ==
  /\ i \notin gone
  /\ i[1] <= uploaded
  /\ gone' = gone \cup {i}
  /\ UNCHANGED <<status, shown, routes, batch, item, logged, calls, bounds>>

-----------------------------------------------------------------------------
(* Claims, recovery and crashes.                                           *)

At(w, stage) == calls[w].stage = stage
Pending == {b \in 1 .. uploaded : batch[b].status = "PENDING"}

\* claimNextBatch: the oldest pending batch, if no other instance took it first.
Claim(w) ==
  /\ At(w, "IDLE")
  /\ status \in {"QUEUED", "RUNNING"}
  /\ Pending # {}
  /\ LET b == Min(Pending)
     IN  /\ batch' = [batch EXCEPT ![b] =
              [status |-> "PROCESSING", locked |-> TRUE, attempts |-> @.attempts + 1]]
         /\ calls' = [calls EXCEPT ![w] = [Idle EXCEPT !.stage = "CLAIMED", !.batch = b,
                                                       !.attempt = batch[b].attempts + 1]]
  /\ UNCHANGED <<status, shown, routes, item, gone, logged, bounds>>

Unlocked(b) == [batch EXCEPT ![b].locked = FALSE]

\* A claimed batch is ten minutes old although its instance is still at work.
Stall(b) ==
  /\ batch[b].locked
  /\ stalls < MaxStalls
  /\ stalls' = stalls + 1
  /\ batch' = Unlocked(b)
  /\ UNCHANGED <<status, shown, routes, item, gone, logged, calls, faults>>

\* Or its instance is dead.
Abandoned(b) ==
  /\ batch[b].locked
  /\ \A w \in Workers : ~At(w, "IDLE") => calls[w].batch # b
  /\ batch' = Unlocked(b)
  /\ UNCHANGED <<status, shown, routes, item, gone, logged, calls, bounds>>

\* Mutant of Recover: locks are never too old.
RecoverNone(b) == FALSE /\ UNCHANGED vars

\* recoverInterruptedWork
Recover(b) ==
  /\ batch[b].status = "PROCESSING"
  /\ ~batch[b].locked
  /\ batch' = [batch EXCEPT ![b].status = "PENDING"]
  /\ UNCHANGED <<status, shown, routes, item, gone, logged, calls, bounds>>

\* An instance dies, or its run of the queue ends by an error that is not caught.
Crash(w) ==
  /\ ~At(w, "IDLE")
  /\ faults < MaxFaults
  /\ faults' = faults + 1
  /\ calls' = [calls EXCEPT ![w] = Idle]
  /\ UNCHANGED <<status, shown, routes, batch, item, gone, logged, stalls>>

-----------------------------------------------------------------------------
(* A claimed batch.                                                        *)

\* Mutant of ToEnroll: every contact of the batch is loaded.
ToEnrollAll(b) == Of(b)

ToEnroll(b) == {i \in Of(b) : item[i] = "PENDING"}

\* The batch is read with its pending contacts, and the process is RUNNING.
Load(w) ==
  /\ At(w, "CLAIMED")
  /\ calls' = [calls EXCEPT ![w].stage = "ENROLLING", ![w].todo = ToEnroll(calls[w].batch)]
  /\ status' = IF status = "QUEUED" THEN "RUNNING" ELSE status
  /\ UNCHANGED <<shown, routes, batch, item, gone, logged, bounds>>

\* One contact in one transaction: its log and its status.
Enroll(w, i) ==
  /\ At(w, "ENROLLING")
  /\ i \in calls[w].todo
  /\ item' = [item EXCEPT ![i] = IF i \in gone THEN "FAILED" ELSE "SUCCEEDED"]
  /\ logged' = [logged EXCEPT ![i] = IF i \in gone THEN @ ELSE @ + 1]
  /\ calls' = [calls EXCEPT ![w].todo = @ \ {i}]
  /\ UNCHANGED <<status, shown, routes, batch, gone, bounds>>

\* The transaction fails, or commits without an answer: the contact is FAILED.
EnrollFails(w, i) ==
  /\ At(w, "ENROLLING")
  /\ i \in calls[w].todo
  /\ faults < MaxFaults
  /\ faults' = faults + 1
  /\ item' = [item EXCEPT ![i] = "FAILED"]
  /\ \E n \in {0, 1} : logged' = [logged EXCEPT ![i] = IF i \in gone THEN @ ELSE @ + n]
  /\ calls' = [calls EXCEPT ![w].todo = @ \ {i}]
  /\ UNCHANGED <<status, shown, routes, batch, gone, stalls>>

AllTried(w) == calls[w].todo = {}

\* completeBatch, up to its totals.
CloseBatch(w, b, its) ==
  /\ batch' = [batch EXCEPT ![b] = [status |-> WithErrors(\E i \in Of(b) : its[i] = "FAILED"),
                                    locked |-> FALSE, attempts |-> @.attempts]]
  /\ calls' = [calls EXCEPT ![w].stage = "COUNTING", ![w].seen = Zero, ![w].uncounted = Fields]

EndBatch(w) ==
  /\ At(w, "ENROLLING")
  /\ AllTried(w)
  /\ CloseBatch(w, calls[w].batch, item)
  /\ UNCHANGED <<status, shown, routes, item, gone, logged, bounds>>

\* refreshProcessTotals counts, in statements of their own.
Count(w, f) ==
  /\ At(w, "COUNTING")
  /\ f \in calls[w].uncounted
  /\ calls' = [calls EXCEPT ![w].seen[f] = Counted[f], ![w].uncounted = @ \ {f}]
  /\ UNCHANGED <<status, shown, routes, batch, item, gone, logged, bounds>>

\* Mutant of IsComplete: the contacts are not looked at.
IsCompleteBatches(seen) == seen.batches >= uploaded

IsComplete(seen) ==
  /\ seen.succeeded + seen.failed >= uploaded * BatchSize
  /\ seen.batches >= uploaded

\* And writes what it counted.
Refresh(w) ==
  LET seen == calls[w].seen
  IN  /\ At(w, "COUNTING")
      /\ calls[w].uncounted = {}
      /\ shown' = seen
      /\ status' = IF IsComplete(seen) THEN WithErrors(seen.failed > 0) ELSE status
      /\ calls' = [calls EXCEPT ![w] = Idle]
      /\ UNCHANGED <<routes, batch, item, gone, logged, bounds>>

\* failOrRetryBatch: the batch is queued again, whatever it has become meanwhile; in
\* the last attempt its pending contacts fail and it is completed.
Throw(w) ==
  LET b == calls[w].batch
      failed == [i \in Items |-> IF i \in Of(b) /\ item[i] = "PENDING" THEN "FAILED" ELSE item[i]]
  IN  /\ calls[w].stage \notin {"IDLE", "CLAIMED"}
      /\ faults < MaxFaults
      /\ faults' = faults + 1
      /\ IF calls[w].attempt < MaxAttempts
         THEN /\ batch' = [batch EXCEPT ![b].status = "PENDING", ![b].locked = FALSE]
              /\ calls' = [calls EXCEPT ![w] = Idle]
              /\ UNCHANGED item
         ELSE item' = failed /\ CloseBatch(w, b, failed)
      /\ UNCHANGED <<status, shown, routes, gone, logged, stalls>>

-----------------------------------------------------------------------------
Step(w) ==
  \/ Load(w) \/ EndBatch(w) \/ Refresh(w)
  \/ \E i \in Items : Enroll(w, i)
  \/ \E f \in Fields : Count(w, f)

Next ==
  \/ Upload \/ StartRead \/ StartWrite \/ FailPreparing
  \/ \E i \in Deletable : DeleteContact(i)
  \/ \E b \in Batches : Stall(b) \/ Abandoned(b) \/ Recover(b)
  \/ \E w \in Workers : Claim(w) \/ Step(w) \/ Throw(w) \/ Crash(w)
  \/ \E w \in Workers, i \in Items : EnrollFails(w, i)

Spec == Init /\ [][Next]_vars

\* Every instance runs its queue every three seconds, and a run that has not
\* crashed goes on.
Fairness ==
  /\ WF_vars(\E w \in Workers : Claim(w))
  /\ \A b \in Batches : WF_vars(Abandoned(b)) /\ WF_vars(Recover(b))
  /\ \A w \in Workers : WF_vars(Step(w))

FairSpec == Spec /\ Fairness

-----------------------------------------------------------------------------
(* Properties.                                                             *)

\* Every variable stays in its type, and no batch is claimed without cause more
\* often than once.
TypeOK ==
  /\ status \in Statuses
  /\ shown \in Totals
  /\ uploaded \in 0 .. NBatches /\ starting \in 0 .. MaxStarts
  /\ batch \in [Batches -> BatchRows]
  /\ \A b \in Batches : batch[b].attempts <= 1 + faults + stalls
  /\ item \in [Items -> ItemStates]
  /\ gone \subseteq Items
  /\ logged \in [Items -> Nat]
  /\ calls \in [Workers -> Calls]

\* As long as no instance outlives its lock, a completed process has an answer for
\* every contact, and is free of errors only if all of them are enrolled: totals counted
\* one by one beside other instances hide no failure (refreshProcessTotals).  Of its
\* batches this is not said: one that was completed is queued again when the statements
\* after that fail, and the process may be completed by then.
CompletedIsAnswered ==
  stalls = 0 /\ status \in Completed =>
    /\ \A i \in Items : item[i] # "PENDING"
    /\ status = "COMPLETED" => \A i \in Items : item[i] = "SUCCEEDED"

\* As long as no instance outlives its lock, a contact is enrolled once: a batch that
\* is taken up again leaves alone those that have an answer.
EnrolledOnce == stalls = 0 => \A i \in Items : logged[i] <= 1

\* Nothing looks for a process again when its batches are completed and nobody counts.
AllClosed ==
  /\ \A b \in Batches : batch[b].status \in Completed
  /\ \A w \in Workers : ~At(w, "COUNTING")

\* A fault struck after the last batch was completed and before the totals were written.
LeftBehind == AllClosed /\ faults > 0

\* A second start request wrote QUEUED, by id alone, when all batches were completed: the
\* first load of a batch has made the process RUNNING, and nothing else queues it.
QueuedAgain == AllClosed /\ status = "QUEUED"

\* A process that was started completes, whatever instance fails, dies or stalls on the way
\* (recoverInterruptedWork) and whichever totals are counted beside others, but for two
\* windows in which the code leaves it open for ever: LeftBehind and QueuedAgain.
ProcessEnds == (status = "QUEUED") ~> (status \in Completed \/ LeftBehind \/ QueuedAgain)
=============================================================================
