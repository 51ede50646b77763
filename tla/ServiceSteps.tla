----------------------------- MODULE ServiceSteps -----------------------------
(***************************************************************************)
(* One enrollment of a contact in a service, walking through the steps     *)
(* saved with it: service-step-progression.ts (completion, advancement,    *)
(* settlement, reconciliation with the payments), service-step-movement.ts *)
(* (moves, skips, superseded work), the status changes of                  *)
(* service-automation-actions.ts, the reviewed changes of the steps in     *)
(* service-configuration-review.ts, and what the automation workers do to  *)
(* the completion runs that gate an advancement.                           *)
(*                                                                         *)
(* Every transaction of the code starts by locking the enrollment, then    *)
(* reads: each action below is one such transaction.  What is concurrent is*)
(* which transaction comes next: staff act on a stale screen, so a request *)
(* may name any entry of the past, and the workers of several completion   *)
(* runs start, wait, resume, fail and exit in every order.                 *)
(***************************************************************************)
EXTENDS Integers, Sequences, FiniteSets, FiniteSetsExt

CONSTANTS
  MaxSteps,       \* bound: no more steps than this are saved with the enrollment
  Automations,    \* the workflows that may be published for a step completion
  MaxEntries      \* bound: no more entries than this are made in a behaviour

ASSUME StepsAssumption ==
  /\ MaxSteps \in Nat \ {0}
  /\ MaxEntries \in Nat \ {0}

VARIABLES
  status,    \* ContactService.status
  paid,      \* whether the payments that are not void cover the total price
  steps,     \* the steps saved with the enrollment are 1 .. steps
  entries    \* the ServiceStepOccurrence rows, oldest first, with their runs

vars == <<status, paid, steps, entries>>

Steps == 1 .. steps
Statuses == {"IN_PROGRESS", "PENDING_PAYMENT", "COMPLETED", "CANCELED"}
EntryStates == {"ACTIVE", "COMPLETED", "SKIPPED", "CANCELED"}
Progressions == {"NONE", "WAITING_AUTOMATION", "PAUSED", "SUPERSEDED", "ADVANCED", "FINISHED"}

\* A completion workflow pinned to an entry: its dispatch is QUEUED until the
\* first segment, then its run WAITs (or is queued again), is CLAIMED by a
\* worker, is LEAVING when an exit was requested of a claimed run, or has ended.
\* CANCELED is a dispatch canceled before it had a run, LAPSED a run that EXITED at a
\* fixed-date Wait whose date had passed.
RunStates == {"QUEUED", "WAITING", "CLAIMED", "LEAVING",
              "SUCCEEDED", "FAILED", "EXITED", "LAPSED", "CANCELED"}
Stopped == {"FAILED", "EXITED", "LAPSED", "CANCELED"}
Unfinished == {"QUEUED", "WAITING", "CLAIMED", "LEAVING"}

\* after = i for the entry with key "after:<i>", 0 for any other entry key.
Entries ==
  [step: 1 .. MaxSteps, state: EntryStates, progress: Progressions, superseded: BOOLEAN,
   after: 0 .. MaxEntries, runs: UNION {[S -> RunStates] : S \in SUBSET Automations}]

NewEntry(step, after) ==
  [step |-> step, state |-> "ACTIVE", progress |-> "NONE", superseded |-> FALSE,
   after |-> after, runs |-> [a \in {} |-> "QUEUED"]]

\* A new enrollment: the first step is entered in the transaction that saves it.
\* The initial payment may cover the price.
Init ==
  /\ status = "IN_PROGRESS"
  /\ paid \in BOOLEAN
  /\ steps \in 1 .. MaxSteps
  /\ entries = <<NewEntry(1, 0)>>

-----------------------------------------------------------------------------
(* What the transactions read.                                             *)

Over(st) == st \in {"CANCELED", "COMPLETED"}
Held(e) == e.progress \in {"WAITING_AUTOMATION", "PAUSED"}
Unsettled(e) == ~e.superseded /\ (e.state = "ACTIVE" \/ Held(e))
Awaiting(e) == ~e.superseded /\ e.state = "COMPLETED" /\ e.progress = "WAITING_AUTOMATION"

\* The last step's newest entry is finished.
LastStepFinished(es) ==
  \E i \in DOMAIN es :
     /\ es[i].step = steps
     /\ es[i].progress = "FINISHED"
     /\ \A j \in DOMAIN es : es[j].step = steps => j <= i

Settled(p) == IF p THEN "COMPLETED" ELSE "PENDING_PAYMENT"

\* Mutant of Reconciled: a revisited step that is active does not count.
ReconciledEagerly(es, st, p) ==
  IF st = "CANCELED" \/ ~LastStepFinished(es) THEN st ELSE Settled(p)

Reconciled(es, st, p) ==
  IF \/ st = "CANCELED"
     \/ \E i \in DOMAIN es : Unsettled(es[i])
     \/ ~LastStepFinished(es)
  THEN st
  ELSE Settled(p)

\* The entry a move starts from.
Current ==
  LET active == {i \in DOMAIN entries : ~entries[i].superseded /\ entries[i].state = "ACTIVE"}
      held == {i \in DOMAIN entries : ~entries[i].superseded /\ Held(entries[i])}
  IN  CASE active # {} -> Max(active)
        [] active = {} /\ held # {} -> Max(held)
        [] OTHER -> Len(entries)

-----------------------------------------------------------------------------
(* Entering, advancing, settling.                                          *)

\* Entries are made once per key, and never beside an active one: the guard
\* aborts the whole transaction.
MayEnter(es, st) ==
  /\ ~Over(st)
  /\ \A i \in DOMAIN es : es[i].state # "ACTIVE"
  /\ Len(es) < MaxEntries

Entered(es, step, after) ==
  IF after # 0 /\ \E j \in DOMAIN es : es[j].after = after
  THEN es
  ELSE Append(es, NewEntry(step, after))

Overtaken(es, i) ==
  \/ Over(status)
  \/ \E j \in DOMAIN es \ {i} : es[j].state = "ACTIVE" \/ j > i

\* Where an entry whose completion is released goes.
Released(es, i) ==
  CASE Overtaken(es, i) -> "PAUSED"
    [] ~Overtaken(es, i) /\ es[i].step < steps -> "ADVANCED"
    [] OTHER -> "FINISHED"

\* advanceTx on entry i, es being the entries the transaction has written so far.
Advance(es, i) ==
  LET to == Released(es, i)
      done == [es EXCEPT ![i].progress = to]
  IN  IF ~Awaiting(es[i])
      THEN entries' = es /\ UNCHANGED status
      ELSE /\ to = "ADVANCED" => MayEnter(es, status)
           /\ entries' = IF to = "ADVANCED" THEN Entered(done, es[i].step + 1, i) ELSE done
           /\ status' = IF to = "FINISHED" THEN Reconciled(done, status, paid) ELSE status

Paused(es, i) ==
  IF es[i].state = "COMPLETED" /\ es[i].progress = "WAITING_AUTOMATION"
  THEN [es EXCEPT ![i].progress = "PAUSED"]
  ELSE es

\* Mutant of AllSucceeded: the first workflow to succeed releases the step.
OneSucceeded(e) == \E a \in DOMAIN e.runs : e.runs[a] = "SUCCEEDED"

AllSucceeded(e) == DOMAIN e.runs # {} /\ \A a \in DOMAIN e.runs : e.runs[a] = "SUCCEEDED"

SomeStopped(e) == \E a \in DOMAIN e.runs : e.runs[a] \in Stopped

\* settleServiceStepCompletionEventTx after a run of entry i succeeded.
SettleSuccess(es, i) ==
  IF AllSucceeded(es[i])
  THEN Advance(es, i)
  ELSE entries' = (IF SomeStopped(es[i]) THEN Paused(es, i) ELSE es) /\ UNCHANGED status

\* Mutant of SettleStop: the stop is not settled.
StopUnsettled(es, i) == entries' = es /\ UNCHANGED status

\* The same after a run of entry i failed, exited or was removed.
SettleStop(es, i) == entries' = Paused(es, i) /\ UNCHANGED status

-----------------------------------------------------------------------------
(* Staff, and the automations that act for them.                           *)

\* POST .../complete, or the action COMPLETE_SERVICE_STEP of an entry workflow.
\* A repeated request finds the entry COMPLETED and changes nothing.  S are the
\* workflows that match: without one the enrollment advances at once.
Complete(i, S) ==
  /\ ~Over(status)
  /\ entries[i].state = "ACTIVE"
  /\ LET es == [entries EXCEPT ![i].state = "COMPLETED",
                               ![i].progress = "WAITING_AUTOMATION",
                               ![i].runs = [a \in S |-> "QUEUED"]]
     IN  IF S = {} THEN Advance(es, i) ELSE entries' = es /\ UNCHANGED status
  /\ UNCHANGED <<paid, steps>>

\* supersedeStepWorkTx for one entry: dispatches without a run are canceled and
\* unfinished runs exit.  keep is the workflow whose own segment is running this
\* transaction: it exits when the segment returns.
StoppedRuns(e, keep) ==
  [a \in DOMAIN e.runs |->
     CASE a \in keep -> "EXITED"
       [] a \notin keep /\ e.runs[a] = "QUEUED" -> "CANCELED"
       [] a \notin keep /\ e.runs[a] \in {"WAITING", "CLAIMED", "LEAVING"} -> "EXITED"
       [] OTHER -> e.runs[a]]

\* The kept workflow of each entry: the mover's own, if the mover is a run.
Keep(j, i, mover) == IF j = i THEN mover ELSE {}

\* moveServiceStepTx from entry i to a step; steps + 1 is a skip past the last.
\* The destination is guarded as any entry is.
MoveTo(i, to, mover) ==
  LET from == entries[i].step
      active == entries[i].state = "ACTIVE"
      left ==
        [j \in DOMAIN entries |->
           LET e == entries[j]
           IN  [e EXCEPT
                  !.superseded = TRUE,
                  !.runs = StoppedRuns(e, Keep(j, i, mover)),
                  !.state = IF j = i /\ active
                            THEN (IF to > from THEN "SKIPPED" ELSE "CANCELED")
                            ELSE @,
                  !.progress = CASE j = i /\ to > steps -> "FINISHED"
                                 [] Held(e) \/ (j = i /\ active /\ to <= steps) -> "SUPERSEDED"
                                 [] OTHER -> @]]
  IN  /\ ~Over(status)
      /\ i = Current
      /\ IF to <= steps
         THEN /\ MayEnter(left, "IN_PROGRESS")
              /\ entries' = Entered(left, to, 0)
              /\ status' = "IN_PROGRESS"
         ELSE /\ entries' = left
              /\ status' = Settled(paid)
      /\ UNCHANGED <<paid, steps>>

\* A move names its target; a repeated one is known by its request id and changes
\* nothing.  A skip takes the next step, from an active entry only.
Move(i, to) ==
  /\ ~(entries[i].state = "ACTIVE" /\ to = entries[i].step)
  /\ MoveTo(i, to, {})

Skip(i) ==
  /\ entries[i].state = "ACTIVE"
  /\ MoveTo(i, entries[i].step + 1, {})

\* Mutant of CancelAll: entries that were superseded before are written again.
CancelRewrites(i, mover) ==
  /\ ~Over(status)
  /\ entries' =
       [j \in DOMAIN entries |->
          [entries[j] EXCEPT !.superseded = TRUE, !.progress = "SUPERSEDED",
                             !.state = IF @ = "ACTIVE" THEN "CANCELED" ELSE @,
                             !.runs = StoppedRuns(entries[j], Keep(j, i, mover))]]
  /\ status' = "CANCELED"
  /\ UNCHANGED <<paid, steps>>

\* SET_SERVICE_STATUS to CANCELED.  The other status it accepts, IN_PROGRESS,
\* needs unsettled work in an enrollment that is not in progress: there is none.
CancelAll(i, mover) ==
  /\ ~Over(status)
  /\ entries' =
       [j \in DOMAIN entries |->
          LET e == entries[j]
          IN  [e EXCEPT !.superseded = TRUE,
                        !.progress = IF e.superseded THEN @ ELSE "SUPERSEDED",
                        !.state = IF @ = "ACTIVE" THEN "CANCELED" ELSE @,
                        !.runs = StoppedRuns(e, Keep(j, i, mover))]]
  /\ status' = "CANCELED"
  /\ UNCHANGED <<paid, steps>>

Cancel == CancelAll(0, {})

\* A payment is recorded, changed or voided, and the enrollment reconciled.
Pay ==
  /\ paid' = ~paid
  /\ status' = Reconciled(entries, status, ~paid)
  /\ UNCHANGED <<steps, entries>>

\* Mutant of MayReconfigure: finished work that awaits payment may get new steps.
MayReconfigureFinished(n) ==
  /\ status \in {"IN_PROGRESS", "PENDING_PAYMENT"}
  /\ n >= Max({entries[i].step : i \in DOMAIN entries})

\* The steps up to the last one ever entered are protected, and finished work
\* that awaits payment gets no new ones.
MayReconfigure(n) ==
  LET lastEntered == Max({entries[i].step : i \in DOMAIN entries})
  IN  /\ status \in {"IN_PROGRESS", "PENDING_PAYMENT"}
      /\ n >= lastEntered
      /\ status = "PENDING_PAYMENT" => n = lastEntered

\* A reviewed change of the service's steps is applied to this enrollment.  The
\* preview it names must still match the enrollment and its runs, so nothing has
\* happened since; a preview that was applied before changes nothing.
ApplyConfiguration(n) ==
  /\ n # steps
  /\ MayReconfigure(n)
  /\ steps' = n
  /\ UNCHANGED <<status, paid, entries>>

\* Staff, or another workflow, take the contact out of a completion workflow: a
\* queued dispatch is canceled and a waiting run exits, a claimed run is asked to.
RemoveFrom(i, a) ==
  /\ \/ /\ entries[i].runs[a] = "QUEUED"
        /\ SettleStop([entries EXCEPT ![i].runs[a] = "CANCELED"], i)
     \/ /\ entries[i].runs[a] = "WAITING"
        /\ SettleStop([entries EXCEPT ![i].runs[a] = "EXITED"], i)
     \/ /\ entries[i].runs[a] = "CLAIMED"
        /\ entries' = [entries EXCEPT ![i].runs[a] = "LEAVING"]
        /\ UNCHANGED status
  /\ UNCHANGED <<paid, steps>>

\* Staff continue or reschedule a wait that a worker has claimed but not started.
ChangeWait(i, a) ==
  /\ ~Over(status)
  /\ entries[i].state = "COMPLETED"
  /\ entries[i].progress = "WAITING_AUTOMATION"
  /\ entries[i].runs[a] = "CLAIMED"
  /\ entries' = [entries EXCEPT ![i].runs[a] = "WAITING"]
  /\ UNCHANGED <<status, paid, steps>>

-----------------------------------------------------------------------------
(* The workers.                                                            *)

\* A due run is claimed.
Claim(i, a) ==
  /\ entries[i].runs[a] = "WAITING"
  /\ entries' = [entries EXCEPT ![i].runs[a] = "CLAIMED"]
  /\ UNCHANGED <<status, paid, steps>>

\* A transient failure queues the run again, and so does the expiry of the lease
\* of a worker that crashed.
Requeue(i, a) ==
  /\ entries[i].runs[a] = "CLAIMED"
  /\ entries' = [entries EXCEPT ![i].runs[a] = "WAITING"]
  /\ UNCHANGED <<status, paid, steps>>

\* A segment executes: the first one in the transaction of its dispatch, the
\* others in the transaction of the claimed run.
Executes(i, a) == ~entries[i].superseded /\ entries[i].runs[a] \in {"QUEUED", "CLAIMED"}
Ends(i, a, how) == [entries EXCEPT ![i].runs[a] = how]

Park(i, a) ==
  /\ Executes(i, a)
  /\ entries' = Ends(i, a, "WAITING")
  /\ UNCHANGED <<status, paid, steps>>

Succeed(i, a) ==
  /\ Executes(i, a)
  /\ SettleSuccess(Ends(i, a, "SUCCEEDED"), i)
  /\ UNCHANGED <<paid, steps>>

\* The segment is rolled back and its failure recorded.
Fail(i, a) ==
  /\ Executes(i, a)
  /\ SettleStop(Ends(i, a, "FAILED"), i)
  /\ UNCHANGED <<paid, steps>>

\* A run asked to leave exits at its next segment; a run may also remove itself.
Leave(i, a) ==
  /\ Executes(i, a) \/ entries[i].runs[a] = "LEAVING"
  /\ SettleStop(Ends(i, a, "EXITED"), i)
  /\ UNCHANGED <<paid, steps>>

\* A fixed-date Wait whose date has passed exits the run.  The segment returns
\* EXITED and only SUCCEEDED is settled by its caller.
ExitAtPastWait(i, a) ==
  /\ Executes(i, a)
  /\ entries' = Ends(i, a, "LAPSED")
  /\ UNCHANGED <<status, paid, steps>>

\* The segment's action moves or cancels the enrollment.  Its own entry must
\* still be in question; the run then exits, and settles a superseded entry.
MayAct(i, a) == Executes(i, a) /\ ~Over(status) /\ Held(entries[i])

RunMoves(i, a, to) == MayAct(i, a) /\ MoveTo(i, to, {a})
RunCancels(i, a) == MayAct(i, a) /\ CancelAll(i, {a})

-----------------------------------------------------------------------------
WorkerStep(i, a) ==
  \/ Claim(i, a) \/ Requeue(i, a) \/ Park(i, a) \/ Succeed(i, a) \/ Fail(i, a)
  \/ Leave(i, a) \/ ExitAtPastWait(i, a) \/ RunCancels(i, a)
  \/ \E to \in Steps : RunMoves(i, a, to)

StaffStep ==
  \/ Cancel
  \/ Pay
  \/ \E n \in 1 .. MaxSteps : ApplyConfiguration(n)
  \/ \E i \in DOMAIN entries :
       \/ \E S \in SUBSET Automations : Complete(i, S)
       \/ \E to \in Steps : Move(i, to)
       \/ Skip(i)
       \/ \E a \in DOMAIN entries[i].runs : RemoveFrom(i, a) \/ ChangeWait(i, a)

Next ==
  \/ StaffStep
  \/ \E i \in DOMAIN entries : \E a \in DOMAIN entries[i].runs : WorkerStep(i, a)

Spec == Init /\ [][Next]_vars

-----------------------------------------------------------------------------
(* Properties.                                                             *)

\* Every variable stays in its type; the entries respect the bound, and the step of
\* an entry stays saved with the enrollment (buildConfigurationReview).
TypeOK ==
  /\ status \in Statuses
  /\ paid \in BOOLEAN
  /\ steps \in 1 .. MaxSteps
  /\ entries \in Seq(Entries)
  /\ Len(entries) \in 1 .. MaxEntries
  /\ \A i \in DOMAIN entries : entries[i].step \in Steps

\* Whatever the order of completions, moves, workers and payments: work is in
\* progress exactly while the newest entry is unsettled, no other entry is, and
\* without one the last step is finished and the payments alone decide between
\* COMPLETED and PENDING_PAYMENT (reconcileServiceStepEnrollmentTx).
StatusMatchesWork ==
  LET open == {i \in DOMAIN entries : Unsettled(entries[i])}
  IN  CASE status = "CANCELED" -> open = {}
        [] status = "IN_PROGRESS" -> open = {Len(entries)}
        [] OTHER -> open = {} /\ LastStepFinished(entries) /\ status = Settled(paid)

\* A completion advances exactly once, to the following step, and only when every
\* completion workflow of the entry has succeeded (advanceTx, entry keys).
AdvancedOnce ==
  \A j \in DOMAIN entries :
     LET i == entries[j].after
     IN  i # 0 =>
           /\ i < j
           /\ entries[j].step = entries[i].step + 1
           /\ entries[i].state = "COMPLETED"
           /\ \A a \in DOMAIN entries[i].runs : entries[i].runs[a] = "SUCCEEDED"
           /\ \A k \in DOMAIN entries : entries[k].after = i => k = j

\* Work that is obsolete stays so: no late worker or request revives a superseded
\* entry, no entry is made for a canceled enrollment, and no entry disappears.
ObsoleteIsInert ==
  [][/\ \A i \in DOMAIN entries :
           /\ i \in DOMAIN entries'
           /\ entries[i].superseded =>
                /\ entries'[i].superseded
                /\ entries'[i].state = entries[i].state
                /\ entries'[i].progress = entries[i].progress
     /\ status = "CANCELED" => status' = "CANCELED" /\ Len(entries') = Len(entries)]_vars

Lapsed(e) == \E a \in DOMAIN e.runs : e.runs[a] = "LAPSED"

\* An entry that waits for its completion workflows has one left to wait for and none that
\* has stopped, in whatever way and order they end: "stopping or removing a completion run
\* also pauses".  A run that ended at a fixed-date Wait is the one exception
\* (executeAutomationSegmentTx settles only SUCCEEDED).
OnlyPastWaitStrands ==
  \A i \in DOMAIN entries :
     Awaiting(entries[i]) /\ ~Lapsed(entries[i]) =>
        /\ ~SomeStopped(entries[i])
        /\ \E a \in DOMAIN entries[i].runs : entries[i].runs[a] \in Unfinished
=============================================================================
