---------------------------- MODULE AutomationQueue ----------------------------
(***************************************************************************)
(* The life of one AutomationEvent and of its ordered dispatches           *)
(* (lib/automation-event-queue.ts): a worker claims the event, runs the    *)
(* first segment of each dispatch in a transaction of its own, retries     *)
(* what failed transiently, records what failed for good, and closes the   *)
(* event with its counts.  Overtaken workers go on beside their successor, *)
(* staff move or remove the enrollment, and the contact is deleted.        *)
(*                                                                         *)
(* Admission is in ExecutionBudget: here the execution lease of the event  *)
(* is one record.  A segment is abstracted to how it leaves its run.       *)
(* availableAt is left out: a claim may come at any time after a requeue.  *)
(***************************************************************************)
EXTENDS Integers, FiniteSets

CONSTANTS
    N,            \* number of dispatches of the event
    Decision,     \* [1 .. N -> {"RUN", "SKIP"}], taken when the event was queued
    ServiceEvent, \* the event belongs to a step of an enrollment (serviceContext)
    Retries,      \* length of RETRY_DELAYS_MS
    MaxCrashes,   \* bound: workers that die
    MaxStalls,    \* bound: leases that expire under a live worker
    MaxThrows,    \* bound: calls that fail transiently
    MaxLost,      \* bound: transactions that commit and are reported as failed
    MaxFaults     \* bound: all of these together

Dispatch == 1 .. N

ASSUME QueueAssumption ==
    /\ N \in Nat \ {0}
    /\ Decision \in [Dispatch -> {"RUN", "SKIP"}]
    /\ ServiceEvent \in BOOLEAN
    /\ {Retries, MaxCrashes, MaxStalls, MaxThrows, MaxLost, MaxFaults} \subseteq Nat

VARIABLES
    event,      \* AutomationEvent: status, leaseToken, leaseExpiresAt, the counts
    dispatch,   \* AutomationDispatch: status, attemptCount
    run,        \* AutomationRun of each dispatch, or NONE
    applied,    \* history: how often the actions of a segment were committed
    contactGone, superseded,
    lease,      \* the AutomationExecutionLease row of the event; token 0 is none
    workers,    \* executions of processClaim, by token
    claims, crashes, stalls, throws, lost

vars == <<event, dispatch, run, applied, contactGone, superseded, lease, workers,
          claims, crashes, stalls, throws, lost>>
data == <<dispatch, run, applied>>
world == <<contactGone, superseded>>
faults == <<crashes, stalls, throws, lost>>

Settled == {"COMPLETED", "FAILED", "SKIPPED", "CANCELED"}
Closed == {"COMPLETED", "COMPLETED_WITH_ERRORS", "FAILED", "CANCELED"}
RunEnd == {"SUCCEEDED", "FAILED", "EXITED"}
Steps == {"load", "next", "process", "retry", "fail", "refresh", "write", "requeue", "release"}

Counts == [queued : Nat, completed : Nat, skipped : Nat, failed : Nat]
NoCounts == [queued |-> 0, completed |-> 0, skipped |-> 0, failed |-> 0]

Events == [status : {"QUEUED", "PROCESSING"} \cup Closed, token : Nat, live : BOOLEAN,
           counts : Counts]
DispatchRows == [status : {"QUEUED"} \cup Settled, attempts : 0 .. Retries]
RunStatus == {"NONE", "WAITING"} \cup RunEnd
LeaseRows == [token : Nat, live : BOOLEAN]
Workers == [token : Nat, step : Steps, open : SUBSET Dispatch, at : 0 .. N, seen : Counts]

TypeOK ==
    /\ event \in Events
    /\ dispatch \in [Dispatch -> DispatchRows]
    /\ run \in [Dispatch -> RunStatus]
    /\ applied \in [Dispatch -> Nat]
    /\ contactGone \in BOOLEAN /\ superseded \in BOOLEAN
    /\ lease \in LeaseRows
    /\ workers \subseteq Workers
    /\ claims \in Nat /\ crashes \in Nat /\ stalls \in Nat /\ throws \in Nat /\ lost \in Nat

Init ==
    /\ event = [status |-> "QUEUED", token |-> 0, live |-> FALSE, counts |-> NoCounts]
    /\ dispatch = [d \in Dispatch |-> [status |-> "QUEUED", attempts |-> 0]]
    /\ run = [d \in Dispatch |-> "NONE"]
    /\ applied = [d \in Dispatch |-> 0]
    /\ contactGone = FALSE /\ superseded = FALSE
    /\ lease = [token |-> 0, live |-> FALSE]
    /\ workers = {}
    /\ claims = 0 /\ crashes = 0 /\ stalls = 0 /\ throws = 0 /\ lost = 0

-----------------------------------------------------------------------------
(* Claims and leases *)

\* Something may still go wrong.
Fault == crashes + stalls + throws + lost < MaxFaults

\* The fence: leaseToken and PROCESSING.
Own(w) == event.token = w.token /\ event.status = "PROCESSING"

Unlocked(status) == [event EXCEPT !.status = status, !.token = 0, !.live = FALSE]

\* Mutant of Due: a lapsed event waits for its recovery.
DueQueued == event.status = "QUEUED"

Due == event.status = "QUEUED" \/ (event.status = "PROCESSING" /\ ~event.live)

\* A due event whose contact is free; the token is a fresh UUID.
Claim ==
    /\ Due /\ ~lease.live
    /\ claims' = claims + 1
    /\ event' = [event EXCEPT !.status = "PROCESSING", !.token = claims + 1, !.live = TRUE]
    /\ lease' = [token |-> claims + 1, live |-> TRUE]
    /\ workers' = workers \cup {[token |-> claims + 1, step |-> "load", open |-> {}, at |-> 0,
                                seen |-> NoCounts]}
    /\ UNCHANGED <<data, world, faults>>

\* recoverExpiredLeases, at the start of a pass.
Recover ==
    /\ event.status = "PROCESSING" /\ ~event.live
    /\ event' = Unlocked("QUEUED")
    /\ UNCHANGED <<data, world, lease, workers, claims, faults>>

CountStall(token) ==
    IF \E w \in workers : w.token = token
    THEN Fault /\ stalls < MaxStalls /\ stalls' = stalls + 1 ELSE UNCHANGED stalls

ExpireLease ==
    /\ lease.live
    /\ CountStall(lease.token)
    /\ lease' = [lease EXCEPT !.live = FALSE]
    /\ UNCHANGED <<event, data, world, workers, claims, crashes, throws, lost>>

ExpireEvent ==
    /\ event.status = "PROCESSING" /\ event.live
    /\ CountStall(event.token)
    /\ event' = [event EXCEPT !.live = FALSE]
    /\ UNCHANGED <<data, world, lease, workers, claims, crashes, throws, lost>>

-----------------------------------------------------------------------------
(* processClaimedAutomationEvent *)

Becomes(w, v) == workers' = (workers \ {w}) \cup {v}
GoesTo(w, step) == Becomes(w, [w EXCEPT !.step = step])

\* Mutant of IsNext: the loop runs backwards.
IsLast(d, S) == \A c \in S : d >= c

\* The loop takes the dispatches in their order.
IsNext(d, S) == \A c \in S : d <= c

Moves(w) == Becomes(w, [w EXCEPT !.step = "next", !.open = @ \ {w.at}])

Load(w) ==
    /\ w.step = "load"
    /\ IF Own(w)
       THEN Becomes(w, [w EXCEPT !.step = "next",
                                 !.open = {d \in Dispatch : dispatch[d].status \notin Settled}])
       ELSE GoesTo(w, "release")
    /\ UNCHANGED <<event, data, world, lease, claims, faults>>

\* The lease is renewed unless it has expired, then the event.
Renew(w) ==
    /\ w.step = "next"
    /\ \E d \in w.open :
          /\ IsNext(d, w.open)
          /\ IF lease.token = w.token /\ lease.live /\ Own(w)
             THEN event' = [event EXCEPT !.live = TRUE] /\ Becomes(w, [w EXCEPT !.step = "process", !.at = d])
             ELSE GoesTo(w, "release") /\ UNCHANGED event
    /\ UNCHANGED <<data, world, lease, claims, faults>>

AllVisited(w) ==
    /\ w.step = "next" /\ w.open = {}
    /\ GoesTo(w, "refresh")
    /\ UNCHANGED <<event, data, world, lease, claims, faults>>

-----------------------------------------------------------------------------
(* processDispatch: one transaction per dispatch *)

\* The transaction commits and the worker moves on, or its acknowledgement is lost and
\* the client reports a transient error.
Committed(w, step) ==
    \/ step = "next" /\ Moves(w) /\ UNCHANGED faults
    \/ step = "refresh" /\ GoesTo(w, "refresh") /\ UNCHANGED faults
    \/ Fault /\ lost < MaxLost /\ lost' = lost + 1 /\ GoesTo(w, "retry") /\ UNCHANGED <<crashes, stalls, throws>>

SetStatus(d, s) == dispatch' = [dispatch EXCEPT ![d].status = s]

\* Every read comes first: the dispatch is settled, or the event is not the worker's.
Nothing(w) ==
    /\ w.step = "process"
    /\ \/ dispatch[w.at].status \in Settled
       \/ ~superseded /\ ~Own(w)
    /\ Moves(w)
    /\ UNCHANGED <<event, data, world, lease, claims, faults>>

Visits(w) == w.step = "process" /\ dispatch[w.at].status \notin Settled

\* The enrollment moved on or is gone: canceled, whoever holds the event.
CancelSuperseded(w) ==
    /\ Visits(w) /\ superseded
    /\ SetStatus(w.at, "CANCELED")
    /\ Committed(w, "next")
    /\ UNCHANGED <<event, run, applied, world, lease, claims>>

\* Mutant of Executes: the enrollment is not reread.
ExecutesAnyway(w) == Visits(w) /\ Own(w)

Executes(w) == Visits(w) /\ ~superseded /\ Own(w)

\* The contact is gone, or the decision was not to run.
Skip(w) ==
    /\ Executes(w)
    /\ \/ contactGone /\ SetStatus(w.at, "CANCELED")
       \/ ~contactGone /\ Decision[w.at] = "SKIP" /\ SetStatus(w.at, "SKIPPED")
    /\ Committed(w, "next")
    /\ UNCHANGED <<event, run, applied, world, lease, claims>>

Runs(w) == Executes(w) /\ ~contactGone /\ Decision[w.at] = "RUN"

\* Mutant of MayCreateRun: dispatchId is not unique.
MayAlwaysCreateRun(d) == TRUE

\* automationRun.create: dispatchId is unique.
MayCreateRun(d) == run[d] = "NONE"

CreateRun(w, result, others) ==
    /\ Runs(w) /\ MayCreateRun(w.at)
    /\ run' = [others EXCEPT ![w.at] = result]
    /\ applied' = [applied EXCEPT ![w.at] = @ + 1]

\* The segment succeeded, waits or yields (WAITING), or exited.
Results == {"SUCCEEDED", "WAITING", "EXITED"}

Execute(w) ==
    /\ \E result \in Results : CreateRun(w, result, run)
    /\ SetStatus(w.at, "COMPLETED")
    /\ Committed(w, "next")
    /\ UNCHANGED <<event, world, lease, claims>>

\* The dispatch completes, those of rest that are queued are canceled.
CompleteAndCancel(d, rest) ==
    dispatch' = [c \in Dispatch |->
                    IF c = d THEN [dispatch[c] EXCEPT !.status = "COMPLETED"]
                    ELSE IF c \in rest /\ dispatch[c].status = "QUEUED"
                    THEN [dispatch[c] EXCEPT !.status = "CANCELED"]
                    ELSE dispatch[c]]

\* cancelRemainingDispatches: a segment that deletes the contact ends the event.
ExecuteDelete(w) ==
    /\ CreateRun(w, "SUCCEEDED", run)
    /\ CompleteAndCancel(w.at, {c \in Dispatch : c > w.at})
    /\ contactGone' = TRUE
    /\ superseded' = (superseded \/ ServiceEvent)
    /\ Committed(w, "refresh")
    /\ UNCHANGED <<event, lease, claims>>

\* supersedeStepWorkTx: the waiting runs of the enrollment exit, except for the run
\* whose segment moves it.
ExitWaiting(mover) ==
    [d \in Dispatch |-> IF run[d] = "WAITING" /\ d # mover THEN "EXITED" ELSE run[d]]

\* A segment moves the enrollment: the own event is canceled with the others.  It may
\* delete the contact as well.
ExecuteMove(w) ==
    /\ ServiceEvent
    /\ \E result \in Results : CreateRun(w, result, ExitWaiting(w.at))
    /\ CompleteAndCancel(w.at, Dispatch)
    /\ event' = Unlocked("CANCELED")
    /\ superseded' = TRUE
    /\ \/ Committed(w, "next") /\ UNCHANGED contactGone
       \/ Committed(w, "refresh") /\ contactGone' = TRUE
    /\ UNCHANGED <<lease, claims>>

\* Rolled back for good: an action failed, the snapshot is corrupt, the run exists.
FailForGood(w) ==
    /\ Executes(w)
    /\ GoesTo(w, "fail")
    /\ UNCHANGED <<event, data, world, lease, claims, faults>>

\* Rolled back by a deadlock, a timeout or a lost connection.
FailTransiently(w) ==
    /\ w.step = "process" /\ Fault /\ throws < MaxThrows
    /\ throws' = throws + 1
    /\ GoesTo(w, "retry")
    /\ UNCHANGED <<event, data, world, lease, claims, crashes, stalls, lost>>

Process(w) ==
    \/ Nothing(w) \/ CancelSuperseded(w) \/ Skip(w) \/ Execute(w) \/ ExecuteDelete(w)
    \/ ExecuteMove(w) \/ FailForGood(w)

-----------------------------------------------------------------------------
(* Retry, failure, progress *)

\* Mutant of RetryGuard: the token is left out.
RetryGuardOfAny(w) == event.status = "PROCESSING"

\* The guard of the update that puts the dispatch back: its event is the worker's.
RetryGuard(w) == Own(w)

MayRetry(d) == dispatch[d].attempts < Retries

\* While attempts are left, the dispatch and its event go back to the queue, whatever
\* the status of the dispatch is.  The attempts were read at the start: an overtaken
\* worker may count fewer.
Retry(w) ==
    /\ w.step = "retry"
    /\ \/ /\ MayRetry(w.at) \/ ~Own(w)
          /\ dispatch' = IF RetryGuard(w)
                         THEN [dispatch EXCEPT ![w.at] = [status |-> "QUEUED", attempts |-> @.attempts + 1]]
                         ELSE dispatch
          /\ event' = IF event.token = w.token THEN Unlocked("QUEUED") ELSE event
          /\ GoesTo(w, "release")
       \/ /\ ~MayRetry(w.at)
          /\ GoesTo(w, "fail")
          /\ UNCHANGED <<event, dispatch>>
    /\ UNCHANGED <<run, applied, world, lease, claims, faults>>

MayRecord(w) == dispatch[w.at].status \notin Settled /\ ~superseded /\ Own(w)

\* recordDispatchFailure: the run is upserted, the dispatch fails, the loop goes on.
RecordFailure(w) ==
    /\ w.step = "fail"
    /\ IF MayRecord(w)
       THEN SetStatus(w.at, "FAILED") /\ run' = [run EXCEPT ![w.at] = "FAILED"]
       ELSE UNCHANGED <<dispatch, run>>
    /\ \/ Moves(w) /\ UNCHANGED faults
       \/ Fault /\ lost < MaxLost /\ lost' = lost + 1 /\ GoesTo(w, "requeue") /\ UNCHANGED <<crashes, stalls, throws>>
    /\ UNCHANGED <<event, applied, world, lease, claims>>

Having(S) == Cardinality({d \in Dispatch : dispatch[d].status \in S})

CurrentCounts ==
    [queued |-> Having({"QUEUED"}), completed |-> Having({"COMPLETED"}),
     skipped |-> Having({"SKIPPED", "CANCELED"}), failed |-> Having({"FAILED"})]

\* refreshEventProgress reads the counts ...
RefreshRead(w) ==
    /\ w.step = "refresh"
    /\ Becomes(w, [w EXCEPT !.step = "write", !.seen = CurrentCounts])
    /\ UNCHANGED <<event, data, world, lease, claims, faults>>

StatusOf(c) ==
    IF c.queued > 0 THEN "PROCESSING"
    ELSE IF c.failed = 0 THEN "COMPLETED"
    ELSE IF c.completed + c.skipped > 0 THEN "COMPLETED_WITH_ERRORS"
    ELSE "FAILED"

\* Mutant of MayWrite: the token is left out.
MayAlwaysWrite(w) == event.status = "PROCESSING"

\* ... and writes them under its token.
MayWrite(w) == event.token = w.token

RefreshWrite(w) ==
    /\ w.step = "write"
    /\ event' = IF ~MayWrite(w) THEN event
                ELSE [status |-> StatusOf(w.seen), token |-> IF w.seen.queued > 0 THEN w.token ELSE 0,
                      live |-> w.seen.queued > 0, counts |-> w.seen]
    /\ GoesTo(w, "release")
    /\ UNCHANGED <<data, world, lease, claims, faults>>

\* A call outside the dispatch transaction throws: processClaim catches it and requeues
\* the event, but lets it be when that fails too.
Throw(w) ==
    /\ w.step \notin {"process", "release"} /\ Fault /\ throws < MaxThrows
    /\ throws' = throws + 1
    /\ GoesTo(w, IF w.step = "requeue" THEN "release" ELSE "requeue")
    /\ UNCHANGED <<event, data, world, lease, claims, crashes, stalls, lost>>

Requeue(w) ==
    /\ w.step = "requeue"
    /\ event' = IF Own(w) THEN Unlocked("QUEUED") ELSE event
    /\ GoesTo(w, "release")
    /\ UNCHANGED <<data, world, lease, claims, faults>>

Release(w) ==
    /\ w.step = "release"
    /\ lease' = IF lease.token = w.token THEN [token |-> 0, live |-> FALSE] ELSE lease
    /\ workers' = workers \ {w}
    /\ UNCHANGED <<event, data, world, claims, faults>>

Crash(w) ==
    /\ Fault /\ crashes < MaxCrashes
    /\ crashes' = crashes + 1
    /\ workers' = workers \ {w}
    /\ UNCHANGED <<event, data, world, lease, claims, stalls, throws, lost>>

-----------------------------------------------------------------------------
(* The rest of the system *)

\* The run worker ends a waiting run.
EndRun(d) ==
    /\ run[d] = "WAITING"
    /\ \E s \in RunEnd : run' = [run EXCEPT ![d] = s]
    /\ UNCHANGED <<event, dispatch, applied, world, lease, workers, claims, faults>>

\* Staff, or another run of the enrollment, move it: its events, dispatches and runs are
\* closed with it.
MoveStep ==
    /\ ServiceEvent /\ ~superseded
    /\ superseded' = TRUE
    /\ \E mover \in Dispatch \cup {0} : run' = ExitWaiting(mover)
    /\ IF event.status \in {"QUEUED", "PROCESSING"}
       THEN /\ event' = Unlocked("CANCELED")
            /\ dispatch' = [d \in Dispatch |-> IF dispatch[d].status = "QUEUED"
                                               THEN [dispatch[d] EXCEPT !.status = "CANCELED"]
                                               ELSE dispatch[d]]
       ELSE UNCHANGED <<event, dispatch>>
    /\ UNCHANGED <<applied, contactGone, lease, workers, claims, faults>>

\* Staff delete the enrollment: only its row goes.
RemoveEnrollment ==
    /\ ServiceEvent /\ ~superseded
    /\ superseded' = TRUE
    /\ UNCHANGED <<event, data, contactGone, lease, workers, claims, faults>>

\* The contact is deleted, its enrollments with it.
DeleteContact ==
    /\ ~contactGone
    /\ contactGone' = TRUE
    /\ superseded' = (superseded \/ ServiceEvent)
    /\ UNCHANGED <<event, data, lease, workers, claims, faults>>

-----------------------------------------------------------------------------

\* The steps of a worker that nothing disturbs.
Work(w) ==
    \/ Load(w) \/ Renew(w) \/ AllVisited(w) \/ Process(w) \/ Retry(w) \/ RecordFailure(w)
    \/ RefreshRead(w) \/ RefreshWrite(w) \/ Requeue(w) \/ Release(w)

Next ==
    \/ Claim \/ Recover \/ ExpireLease \/ ExpireEvent
    \/ \E w \in workers : Work(w) \/ FailTransiently(w) \/ Throw(w) \/ Crash(w)
    \/ \E d \in Dispatch : EndRun(d)
    \/ MoveStep \/ RemoveEnrollment \/ DeleteContact

Spec == Init /\ [][Next]_vars

\* Passes are started by a timer, time passes, and a live worker goes on.
Fairness ==
    /\ WF_vars(Claim) /\ WF_vars(ExpireLease) /\ WF_vars(ExpireEvent)
    /\ WF_vars(\E w \in workers : Work(w))

FairSpec == Spec /\ Fairness

-----------------------------------------------------------------------------
(* Properties *)

\* The actions of a segment are committed at most once, whatever is retried, reclaimed
\* or reported as failed ("idempotent action/log commits").
ActionsAtMostOnce == \A d \in Dispatch : applied[d] <= 1

\* A closed event accounts for its dispatches: none is open, and unless it was canceled
\* its counts and its status are those of its dispatches.
ClosedEventAccounts ==
    event.status \in Closed =>
       /\ \A d \in Dispatch : dispatch[d].status \in Settled
       /\ event.status # "CANCELED" => /\ event.counts = CurrentCounts
                                       /\ event.status = StatusOf(CurrentCounts)

\* A dispatch and its run tell the same story until an acknowledgement is lost: a run exists
\* exactly when the segment was committed or its failure recorded.
RunMatchesDispatch ==
    lost = 0 => \A d \in Dispatch :
       /\ dispatch[d].status = "COMPLETED" <=> applied[d] = 1
       /\ dispatch[d].status = "FAILED" => run[d] = "FAILED"
       /\ dispatch[d].status \notin {"COMPLETED", "FAILED"} => run[d] = "NONE"

\* A segment whose actions are committed is never recorded as failed: "The worker uses
\* leases, retry rules for transient failures, and idempotent action/log commits."
CommittedIsNotFailed == \A d \in Dispatch : applied[d] > 0 => dispatch[d].status # "FAILED"

\* Once the enrollment has moved on or is gone, no segment of the event starts.
NoRunAfterSupersede == [][superseded => applied' = applied]_vars

\* Every event closes, whatever crashes, stalls, errors and staff steps happen.
EventCloses == <>[](event.status \in Closed)

\* What is open when the enrollment moves on is canceled there and then: the workers
\* only write it down, and a retry may take it back for a while.
PromisedOutcome == [d \in Dispatch |-> IF superseded /\ dispatch[d].status = "QUEUED"
                                       THEN "CANCELED" ELSE dispatch[d].status]
PromisedClosed == event.status \in Closed

Promise == INSTANCE EventPromise WITH outcome <- PromisedOutcome, closed <- PromisedClosed

\* The queue keeps the promise of EventPromise until an acknowledgement is lost: dispatches
\* are carried out in order, each is settled once and for good, and the event closes when
\* nothing is left open.
KeepsPromise ==
    /\ Promise!Init
    /\ [][lost' = 0 => [Promise!Next]_<<PromisedOutcome, PromisedClosed>>]_vars
=============================================================================
