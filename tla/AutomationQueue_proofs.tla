------------------------ MODULE AutomationQueue_proofs ------------------------
(***************************************************************************)
(* AutomationQueue keeps the promise of EventPromise for any number of     *)
(* dispatches, workers and faults, as long as no acknowledgement is lost.  *)
(* In any case it commits the actions of a segment at most once, closes an *)
(* event with the counts of its dispatches, and starts nothing once the    *)
(* enrollment has moved on.                                                *)
(***************************************************************************)
EXTENDS AutomationQueue, FiniteSetTheorems, TLAPS

-----------------------------------------------------------------------------
(* Actions at most once *)

RunCounted ==
    /\ run \in [Dispatch -> RunStatus]
    /\ applied \in [Dispatch -> Nat]
    /\ \A d \in Dispatch : applied[d] <= 1 /\ (applied[d] = 1 => run[d] # "NONE")

LEMMA CreateRunCounted ==
  ASSUME RunCounted, NEW w, NEW result \in RunStatus \ {"NONE"},
         NEW others \in [Dispatch -> RunStatus], \A d \in Dispatch : run[d] # "NONE" => others[d] # "NONE",
         CreateRun(w, result, others)
  PROVE  RunCounted'
<1>1. /\ run' = [others EXCEPT ![w.at] = result]
      /\ applied' = [applied EXCEPT ![w.at] = @ + 1]
      /\ run[w.at] = "NONE"
  BY DEF CreateRun, MayCreateRun
<1>2. run' \in [Dispatch -> RunStatus]
  BY <1>1
<1>3. applied' \in [Dispatch -> Nat]
  <2>1. applied' = [d \in Dispatch |-> IF d = w.at THEN applied[d] + 1 ELSE applied[d]]
    BY <1>1 DEF RunCounted
  <2>2. \A d \in Dispatch : applied[d] \in Nat /\ applied[d] + 1 \in Nat
    BY DEF RunCounted
  <2> QED
    BY <2>1, <2>2
<1>4. ASSUME NEW d \in Dispatch
      PROVE  applied'[d] <= 1 /\ (applied'[d] = 1 => run'[d] # "NONE")
  <2>1. CASE d = w.at
    <3>1. applied[d] = 0
      BY <1>1, <2>1 DEF RunCounted
    <3> QED
      BY <1>1, <2>1, <3>1 DEF RunCounted
  <2>2. CASE d # w.at
    BY <1>1, <2>2 DEF RunCounted
  <2> QED
    BY <2>1, <2>2
<1> QED
  BY <1>2, <1>3, <1>4 DEF RunCounted

LEMMA ExitWaitingCounted ==
  ASSUME RunCounted, NEW d
  PROVE  /\ ExitWaiting(d) \in [Dispatch -> RunStatus]
         /\ \A c \in Dispatch : run[c] # "NONE" => ExitWaiting(d)[c] # "NONE"
  BY DEF ExitWaiting, RunCounted, RunStatus, RunEnd

LEMMA StepRunCounted == RunCounted /\ [Next]_vars => RunCounted'
<1> SUFFICES ASSUME RunCounted, [Next]_vars
             PROVE  RunCounted'
  OBVIOUS
<1>1. CASE UNCHANGED <<run, applied>>
  BY <1>1 DEF RunCounted
<1>2. CASE \E w \in workers : Execute(w) \/ ExecuteDelete(w) \/ ExecuteMove(w)
  <2>1. PICK w \in workers : Execute(w) \/ ExecuteDelete(w) \/ ExecuteMove(w)
    BY <1>2
  <2>2. "SUCCEEDED" \in RunStatus \ {"NONE"} /\ Results \subseteq RunStatus \ {"NONE"}
    BY DEF RunStatus, RunEnd, Results
  <2>3. run \in [Dispatch -> RunStatus]
    BY DEF RunCounted
  <2>4. CASE Execute(w) \/ ExecuteDelete(w)
    BY <2>2, <2>3, <2>4, CreateRunCounted DEF Execute, ExecuteDelete
  <2>5. CASE ExecuteMove(w)
    BY <2>2, <2>5, ExitWaitingCounted, CreateRunCounted DEF ExecuteMove
  <2> QED
    BY <2>1, <2>4, <2>5
<1>3. CASE \E w \in workers : RecordFailure(w)
  BY <1>3 DEF RecordFailure, RunCounted, RunStatus, RunEnd
<1>4. CASE \E d \in Dispatch : EndRun(d)
  BY <1>4 DEF EndRun, RunCounted, RunStatus, RunEnd
<1>5. CASE MoveStep
  BY <1>5, ExitWaitingCounted DEF MoveStep, RunCounted
<1> QED
  BY <1>1, <1>2, <1>3, <1>4, <1>5
  DEF Next, Claim, Recover, ExpireLease, ExpireEvent, Work, Load, Renew, AllVisited, Process,
      Nothing, CancelSuperseded, Skip, FailForGood, Retry, RefreshRead, RefreshWrite, Requeue,
      Release, FailTransiently, Throw, Crash, RemoveEnrollment, DeleteContact, data, vars

\* The actions of a segment are committed at most once, also when acknowledgements of
\* commits are lost and the dispatch is put back to the queue.
THEOREM ActionsAtMostOnceHolds == Spec => []ActionsAtMostOnce
<1>1. Init => RunCounted
  BY DEF Init, RunCounted, RunStatus
<1>2. RunCounted => ActionsAtMostOnce
  BY DEF RunCounted, ActionsAtMostOnce
<1> QED
  BY <1>1, <1>2, StepRunCounted, PTL DEF Spec

-----------------------------------------------------------------------------
(* Type correctness *)

LEMMA NoCountsType == NoCounts \in Counts
  BY DEF NoCounts, Counts

LEMMA InitType == Init => TypeOK
<1> SUFFICES ASSUME Init PROVE TypeOK
  OBVIOUS
<1>1. [status |-> "QUEUED", attempts |-> 0] \in DispatchRows
  BY QueueAssumption DEF DispatchRows
<1>2. dispatch \in [Dispatch -> DispatchRows]
  BY <1>1 DEF Init
<1>3. event \in Events
  BY NoCountsType DEF Init, Events
<1>4. run \in [Dispatch -> RunStatus] /\ applied \in [Dispatch -> Nat] /\ lease \in LeaseRows
  BY DEF Init, RunStatus, LeaseRows
<1> QED
  BY <1>2, <1>3, <1>4 DEF Init, TypeOK

LEMMA WorkerUpdates ==
  ASSUME NEW w \in Workers
  PROVE  /\ \A s \in Steps : [w EXCEPT !.step = s] \in Workers
         /\ \A d \in Dispatch : [w EXCEPT !.step = "process", !.at = d] \in Workers
         /\ \A S \in SUBSET Dispatch : [w EXCEPT !.step = "next", !.open = S] \in Workers
         /\ [w EXCEPT !.step = "next", !.open = @ \ {w.at}] \in Workers
         /\ \A c \in Counts : [w EXCEPT !.step = "write", !.seen = c] \in Workers
         /\ w.token \in Nat /\ w.step \in Steps /\ w.open \in SUBSET Dispatch /\ w.seen \in Counts
<1>1. \A d \in Dispatch : d \in 0 .. N
  BY QueueAssumption DEF Dispatch
<1> QED
  BY <1>1 DEF Workers, Steps

LEMMA EventUpdates ==
  ASSUME event \in Events
  PROVE  /\ \A s \in {"QUEUED", "CANCELED"} : Unlocked(s) \in Events
         /\ \A n \in Nat : [event EXCEPT !.status = "PROCESSING", !.token = n, !.live = TRUE] \in Events
         /\ [event EXCEPT !.live = TRUE] \in Events /\ [event EXCEPT !.live = FALSE] \in Events
         /\ event.token \in Nat /\ event.status \in {"QUEUED", "PROCESSING"} \cup Closed
  BY DEF Unlocked, Events, Closed

LEMMA DispatchUpdates ==
  ASSUME NEW r \in DispatchRows
  PROVE  /\ \A s \in Settled : [r EXCEPT !.status = s] \in DispatchRows
         /\ r.attempts < Retries => [status |-> "QUEUED", attempts |-> r.attempts + 1] \in DispatchRows
         /\ r.status \in {"QUEUED"} \cup Settled
  BY QueueAssumption DEF DispatchRows

\* What an action does to the workers.
LEMMA WorkersType ==
  ASSUME TypeOK, NEW w \in workers, NEW v \in Workers,
         Becomes(w, v) \/ workers' = workers \ {w}
  PROVE  workers' \subseteq Workers
  BY DEF TypeOK, Becomes

LEMMA CountsType == CurrentCounts \in Counts /\ (CurrentCounts.queued = 0 =>
                       \A d \in Dispatch : dispatch[d].status # "QUEUED")
<1>1. IsFiniteSet(Dispatch)
  BY QueueAssumption, FS_Interval DEF Dispatch
<1>2. ASSUME NEW S
      PROVE  Having(S) \in Nat /\ (Having(S) = 0 => \A d \in Dispatch : dispatch[d].status \notin S)
  <2> DEFINE H == {d \in Dispatch : dispatch[d].status \in S}
  <2>1. H \in SUBSET Dispatch
    OBVIOUS
  <2> HIDE DEF H
  <2>2. IsFiniteSet(H) /\ Cardinality(H) \in Nat
    BY <1>1, <2>1, FS_Subset, FS_CardinalityType
  <2>3. Cardinality(H) = 0 => H = {}
    BY <2>2, FS_EmptySet
  <2> QED
    BY <2>2, <2>3 DEF Having, H
<1>3. /\ CurrentCounts.queued = Having({"QUEUED"})
      /\ CurrentCounts \in Counts
  BY <1>2 DEF CurrentCounts, Counts
<1>4. Having({"QUEUED"}) = 0 => \A d \in Dispatch : dispatch[d].status \notin {"QUEUED"}
  BY <1>2
<1> QED
  BY <1>3, <1>4

LEMMA ClaimType ==
  ASSUME TypeOK, Claim \/ Recover \/ ExpireLease \/ ExpireEvent
  PROVE  TypeOK'
<1> USE DEF data, world, faults
<1>0. event \in Events /\ claims + 1 \in Nat /\ lease \in LeaseRows
  BY DEF TypeOK
<1>1. CASE Claim
  <2>1. [token |-> claims + 1, step |-> "load", open |-> {}, at |-> 0, seen |-> NoCounts] \in Workers
    BY <1>0, QueueAssumption, NoCountsType DEF Workers, Steps
  <2>2. workers' \subseteq Workers
    BY <1>1, <2>1 DEF Claim, TypeOK
  <2>3. event' \in Events /\ lease' \in LeaseRows
    BY <1>0, <1>1, EventUpdates DEF Claim, LeaseRows
  <2> QED
    BY <1>0, <1>1, <2>2, <2>3 DEF Claim, TypeOK
<1>2. CASE Recover
  BY <1>0, <1>2, EventUpdates DEF Recover, TypeOK
<1>3. CASE ExpireLease
  <2>1. lease' \in LeaseRows
    BY <1>0, <1>3 DEF ExpireLease, LeaseRows
  <2> QED
    BY <1>3, <2>1 DEF ExpireLease, CountStall, TypeOK
<1>4. CASE ExpireEvent
  <2>1. event' \in Events
    BY <1>0, <1>4, EventUpdates DEF ExpireEvent
  <2>2. stalls' \in Nat
    BY <1>4 DEF ExpireEvent, CountStall, TypeOK
  <2> QED
    BY <1>4, <2>1, <2>2 DEF ExpireEvent, TypeOK
<1> QED
  BY <1>1, <1>2, <1>3, <1>4

LEMMA LoopType ==
  ASSUME TypeOK, NEW w \in workers,
         \/ Load(w) \/ Renew(w) \/ AllVisited(w) \/ RefreshRead(w) \/ RefreshWrite(w)
         \/ Throw(w) \/ Requeue(w) \/ Release(w) \/ Crash(w)
  PROVE  TypeOK'
<1> USE DEF data, world, faults
<1>0. event \in Events /\ lease \in LeaseRows /\ w \in Workers
  BY DEF TypeOK
<1>1. \A s \in Steps : GoesTo(w, s) => workers' \subseteq Workers
  BY <1>0, WorkersType, WorkerUpdates DEF GoesTo
<1>2. "release" \in Steps /\ "requeue" \in Steps /\ "refresh" \in Steps
  BY DEF Steps
<1>3. CASE Load(w)
  <2>1. {d \in Dispatch : dispatch[d].status \notin Settled} \in SUBSET Dispatch
    OBVIOUS
  <2>2. workers' \subseteq Workers
    BY <1>0, <1>1, <1>2, <1>3, <2>1, WorkersType, WorkerUpdates DEF Load
  <2> QED
    BY <1>3, <2>2 DEF Load, TypeOK
<1>4. CASE Renew(w)
  <2>1. workers' \subseteq Workers
    BY <1>0, <1>1, <1>2, <1>4, WorkersType, WorkerUpdates DEF Renew
  <2>2. event' \in Events
    BY <1>0, <1>4, EventUpdates DEF Renew
  <2> QED
    BY <1>4, <2>1, <2>2 DEF Renew, TypeOK
<1>5. CASE AllVisited(w)
  BY <1>1, <1>2, <1>5 DEF AllVisited, TypeOK
<1>6. CASE RefreshRead(w)
  <2>1. workers' \subseteq Workers
    BY <1>0, <1>6, WorkersType, WorkerUpdates, CountsType DEF RefreshRead
  <2> QED
    BY <1>6, <2>1 DEF RefreshRead, TypeOK
<1>7. CASE RefreshWrite(w)
  <2>1. StatusOf(w.seen) \in {"QUEUED", "PROCESSING"} \cup Closed
    BY DEF StatusOf, Closed
  <2>2. w.seen \in Counts /\ w.token \in Nat
    BY <1>0, WorkerUpdates
  <2>3. ASSUME NEW s \in {"QUEUED", "PROCESSING"} \cup Closed, NEW t \in Nat, NEW l \in BOOLEAN
        PROVE  [status |-> s, token |-> t, live |-> l, counts |-> w.seen] \in Events
    BY <2>2 DEF Events
  <2>4. [status |-> StatusOf(w.seen), token |-> IF w.seen.queued > 0 THEN w.token ELSE 0,
         live |-> w.seen.queued > 0, counts |-> w.seen] \in Events
    <3>1. CASE w.seen.queued > 0
      <4>1. (w.seen.queued > 0) = TRUE
        BY <3>1
      <4> QED
        BY ONLY <2>1, <2>2, <2>3, <4>1
    <3>2. CASE ~(w.seen.queued > 0)
      <4>1. (w.seen.queued > 0) = FALSE /\ 0 \in Nat
        BY <3>2
      <4> QED
        BY ONLY <2>1, <2>3, <4>1
    <3> QED
      BY <3>1, <3>2
  <2>5. event' \in Events
    BY <1>0, <1>7, <2>4 DEF RefreshWrite
  <2> QED
    BY <1>1, <1>2, <1>7, <2>5 DEF RefreshWrite, TypeOK
<1>8. CASE Throw(w)
  BY <1>1, <1>2, <1>8 DEF Throw, TypeOK
<1>9. CASE Requeue(w)
  <2>1. event' \in Events
    BY <1>0, <1>9, EventUpdates DEF Requeue
  <2> QED
    BY <1>1, <1>2, <1>9, <2>1 DEF Requeue, TypeOK
<1>10. CASE Release(w)
  <2>1. lease' \in LeaseRows
    BY <1>0, <1>10 DEF Release, LeaseRows
  <2> QED
    BY <1>10, <2>1 DEF Release, TypeOK
<1>11. CASE Crash(w)
  BY <1>11 DEF Crash, TypeOK
<1> QED
  BY <1>3, <1>4, <1>5, <1>6, <1>7, <1>8, <1>9, <1>10, <1>11

LEMMA SetStatusType ==
  ASSUME TypeOK, NEW d, NEW s \in Settled, SetStatus(d, s)
  PROVE  dispatch' \in [Dispatch -> DispatchRows]
<1>1. dispatch' = [c \in Dispatch |-> IF c = d THEN [dispatch[c] EXCEPT !.status = s] ELSE dispatch[c]]
  BY DEF SetStatus, TypeOK
<1>2. \A c \in Dispatch : dispatch[c] \in DispatchRows /\ [dispatch[c] EXCEPT !.status = s] \in DispatchRows
  BY DispatchUpdates DEF TypeOK
<1> QED
  BY <1>1, <1>2

LEMMA CompleteAndCancelType ==
  ASSUME TypeOK, NEW d, NEW rest, CompleteAndCancel(d, rest)
  PROVE  dispatch' \in [Dispatch -> DispatchRows]
<1>1. "COMPLETED" \in Settled /\ "CANCELED" \in Settled
  BY DEF Settled
<1>2. \A c \in Dispatch : /\ dispatch[c] \in DispatchRows
                          /\ [dispatch[c] EXCEPT !.status = "COMPLETED"] \in DispatchRows
                          /\ [dispatch[c] EXCEPT !.status = "CANCELED"] \in DispatchRows
  BY <1>1, DispatchUpdates DEF TypeOK
<1> QED
  BY <1>2 DEF CompleteAndCancel

LEMMA CommittedType ==
  ASSUME TypeOK, NEW w \in workers, NEW step \in {"next", "refresh"}, Committed(w, step)
  PROVE  /\ workers' \subseteq Workers
         /\ crashes' \in Nat /\ stalls' \in Nat /\ throws' \in Nat /\ lost' \in Nat
<1>1. w \in Workers /\ "retry" \in Steps /\ "refresh" \in Steps
  BY DEF TypeOK, Steps
<1>2. workers' \subseteq Workers
  BY <1>1, WorkersType, WorkerUpdates DEF Committed, Moves, GoesTo
<1>3. lost' = lost \/ lost' = lost + 1
  BY DEF Committed, faults
<1>4. UNCHANGED <<crashes, stalls, throws>>
  BY DEF Committed, faults
<1> QED
  BY <1>2, <1>3, <1>4 DEF TypeOK

LEMMA CreateRunType ==
  ASSUME TypeOK, NEW w, NEW result \in RunStatus, NEW others \in [Dispatch -> RunStatus],
         CreateRun(w, result, others)
  PROVE  run' \in [Dispatch -> RunStatus] /\ applied' \in [Dispatch -> Nat]
<1>1. applied' = [d \in Dispatch |-> IF d = w.at THEN applied[d] + 1 ELSE applied[d]]
  BY DEF CreateRun, TypeOK
<1>2. \A d \in Dispatch : applied[d] \in Nat /\ applied[d] + 1 \in Nat
  BY DEF TypeOK
<1>3. applied' \in [Dispatch -> Nat]
  BY <1>1, <1>2
<1> QED
  BY <1>3 DEF CreateRun, TypeOK

LEMMA ExitWaitingType ==
  ASSUME TypeOK, NEW d
  PROVE  ExitWaiting(d) \in [Dispatch -> RunStatus]
  BY DEF ExitWaiting, TypeOK, RunStatus, RunEnd

LEMMA ProcessType ==
  ASSUME TypeOK, NEW w \in workers, Process(w) \/ FailTransiently(w)
  PROVE  TypeOK'
<1> USE DEF data, world
<1>0. /\ event \in Events /\ w \in Workers
      /\ {"COMPLETED", "SKIPPED", "CANCELED"} \subseteq Settled
      /\ {"next", "fail", "retry"} \subseteq Steps
      /\ Results \subseteq RunStatus /\ "SUCCEEDED" \in RunStatus /\ run \in [Dispatch -> RunStatus]
  BY DEF TypeOK, Settled, Steps, RunStatus, RunEnd, Results
<1>1. CASE Nothing(w)
  <2>1. workers' \subseteq Workers
    BY <1>0, <1>1, WorkersType, WorkerUpdates DEF Nothing, Moves
  <2> QED
    BY <1>1, <2>1 DEF Nothing, TypeOK, faults
<1>2. CASE CancelSuperseded(w)
  <2>1. dispatch' \in [Dispatch -> DispatchRows]
    BY <1>0, <1>2, SetStatusType DEF CancelSuperseded
  <2> QED
    BY <1>2, <2>1, CommittedType DEF CancelSuperseded, TypeOK
<1>3. CASE Skip(w)
  <2>1. dispatch' \in [Dispatch -> DispatchRows]
    BY <1>0, <1>3, SetStatusType DEF Skip
  <2> QED
    BY <1>3, <2>1, CommittedType DEF Skip, TypeOK
<1>4. CASE Execute(w)
  <2>1. dispatch' \in [Dispatch -> DispatchRows]
    BY <1>0, <1>4, SetStatusType DEF Execute
  <2>2. run' \in [Dispatch -> RunStatus] /\ applied' \in [Dispatch -> Nat]
    BY <1>0, <1>4, CreateRunType DEF Execute
  <2> QED
    BY <1>4, <2>1, <2>2, CommittedType DEF Execute, TypeOK
<1>5. CASE ExecuteDelete(w)
  <2>1. dispatch' \in [Dispatch -> DispatchRows]
    BY <1>5, CompleteAndCancelType DEF ExecuteDelete
  <2>2. run' \in [Dispatch -> RunStatus] /\ applied' \in [Dispatch -> Nat]
    BY <1>0, <1>5, CreateRunType DEF ExecuteDelete
  <2>3. contactGone' \in BOOLEAN /\ superseded' \in BOOLEAN
    BY <1>5, QueueAssumption DEF ExecuteDelete, TypeOK
  <2>4. event' \in Events /\ lease' \in LeaseRows /\ claims' \in Nat
    BY <1>5 DEF ExecuteDelete, TypeOK
  <2>5. Committed(w, "refresh")
    BY <1>5 DEF ExecuteDelete
  <2> QED
    BY <2>1, <2>2, <2>3, <2>4, <2>5, CommittedType DEF TypeOK
<1>6. CASE ExecuteMove(w)
  <2>1. dispatch' \in [Dispatch -> DispatchRows]
    BY <1>6, CompleteAndCancelType DEF ExecuteMove
  <2>2. run' \in [Dispatch -> RunStatus] /\ applied' \in [Dispatch -> Nat]
    BY <1>0, <1>6, ExitWaitingType, CreateRunType DEF ExecuteMove
  <2>3. event' \in Events
    BY <1>0, <1>6, EventUpdates DEF ExecuteMove
  <2>4. contactGone' \in BOOLEAN /\ superseded' \in BOOLEAN /\ UNCHANGED <<lease, claims>>
    BY <1>6 DEF ExecuteMove, TypeOK
  <2>5. \E s \in {"next", "refresh"} : Committed(w, s)
    BY <1>6 DEF ExecuteMove
  <2> QED
    BY <1>6, <2>1, <2>2, <2>3, <2>4, <2>5, CommittedType DEF TypeOK
<1>7. CASE FailForGood(w)
  <2>1. workers' \subseteq Workers
    BY <1>0, <1>7, WorkersType, WorkerUpdates DEF FailForGood, GoesTo
  <2> QED
    BY <1>7, <2>1 DEF FailForGood, TypeOK, faults
<1>8. CASE FailTransiently(w)
  <2>1. workers' \subseteq Workers
    BY <1>0, <1>8, WorkersType, WorkerUpdates DEF FailTransiently, GoesTo
  <2> QED
    BY <1>8, <2>1 DEF FailTransiently, TypeOK
<1> QED
  BY <1>1, <1>2, <1>3, <1>4, <1>5, <1>6, <1>7, <1>8 DEF Process

LEMMA RetryType ==
  ASSUME TypeOK, NEW w \in workers, Retry(w) \/ RecordFailure(w)
  PROVE  TypeOK'
<1> USE DEF data, world
<1>0. /\ event \in Events /\ w \in Workers /\ "FAILED" \in Settled /\ "FAILED" \in RunStatus
      /\ {"fail", "release", "requeue"} \subseteq Steps
  BY DEF TypeOK, Settled, Steps, RunStatus, RunEnd
<1>1. CASE Retry(w)
  <2>1. workers' \subseteq Workers
    BY <1>0, <1>1, WorkersType, WorkerUpdates DEF Retry, GoesTo
  <2>2. event' \in Events
    BY <1>0, <1>1, EventUpdates DEF Retry
  <2>3. CASE dispatch' = dispatch
    BY <1>1, <2>1, <2>2, <2>3 DEF Retry, TypeOK, faults
  <2>4. CASE dispatch' # dispatch
    <3>1. /\ dispatch[w.at].attempts < Retries
          /\ dispatch' = [dispatch EXCEPT ![w.at] = [status |-> "QUEUED", attempts |-> @.attempts + 1]]
      BY <1>1, <2>4 DEF Retry, MayRetry, RetryGuard
    <3>2. dispatch' = [c \in Dispatch |-> IF c = w.at
                          THEN [status |-> "QUEUED", attempts |-> dispatch[c].attempts + 1]
                          ELSE dispatch[c]]
      BY <3>1 DEF TypeOK
    <3>3. \A c \in Dispatch : dispatch[c] \in DispatchRows
      BY DEF TypeOK
    <3>4. dispatch' \in [Dispatch -> DispatchRows]
      BY <3>1, <3>2, <3>3, DispatchUpdates
    <3> QED
      BY <1>1, <2>1, <2>2, <3>4 DEF Retry, TypeOK, faults
  <2> QED
    BY <2>3, <2>4
<1>2. CASE RecordFailure(w)
  <2>1. workers' \subseteq Workers
    BY <1>0, <1>2, WorkersType, WorkerUpdates DEF RecordFailure, Moves, GoesTo
  <2>2. dispatch' \in [Dispatch -> DispatchRows]
    BY <1>0, <1>2, SetStatusType DEF RecordFailure, TypeOK
  <2>3. run' \in [Dispatch -> RunStatus]
    BY <1>0, <1>2 DEF RecordFailure, TypeOK
  <2>4. /\ lost' = lost \/ lost' = lost + 1
        /\ UNCHANGED <<event, applied, world, lease, claims, crashes, stalls, throws>>
    BY <1>2 DEF RecordFailure, faults
  <2> QED
    BY <2>1, <2>2, <2>3, <2>4 DEF TypeOK
<1> QED
  BY <1>1, <1>2

LEMMA WorldType ==
  ASSUME TypeOK, (\E d \in Dispatch : EndRun(d)) \/ MoveStep \/ RemoveEnrollment \/ DeleteContact
  PROVE  TypeOK'
<1> USE DEF data, world, faults
<1>1. CASE \E d \in Dispatch : EndRun(d)
  BY <1>1 DEF EndRun, TypeOK, RunStatus
<1>2. CASE MoveStep
  <2>1. event' \in Events
    BY <1>2, EventUpdates DEF MoveStep, TypeOK
  <2>2. \A c \in Dispatch : /\ dispatch[c] \in DispatchRows
                            /\ [dispatch[c] EXCEPT !.status = "CANCELED"] \in DispatchRows
    BY DispatchUpdates DEF TypeOK, Settled
  <2>3. dispatch' \in [Dispatch -> DispatchRows]
    BY <1>2, <2>2 DEF MoveStep, TypeOK
  <2>4. run' \in [Dispatch -> RunStatus]
    BY <1>2, ExitWaitingType DEF MoveStep
  <2> QED
    BY <1>2, <2>1, <2>3, <2>4 DEF MoveStep, TypeOK
<1>3. CASE RemoveEnrollment
  BY <1>3 DEF RemoveEnrollment, TypeOK
<1>4. CASE DeleteContact
  BY <1>4, QueueAssumption DEF DeleteContact, TypeOK
<1> QED
  BY <1>1, <1>2, <1>3, <1>4

LEMMA StepType == TypeOK /\ [Next]_vars => TypeOK'
<1> SUFFICES ASSUME TypeOK, [Next]_vars
             PROVE  TypeOK'
  OBVIOUS
<1>1. CASE UNCHANGED vars
  BY <1>1 DEF vars, TypeOK
<1>2. CASE Next
  BY <1>2, ClaimType, LoopType, ProcessType, RetryType, WorldType DEF Next, Work
<1> QED
  BY <1>1, <1>2

\* Every row, run and worker has a value of its type in every reachable state; no
\* dispatch is retried more often than there are delays.
THEOREM TypeCorrect == Spec => []TypeOK
  BY InitType, StepType, PTL DEF Spec

-----------------------------------------------------------------------------
(* The inductive invariant: what the owner of the event knows.  Until an     *)
(* acknowledgement is lost it alone settles dispatches, and what it has      *)
(* still to visit is still open.                                             *)

Open(d) == dispatch[d].status = "QUEUED"
Pending(d) == ~superseded /\ Open(d)
Left(d) == Open(d) \/ (superseded /\ dispatch[d].status = "CANCELED")

\* Tokens are never used twice, and a token on the event means that it is processed.
TokensAreFresh ==
    /\ event.token <= claims
    /\ event.token = 0 <=> event.status # "PROCESSING"
    /\ \A w \in workers : w.token \in 1 .. claims
    /\ \A v, w \in workers : v.token = w.token => v = w

Visiting == {"next", "process", "retry", "fail"}
AtDispatch == {"process", "retry", "fail"}

\* The counts of dispatches none of which is open any more.
Counted(c) == (\A d \in Dispatch : ~Open(d)) /\ c = CurrentCounts

\* What a worker knows of the dispatches while it owns the event.  A lost acknowledgement
\* lets it visit a dispatch again that is settled.
Plan(w) ==
    /\ w.step \in Visiting => /\ \A d \in Dispatch : d \notin w.open => ~Pending(d)
                              /\ lost = 0 => \A d \in w.open : Left(d)
    /\ w.step \in AtDispatch => w.at \in w.open /\ \A c \in w.open : w.at <= c
    /\ w.step = "refresh" => \A d \in Dispatch : ~Pending(d)
    /\ w.step = "write" /\ w.seen.queued = 0 => Counted(w.seen)

ClosedIsSettled == event.status \in Closed => \A d \in Dispatch : ~Open(d)
ClosedIsCounted == event.status \in Closed \ {"CANCELED"} =>
                      Counted(event.counts) /\ event.status = StatusOf(event.counts)
ClosedAccounts == ClosedIsSettled /\ ClosedIsCounted
OwnerHasPlan == \A w \in workers : event.token = w.token => Plan(w)

QueueInv == TokensAreFresh /\ ClosedAccounts /\ OwnerHasPlan

-----------------------------------------------------------------------------
(* Tokens *)

LEMMA WorkerKeepsToken ==
  ASSUME NEW w \in Workers, NEW s, NEW d, NEW S, NEW c
  PROVE  /\ [w EXCEPT !.step = s].token = w.token
         /\ [w EXCEPT !.step = s, !.at = d].token = w.token
         /\ [w EXCEPT !.step = s, !.open = S].token = w.token
         /\ [w EXCEPT !.step = s, !.open = @ \ {w.at}].token = w.token
         /\ [w EXCEPT !.step = s, !.seen = c].token = w.token
  BY DEF Workers

LEMMA WorkerMoves ==
  ASSUME TypeOK, NEW w \in workers, Work(w) \/ FailTransiently(w) \/ Throw(w) \/ Crash(w)
  PROVE  /\ claims' = claims
         /\ workers' = workers \ {w} \/ \E v : v.token = w.token /\ Becomes(w, v)
<1>0. w \in Workers
  BY DEF TypeOK
<1>1. \A s : GoesTo(w, s) => \E v : v.token = w.token /\ Becomes(w, v)
  BY <1>0, WorkerKeepsToken DEF GoesTo
<1>2. Moves(w) => \E v : v.token = w.token /\ Becomes(w, v)
  BY <1>0, WorkerKeepsToken DEF Moves
<1>3. \A s : Committed(w, s) => \E v : v.token = w.token /\ Becomes(w, v)
  BY <1>1, <1>2 DEF Committed
<1>4. CASE Load(w)
  <2> DEFINE S == {d \in Dispatch : dispatch[d].status \notin Settled}
             v == [w EXCEPT !.step = "next", !.open = S]
  <2>1. v.token = w.token
    BY <1>0, WorkerKeepsToken
  <2>2. Becomes(w, v) \/ GoesTo(w, "release")
    BY <1>4 DEF Load
  <2> QED
    BY <1>1, <1>4, <2>1, <2>2 DEF Load
<1>5. CASE Renew(w)
  <2>1. \A d : [w EXCEPT !.step = "process", !.at = d].token = w.token
    BY <1>0, WorkerKeepsToken
  <2>2. (\E d : Becomes(w, [w EXCEPT !.step = "process", !.at = d])) \/ GoesTo(w, "release")
    BY <1>5 DEF Renew
  <2> QED
    BY <1>1, <1>5, <2>1, <2>2 DEF Renew
<1>6. CASE AllVisited(w)
  BY <1>1, <1>6 DEF AllVisited
<1>7. CASE Process(w)
  BY <1>1, <1>2, <1>3, <1>7
  DEF Process, Nothing, CancelSuperseded, Skip, Execute, ExecuteDelete, ExecuteMove, FailForGood
<1>8. CASE Retry(w) \/ RecordFailure(w)
  BY <1>1, <1>2, <1>8 DEF Retry, RecordFailure
<1>9. CASE RefreshRead(w)
  <2> DEFINE v == [w EXCEPT !.step = "write", !.seen = CurrentCounts]
  <2>1. v.token = w.token
    BY <1>0, WorkerKeepsToken
  <2>2. Becomes(w, v)
    BY <1>9 DEF RefreshRead
  <2> QED
    BY <1>9, <2>1, <2>2 DEF RefreshRead
<1>10. CASE RefreshWrite(w) \/ Requeue(w) \/ Throw(w) \/ FailTransiently(w)
  BY <1>1, <1>10 DEF RefreshWrite, Requeue, Throw, FailTransiently
<1>11. CASE Release(w) \/ Crash(w)
  BY <1>11 DEF Release, Crash
<1> QED
  BY <1>4, <1>5, <1>6, <1>7, <1>8, <1>9, <1>10, <1>11 DEF Work

\* Losses are only counted up: without one after a step there was none before it.
LEMMA LostGrows ==
  ASSUME TypeOK, [Next]_vars, lost' = 0
  PROVE  lost = 0
<1>1. lost' = lost \/ lost' = lost + 1
  BY DEF Next, Claim, Recover, ExpireLease, ExpireEvent, Work, Load, Renew, AllVisited, Process,
         Nothing, CancelSuperseded, Skip, Execute, ExecuteDelete, ExecuteMove, Committed, FailForGood,
         Retry, RecordFailure, RefreshRead, RefreshWrite, Requeue, Release, FailTransiently, Throw,
         Crash, EndRun, MoveStep, RemoveEnrollment, DeleteContact, faults, vars
<1> QED
  BY <1>1 DEF TypeOK

LEMMA UnlockedEvent ==
  ASSUME event \in Events, NEW s
  PROVE  Unlocked(s).status = s /\ Unlocked(s).token = 0
  BY DEF Unlocked, Events

\* No step of a worker takes the event, it only keeps it or gives it up.
LEMMA EventMoves ==
  ASSUME TypeOK, TokensAreFresh, NEW w \in workers,
         Work(w) \/ FailTransiently(w) \/ Throw(w) \/ Crash(w)
  PROVE  \/ event'.token = event.token /\ event'.status = event.status
         \/ event'.token = 0 /\ event'.status # "PROCESSING" /\ event.token = w.token
<1>0. event \in Events /\ w \in Workers /\ w.token # 0
  BY DEF TypeOK, TokensAreFresh
<1>1. CASE event' = event
  BY <1>1
<1>2. CASE Renew(w)
  BY <1>0, <1>2 DEF Renew, Events
<1>3. CASE ExecuteMove(w)
  BY <1>0, <1>3, UnlockedEvent DEF ExecuteMove, CreateRun, Runs, Executes, Own
<1>4. CASE Retry(w)
  BY <1>0, <1>4, UnlockedEvent DEF Retry
<1>5. CASE RefreshWrite(w)
  <2>1. CASE event.token = w.token
    <3>1. event.status = "PROCESSING"
      BY <1>0, <2>1 DEF TokensAreFresh
    <3>2. CASE w.seen.queued > 0
      BY <1>5, <2>1, <3>1, <3>2 DEF RefreshWrite, MayWrite, StatusOf
    <3>3. CASE ~(w.seen.queued > 0)
      BY <1>5, <2>1, <3>3 DEF RefreshWrite, MayWrite, StatusOf
    <3> QED
      BY <3>2, <3>3
  <2>2. CASE event.token # w.token
    BY <1>5, <2>2 DEF RefreshWrite, MayWrite
  <2> QED
    BY <2>1, <2>2
<1>6. CASE Requeue(w)
  BY <1>0, <1>6, UnlockedEvent DEF Requeue, Own
<1> QED
  BY <1>1, <1>2, <1>3, <1>4, <1>5, <1>6
  DEF Work, Load, AllVisited, Process, Nothing, CancelSuperseded, Skip, Execute, ExecuteDelete,
      FailForGood, RecordFailure, RefreshRead, Release, FailTransiently, Throw, Crash

LEMMA StepTokens == TypeOK /\ TokensAreFresh /\ [Next]_vars => TokensAreFresh'
<1> SUFFICES ASSUME TypeOK, TokensAreFresh, [Next]_vars
             PROVE  TokensAreFresh'
  OBVIOUS
<1> USE DEF TokensAreFresh
<1>0. event \in Events /\ claims \in Nat /\ event.token \in Nat
  BY EventUpdates DEF TypeOK
<1>1. CASE UNCHANGED <<event, workers, claims>>
  BY <1>1
<1>2. CASE Claim
  <2>1. event'.token = claims + 1 /\ event'.status = "PROCESSING" /\ claims' = claims + 1
    BY <1>0, <1>2 DEF Claim, Events
  <2>2. ASSUME NEW w \in workers'
        PROVE  w \in workers \/ w.token = claims + 1
    BY <1>2 DEF Claim
  <2>3. ASSUME NEW v \in workers', NEW w \in workers', v.token = w.token
        PROVE  v = w
    <3>1. CASE v.token = claims + 1
      <4>1. \A u \in workers : u.token # claims + 1
        BY <1>0
      <4>2. v \notin workers /\ w \notin workers
        BY <2>3, <3>1, <4>1
      <4> QED
        BY <1>2, <4>2 DEF Claim
    <3>2. CASE v.token # claims + 1
      BY <2>2, <2>3, <3>2
    <3> QED
      BY <3>1, <3>2
  <2> QED
    BY <1>0, <2>1, <2>2, <2>3
<1>3. CASE Recover
  BY <1>0, <1>3, UnlockedEvent DEF Recover
<1>4. CASE ExpireLease
  BY <1>4 DEF ExpireLease
<1>5. CASE ExpireEvent
  <2>1. event'.token = event.token /\ event'.status = event.status
    BY <1>0, <1>5 DEF ExpireEvent, Events
  <2> QED
    BY <1>5, <2>1 DEF ExpireEvent
<1>6. CASE \E w \in workers : Work(w) \/ FailTransiently(w) \/ Throw(w) \/ Crash(w)
  <2>1. PICK w \in workers : Work(w) \/ FailTransiently(w) \/ Throw(w) \/ Crash(w)
    BY <1>6
  <2>2. /\ claims' = claims
        /\ workers' = workers \ {w} \/ \E v : v.token = w.token /\ Becomes(w, v)
    BY <2>1, WorkerMoves
  <2>3. \/ event'.token = event.token /\ event'.status = event.status
        \/ event'.token = 0 /\ event'.status # "PROCESSING"
    BY <2>1, EventMoves
  <2>4. event'.token <= claims' /\ (event'.token = 0 <=> event'.status # "PROCESSING")
    BY <1>0, <2>2, <2>3
  <2>5. CASE workers' = workers \ {w}
    BY <2>2, <2>4, <2>5
  <2>6. CASE \E v : v.token = w.token /\ Becomes(w, v)
    BY <2>2, <2>4, <2>6 DEF Becomes
  <2> QED
    BY <2>2, <2>5, <2>6
<1>7. CASE MoveStep
  BY <1>0, <1>7, UnlockedEvent DEF MoveStep, Closed
<1> QED
  BY <1>1, <1>2, <1>3, <1>4, <1>5, <1>6, <1>7
  DEF Next, EndRun, RemoveEnrollment, DeleteContact, vars

-----------------------------------------------------------------------------
(* Who does not own the event settles nothing *)

Calm ==
    /\ superseded => superseded'
    /\ \A d \in Dispatch : (~Open(d) => ~Open(d)') /\ (Left(d) => Left(d)')
    /\ (\A d \in Dispatch : ~Open(d)) => dispatch' = dispatch

LEMMA SameCounts == dispatch' = dispatch => CurrentCounts' = CurrentCounts
  BY DEF CurrentCounts, Having

LEMMA SameIsCalm ==
  ASSUME dispatch' = dispatch, superseded => superseded'
  PROVE  Calm
  BY DEF Calm, Open, Left

LEMMA CountedStable ==
  ASSUME Calm, NEW c, Counted(c)
  PROVE  Counted(c)'
  BY SameCounts DEF Calm, Counted

LEMMA PlanStable ==
  ASSUME NEW w \in Workers, Plan(w), Calm, lost' = 0 => lost = 0
  PROVE  Plan(w)'
<1>1. w.open \subseteq Dispatch
  BY DEF Workers
<1>2. \A d \in Dispatch : ~Pending(d) => ~Pending(d)'
  BY DEF Calm, Pending
<1>3. Counted(w.seen) => Counted(w.seen)'
  BY CountedStable
<1> QED
  BY <1>1, <1>2, <1>3 DEF Plan, Calm

LEMMA StatusSet ==
  ASSUME TypeOK, NEW d \in Dispatch, NEW s, SetStatus(d, s)
  PROVE  \A c \in Dispatch : dispatch'[c].status = IF c = d THEN s ELSE dispatch[c].status
<1>1. \A c \in Dispatch : dispatch[c] \in DispatchRows
  BY DEF TypeOK
<1>2. \A c \in Dispatch : dispatch'[c] = IF c = d THEN [dispatch[c] EXCEPT !.status = s] ELSE dispatch[c]
  BY DEF SetStatus, TypeOK
<1>3. \A r \in DispatchRows : [r EXCEPT !.status = s].status = s
  BY DEF DispatchRows
<1> QED
  BY <1>1, <1>2, <1>3

LEMMA SetNowhere ==
  ASSUME TypeOK, NEW d, d \notin Dispatch, NEW s, SetStatus(d, s)
  PROVE  dispatch' = dispatch
  BY DEF SetStatus, TypeOK

LEMMA CancelIsCalm ==
  ASSUME TypeOK, NEW w \in workers, CancelSuperseded(w)
  PROVE  Calm
<1>1. SetStatus(w.at, "CANCELED") /\ superseded /\ superseded'
  BY DEF CancelSuperseded, Visits, world
<1>2. CASE w.at \in Dispatch
  <2>1. Open(w.at)
    BY <1>2, DispatchUpdates DEF CancelSuperseded, Visits, TypeOK, Open
  <2> QED
    BY <1>1, <1>2, <2>1, StatusSet DEF Calm, Open, Left
<1>3. CASE w.at \notin Dispatch
  BY <1>1, <1>3, SetNowhere, SameIsCalm
<1> QED
  BY <1>2, <1>3

\* An overtaken worker changes nothing but dispatches of an enrollment that moved on.
LEMMA OvertakenIsCalm ==
  ASSUME TypeOK, NEW w \in workers, event.token # w.token,
         Work(w) \/ FailTransiently(w) \/ Throw(w) \/ Crash(w)
  PROVE  Calm /\ event' = event
<1>1. ~Own(w) /\ ~Executes(w) /\ ~Runs(w)
  BY DEF Own, Executes, Runs
<1>2. CASE CancelSuperseded(w)
  BY <1>2, CancelIsCalm DEF CancelSuperseded
<1>3. CASE dispatch' = dispatch /\ superseded' = superseded /\ event' = event
  BY <1>3, SameIsCalm
<1>4. CASE Process(w)
  BY <1>1, <1>2, <1>3, <1>4
  DEF Process, Nothing, Skip, Execute, ExecuteDelete, ExecuteMove, CreateRun, FailForGood, data, world
<1>5. CASE Retry(w) \/ RecordFailure(w)
  BY <1>1, <1>3, <1>5 DEF Retry, RetryGuard, RecordFailure, MayRecord, data, world
<1> QED
  BY <1>1, <1>3, <1>4, <1>5
  DEF Work, Load, Renew, AllVisited, RefreshRead, RefreshWrite, MayWrite, Requeue, Release,
      FailTransiently, Throw, Crash, data, world

-----------------------------------------------------------------------------
(* What the owner does follows its plan *)

LEMMA MovedPlan ==
  ASSUME TypeOK, NEW w \in workers, w.step \in AtDispatch, Plan(w), superseded' = superseded,
         lost' = 0 => lost = 0, ~Pending(w.at)',
         \A d \in Dispatch : d # w.at => dispatch'[d].status = dispatch[d].status
  PROVE  Plan([w EXCEPT !.step = "next", !.open = @ \ {w.at}])'
<1> DEFINE v == [w EXCEPT !.step = "next", !.open = @ \ {w.at}]
<1>1. v.step = "next" /\ v.open = w.open \ {w.at} /\ w.open \subseteq Dispatch
  BY DEF TypeOK, Workers
<1>2. /\ \A d \in Dispatch : d \notin w.open => ~Pending(d)
      /\ lost = 0 => \A d \in w.open : Left(d)
  BY DEF Plan, Visiting, AtDispatch
<1>3. ASSUME NEW d \in Dispatch, d \notin v.open
      PROVE  ~Pending(d)'
  <2>1. CASE d = w.at
    BY <2>1
  <2>2. CASE d # w.at
    BY <1>1, <1>2, <1>3, <2>2 DEF Pending, Open
  <2> QED
    BY <2>1, <2>2
<1>4. ASSUME NEW d \in v.open, lost' = 0
      PROVE  Left(d)'
  BY <1>1, <1>2, <1>4 DEF Left, Open
<1> HIDE DEF v
<1>5. Plan(v)'
  BY <1>1, <1>3, <1>4 DEF Plan, AtDispatch
<1> QED
  BY <1>5 DEF v

LEMMA SettledIsNotPending ==
  ASSUME NEW d \in Dispatch, dispatch[d].status \in Settled
  PROVE  ~Pending(d) /\ ~Open(d)
  BY DEF Pending, Open, Settled

LEMMA CommittedMoves ==
  ASSUME TypeOK, NEW w, NEW step, Committed(w, step)
  PROVE  \/ step = "next" /\ Moves(w) /\ lost' = lost
         \/ step = "refresh" /\ GoesTo(w, "refresh") /\ lost' = lost
         \/ lost' # 0 /\ GoesTo(w, "retry")
<1>1. lost' = lost + 1 => lost' # 0
  BY DEF TypeOK
<1>2. UNCHANGED faults => lost' = lost
  BY DEF faults
<1> QED
  BY <1>1, <1>2, Zenon DEF Committed

LEMMA Completed ==
  ASSUME TypeOK, NEW d \in Dispatch, NEW rest, CompleteAndCancel(d, rest)
  PROVE  \A c \in Dispatch : dispatch'[c].status =
            IF c = d THEN "COMPLETED"
            ELSE IF c \in rest /\ dispatch[c].status = "QUEUED" THEN "CANCELED" ELSE dispatch[c].status
<1>1. \A c \in Dispatch : dispatch[c] \in DispatchRows
  BY DEF TypeOK
<1>2. \A r \in DispatchRows : \A s : [r EXCEPT !.status = s].status = s
  BY DEF DispatchRows
<1>3. ASSUME NEW c \in Dispatch
      PROVE  dispatch'[c].status =
                IF c = d THEN "COMPLETED"
                ELSE IF c \in rest /\ dispatch[c].status = "QUEUED" THEN "CANCELED" ELSE dispatch[c].status
  <2>1. CASE c = d
    BY <1>1, <1>2, <2>1 DEF CompleteAndCancel
  <2>2. CASE c # d /\ c \in rest /\ dispatch[c].status = "QUEUED"
    <3>1. dispatch'[c] = [dispatch[c] EXCEPT !.status = "CANCELED"]
      BY <2>2 DEF CompleteAndCancel
    <3> QED
      BY <1>1, <1>2, <2>2, <3>1
  <2>3. CASE c # d /\ ~(c \in rest /\ dispatch[c].status = "QUEUED")
    <3>1. dispatch'[c] = dispatch[c]
      BY <2>3 DEF CompleteAndCancel
    <3> QED
      BY <2>3, <3>1
  <2> QED
    BY <2>1, <2>2, <2>3
<1> QED
  BY <1>3

\* The dispatch at hand is the first one that is open.
LEMMA AtFirst ==
  ASSUME TypeOK, NEW w \in workers, w.step \in AtDispatch, Plan(w)
  PROVE  w.at \in Dispatch /\ \A c \in Dispatch : c < w.at => ~Pending(c)
<1>1. w.at \in w.open /\ w.open \subseteq Dispatch /\ \A c \in w.open : w.at <= c
  BY DEF Plan, TypeOK, Workers
<1>2. \A c \in Dispatch : c \in Int
  BY DEF Dispatch
<1>3. \A c \in Dispatch : c < w.at => c \notin w.open
  BY <1>1, <1>2
<1> QED
  BY <1>1, <1>3 DEF Plan, Visiting, AtDispatch

LEMMA StepFields ==
  ASSUME NEW w \in Workers, NEW s
  PROVE  LET v == [w EXCEPT !.step = s] IN
            v.step = s /\ v.open = w.open /\ v.at = w.at /\ v.seen = w.seen
  BY DEF Workers

LEMMA NoPlan ==
  ASSUME NEW w \in Workers, NEW s \in {"requeue", "release"}
  PROVE  Plan([w EXCEPT !.step = s])'
  BY StepFields DEF Plan, Visiting, AtDispatch

LEMMA SamePlan ==
  ASSUME NEW v, Plan(v), UNCHANGED <<dispatch, superseded>>, lost' = 0 => lost = 0
  PROVE  Plan(v)'
  BY SameCounts DEF Plan, Pending, Left, Open, Counted

LEMMA LoadPlan ==
  ASSUME TypeOK, NEW w \in workers, Own(w), Load(w)
  PROVE  \E v : Becomes(w, v) /\ Plan(v)'
<1> DEFINE S == {d \in Dispatch : dispatch[d].status \notin Settled}
           v == [w EXCEPT !.step = "next", !.open = S]
<1>1. v.step = "next" /\ v.open = S
  BY DEF TypeOK, Workers
<1>2. \A d \in Dispatch : d \notin S => ~Pending(d)
  BY SettledIsNotPending
<1>3. \A d \in S : Left(d)
  BY DispatchUpdates DEF TypeOK, Left, Open
<1>4. Becomes(w, v) /\ UNCHANGED <<dispatch, superseded, lost>>
  BY DEF Load, data, world, faults
<1> HIDE DEF v, S
<1>5. Plan(v)
  BY <1>1, <1>2, <1>3 DEF Plan, AtDispatch
<1> QED
  BY <1>4, <1>5, SamePlan

LEMMA RenewPlan ==
  ASSUME TypeOK, NEW w \in workers, Plan(w), Renew(w)
  PROVE  \E v : Becomes(w, v) /\ Plan(v)'
<1>0. w \in Workers /\ UNCHANGED <<dispatch, superseded, lost>> /\ w.step = "next"
  BY DEF TypeOK, Renew, data, world, faults
<1>1. CASE GoesTo(w, "release")
  BY <1>0, <1>1, NoPlan DEF GoesTo
<1>2. CASE ~GoesTo(w, "release")
  <2>1. PICK d \in w.open : IsNext(d, w.open) /\ Becomes(w, [w EXCEPT !.step = "process", !.at = d])
    BY <1>2 DEF Renew
  <2> DEFINE v == [w EXCEPT !.step = "process", !.at = d]
  <2>2. v.step = "process" /\ v.open = w.open /\ v.at = d
    BY <1>0 DEF Workers
  <2>3. Becomes(w, v)
    BY <2>1
  <2> HIDE DEF v
  <2>4. Plan(v)
    BY <1>0, <2>1, <2>2 DEF Plan, Visiting, AtDispatch, IsNext
  <2> QED
    BY <1>0, <2>3, <2>4, SamePlan
<1> QED
  BY <1>1, <1>2

\* The worker turns to another step at the same dispatch.
LEMMA AtHandPlan ==
  ASSUME TypeOK, NEW w \in workers, Plan(w), w.step \in AtDispatch, NEW s \in AtDispatch,
         UNCHANGED <<dispatch, superseded>>, lost' = 0 => lost = 0
  PROVE  Plan([w EXCEPT !.step = s])'
<1> DEFINE v == [w EXCEPT !.step = s]
<1>1. v.step = s /\ v.open = w.open /\ v.at = w.at
  BY StepFields DEF TypeOK
<1> HIDE DEF v
<1>2. Plan(v)
  BY <1>1 DEF Plan, Visiting, AtDispatch
<1>3. Plan(v)'
  BY <1>2, SamePlan
<1> QED
  BY <1>3 DEF v

LEMMA RefreshPlan ==
  ASSUME TypeOK, NEW w \in workers, \A d \in Dispatch : ~Pending(d)'
  PROVE  Plan([w EXCEPT !.step = "refresh"])'
<1> DEFINE v == [w EXCEPT !.step = "refresh"]
<1>1. v.step = "refresh"
  BY StepFields DEF TypeOK
<1> HIDE DEF v
<1>2. Plan(v)'
  BY <1>1 DEF Plan, Visiting, AtDispatch
<1> QED
  BY <1>2 DEF v

LEMMA ReadPlan ==
  ASSUME TypeOK, NEW w \in workers, RefreshRead(w)
  PROVE  \E v : Becomes(w, v) /\ Plan(v)'
<1>1. PICK c : c = CurrentCounts
  OBVIOUS
<1> DEFINE v == [w EXCEPT !.step = "write", !.seen = c]
<1>2. v.step = "write" /\ v.seen = c
  BY DEF TypeOK, Workers
<1>3. Becomes(w, v) /\ UNCHANGED <<dispatch, superseded, lost>>
  BY <1>1 DEF RefreshRead, data, world, faults
<1> HIDE DEF v
<1>4. Plan(v)
  BY <1>1, <1>2, CountsType DEF Plan, Visiting, AtDispatch, Open, Counted
<1> QED
  BY <1>3, <1>4, SamePlan

\* A lost acknowledgement leaves the worker at the dispatch it has settled.
LEMMA LostPlan ==
  ASSUME TypeOK, NEW w \in workers, Plan(w), w.step \in AtDispatch, lost' # 0,
         superseded => superseded', \A d \in Dispatch : ~Open(d) => ~Open(d)',
         GoesTo(w, "retry")
  PROVE  \E v : Becomes(w, v) /\ Plan(v)'
<1> DEFINE v == [w EXCEPT !.step = "retry"]
<1>1. v.step = "retry" /\ v.open = w.open /\ v.at = w.at
  BY StepFields DEF TypeOK
<1>2. Becomes(w, v)
  BY DEF GoesTo
<1> HIDE DEF v
<1>3. Plan(v)'
  BY <1>1 DEF Plan, Visiting, AtDispatch, Pending
<1> QED
  BY <1>2, <1>3

\* The dispatch at hand is settled, or found settled, and the worker moves on.
LEMMA SettlingPlan ==
  ASSUME TypeOK, NEW w \in workers, Plan(w), Own(w),
         \/ Nothing(w) \/ CancelSuperseded(w) \/ Skip(w) \/ Execute(w) \/ RecordFailure(w)
  PROVE  \E v : Becomes(w, v) /\ Plan(v)'
<1>0. w.step \in AtDispatch
  BY DEF Nothing, CancelSuperseded, Skip, Execute, CreateRun, Runs, Executes, Visits, RecordFailure, AtDispatch
<1>1. w.at \in Dispatch /\ superseded' = superseded
  BY <1>0, AtFirst
  DEF Nothing, CancelSuperseded, Skip, Execute, RecordFailure, world
<1>2. \/ Moves(w) /\ lost' = lost
      \/ GoesTo(w, "retry") /\ lost' # 0
      \/ GoesTo(w, "requeue")
  <2>1. UNCHANGED faults => lost' = lost
    BY DEF faults
  <2>2. CASE Nothing(w)
    BY <2>1, <2>2 DEF Nothing
  <2>3. CASE RecordFailure(w)
    BY <2>1, <2>3, Zenon DEF RecordFailure
  <2>4. CASE CancelSuperseded(w) \/ Skip(w) \/ Execute(w)
    <3>1. Committed(w, "next")
      BY <2>4 DEF CancelSuperseded, Skip, Execute
    <3> QED
      BY <3>1, CommittedMoves
  <2> QED
    BY <2>2, <2>3, <2>4
<1>3. \/ dispatch' = dispatch /\ ~Pending(w.at)
      \/ \E s \in Settled : SetStatus(w.at, s)
      \/ superseded /\ SetStatus(w.at, "CANCELED")
  <2>1. CASE Nothing(w)
    BY <1>1, <2>1, SettledIsNotPending DEF Nothing, data
  <2>2. CASE CancelSuperseded(w)
    BY <2>2 DEF CancelSuperseded, Visits
  <2>3. CASE Skip(w) \/ Execute(w)
    BY <2>3 DEF Skip, Execute, Settled
  <2>4. CASE RecordFailure(w)
    <3>1. CASE MayRecord(w)
      BY <2>4, <3>1 DEF RecordFailure, Settled
    <3>2. CASE ~MayRecord(w)
      BY <1>1, <2>4, <3>2, SettledIsNotPending DEF RecordFailure, MayRecord, Pending
    <3> QED
      BY <3>1, <3>2
  <2> QED
    BY <2>1, <2>2, <2>3, <2>4
<1>4. ~Pending(w.at)' /\ \A d \in Dispatch : d # w.at => dispatch'[d].status = dispatch[d].status
  <2>1. CASE dispatch' = dispatch /\ ~Pending(w.at)
    BY <1>1, <2>1 DEF Pending, Open
  <2>2. CASE \E s \in Settled : SetStatus(w.at, s)
    BY <1>1, <2>2, StatusSet DEF Pending, Open, Settled
  <2>3. CASE superseded /\ SetStatus(w.at, "CANCELED")
    BY <1>1, <2>3, StatusSet DEF Pending, Open
  <2> QED
    BY <1>3, <2>1, <2>2, <2>3
<1>5. \A d \in Dispatch : ~Open(d) => ~Open(d)'
  BY <1>1, <1>3, StatusSet DEF Open, Settled
<1>6. CASE Moves(w) /\ lost' = lost
  <2>1. Plan([w EXCEPT !.step = "next", !.open = @ \ {w.at}])'
    BY <1>0, <1>1, <1>4, <1>6, MovedPlan
  <2> QED
    BY <1>6, <2>1 DEF Moves
<1>7. CASE GoesTo(w, "retry") /\ lost' # 0
  BY <1>0, <1>1, <1>5, <1>7, LostPlan
<1>8. CASE GoesTo(w, "requeue")
  BY <1>8, NoPlan DEF GoesTo, TypeOK
<1> QED
  BY <1>2, <1>6, <1>7, <1>8

\* A contact is deleted by the segment: nothing is open behind it.
LEMMA DeletePlan ==
  ASSUME TypeOK, NEW w \in workers, Plan(w), ExecuteDelete(w)
  PROVE  w.step \in AtDispatch /\ \A d \in Dispatch : ~Open(d)'
<1>0. w.step \in AtDispatch /\ ~superseded
  BY DEF ExecuteDelete, CreateRun, Runs, Executes, Visits, AtDispatch
<1>2. w.at \in Dispatch /\ \A c \in Dispatch : c < w.at => ~Open(c)
  BY <1>0, AtFirst DEF Pending
<1>3. \A c \in Dispatch : dispatch'[c].status =
            IF c = w.at THEN "COMPLETED"
            ELSE IF c \in {e \in Dispatch : e > w.at} /\ dispatch[c].status = "QUEUED"
                 THEN "CANCELED" ELSE dispatch[c].status
  BY <1>2, Completed DEF ExecuteDelete
<1>4. \A c \in Dispatch : c < w.at \/ c = w.at \/ c > w.at
  BY <1>2 DEF Dispatch
<1>5. ASSUME NEW c \in Dispatch
      PROVE  ~Open(c)'
  <2>1. CASE c < w.at
    BY <1>2, <1>3, <2>1 DEF Open
  <2>2. CASE c = w.at \/ c > w.at
    BY <1>3, <2>2 DEF Open
  <2> QED
    BY <1>4, <2>1, <2>2
<1> QED
  BY <1>0, <1>5

LEMMA MoveSettlesAll ==
  ASSUME TypeOK, NEW w \in workers, Plan(w), ExecuteMove(w)
  PROVE  w.at \in Dispatch /\ \A d \in Dispatch : ~Open(d)'
<1>0. w.step \in AtDispatch
  BY DEF ExecuteMove, CreateRun, Runs, Executes, Visits, AtDispatch
<1>1. w.at \in Dispatch
  BY <1>0, AtFirst
<1>2. \A c \in Dispatch : dispatch'[c].status =
            IF c = w.at THEN "COMPLETED"
            ELSE IF c \in Dispatch /\ dispatch[c].status = "QUEUED"
                 THEN "CANCELED" ELSE dispatch[c].status
  BY <1>1, Completed DEF ExecuteMove
<1> QED
  BY <1>1, <1>2 DEF Open

-----------------------------------------------------------------------------
(* The invariant is inductive *)

\* The worker stays within its plan, or it has no event any more.
LEMMA OwnerStep ==
  ASSUME TypeOK, TokensAreFresh, NEW w \in workers, event.token = w.token, Plan(w),
         Work(w) \/ FailTransiently(w) \/ Throw(w) \/ Crash(w)
  PROVE  \/ event'.token = 0
         \/ workers' = workers \ {w}
         \/ \E v : Becomes(w, v) /\ Plan(v)'
<1>0. w \in Workers /\ w.token # 0 /\ event.status = "PROCESSING" /\ Own(w) /\ event \in Events
  BY DEF TypeOK, TokensAreFresh, Own
<1>1. CASE Load(w) \/ Renew(w) \/ RefreshRead(w)
  BY <1>0, <1>1, LoadPlan, RenewPlan, ReadPlan
<1>2. CASE AllVisited(w)
  <2>1. \A d \in Dispatch : ~Pending(d)'
    BY <1>2 DEF AllVisited, Plan, Visiting, Pending, Open, data, world
  <2> QED
    BY <1>2, <2>1, RefreshPlan DEF AllVisited, GoesTo
<1>3. CASE Nothing(w) \/ CancelSuperseded(w) \/ Skip(w) \/ Execute(w) \/ RecordFailure(w)
  BY <1>0, <1>3, SettlingPlan
<1>4. CASE ExecuteDelete(w)
  <2>1. w.step \in AtDispatch /\ \A d \in Dispatch : ~Open(d)'
    BY <1>4, DeletePlan
  <2>2. CASE GoesTo(w, "refresh")
    BY <2>1, <2>2, RefreshPlan DEF GoesTo, Pending
  <2>3. CASE lost' # 0 /\ GoesTo(w, "retry")
    BY <1>4, <2>1, <2>3, LostPlan DEF ExecuteDelete
  <2>4. Committed(w, "refresh")
    BY <1>4 DEF ExecuteDelete
  <2> QED
    BY <2>2, <2>3, <2>4, CommittedMoves
<1>5. CASE ExecuteMove(w)
  BY <1>0, <1>5, UnlockedEvent DEF ExecuteMove
<1>6. CASE FailForGood(w) \/ FailTransiently(w)
  <2>1. w.step \in AtDispatch /\ UNCHANGED <<dispatch, superseded, lost>>
    BY <1>6 DEF FailForGood, FailTransiently, Executes, Visits, AtDispatch, data, world, faults
  <2>2. (\E s \in AtDispatch : GoesTo(w, s))
    BY <1>6 DEF FailForGood, FailTransiently, AtDispatch
  <2> QED
    BY <2>1, <2>2, AtHandPlan DEF GoesTo
<1>7. CASE Retry(w)
  <2>1. CASE GoesTo(w, "fail") /\ UNCHANGED <<event, dispatch>>
    <3>1. w.step \in AtDispatch /\ UNCHANGED <<dispatch, superseded, lost>> /\ "fail" \in AtDispatch
      BY <1>7, <2>1 DEF Retry, AtDispatch, world, faults
    <3> QED
      BY <2>1, <3>1, AtHandPlan DEF GoesTo
  <2>2. CASE ~(GoesTo(w, "fail") /\ UNCHANGED <<event, dispatch>>)
    <3>1. event' = Unlocked("QUEUED")
      BY <1>7, <2>2 DEF Retry
    <3> QED
      BY <1>0, <3>1, UnlockedEvent
  <2> QED
    BY <2>1, <2>2
<1>8. CASE RefreshWrite(w) \/ Requeue(w) \/ Throw(w)
  BY <1>0, <1>8, NoPlan DEF RefreshWrite, Requeue, Throw, GoesTo
<1>9. CASE Release(w) \/ Crash(w)
  BY <1>9 DEF Release, Crash
<1> QED
  BY <1>1, <1>2, <1>3, <1>4, <1>5, <1>6, <1>7, <1>8, <1>9 DEF Work, Process

\* A worker closes the event only behind the last open dispatch.
LEMMA OwnerCloses ==
  ASSUME TypeOK, TokensAreFresh, NEW w \in workers, event.token = w.token, Plan(w),
         Work(w) \/ FailTransiently(w) \/ Throw(w) \/ Crash(w), event'.status \in Closed
  PROVE  ClosedAccounts'
<1>0. w.token # 0 /\ event.status = "PROCESSING" /\ event \in Events /\ w \in Workers
  BY DEF TypeOK, TokensAreFresh
<1>1. event'.status # event.status
  BY <1>0 DEF Closed
<1>2. CASE ExecuteMove(w)
  <2>1. event'.status = "CANCELED"
    BY <1>0, <1>2, UnlockedEvent DEF ExecuteMove
  <2> QED
    BY <1>2, <2>1, MoveSettlesAll DEF ClosedAccounts, ClosedIsSettled, ClosedIsCounted
<1>3. CASE RefreshWrite(w)
  <2>1. w.seen \in Counts /\ w.step = "write" /\ UNCHANGED data
    BY <1>0, <1>3, WorkerUpdates DEF RefreshWrite
  <2>2. event'.status = StatusOf(w.seen) /\ event'.counts = w.seen
    BY <1>3, <1>1 DEF RefreshWrite
  <2>3. ~(w.seen.queued > 0)
    BY <2>2 DEF StatusOf, Closed
  <2>4. w.seen.queued = 0
    BY <2>1, <2>3 DEF Counts
  <2>5. Counted(w.seen)
    BY <2>1, <2>4 DEF Plan
  <2>6. Counted(w.seen)'
    BY <2>1, <2>5, SameIsCalm, CountedStable, <1>3 DEF RefreshWrite, data, world
  <2> QED
    BY <2>2, <2>6 DEF ClosedAccounts, ClosedIsSettled, ClosedIsCounted, Counted
<1>4. CASE Retry(w) \/ Requeue(w)
  <2>1. event' = event \/ event' = Unlocked("QUEUED")
    BY <1>4 DEF Retry, Requeue
  <2>2. event'.status \notin Closed
    BY <1>0, <2>1, UnlockedEvent DEF Closed
  <2> QED
    BY <2>2
<1>5. CASE Renew(w)
  <2>1. event'.status = event.status
    BY <1>0, <1>5 DEF Renew, Events
  <2> QED
    BY <1>1, <2>1
<1>6. event' # event
  BY <1>1
<1> QED
  BY <1>2, <1>3, <1>4, <1>5, <1>6
  DEF Work, Load, AllVisited, Process, Nothing, CancelSuperseded, Skip, Execute, ExecuteDelete,
      FailForGood, RecordFailure, RefreshRead, Release, FailTransiently, Throw, Crash

LEMMA InitQueue == Init => QueueInv
  BY DEF Init, QueueInv, TokensAreFresh, ClosedAccounts, ClosedIsSettled, ClosedIsCounted, OwnerHasPlan, Closed

LEMMA ClosedStable ==
  ASSUME ClosedAccounts, Calm, event'.status = event.status, event'.counts = event.counts
  PROVE  ClosedAccounts'
<1>1. ClosedIsSettled'
  BY DEF ClosedAccounts, ClosedIsSettled, Calm
<1>2. CASE \A d \in Dispatch : ~Open(d)
  <2>1. dispatch' = dispatch /\ CurrentCounts' = CurrentCounts
    BY <1>2, SameCounts DEF Calm
  <2> QED
    BY <1>1, <2>1 DEF ClosedAccounts, ClosedIsCounted, Counted, Open, StatusOf
<1>3. CASE ~(\A d \in Dispatch : ~Open(d))
  BY <1>1, <1>3 DEF ClosedAccounts, ClosedIsSettled, ClosedIsCounted
<1> QED
  BY <1>2, <1>3

LEMMA StepQueue ==
  ASSUME TypeOK, TypeOK', QueueInv, [Next]_vars
  PROVE  QueueInv'
<1>1. /\ TokensAreFresh /\ TokensAreFresh' /\ ClosedAccounts /\ OwnerHasPlan
      /\ lost' = 0 => lost = 0
  BY StepTokens, LostGrows DEF QueueInv
<1>2. \A x \in workers : x \in Workers /\ x.token # 0
  BY <1>1 DEF TypeOK, TokensAreFresh
<1>3. ASSUME Calm, event'.status = event.status, event'.token = event.token,
             event'.counts = event.counts, workers' \subseteq workers
      PROVE  ClosedAccounts' /\ OwnerHasPlan'
  <2>1. ClosedAccounts'
    BY <1>1, <1>3, ClosedStable
  <2>2. OwnerHasPlan'
    BY <1>1, <1>2, <1>3, PlanStable DEF OwnerHasPlan
  <2> QED
    BY <2>1, <2>2
<1>4. CASE UNCHANGED <<event, dispatch, workers>> /\ (superseded => superseded')
  <2>1. Calm
    BY <1>4, SameIsCalm
  <2>2. ClosedAccounts' /\ OwnerHasPlan'
    BY <1>3, <1>4, <2>1
  <2> QED
    BY <1>1, <2>2 DEF QueueInv
<1>5. CASE Claim
  <2>1. event'.status = "PROCESSING" /\ event'.token = claims + 1 /\ UNCHANGED <<dispatch, superseded>>
    BY <1>5 DEF Claim, TypeOK, Events, data, world
  <2>2. ASSUME NEW x \in workers', event'.token = x.token
        PROVE  Plan(x)'
    <3>1. x.step = "load"
      <4>1. x \notin workers
        BY <1>1, <2>1, <2>2 DEF TokensAreFresh, TypeOK
      <4> QED
        BY <1>5, <4>1 DEF Claim
    <3> QED
      BY <3>1 DEF Plan, Visiting, AtDispatch
  <2> QED
    BY <1>1, <2>1, <2>2 DEF ClosedAccounts, ClosedIsSettled, ClosedIsCounted, OwnerHasPlan, Closed, QueueInv
<1>6. ASSUME workers' = workers, event'.token = 0, ClosedAccounts'
      PROVE  QueueInv'
  <2>1. OwnerHasPlan'
    BY <1>2, <1>6 DEF OwnerHasPlan
  <2> QED
    BY <1>1, <1>6, <2>1 DEF QueueInv
<1>7. CASE Recover
  <2>1. event'.status = "QUEUED" /\ event'.token = 0 /\ workers' = workers
    BY <1>7, UnlockedEvent DEF Recover, TypeOK
  <2>2. ClosedAccounts'
    BY <2>1 DEF ClosedAccounts, ClosedIsSettled, ClosedIsCounted, Closed
  <2> QED
    BY <1>6, <2>1, <2>2
<1>8. CASE ExpireEvent
  <2>1. /\ event'.status = event.status /\ event'.token = event.token
        /\ event'.counts = event.counts /\ workers' = workers
    BY <1>8 DEF ExpireEvent, TypeOK, Events
  <2>2. Calm
    BY <1>8, SameIsCalm DEF ExpireEvent, data, world
  <2> QED
    BY <1>1, <1>3, <2>1, <2>2 DEF QueueInv
<1>9. CASE MoveStep
  <2>1. CASE event.status \in {"QUEUED", "PROCESSING"}
    <3>1. event'.token = 0 /\ event'.status = "CANCELED" /\ workers' = workers
      BY <1>9, <2>1, UnlockedEvent DEF MoveStep, TypeOK
    <3>2. \A d \in Dispatch : ~Open(d)'
      BY <1>9, <2>1 DEF MoveStep, Open, TypeOK, DispatchRows
    <3>3. ClosedAccounts'
      BY <3>1, <3>2 DEF ClosedAccounts, ClosedIsSettled, ClosedIsCounted
    <3> QED
      BY <1>6, <3>1, <3>3
  <2>2. CASE event.status \notin {"QUEUED", "PROCESSING"}
    BY <1>1, <1>4, <1>9, <2>2 DEF MoveStep, QueueInv
  <2> QED
    BY <2>1, <2>2
<1>10. CASE \E w \in workers : Work(w) \/ FailTransiently(w) \/ Throw(w) \/ Crash(w)
  <2>1. PICK w \in workers : Work(w) \/ FailTransiently(w) \/ Throw(w) \/ Crash(w)
    BY <1>10
  <2>2. workers' = workers \ {w} \/ \E v : v.token = w.token /\ Becomes(w, v)
    BY <2>1, WorkerMoves
  <2>3. CASE event.token # w.token
    <3>1. Calm /\ event' = event
      BY <2>1, <2>3, OvertakenIsCalm
    <3>2. ASSUME NEW x \in workers', event'.token = x.token
          PROVE  x \in workers
      BY <2>2, <2>3, <3>1, <3>2 DEF Becomes
    <3>3. OwnerHasPlan'
      BY <1>1, <1>2, <3>1, <3>2, PlanStable DEF OwnerHasPlan
    <3>4. ClosedAccounts'
      BY <1>1, <3>1, ClosedStable
    <3> QED
      BY <1>1, <3>3, <3>4 DEF QueueInv
  <2>4. CASE event.token = w.token
    <3>1. Plan(w) /\ w.token # 0
      BY <1>1, <1>2, <2>4 DEF OwnerHasPlan
    <3>2. ClosedAccounts'
      BY <1>1, <2>1, <2>4, <3>1, OwnerCloses DEF ClosedAccounts, ClosedIsSettled, ClosedIsCounted
    <3>3. \A x \in workers : x # w => x.token # w.token
      BY <1>1 DEF TokensAreFresh
    <3>4. event'.token = event.token \/ event'.token = 0
      BY <1>1, <2>1, EventMoves
    <3>5. CASE event'.token = 0
      <4>1. OwnerHasPlan'
        BY <1>1, <3>5 DEF OwnerHasPlan, TokensAreFresh
      <4> QED
        BY <1>1, <3>2, <4>1 DEF QueueInv
    <3>6. CASE event'.token = event.token /\ workers' = workers \ {w}
      <4>1. OwnerHasPlan'
        BY <2>4, <3>3, <3>6 DEF OwnerHasPlan
      <4> QED
        BY <1>1, <3>2, <4>1 DEF QueueInv
    <3>7. CASE event'.token = event.token /\ \E v : Becomes(w, v) /\ Plan(v)'
      <4>1. PICK v : Becomes(w, v) /\ Plan(v)'
        BY <3>7
      <4>2. ASSUME NEW x \in workers', event'.token = x.token
            PROVE  x = v
        BY <2>4, <3>3, <3>7, <4>1, <4>2 DEF Becomes
      <4>3. OwnerHasPlan'
        BY <4>1, <4>2 DEF OwnerHasPlan
      <4> QED
        BY <1>1, <3>2, <4>3 DEF QueueInv
    <3>8. event'.token = 0 \/ workers' = workers \ {w} \/ \E v : Becomes(w, v) /\ Plan(v)'
      BY <1>1, <2>1, <2>4, <3>1, OwnerStep
    <3> QED
      BY <3>4, <3>5, <3>6, <3>7, <3>8
  <2> QED
    BY <2>3, <2>4
<1>11. CASE UNCHANGED vars \/ ExpireLease \/ \E d \in Dispatch : EndRun(d)
  <2>1. UNCHANGED <<event, dispatch, workers, superseded>>
    BY <1>11 DEF vars, ExpireLease, EndRun, data, world
  <2> QED
    BY <1>4, <2>1
<1>12. CASE RemoveEnrollment \/ DeleteContact
  <2>1. UNCHANGED <<event, dispatch, workers>> /\ (superseded => superseded')
    BY <1>12 DEF RemoveEnrollment, DeleteContact, data
  <2> QED
    BY <1>4, <2>1
<1> QED
  BY <1>5, <1>7, <1>8, <1>9, <1>10, <1>11, <1>12 DEF Next

-----------------------------------------------------------------------------
(* Refinement *)

LEMMA OutcomeValue ==
  ASSUME NEW d \in Dispatch
  PROVE  /\ PromisedOutcome[d] = IF superseded /\ Open(d) THEN "CANCELED" ELSE dispatch[d].status
         /\ PromisedOutcome[d] = "QUEUED" <=> Pending(d)
  BY DEF PromisedOutcome, Open, Pending

LEMMA SameOutcome ==
  ASSUME \A d \in Dispatch : PromisedOutcome'[d] = PromisedOutcome[d]
  PROVE  PromisedOutcome' = PromisedOutcome
  BY DEF PromisedOutcome

LEMMA SettledOutcome ==
  ASSUME TypeOK, NEW w \in workers, Plan(w), w.step \in AtDispatch, Own(w), ~superseded,
         UNCHANGED <<superseded, event>>, dispatch[w.at].status \notin Settled,
         NEW s \in Settled, SetStatus(w.at, s)
  PROVE  Promise!Settle(w.at, s) /\ w.at \in Promise!Dispatch /\ s \in Promise!Outcome
<1>1. w.at \in Dispatch /\ \A c \in Dispatch : c < w.at => ~Pending(c)
  BY AtFirst
<1>2. Pending(w.at)
  BY <1>1, DispatchUpdates DEF TypeOK, Pending, Open
<1>3. PromisedOutcome' = [PromisedOutcome EXCEPT ![w.at] = s]
  <2>1. \A c \in Dispatch : dispatch'[c].status = IF c = w.at THEN s ELSE dispatch[c].status
    BY <1>1, StatusSet
  <2> QED
    BY <2>1 DEF PromisedOutcome
<1>4. ~PromisedClosed /\ PromisedClosed' = PromisedClosed
  BY DEF PromisedClosed, Own, Closed
<1>5. \A c \in 1 .. w.at - 1 : c \in Dispatch /\ c < w.at
  BY <1>1, QueueAssumption DEF Dispatch
<1>6. Promise!First(w.at)
  BY <1>1, <1>2, <1>5, OutcomeValue DEF Promise!First
<1> QED
  BY <1>1, <1>3, <1>4, <1>6 DEF Promise!Settle, Promise!Dispatch, Dispatch, Promise!Outcome, Settled

LEMMA SettlesAll ==
  ASSUME TypeOK, NEW w \in workers, Plan(w), w.step \in AtDispatch, Own(w), ~superseded,
         dispatch[w.at].status \notin Settled, NEW rest, CompleteAndCancel(w.at, rest),
         \A d \in Dispatch : ~Open(d)', PromisedClosed' \in BOOLEAN
  PROVE  Promise!SettleAndCancel(w.at) /\ w.at \in Promise!Dispatch
<1>1. w.at \in Dispatch /\ \A c \in Dispatch : c < w.at => ~Pending(c)
  BY AtFirst
<1>2. Pending(w.at)
  BY <1>1, DispatchUpdates DEF TypeOK, Pending, Open
<1>3. \A c \in 1 .. w.at - 1 : c \in Dispatch /\ c < w.at
  BY <1>1, QueueAssumption DEF Dispatch
<1>4. Promise!First(w.at)
  BY <1>1, <1>2, <1>3, OutcomeValue DEF Promise!First
<1>5. \A c \in Dispatch : dispatch'[c].status =
            IF c = w.at THEN "COMPLETED"
            ELSE IF c \in rest /\ dispatch[c].status = "QUEUED" THEN "CANCELED" ELSE dispatch[c].status
  BY <1>1, Completed
<1>6. ASSUME NEW c \in Dispatch
      PROVE  PromisedOutcome'[c] = IF c = w.at THEN "COMPLETED"
                                   ELSE IF PromisedOutcome[c] = "QUEUED" THEN "CANCELED" ELSE PromisedOutcome[c]
  <2>1. PromisedOutcome'[c] = dispatch'[c].status
    BY DEF PromisedOutcome, Open
  <2>2. PromisedOutcome[c] = dispatch[c].status
    BY DEF PromisedOutcome
  <2> QED
    BY <1>5, <2>1, <2>2 DEF Open
<1>7. PromisedOutcome' = [c \in Dispatch |-> IF c = w.at THEN "COMPLETED"
                            ELSE IF PromisedOutcome[c] = "QUEUED" THEN "CANCELED" ELSE PromisedOutcome[c]]
  BY <1>6 DEF PromisedOutcome
<1>8. ~PromisedClosed
  BY DEF PromisedClosed, Own, Closed
<1> QED
  BY <1>1, <1>4, <1>7, <1>8 DEF Promise!SettleAndCancel, Promise!Dispatch, Dispatch

\* The enrollment moves on: what is open is canceled, or nothing was.
LEMMA SupersededOutcome ==
  ASSUME ClosedIsSettled, superseded',
         \A d \in Dispatch : \/ dispatch'[d].status = dispatch[d].status
                             \/ Open(d) /\ dispatch'[d].status = "CANCELED",
         PromisedClosed => UNCHANGED <<dispatch, event>>
  PROVE  Promise!Cancel \/ UNCHANGED <<PromisedOutcome, PromisedClosed>>
<1>1. CASE PromisedClosed
  <2>1. \A d \in Dispatch : PromisedOutcome'[d] = PromisedOutcome[d]
    BY <1>1 DEF PromisedOutcome, ClosedIsSettled, PromisedClosed, Open
  <2> QED
    BY <1>1, <2>1, SameOutcome DEF PromisedClosed
<1>2. CASE ~PromisedClosed
  <2>1. ASSUME NEW d \in Dispatch
        PROVE  PromisedOutcome'[d] = IF PromisedOutcome[d] = "QUEUED" THEN "CANCELED" ELSE PromisedOutcome[d]
    BY DEF PromisedOutcome, Open
  <2>2. PromisedOutcome' = [d \in Dispatch |-> IF PromisedOutcome[d] = "QUEUED" THEN "CANCELED" ELSE PromisedOutcome[d]]
    BY <2>1 DEF PromisedOutcome
  <2> QED
    BY <1>2, <2>2 DEF Promise!Cancel, Promise!Dispatch, Dispatch, PromisedClosed
<1> QED
  BY <1>1, <1>2

\* A step that leaves the dispatches alone is invisible, unless it closes the event.
LEMMA QuietStep ==
  ASSUME UNCHANGED <<dispatch, superseded>>
  PROVE  PromisedOutcome' = PromisedOutcome
  BY DEF PromisedOutcome

LEMMA OwnerImplements ==
  ASSUME lost = 0, TypeOK, TokensAreFresh, NEW w \in workers, event.token = w.token, Plan(w),
         Work(w) \/ FailTransiently(w) \/ Throw(w) \/ Crash(w)
  PROVE  Promise!Next \/ UNCHANGED <<PromisedOutcome, PromisedClosed>>
<1>0. w \in Workers /\ Own(w) /\ ~PromisedClosed /\ event \in Events
  BY DEF TypeOK, TokensAreFresh, Own, PromisedClosed, Closed
<1>1. CASE Skip(w) \/ Execute(w)
  <2>1. \E s \in Settled : SetStatus(w.at, s)
    BY <1>1 DEF Skip, Execute, Settled
  <2>2. /\ w.step \in AtDispatch /\ ~superseded /\ dispatch[w.at].status \notin Settled
        /\ UNCHANGED <<superseded, event>>
    BY <1>1 DEF Skip, Execute, CreateRun, Runs, Executes, Visits, AtDispatch, world
  <2> QED
    BY <1>0, <2>1, <2>2, SettledOutcome DEF Promise!Next
<1>2. CASE RecordFailure(w) /\ MayRecord(w)
  <2>1. SetStatus(w.at, "FAILED") /\ "FAILED" \in Settled
    BY <1>2 DEF RecordFailure, Settled
  <2>2. /\ w.step \in AtDispatch /\ ~superseded /\ dispatch[w.at].status \notin Settled
        /\ UNCHANGED <<superseded, event>>
    BY <1>2 DEF RecordFailure, MayRecord, AtDispatch, world
  <2> QED
    BY <1>0, <2>1, <2>2, SettledOutcome DEF Promise!Next
<1>3. CASE ExecuteDelete(w) \/ ExecuteMove(w)
  <2>1. /\ w.step \in AtDispatch /\ ~superseded /\ dispatch[w.at].status \notin Settled
        /\ \E rest : CompleteAndCancel(w.at, rest)
    BY <1>3 DEF ExecuteDelete, ExecuteMove, CreateRun, Runs, Executes, Visits, AtDispatch
  <2>2. \A d \in Dispatch : ~Open(d)'
    BY <1>3, DeletePlan, MoveSettlesAll
  <2>3. PromisedClosed' \in BOOLEAN
    BY DEF PromisedClosed
  <2> QED
    BY <1>0, <2>1, <2>2, <2>3, SettlesAll DEF Promise!Next
<1>4. CASE CancelSuperseded(w)
  <2>1. superseded /\ superseded' /\ UNCHANGED event /\ SetStatus(w.at, "CANCELED")
        /\ w.step \in AtDispatch /\ dispatch[w.at].status \notin Settled
    BY <1>4 DEF CancelSuperseded, Visits, AtDispatch, world
  <2>2. w.at \in Dispatch /\ Open(w.at)
    BY <2>1, AtFirst, DispatchUpdates DEF TypeOK, Open
  <2>3. \A c \in Dispatch : dispatch'[c].status = IF c = w.at THEN "CANCELED" ELSE dispatch[c].status
    BY <2>1, <2>2, StatusSet
  <2>4. \A c \in Dispatch : PromisedOutcome'[c] = PromisedOutcome[c]
    BY <2>1, <2>2, <2>3 DEF PromisedOutcome, Open
  <2> QED
    BY <2>1, <2>4, SameOutcome DEF PromisedClosed
<1>5. CASE Retry(w) /\ dispatch' # dispatch
  <2>1. /\ dispatch' = [dispatch EXCEPT ![w.at] = [status |-> "QUEUED", attempts |-> @.attempts + 1]]
        /\ event' = Unlocked("QUEUED") /\ superseded' = superseded /\ w.step \in AtDispatch
    BY <1>5 DEF Retry, AtDispatch, world
  <2>2. w.at \in Dispatch /\ Left(w.at)
    BY <2>1, AtFirst DEF Plan, Visiting, AtDispatch
  <2>3. \A c \in Dispatch : dispatch'[c].status = IF c = w.at THEN "QUEUED" ELSE dispatch[c].status
    BY <2>1, <2>2 DEF TypeOK
  <2>4. \A c \in Dispatch : PromisedOutcome'[c] = PromisedOutcome[c]
    BY <2>1, <2>2, <2>3 DEF PromisedOutcome, Left, Open
  <2>5. ~PromisedClosed'
    BY <1>0, <2>1, UnlockedEvent DEF PromisedClosed, Closed
  <2> QED
    BY <1>0, <2>4, <2>5, SameOutcome DEF PromisedClosed
<1>6. CASE UNCHANGED <<dispatch, superseded>>
  <2>1. PromisedOutcome' = PromisedOutcome
    BY <1>6, QuietStep
  <2>2. CASE PromisedClosed'
    <3>1. \A d \in Dispatch : ~Open(d)'
      BY <2>2, OwnerCloses DEF PromisedClosed, ClosedAccounts, ClosedIsSettled
    <3>2. \A d \in Dispatch : PromisedOutcome[d] # "QUEUED"
      BY <1>6, <3>1, OutcomeValue DEF Pending, Open
    <3>3. Promise!Close
      BY <1>0, <2>1, <2>2, <3>2 DEF Promise!Close, Promise!Dispatch, Dispatch
    <3> QED
      BY <3>3 DEF Promise!Next
  <2>3. CASE ~PromisedClosed'
    BY <1>0, <2>1, <2>3 DEF PromisedClosed
  <2> QED
    BY <2>2, <2>3
<1>7. CASE Process(w)
  BY <1>1, <1>3, <1>4, <1>6, <1>7 DEF Process, Nothing, FailForGood, data, world
<1>8. CASE Retry(w) \/ RecordFailure(w)
  BY <1>2, <1>5, <1>6, <1>8 DEF Retry, RecordFailure, data, world
<1> QED
  BY <1>6, <1>7, <1>8
  DEF Work, Load, Renew, AllVisited, RefreshRead, RefreshWrite, Requeue, Release,
      FailTransiently, Throw, Crash, data, world

\* Who does not own the event is invisible.
LEMMA OvertakenImplements ==
  ASSUME TypeOK, NEW w \in workers, event.token # w.token,
         Work(w) \/ FailTransiently(w) \/ Throw(w) \/ Crash(w)
  PROVE  UNCHANGED <<PromisedOutcome, PromisedClosed>>
<1>1. event' = event
  BY OvertakenIsCalm
<1>2. ~Own(w) /\ ~Executes(w) /\ ~Runs(w)
  BY DEF Own, Executes, Runs
<1>3. CASE UNCHANGED <<dispatch, superseded>>
  BY <1>1, <1>3, QuietStep DEF PromisedClosed
<1>4. CASE CancelSuperseded(w)
  <2>1. superseded /\ superseded' /\ dispatch[w.at].status \notin Settled /\ SetStatus(w.at, "CANCELED")
    BY <1>4 DEF CancelSuperseded, Visits, world
  <2>2. CASE w.at \in Dispatch
    <3>1. Open(w.at)
      BY <2>1, <2>2, DispatchUpdates DEF TypeOK, Open
    <3>2. \A c \in Dispatch : dispatch'[c].status = IF c = w.at THEN "CANCELED" ELSE dispatch[c].status
      BY <2>1, <2>2, StatusSet
    <3>3. \A c \in Dispatch : PromisedOutcome'[c] = PromisedOutcome[c]
      BY <2>1, <3>1, <3>2 DEF PromisedOutcome, Open
    <3> QED
      BY <1>1, <3>3, SameOutcome DEF PromisedClosed
  <2>3. CASE w.at \notin Dispatch
    BY <1>3, <2>1, <2>3, SetNowhere, <1>4 DEF CancelSuperseded, world
  <2> QED
    BY <2>2, <2>3
<1>5. CASE Process(w)
  BY <1>2, <1>3, <1>4, <1>5
  DEF Process, Nothing, Skip, Execute, ExecuteDelete, ExecuteMove, CreateRun, FailForGood, data, world
<1>6. CASE Retry(w) \/ RecordFailure(w)
  BY <1>2, <1>3, <1>6 DEF Retry, RetryGuard, RecordFailure, MayRecord, data, world
<1> QED
  BY <1>3, <1>5, <1>6
  DEF Work, Load, Renew, AllVisited, RefreshRead, RefreshWrite, Requeue, Release,
      FailTransiently, Throw, Crash, data, world

LEMMA StepImplements ==
  ASSUME lost' = 0, TypeOK, QueueInv, [Next]_vars
  PROVE  [Promise!Next]_<<PromisedOutcome, PromisedClosed>>
<1>0. event \in Events
  BY DEF TypeOK
<1>1. TokensAreFresh /\ ClosedIsSettled /\ OwnerHasPlan /\ lost = 0
  BY LostGrows DEF QueueInv, ClosedAccounts
<1>2. CASE UNCHANGED <<event, dispatch, superseded>>
  BY <1>2, QuietStep DEF PromisedClosed
<1>3. CASE Claim \/ Recover \/ ExpireEvent
  <2>1. UNCHANGED <<dispatch, superseded>>
    BY <1>3 DEF Claim, Recover, ExpireEvent, data, world
  <2>2. PromisedClosed' = PromisedClosed
    <3>1. CASE Claim
      BY <1>0, <3>1 DEF Claim, Due, Events, PromisedClosed, Closed
    <3>2. CASE Recover
      BY <1>0, <3>2, UnlockedEvent DEF Recover, PromisedClosed, Closed
    <3>3. CASE ExpireEvent
      BY <1>0, <3>3 DEF ExpireEvent, Events, PromisedClosed, Closed
    <3> QED
      BY <1>3, <3>1, <3>2, <3>3
  <2> QED
    BY <2>1, <2>2, QuietStep
<1>4. CASE \E w \in workers : Work(w) \/ FailTransiently(w) \/ Throw(w) \/ Crash(w)
  <2>1. PICK w \in workers : Work(w) \/ FailTransiently(w) \/ Throw(w) \/ Crash(w)
    BY <1>4
  <2>2. CASE event.token = w.token
    <3>1. Plan(w)
      BY <1>1, <2>2 DEF OwnerHasPlan
    <3> QED
      BY <1>1, <2>1, <2>2, <3>1, OwnerImplements
  <2>3. CASE event.token # w.token
    BY <2>1, <2>3, OvertakenImplements
  <2> QED
    BY <2>2, <2>3
<1>5. CASE MoveStep
  <2>1. superseded' /\ (PromisedClosed => UNCHANGED <<dispatch, event>>)
    BY <1>5 DEF MoveStep, PromisedClosed, Closed
  <2>2. \A d \in Dispatch : \/ dispatch'[d].status = dispatch[d].status
                            \/ Open(d) /\ dispatch'[d].status = "CANCELED"
    BY <1>5 DEF MoveStep, Open, TypeOK, DispatchRows
  <2> QED
    BY <1>1, <2>1, <2>2, SupersededOutcome DEF Promise!Next
<1>6. CASE RemoveEnrollment \/ DeleteContact
  <2>1. UNCHANGED <<dispatch, event>>
    BY <1>6 DEF RemoveEnrollment, DeleteContact, data
  <2>2. CASE superseded'
    BY <1>1, <2>1, <2>2, SupersededOutcome DEF Promise!Next
  <2>3. CASE ~superseded'
    BY <1>2, <1>6, <2>1, <2>3, QueueAssumption DEF RemoveEnrollment, DeleteContact, TypeOK
  <2> QED
    BY <2>2, <2>3
<1> QED
  BY <1>2, <1>3, <1>4, <1>5, <1>6 DEF Next, ExpireLease, EndRun, data, world, vars

LEMMA InitImplements == Init => Promise!Init
  BY DEF Init, Promise!Init, Promise!Dispatch, Dispatch, PromisedOutcome, PromisedClosed, Closed

\* Also when acknowledgements are lost, no dispatch is open once its event is closed, no
\* token is used twice, and the owner of the event knows what is left.
THEOREM QueueInvHolds == Spec => []QueueInv
<1>1. TypeOK /\ TypeOK' /\ QueueInv /\ [Next]_vars => QueueInv'
  BY StepQueue
<1> QED
  BY <1>1, InitQueue, TypeCorrect, PTL DEF Spec

\* The queue implements EventPromise until an acknowledgement of a commit is lost, for any
\* number of dispatches, crashes, overtaken workers, transient errors and losses.
THEOREM KeepsPromiseHolds == Spec => KeepsPromise
<1>1. TypeOK /\ QueueInv /\ [Next]_vars
        => [lost' = 0 => [Promise!Next]_<<PromisedOutcome, PromisedClosed>>]_vars
  BY StepImplements
<1> QED
  BY <1>1, InitImplements, TypeCorrect, QueueInvHolds, PTL DEF Spec, KeepsPromise

-----------------------------------------------------------------------------
(* Runs, dispatches and the closed event *)

\* A closed event has no open dispatch, and unless it was canceled its counts and its
\* status are those of its dispatches, also when acknowledgements were lost on the way:
\* the counts are read by the owner, and once nothing is open nobody changes a dispatch.
THEOREM ClosedEventAccountsHolds == Spec => []ClosedEventAccounts
<1>1. TypeOK /\ QueueInv => ClosedEventAccounts
  <2> SUFFICES ASSUME TypeOK, QueueInv, event.status \in Closed
               PROVE  /\ \A d \in Dispatch : dispatch[d].status \in Settled
                      /\ event.status # "CANCELED" => /\ event.counts = CurrentCounts
                                                      /\ event.status = StatusOf(CurrentCounts)
    BY DEF ClosedEventAccounts
  <2>1. \A d \in Dispatch : dispatch[d].status \in Settled
    BY DispatchUpdates DEF TypeOK, QueueInv, ClosedAccounts, ClosedIsSettled, Open
  <2> QED
    BY <2>1 DEF QueueInv, ClosedAccounts, ClosedIsCounted, Counted
<1> QED
  BY <1>1, TypeCorrect, QueueInvHolds, PTL

\* Once the enrollment of the event has moved on or is gone, no segment is committed: every
\* transaction reads that before it starts one.
THEOREM NoRunAfterSupersedeHolds == Spec => NoRunAfterSupersede
<1>1. [Next]_vars => [superseded => applied' = applied]_vars
  <2> SUFFICES ASSUME Next, superseded
               PROVE  applied' = applied
    BY DEF vars
  <2> QED
    BY DEF Next, Claim, Recover, ExpireLease, ExpireEvent, Work, Load, Renew, AllVisited, Process,
           Nothing, CancelSuperseded, Skip, Execute, ExecuteDelete, ExecuteMove, CreateRun, Runs, Executes,
           FailForGood, Retry, RecordFailure, RefreshRead, RefreshWrite, Requeue, Release,
           FailTransiently, Throw, Crash, EndRun, MoveStep, RemoveEnrollment, DeleteContact, data
<1> QED
  BY <1>1, PTL DEF Spec, NoRunAfterSupersede

\* RunMatchesDispatch of one dispatch.
Matches(d) ==
    /\ dispatch[d].status = "COMPLETED" <=> applied[d] = 1
    /\ dispatch[d].status = "FAILED" => run[d] = "FAILED"
    /\ dispatch[d].status \notin {"COMPLETED", "FAILED"} => run[d] = "NONE"

\* The dispatch keeps its run, or it had none and has none after.
LEMMA StillMatches ==
  ASSUME NEW d \in Dispatch, Matches(d), applied'[d] = applied[d],
         \/ dispatch'[d].status = dispatch[d].status /\ run'[d] = run[d]
         \/ /\ dispatch[d].status = "COMPLETED" /\ dispatch'[d].status = "COMPLETED"
         \/ /\ dispatch[d].status \in {"QUEUED", "CANCELED"}
            /\ dispatch'[d].status \in {"QUEUED", "SKIPPED", "CANCELED"} /\ run'[d] = run[d]
  PROVE  Matches(d)'
  BY DEF Matches

\* Only a completed dispatch has a run that waits.
LEMMA WaitingIsCompleted ==
  ASSUME NEW d \in Dispatch, Matches(d), run[d] = "WAITING"
  PROVE  dispatch[d].status = "COMPLETED"
  BY DEF Matches

LEMMA ExitWaitingMatches ==
  ASSUME NEW d \in Dispatch, Matches(d), NEW mover
  PROVE  ExitWaiting(mover)[d] = run[d] \/ dispatch[d].status = "COMPLETED"
  BY WaitingIsCompleted DEF ExitWaiting

\* A segment is committed: its dispatch completes, the others keep their runs.
LEMMA CreateRunMatches ==
  ASSUME TypeOK, RunCounted, \A d \in Dispatch : Matches(d), NEW w \in workers, w.at \in Dispatch,
         NEW result, NEW others \in [Dispatch -> RunStatus], CreateRun(w, result, others),
         \A d \in Dispatch : others[d] = run[d] \/ dispatch[d].status = "COMPLETED",
         dispatch'[w.at].status = "COMPLETED",
         \A d \in Dispatch \ {w.at} : \/ dispatch'[d].status = dispatch[d].status
                                      \/ dispatch[d].status = "QUEUED" /\ dispatch'[d].status = "CANCELED"
  PROVE  \A d \in Dispatch : Matches(d)'
<1>1. /\ run[w.at] = "NONE" /\ run' = [others EXCEPT ![w.at] = result]
      /\ applied' = [applied EXCEPT ![w.at] = @ + 1]
  BY DEF CreateRun, MayCreateRun
<1>2. applied[w.at] = 0 /\ applied'[w.at] = 1
  <2>1. applied[w.at] \in Nat /\ applied[w.at] <= 1 /\ applied[w.at] # 1
    BY <1>1 DEF RunCounted
  <2>2. applied'[w.at] = applied[w.at] + 1
    BY <1>1 DEF RunCounted
  <2> QED
    BY <2>1, <2>2
<1>3. Matches(w.at)'
  BY <1>2 DEF Matches
<1>4. ASSUME NEW d \in Dispatch \ {w.at}
      PROVE  Matches(d)'
  <2>1. applied'[d] = applied[d] /\ run'[d] = others[d]
    BY <1>1 DEF TypeOK
  <2> QED
    BY <2>1, StillMatches
<1> QED
  BY <1>3, <1>4

LEMMA ProcessMatches ==
  ASSUME TypeOK, RunCounted, QueueInv, lost = 0, \A d \in Dispatch : Matches(d),
         NEW w \in workers, Process(w)
  PROVE  \A d \in Dispatch : Matches(d)'
<1>0. /\ w \in Workers /\ run \in [Dispatch -> RunStatus]
      /\ Own(w) /\ w.step \in AtDispatch => w.at \in Dispatch
  BY AtFirst DEF TypeOK, QueueInv, OwnerHasPlan, Own
<1>1. CASE Nothing(w) \/ FailForGood(w)
  <2>1. UNCHANGED <<dispatch, run, applied>>
    BY <1>1 DEF Nothing, FailForGood, data
  <2> QED
    BY <2>1, StillMatches
<1>2. CASE CancelSuperseded(w) \/ Skip(w)
  <2>1. PICK s \in {"CANCELED", "SKIPPED"} : SetStatus(w.at, s)
    BY <1>2 DEF CancelSuperseded, Skip
  <2>2. dispatch[w.at].status \notin Settled /\ UNCHANGED <<run, applied>>
    BY <1>2 DEF CancelSuperseded, Skip, Executes, Visits
  <2>3. CASE w.at \in Dispatch
    <3>1. dispatch[w.at].status = "QUEUED"
      BY <2>2, <2>3, DispatchUpdates DEF TypeOK
    <3>2. \A c \in Dispatch : dispatch'[c].status = IF c = w.at THEN s ELSE dispatch[c].status
      BY <2>1, <2>3, StatusSet
    <3> QED
      BY <2>2, <3>1, <3>2, StillMatches
  <2>4. CASE w.at \notin Dispatch
    BY <2>1, <2>2, <2>4, SetNowhere, StillMatches
  <2> QED
    BY <2>3, <2>4
<1>3. CASE Execute(w)
  <2>1. w.at \in Dispatch
    BY <1>0, <1>3 DEF Execute, CreateRun, Runs, Executes, Visits, AtDispatch
  <2>2. \A c \in Dispatch : dispatch'[c].status = IF c = w.at THEN "COMPLETED" ELSE dispatch[c].status
    BY <1>3, <2>1, StatusSet DEF Execute
  <2>3. PICK result \in Results : CreateRun(w, result, run)
    BY <1>3 DEF Execute
  <2> QED
    BY <1>0, <2>1, <2>2, <2>3, CreateRunMatches
<1>4. CASE ExecuteDelete(w) \/ ExecuteMove(w)
  <2>1. w.at \in Dispatch
    BY <1>0, <1>4 DEF ExecuteDelete, ExecuteMove, CreateRun, Runs, Executes, Visits, AtDispatch
  <2>2. PICK rest : CompleteAndCancel(w.at, rest)
    BY <1>4 DEF ExecuteDelete, ExecuteMove
  <2>3. \A c \in Dispatch : dispatch'[c].status =
            IF c = w.at THEN "COMPLETED"
            ELSE IF c \in rest /\ dispatch[c].status = "QUEUED" THEN "CANCELED" ELSE dispatch[c].status
    BY <2>1, <2>2, Completed
  <2>4. PICK others \in {run, ExitWaiting(w.at)} : \E result : CreateRun(w, result, others)
    BY <1>4 DEF ExecuteDelete, ExecuteMove
  <2>5. \A d \in Dispatch : others[d] = run[d] \/ dispatch[d].status = "COMPLETED"
    BY ExitWaitingMatches
  <2>6. others \in [Dispatch -> RunStatus]
    BY <1>0, ExitWaitingType
  <2> QED
    BY <2>1, <2>3, <2>4, <2>5, <2>6, CreateRunMatches
<1> QED
  BY <1>1, <1>2, <1>3, <1>4 DEF Process

\* With every acknowledgement received, a retry takes back only what was not carried out.
LEMMA AftermathMatches ==
  ASSUME TypeOK, RunCounted, QueueInv, lost = 0, \A d \in Dispatch : Matches(d),
         NEW w \in workers, Retry(w) \/ RecordFailure(w)
  PROVE  \A d \in Dispatch : Matches(d)'
<1>0. w.step \in AtDispatch /\ applied' = applied
  BY DEF Retry, RecordFailure, AtDispatch
<1>1. CASE UNCHANGED <<dispatch, run>>
  BY <1>0, <1>1, StillMatches
<1>2. CASE ~(UNCHANGED <<dispatch, run>>)
  <2>1. Own(w)
    BY <1>2 DEF Retry, RetryGuard, RecordFailure, MayRecord
  <2>2. Plan(w) /\ w.at \in Dispatch /\ Left(w.at)
    BY <1>0, <2>1, AtFirst DEF QueueInv, OwnerHasPlan, Own, Plan, Visiting, AtDispatch
  <2>3. CASE Retry(w)
    <3>1. run' = run /\ dispatch' = [dispatch EXCEPT ![w.at] = [status |-> "QUEUED", attempts |-> @.attempts + 1]]
      BY <1>2, <2>3 DEF Retry
    <3>2. \A c \in Dispatch : dispatch'[c].status = IF c = w.at THEN "QUEUED" ELSE dispatch[c].status
      BY <2>2, <3>1 DEF TypeOK
    <3>3. dispatch[w.at].status \in {"QUEUED", "CANCELED"}
      BY <2>2 DEF Left, Open
    <3> QED
      BY <1>0, <3>1, <3>2, <3>3, StillMatches
  <2>4. CASE RecordFailure(w)
    <3>1. SetStatus(w.at, "FAILED") /\ run' = [run EXCEPT ![w.at] = "FAILED"]
          /\ dispatch[w.at].status \notin Settled
      BY <1>2, <2>4 DEF RecordFailure, MayRecord
    <3>2. \A c \in Dispatch : dispatch'[c].status = IF c = w.at THEN "FAILED" ELSE dispatch[c].status
      BY <2>2, <3>1, StatusSet
    <3>3. \A c \in Dispatch : run'[c] = IF c = w.at THEN "FAILED" ELSE run[c]
      BY <3>1 DEF TypeOK
    <3>4. applied[w.at] # 1
      BY <2>2, <3>1 DEF Matches, Settled
    <3>5. Matches(w.at)'
      BY <1>0, <2>2, <3>2, <3>3, <3>4 DEF Matches
    <3>6. \A d \in Dispatch \ {w.at} : Matches(d)'
      BY <1>0, <3>2, <3>3, StillMatches
    <3> QED
      BY <3>5, <3>6
  <2> QED
    BY <2>3, <2>4
<1> QED
  BY <1>1, <1>2

LEMMA StepMatches ==
  ASSUME TypeOK, RunCounted, QueueInv, RunMatchesDispatch, [Next]_vars
  PROVE  RunMatchesDispatch'
<1> SUFFICES ASSUME lost' = 0
             PROVE  \A d \in Dispatch : Matches(d)'
  BY DEF RunMatchesDispatch, Matches
<1>0. lost = 0 /\ \A d \in Dispatch : Matches(d)
  BY LostGrows DEF RunMatchesDispatch, Matches
<1>1. CASE UNCHANGED <<dispatch, run, applied>>
  BY <1>0, <1>1, StillMatches
<1>2. CASE \E w \in workers : Process(w) \/ Retry(w) \/ RecordFailure(w)
  BY <1>0, <1>2, ProcessMatches, AftermathMatches
<1>3. ASSUME NEW d \in Dispatch, EndRun(d)
      PROVE  \A c \in Dispatch : Matches(c)'
  <2>1. /\ dispatch[d].status = "COMPLETED" /\ UNCHANGED <<dispatch, applied>>
        /\ \A c \in Dispatch : c # d => run'[c] = run[c]
    BY <1>0, <1>3, WaitingIsCompleted DEF EndRun, TypeOK
  <2> QED
    BY <1>0, <2>1, StillMatches
<1>4. CASE MoveStep
  <2>1. PICK mover : run' = ExitWaiting(mover)
    BY <1>4 DEF MoveStep
  <2>2. \A d \in Dispatch : run'[d] = run[d] \/ dispatch[d].status = "COMPLETED"
    BY <1>0, <2>1, ExitWaitingMatches
  <2>3. \A d \in Dispatch : \/ dispatch'[d].status = dispatch[d].status
                            \/ dispatch[d].status = "QUEUED" /\ dispatch'[d].status = "CANCELED"
    BY <1>4 DEF MoveStep, TypeOK, DispatchRows
  <2>4. applied' = applied
    BY <1>4 DEF MoveStep
  <2> QED
    BY <1>0, <2>2, <2>3, <2>4, StillMatches
<1> QED
  BY <1>1, <1>2, <1>3, <1>4
  DEF Next, Claim, Recover, ExpireLease, ExpireEvent, Work, Load, Renew, AllVisited, RefreshRead,
      RefreshWrite, Requeue, Release, FailTransiently, Throw, Crash, RemoveEnrollment, DeleteContact,
      data, vars

\* Until an acknowledgement is lost a dispatch and its run tell the same story: the owner
\* alone writes both, and what it has still to visit was not carried out.
THEOREM RunMatchesDispatchHolds == Spec => []RunMatchesDispatch
<1>1. Init => RunCounted /\ RunMatchesDispatch
  BY DEF Init, RunCounted, RunStatus, RunMatchesDispatch
<1> QED
  BY <1>1, StepRunCounted, StepMatches, TypeCorrect, QueueInvHolds, PTL DEF Spec
=============================================================================
