# A TLA+ model of gestiabloc's automation engine

gestiabloc is a multi-tenant CRM.  Its backend (`src/apps/backend`, Express, Prisma, PostgreSQL) runs
in several instances that share nothing but the database and the object storage.  What is hard to get
right is the work that goes on behind the requests: automations that react to events and start one
another, services that walk through their steps, bulk enrollments, imports, knowledge sources.  It is
polled from tables by every instance, guarded by leases, tokens and unique keys, and interrupted by
crashes, expired leases and staff.  Beside it stand the requests that race for one calendar.  This
project models that part, checks it with TLC and proves much of it with TLAPS.

## 1. The system

| Component | State it keeps | Operations | What is hard |
|---|---|---|---|
| Execution budget (`automation-execution-budget.ts`) | `AutomationExecutionLease` rows, tenant rotation | claim a batch, release a lease | two queues and all instances share one capacity; a batch is chosen by ranks, rotation and row locks |
| Event and run workers (`automation-event-worker.ts`, `resumeDueAutomationRuns`) | one flag per worker and process | timer passes, recovery of expired leases, parallel executions | overlapping passes, crashes, a worker that outlives its lease |
| Event queue (`automation-event-queue.ts`) | `AutomationEvent`, `AutomationDispatch`, `AutomationRun` | dispatch, retry, record a failure, refresh counts, requeue | overtaken workers, lost acknowledgements, staff who move or delete what is being processed |
| Outbox (`automation-event-worker.ts:163`) | `AutomationSideEffect` | claim, perform, record | results are written by id, not by lease |
| Service steps (`service-step-*.ts`, `service-steps.ts`) | `ContactService`, `ServiceStepOccurrence` | complete, advance, settle, move, skip, cancel, pay, remove a workflow, change a wait | several workflows gate one completion; staff act on stale screens; payments reconcile |
| Configuration reviews (`service-configuration-review.ts`) | the steps saved with an enrollment | preview, apply | a change meets work that has moved on |
| Bulk enrollment (`automation-process-*.ts`) | `AutomationProcess`, its batches and contacts | upload, start, claim, enroll, totals, retry, recover | batches have no token; totals are counted in several statements |
| Contact imports (`contact-import-worker.ts`, `contact-imports.routes.ts`) | `ContactImport`, issues | queue, cancel, claim, validate, commit batches, report, clean up | overlapping workers, cancellation during a batch |
| Triggers and runs (`automation-event-queue.ts:86-783`, `opportunity-automations.ts:6106-7876`) | `AutomationTriggerChainClaim`, the depth of events, the cursor of runs | match an event, claim a place in its chain, execute a segment, wait, yield, start a workflow, repeat | automations that change what triggers them; claims of segments that roll back or wait for each other |
| Appointment booking (`appointment-booking.ts`, `appointments.routes.ts`) | `Appointment`, its audit log | create, change, change the status, delete, by staff and by automations | isolation levels, stale reads before the transaction, repetitions |
| AI sources (`ai-sources.ts`, `ai-source-worker.ts`) | `ServiceAiSource`, its chunks, `AiSourceStorageCleanup`, the storage | upload, link, edit, retry, remove, extract, clean up | a slow storage call races the removal; an overtaken worker; an edit during the extraction |
| Birthday reminders, notifications | several | see section 3 | one reminder per year, one notification per date |

`PROJECT.json` lists every component, the ones that are not modelled with the reason, and under
"hazards" what is hard to test, each at its line.

How they interact.  A change made by staff queues an `AutomationEvent` in the same transaction.  The
event worker asks the budget for a batch; each event it gets runs the first segment of its dispatches,
which may leave waiting runs, side effects in the outbox, and changes of service steps.  The run worker
asks the same budget for runs whose wait is over.  The actions of a segment queue events of their own,
in the same chain; a segment may also book an appointment in its transaction.  A completed service step pins the workflows that
gate its advancement; the end of the last of them enters the next step in the worker's transaction.
Bulk enrollment and imports have queues of their own and feed the same tables.

## 2. The modules

| Module | Models | Main variables | Lines of the code |
|---|---|---|---|
| `ExecutionBudget` | admission for both queues and the passes of all instances | `row` (job rows), `lease`, `older`, `rotation` (orders), `pass`, `exec` | `automation-execution-budget.ts` whole; `automation-event-worker.ts` 40-160; `opportunity-automations.ts` 7733-7910 |
| `AutomationQueue` | one event, its ordered dispatches and their runs | `event`, `dispatch`, `run`, `lease`, `workers`, `superseded`, `contactGone`, `applied` (history) | `automation-event-queue.ts` 841-1318 |
| `EventPromise` | what the queue promises of an event | `outcome`, `closed` | abstract |
| `ServiceSteps` | one enrollment, its entries and the completion workflows pinned to them | `status`, `paid`, `steps`, `entries` | `service-step-progression.ts`, `service-step-movement.ts`, parts of the automation actions, waits, payments, reviews |
| `SideEffects` | the outbox | `rows`, `effectCalls`, `done` | `automation-event-worker.ts` 163-233 |
| `AutomationProcess` | one bulk enrollment | `status`, `shown`, `batch`, `item`, `calls`, `starting`, `logged` (history) | `automation-process-worker.ts`, `automation-process-enrollment.ts`, its routes |
| `ContactImport` | one import | `job`, `work`, `held`, `outcome` (history), `staff` | `contact-import-worker.ts`, three routes |
| `AutomationChains` | the chains of automations that start one another | `runs` (a bag), `claims`, `started`, `told` (histories), `work`, `tx` (the open transactions) | `automation-event-queue.ts` 602-676, `opportunity-automations.ts` 4961-5070, 6106-6743, 7757-7876 |
| `AppointmentBooking` | the calendar and the sessions that write it | `appts`, `trail`, `jobs` | `appointment-booking.ts` 780-1700, `appointments.routes.ts`, the appointment actions |
| `AiSources` | the knowledge sources of a skill | `source`, `chunks`, `objects`, `cleanup`, `uploads`, `works` | `ai-sources.ts`, `ai-source-worker.ts`, the trigger of the migration |
| `ExecutionBudget_proofs`, `AutomationQueue_proofs`, `ServiceSteps_proofs`, `ContactImport_proofs`, `AppointmentBooking_proofs`, `AiSources_proofs`, `AutomationChains_proofs` | theorems about the module each extends | | |
| `WorkerQueues_proofs` | theorems about `AutomationProcess` and `SideEffects`, both of which it extends | | |
| `MC*` | instances for TLC | | |

The grain of an action is what the database makes atomic: one transaction, or one statement where the
code uses none.  What a handler does between two of them is split: `refreshEventProgress` is
`RefreshRead` and `RefreshWrite`, the cancel route of imports is `CancelUnclaimed`, `CancelClaimed`
and `Answer`, the totals of a process are one `Count` per statement and a `Refresh`.  A claim is one
transaction under an advisory lock and one action.

Abstractions that hold throughout:

- Time.  A date that arrives and a lease that expires are steps.  An expiry under a live worker is a
  *stall* and is counted; an expiry of a dead worker's lease is free and fair.  Backoff delays are left
  out: a claim may come at any time, which allows more than the code.
- Tokens.  A UUID is the number of the claim that drew it.
- Segments.  What an automation does in a segment is abstracted to how it leaves its run: waiting,
  succeeded, failed, exited, contact deleted, enrollment moved.
- In `ServiceSteps` every transaction locks the enrollment first, so an action is a transaction; a
  move's `requestId` makes its repetition a stutter, and run leases are the state CLAIMED.
- In `ContactImport` a row is its normalized key or invalid; in `AutomationProcess` names and error
  texts are left out.
- In a review the digests guarantee that the previewed state is the applied one: preview and
  application are one action.

What is special to the last three modules:

- `AutomationChains`.  A transaction that is open in one session shows nothing to the others; only the
  insert of a claim waits for one that inserted the same row, and the database ends one session of a
  cycle (`WaitsFor`, `BreakDeadlock` model PostgreSQL).  Which node comes next, what its action changes
  and which filters match is open: any node that was not passed, any subset of the automations the node may
  set off.  Runs of one contact are serialized by the admission; here they may overlap, and a dispatch
  need not wait for the one before it.  A first event claims all its places at once, since nothing can
  have claimed one in a new chain.  Runs of a bulk enrollment belong to no chain.  An automation triggered
  by an opportunity, a contact or its creation (`Open`) is limited by depth alone; the code has two more
  guards, the transition of an opportunity or of a service that already occurred in the chain, which
  only refuse more.  Exit requests and deletions of the contact are a `Finish` at any node; a worker that
  dies is a repetition here (its leases are in `ExecutionBudget` and `AutomationQueue`).  A run yields
  when it concerns an enrollment; the model names the automations that do.
- `AppointmentBooking`.  Only SCHEDULED appointments count.  A PATCH gives one of assignee, contact
  and start (the route takes any combination of them) and fills the fields it does not give from a
  row read before its transaction (`AskChange`), and status changes lock the row in READ COMMITTED.
  `acquireBookingLocks` takes nothing (section 6), so there is no lock to model.  The isolation of
  SERIALIZABLE is reduced to what any implementation must refuse, two concurrent transactions of which
  each read what the other wrote, and may refuse more (`Refuse`).  An evaluation is one step: it reads
  one snapshot, or, in READ COMMITTED, the rows it finds.  `by` is history: whether staff or an
  automation wrote a row last.  The rules of the tenant are constants and every hour is open.
- `AiSources`.  Of the delays only the order counts: a storage call ends (30 s) before the grace of a
  cleanup (60 s) and before an upload is abandoned (120 s).  A token is never drawn twice.  The heartbeat
  of a worker runs on the thread that extracts, so an extraction may outlive its lease; that is a
  counted fault.  An edit that leaves the url as it is changes nothing the model sees.

## 3. Plan

Done in this order: admission; one event and its promise; service steps with completion workflows and
configuration reviews; imports; outbox; bulk enrollment; appointments; AI sources; chains of automations.
Every safety invariant and every action property of the passing runs is proved.  Next:

1. `BirthdayReminders`: the scan beside other instances, one claim per contact and year, leap days.
2. Payments with their amounts and installments, in place of the Boolean of `ServiceSteps`; the follow-up
   queue and its notifications.
3. The graph of a run (Go To, splits, the guard of five hundred nodes, recorded failures), in place of the
   open choice in `AutomationChains`, composed with the settlement in `ServiceSteps`.

## 4. The runs

| Run | Configuration | What it shows |
|---|---|---|
| `limits` | 4 jobs of 3 tenants, 1 instance with two workers, one row that others lock, one job put off, one staff step, two deletable contacts | `GlobalBudget`, `TenantBudget`; `LeastRecentTenantsFirst`: a tenant whose first candidate can be locked is not passed over for one admitted later |
| `progress` | an event and a run of one contact, 2 instances, one stall, and one crash or rejected pass | `OneLeasePerScope`, `ContactSerialized` (while nothing stalls), `OnlyOwnerReleases`, and `EveryJobEnds`, also when a claim rolls back on a duplicate key |
| `queue` | a service event of 2 dispatches, up to 3 faults out of a crash, two stalls, two transient errors and a lost acknowledgement; moves, removals, deletions | counts and status of a closed event are those of its dispatches, runs match dispatches, actions are committed once, nothing starts after the enrollment moved on, every event closes, and `AutomationQueue` implements `EventPromise` |
| `failed` (violation) | one commit reported as failed | `CommittedIsNotFailed` |
| `journey` | 2 steps, 3 entries, 2 workflows | `AdvancedOnce`, `StatusMatchesWork`, `ObsoleteIsInert`, and `OnlyPastWaitStrands`: a workflow that stops pauses its step, except by the one path of section 6 |
| `import` | every file of 2 rows over 2 keys, 2 overlapping workers, one fault, a cancellation, a contact created by staff | `RowsOnce`, `CompletedAccounts`, `SkipsExisting`, `CancelStops`, `ImportEnds` |
| `outbox` | a notification and a file, 3 overlapping executions, 3 faults | `CompletedIsEmitted`, `GivenUpLast`, `EffectsSettle` |
| `enroll` | 2 batches, 2 instances, 2 start requests, one stall, one fault | `EnrolledOnce`, `CompletedIsAnswered` (while nothing stalls), `ProcessEnds`: a started process completes, unless a fault struck between its last batch and its totals (`LeftBehind`) or a second start request queued it again after its last batch (`QueuedAgain`) |
| `booking` | 2 members of staff and an automation, 2 assignees, 2 contacts, 4 starts, buffers 2 and 1, 3 requests, 2 attempts | `StaffNeverDoubleBook`, `DayLimitKept`, `ContactFree`, `BufferKept`, `EventsTellStatus` |
| `doublebooked` (violation) | one member of staff, one automation, one slot | `NoDoubleBooking` |
| `sources` | a file or a link, 2 instances, 2 uploads, 2 edits, 2 faults, 2 attempts | `ReadyIsCurrent`, `OriginalKept`, `RemovedStaysRemoved`, `SourcesSettle`, `FilesRemoved` |
| `chains` | 4 automations of 2 nodes, two of which claim a place; 2 sessions, one event and one workflow deep, one repetition | `StartedOnce`, `ChainsEnd` |

The type invariants are no part of the runs: all of them are proved (section 5).  Each property has a mutant of the code in the module (an operator with the comment
"Mutant of ...") that violates it.

### The bounds

Each bound is a constant that appears in a guard: `MaxDelays`, `MaxStalls`, `MaxCrashes`,
`MaxFences`, `MaxLost`, `MaxThrows`, `MaxFaults`, `MaxEffectFaults`, `MaxClaims`, `MaxEntries`, `MaxSteps`, `MaxRequests`,
`MaxRows`, `MaxUploads`, `MaxEdits`, `MaxChains`, and `MaxStarts` of a bulk enrollment (2: a start request and the one that read the same status).  They are small because the mistakes looked for need few actors: a worker, the one that
overtook it, and one step of staff.  Two workers are two tokens, so a third adds a repetition of the
second; the outbox has three because a result written by id can be overwritten twice.  Two dispatches
are a first and one behind it.  Two keys and two rows give a duplicate within a batch, between two
batches and with a contact.  Three entries are enough for an entry, the one that replaced it, and one
that came after a revisit.  `MaxClaims` of an import stands above the attempts that the faults can use
up, so it never cuts a behaviour off that the properties are about.  Three requests book a place, free or
move it and book it again while the fourth session is an automation.  Two uploads are one and its
successor after an edit or a failure.  The limits of the code that are numbers, not bounds of the model, are smaller
in the runs: depth and workflow starts 20 (1), repetitions 3 (1), attempts of a source 3 (2), attempts of
a booking 3 (2); with 1 there is a last allowed value and one that is refused, and the four automations
of `chains` still claim two places in opposite orders, start each other, wait, and deadlock.  The
limit on the sources of a skill is not reached with one row.  The theorems hold for all values.

### Fairness

- A pass is started by a timer (`setInterval` of the workers) and by kicks: weak fairness of
  `StartPass`, `Claim`, the polling of imports, outbox and processes.  A row that another transaction
  has locked is skipped by a claim; such locks are short, so a claim with nothing skipped is enabled
  again and again: strong fairness of `Claim(p, k, {})`.
- Dates arrive: weak fairness of `BecomeDue` and of every expiry.
- A live worker goes on: weak fairness of its steps.  Nothing is assumed of a crash, a failure, a
  stall or of staff; those are never forced, and they are bounded.
- A storage call, an upload request and a pass that did not crash go on: weak fairness of each upload and of
  each instance's step in `AiSources`; the sweeps and claims are polled every three seconds.
- In `AutomationChains` each session takes runs and goes on with its transaction (`Begin`, `Work`);
  failures and repetitions are never forced.  The database resolves a deadlock
  (`deadlock_timeout`), so `BreakDeadlock` belongs to `Work`.
- `ServiceSteps` and `AppointmentBooking` state no liveness: staff are free to stop.

## 5. What is proved

Every theorem is about `Spec`, without fairness, and for every value of the constants that the assumption
of the module admits.

`ExecutionBudget_proofs` (any set of jobs, instances, tenants, budgets and bounds):

- `TypeCorrect`: `Spec => []TypeOK`.
- `GlobalBudgetHolds`, `TenantBudgetHolds`, `OneLeasePerScopeHolds`.  The limits are not inductive
  alone: the rank that cuts the batch of a tenant counts older jobs, so `updatedAt` must keep ordering
  the rows totally.  The invariant `Limits` is `TypeOK`, that order, and the three limits.  The step that
  matters is `Admit`: a batch has at most `Room` jobs beside the unexpired leases; the ranks number
  the jobs of one tenant without repetition, so a batch whose ranks stay within the tenant's room has
  no more of its jobs than that; and each job of a batch is the first of its contact.  Needed of the
  constants: `JobAssumption` and `BudgetAssumption`, which is what the code checks when it starts.
- `ContactSerializedHolds`, `OnlyOwnerReleasesHolds`.  The invariant `Owners` adds that no two executions of a
  job have one token, that a lease tells the contact of its job, and that, while nothing has stalled,
  only who holds an unexpired lease is at work.  A token is the number of the claim, so a late release
  meets its own lease or none.
- `LeastRecentTenantsFirstHolds`: an action property; the rotation of `Owners` is an order, and a batch
  takes the ranks one after the other.

`AutomationQueue_proofs` (any number of dispatches, workers, retries, lost acknowledgements):

- `TypeCorrect`.
- `ActionsAtMostOnceHolds`: the actions of a segment are committed once at most, although the
  dispatch is put back by a retry that does not look at its status.  The inductive invariant,
  `RunCounted`, says that a dispatch without a run was never applied: the unique `dispatchId` of
  the run is what protects it, not the status.
- `ClosedEventAccountsHolds`, from `QueueInv`.  It says what the owner of the event knows: no two workers
  have one token, a worker that is not the owner can only be fenced off, a closed event has no open
  dispatch, and the counts read last by the owner are those that will be written.  This holds with lost
  acknowledgements too.  As long as none was lost, the dispatches before the one the owner visits are
  settled, and those it has still to visit are the open ones.
- `KeepsPromiseHolds`: until an acknowledgement is lost the queue implements `EventPromise`, step by step
  (`StepImplements`).  The mapping reads an open dispatch of a superseded event as CANCELED: from there
  nothing else can become of it.  With a lost acknowledgement the retry reopens a settled dispatch,
  which `EventPromise` forbids; that is the run `failed`.
- `NoRunAfterSupersedeHolds`: an action property; every transaction that commits a segment has read
  that the enrollment is still there.
- `RunMatchesDispatchHolds`: until an acknowledgement is lost a dispatch and its run say the same.  It needs
  `RunCounted` and `QueueInv`: only who owns the event writes either, and in one transaction.

`ServiceSteps_proofs` (any number of steps, entries and completion workflows):

- `TypeCorrect`.
- `AdvancedOnceHolds`, `StatusMatchesWorkHolds`, `OnlyPastWaitStrandsHolds`, `ObsoleteIsInertHolds`.  One
  invariant, `StepsInv`, carries them: the enrollment is in progress exactly while the newest entry is
  unsettled, and no other is; an entry made for a completion is the only one, stands one step further, and
  all workflows of that completion have succeeded; superseded work is at rest; an entry that waits has an
  unfinished workflow.  Staff, workers and payments all write through the same few
  operators (`advance`, settle, move, close), so the steps of the proof are about these operators, and an
  action is shown to be an instance of one of them.

`ContactImport_proofs` (any rows, contacts, workers, batch size and fault bounds):

- `TypeCorrect`.
- `RowsOnceHolds`, `CompletedAccountsHolds`.  A row can only be committed twice by a worker whose place
  in the file is not the checkpoint.  The invariant `ImportInv` adds `WorkersKnow` (whoever owns the
  lease stands at the checkpoint of the row; a batch being entered is not empty) and `ReportsAtEnd` (a
  worker at its report, and a job in its report phase, have no rows left).  A worker that lost its lease may
  stand anywhere: the fence of `commitBatch` is what makes that harmless.
- `CancelStopsHolds`: an action property, from the types and `AcceptedStays` (what the route answered
  as accepted is still requested or done).
- `SkipsExistingHolds`: an action property, although existing contacts are looked up before the
  transaction.  The invariant `Lookups` says that a lookup is worth its batch exactly while the
  checkpoint is where the batch starts: every contact with one of its keys that is not in it was
  created by staff.  When the checkpoint has moved, the fence refuses the batch.

`WorkerQueues_proofs` (any number of batches, contacts, instances, faults; any number of rows and
executions):

- `ProcessTypeCorrect`, `EnrolledOnceHolds`, `CompletedIsAnsweredHolds` of `AutomationProcess`.  A batch has
  no token, so all depends on its lock.  As long as nothing stalls the invariant `Orderly` holds: an instance
  at work has its batch to itself, locked until it is completed (`BatchesOwned`); what it has still to
  try has no answer (`Untried`); answers are not taken back, so a total that was counted never
  exceeds the total of now (`CountsStand`).  Hence totals that add up to all contacts, counted one by one
  beside other instances, are right.  With a stall the two properties say nothing, and rightly: the instance
  that was overtaken enrolls beside its successor.  The bound on attempts counts: every claim but the first
  has a fault or a stall to show for it, unless the batch is held or completed (`AttemptsPaid`).
- `OutboxTypeCorrect`, `CompletedIsEmittedHolds`, `GivenUpLastHolds` of `SideEffects`.  Results are written
  by id and without a fence, so the invariant `OutboxInv` speaks of executions: the attempt one carries is not
  above the count of its row, and one that has tried to emit a notification has emitted it.  Late writes
  are then true, though late.  A late failure reopens a row without a fault of its own; the
  bound on attempts therefore counts the faults less the failures still to be reported (`Unspent`).

`AppointmentBooking_proofs` (any sessions, people, times, limits, buffers):

- `TypeCorrect` (the types are `Typed`), `StaffNeverDoubleBookHolds`, `DayLimitHolds`, `ContactFreeHolds`,
  `BufferHolds`.  The invariant `Races` says of every serializable transaction that what staff booked and it
  has not seen was written by a rival that decided on an overlapping place (`Explained`), and that it
  decided on its snapshot (`Sound`).  If such a row stood in its way, each of the two read what the other
  wrote, and the later commit is refused.  Rows written by automations are outside the counts, which is all
  that can be said, as `doublebooked` shows.
- `EventsTellStatusHolds`.  A session that changes a row has held it alone since it read the status
  (`OwnRow`), so the event it writes starts where the last one ended (`Told`).

`AiSources_proofs` (any sources, instances, requests and bounds):

- `TypeCorrect`, `ReadyIsCurrentHolds`, `OriginalKeptHolds`, `RemovedStaysRemovedHolds`.  The invariant says
  what an extraction or an upload may still assume of its row: tokens and revisions only grow, so a
  worker whose token is still there has the content of now.  One lemma, `RowStep`, describes how a row may
  change under those that do not own it (`Moves`); each action is shown to be one.

`AutomationChains_proofs` (any automations, graphs, sessions, limits):

- `TypeCorrect`: no run is deeper, later in a line of workflows, or repeated more often than the limits.
- `StartedOnceHolds`.  The invariant adds that every committed start has its claim and every claim one
  start (`Counted`), that two open transactions of a chain never hold the same place (`Exclusive`),
  that what a transaction holds is not claimed yet, and that only sessions within the depth still
  claim (`InDepth`).  `WaitsFor` is what makes `Exclusive` inductive.

Only model-checked: what needs fairness, since liveness and `ENABLED` are out of the prover's reach.  These
are `EveryJobEnds`, `EventCloses`, `ImportEnds`, `EffectsSettle`, `ProcessEnds`, `SourcesSettle`,
`FilesRemoved` and `ChainsEnd`.

## 6. Disagreements with the documentation

Two are runs with `expect: violation`, quoted under "findings": a committed segment recorded as
FAILED after a lost acknowledgement (`failed`), and a place taken twice because the booking locks are
never acquired and automations book in READ COMMITTED (`doublebooked`).

The following were met while modelling.  The models contain the steps; a property that excludes them
is guarded or not stated, and each can be reproduced as described.

- A fixed-date Wait whose date has passed and that is set to exit ends a completion run as EXITED
  (`opportunity-automations.ts:6532`, also 6898), and `executeAutomationSegmentTx` settles only SUCCEEDED
  (6761-6763): the step stays WAITING_AUTOMATION with no workflow left.
  `docs/automation-event-queue.md:131` says that "stopping or removing a completion run also pauses" the
  progression.  Drop `~Lapsed(entries[i])` from `OnlyPastWaitStrands`.
- A process whose instance dies between its last batch (`automation-process-worker.ts:130`) and its totals
  stays RUNNING for ever, although `add-contacts-to-automation-dialog.tsx:355` says that the work
  continues.  Drop `LeftBehind` from `ProcessEnds`.
- Two start requests can both read PREPARING (`automation-processes.routes.ts:289-298`).  When workers have
  completed the process before the second one writes QUEUED by id alone (309-312), no batch is left whose
  end would count the totals again, and the process stays QUEUED for ever: no fault and no stall is needed.
  The dialog sends one request, so it takes a repeated one.  Drop `QueuedAgain` from `ProcessEnds`; with
  `MaxStarts = 1` no state satisfies `QueuedAgain`.  No text says that a start is safe to repeat.
- A crashed import is put back without comparing `attemptCount` with `MAX_ATTEMPTS`
  (`contact-import-worker.ts:45`), so a file that kills its worker is claimed for ever, although
  `docs/contact-imports.md:21` says that a job retries transient worker failures up to three times.  The
  formula is `job.attempts <= MaxAttempts`; `MaxClaims` cuts such runs off.
- Two executions of one contact can both commit.  `processDispatch` (`automation-event-queue.ts:912`)
  compares the token and the status of the event, not the expiry.  When the lease expires after the
  renewal at line 1272, the next claim deletes it and admits a run of the same contact.  Drop
  `stalls = 0` from `ContactSerialized` in `progress`.  `docs/automation-event-queue.md:322` says that
  the lease serializes the enrollments of a contact.
- Passes of one process overlap.  `Promise.all` (`opportunity-automations.ts:7888`) rejects with
  the first execution, the `finally` at 7894 clears the flag, and the siblings go on.
  `docs/automation-event-queue.md:325`: "A process cannot overlap its own run-worker passes."  The
  formula is `\A x \in exec : x.orphan => pass[<<x.proc, KindOf[x.job]>>] = "idle"`.
- An import looks for existing contacts before the transaction of its batch
  (`contact-import-worker.ts:134`): a contact that staff create in between is duplicated, although
  `docs/contact-imports.md:17` says that existing contacts are skipped.  Drop the exception for
  `StaffContacts` from `SkipsExisting`.
- The cancel route of imports (`contact-imports.routes.ts:190-202`) can answer IMPORT_FINISHED of a
  job that was put back to the queue between its two statements.  The formula is
  `staff = "IMPORT_FINISHED" => job.status \in Finished`.
- A file whose deletion failed three times is recorded as deleted
  (`opportunity-automations.ts:3425`).  Let `CompletedIsEmitted` speak of all effects.
- The totals of a process that are written last may have been counted first
  (`automation-process-worker.ts:97`).  The formula is
  `status \in Completed => shown = Counted`, with two instances.
- A start request acts on the status it read (`automation-processes.routes.ts:309`) and revives a
  process that was marked failed in between.  The formula is `[][status = "FAILED" => status' = "FAILED"]_vars`.

- Appointments beside the model: the notice cutoff is ignored in `buildAppointmentSlots` when it falls on a
  later day; the next day is taken to start 24 hours after the local midnight; the slots that are offered do not
  see the buffers of the day before or after; a slot that ends at midnight is offered and then refused.
- An edit of a link with the same url clears `finalUrl` and does not fetch it again.

Worth knowing, and not contradicted by any text: `recordDispatchFailure` returns silently when the
enrollment is gone, and the event then stays PROCESSING until its lease expires; a retry of the owner
reopens a dispatch that a stale worker canceled; a batch that was completed is put back to PENDING when
its totals fail, and when the process is completed by then it stays so; the recovery of imports does
not compare the attempts with their limit; in the steps, `SET_SERVICE_STATUS` to IN_PROGRESS and the
branch of `advanceTx` for a changed current step are never reached.

## 7. What is not modelled

Reading and rendering, configuration screens, formatting of dates and numbers (pure and well tested),
authentication, real-time delivery, language models, seeds of new tenants, and the React application:
they hold no state that several actors change, or none that a later step depends on.  They are most of the
repository's lines, which is why the map covers a small share of it.  Amounts and
installments of payments enter `ServiceSteps` as one Boolean.  Open hours, blocks, notice and the offered
slots of the calendar, deadlines, owners and checklists of steps, and the retention of import files are
left out.  What is planned is in section 3.
