----------------------------- MODULE ContactImport -----------------------------
(***************************************************************************)
(* One bulk import of contacts: contact-import-worker.ts and the routes that*)
(* queue and cancel it (contact-imports.routes.ts).                        *)
(*                                                                         *)
(* A worker claims the job with a lease token, reads the row, validates the*)
(* whole file, commits its rows in batches and writes the report of issues.*)
(* It keeps its own copy of the phase and the last committed row.  A worker*)
(* that stalls loses its lease to the recovery and goes on beside its      *)
(* successor; only the token, the status and the checkpoint fence it.      *)
(***************************************************************************)
EXTENDS Integers, Sequences, FiniteSets

CONSTANTS
  Workers,        \* executions of processJob that may overlap
  NRows,          \* the file has the rows 1 .. NRows
  Keys,           \* normalized emails and phones; a row has one of them
  BatchRows,      \* BATCH_SIZE
  MaxAttempts,    \* MAX_ATTEMPTS
  MaxClaims,      \* bound on attemptCount, which recovery does not limit
  MaxFaults,      \* bound on crashes and expired leases
  StaffContacts,  \* keys of contacts that do not exist and that staff may create meanwhile
  NoWorker        \* no lease token

Invalid == "INVALID"   \* the outcome of a row that cannot be prepared

ASSUME ImportAssumption ==
  /\ NRows \in Nat \ {0}
  /\ BatchRows \in Nat \ {0}
  /\ MaxAttempts \in Nat \ {0}
  /\ MaxClaims \in Nat
  /\ MaxFaults \in Nat
  /\ StaffContacts \subseteq Keys
  /\ NoWorker \notin Workers
  /\ Invalid \notin Keys

VARIABLES
  file,      \* what each row holds: a key, or Invalid
  held,      \* the keys of the tenant's contacts
  job,       \* the ContactImport row
  outcome,   \* the results committed for each row, in order
  work,      \* the executions of processJob
  staff,     \* the cancel request and its answer
  faults     \* crashes and expired leases so far

vars == <<file, held, job, outcome, work, staff, faults>>

Rows == 1 .. NRows
Statuses == {"DRAFT", "QUEUED", "PROCESSING", "CANCEL_REQUESTED", "CANCELED",
             "COMPLETED", "COMPLETED_WITH_ISSUES", "FAILED"}
Phases == {"VALIDATING", "IMPORTING", "REPORTING"}
Finished == {"COMPLETED", "COMPLETED_WITH_ISSUES", "FAILED"}
Leased == {"PROCESSING", "CANCEL_REQUESTED"}
Results == {"CREATED", "DUPLICATE", Invalid}

Jobs == [status: Statuses, phase: Phases, owner: Workers \cup {NoWorker}, live: BOOLEAN,
         attempts: 0 .. MaxClaims, committed: 0 .. NRows, report: BOOLEAN]

\* at: the worker's lastCommittedRow; to: the last row of the batch it holds;
\* seen: the keys its lookup found.
Stages == {"IDLE", "LOADING", "VALIDATING", "IMPORTING", "BATCH", "REPORTING", "CLOSING", "LEAVING"}
Works == [stage: Stages, at: 0 .. NRows, to: 0 .. NRows, seen: SUBSET Keys]
Idle == [stage |-> "IDLE", at |-> 0, to |-> 0, seen |-> {}]

\* NONE, then after each statement of the cancel route that changed nothing or all
\* it could, then the answer.
Requests == {"NONE", "NOT_QUEUED", "ASKED", "ACCEPTED", "IMPORT_FINISHED"}

Init ==
  /\ file \in [Rows -> Keys \cup {Invalid}]
  /\ held \in SUBSET (Keys \ StaffContacts)
  /\ job = [status |-> "DRAFT", phase |-> "VALIDATING", owner |-> NoWorker, live |-> FALSE,
            attempts |-> 0, committed |-> 0, report |-> FALSE]
  /\ outcome = [r \in Rows |-> <<>>]
  /\ work = [w \in Workers |-> Idle]
  /\ staff = "NONE"
  /\ faults = 0

Issues == {r \in Rows : outcome[r] # <<>> /\ outcome[r][1] # "CREATED"}

\* where id, leaseToken, status: PROCESSING
Owns(w) == job.owner = w /\ job.status = "PROCESSING"

Unleased(j) == [j EXCEPT !.owner = NoWorker, !.live = FALSE]

At(w, stage) == work[w].stage = stage
Goes(w, stage) == work' = [work EXCEPT ![w].stage = stage]
Quits(w) == work' = [work EXCEPT ![w] = [Idle EXCEPT !.stage = "LEAVING"]]

-----------------------------------------------------------------------------
(* Staff and the routes.                                                   *)

Queue ==
  /\ job.status = "DRAFT"
  /\ job' = [job EXCEPT !.status = "QUEUED"]
  /\ UNCHANGED <<file, held, outcome, work, staff, faults>>

\* The first statement of the cancel route.
CancelUnclaimed ==
  /\ staff = "NONE"
  /\ IF job.status \in {"DRAFT", "QUEUED"}
     THEN job' = [job EXCEPT !.status = "CANCELED"] /\ staff' = "ASKED"
     ELSE staff' = "NOT_QUEUED" /\ UNCHANGED job
  /\ UNCHANGED <<file, held, outcome, work, faults>>

\* The second one.
CancelClaimed ==
  /\ staff = "NOT_QUEUED"
  /\ staff' = "ASKED"
  /\ job' = [job EXCEPT !.status = IF @ = "PROCESSING" THEN "CANCEL_REQUESTED" ELSE @]
  /\ UNCHANGED <<file, held, outcome, work, faults>>

\* The job is read again for the answer.
Answer ==
  /\ staff = "ASKED"
  /\ staff' = IF job.status \in {"CANCELED", "CANCEL_REQUESTED"} THEN "ACCEPTED" ELSE "IMPORT_FINISHED"
  /\ UNCHANGED <<file, held, job, outcome, work, faults>>

CreateContact(k) ==
  /\ k \notin held
  /\ held' = held \cup {k}
  /\ UNCHANGED <<file, job, outcome, work, staff, faults>>

-----------------------------------------------------------------------------
(* Leases, recovery and cleanup.                                           *)

Claim(w) ==
  /\ At(w, "IDLE")
  /\ job.status = "QUEUED"
  /\ job.attempts < MaxClaims
  /\ job' = [job EXCEPT !.status = "PROCESSING", !.owner = w, !.live = TRUE, !.attempts = @ + 1]
  /\ Goes(w, "LOADING")
  /\ UNCHANGED <<file, held, outcome, staff, faults>>

\* The interval of processJob; it revives a lease that expired unnoticed.
Heartbeat(w) ==
  /\ ~At(w, "IDLE")
  /\ job.owner = w
  /\ job.status \in Leased
  /\ job' = [job EXCEPT !.live = TRUE]
  /\ UNCHANGED <<file, held, outcome, work, staff, faults>>

Expire ==
  /\ job.live
  /\ faults < MaxFaults
  /\ job' = [job EXCEPT !.live = FALSE]
  /\ faults' = faults + 1
  /\ UNCHANGED <<file, held, outcome, work, staff>>

\* A dead worker's lease runs out in the end.
ExpireDead ==
  /\ job.live
  /\ \A w \in Workers : job.owner = w => At(w, "IDLE")
  /\ job' = [job EXCEPT !.live = FALSE]
  /\ UNCHANGED <<file, held, outcome, work, staff, faults>>

\* Mutant of Recover: a cancel request of a dead worker is forgotten.
RecoverProcessing ==
  /\ job.status = "PROCESSING"
  /\ ~job.live
  /\ job' = [Unleased(job) EXCEPT !.status = "QUEUED"]
  /\ UNCHANGED <<file, held, outcome, work, staff, faults>>

Recover ==
  /\ job.status \in Leased
  /\ ~job.live
  /\ job' = [Unleased(job) EXCEPT !.status = IF @ = "PROCESSING" THEN "QUEUED" ELSE "CANCELED"]
  /\ UNCHANGED <<file, held, outcome, work, staff, faults>>

Crash(w) ==
  /\ ~At(w, "IDLE")
  /\ faults < MaxFaults
  /\ faults' = faults + 1
  /\ work' = [work EXCEPT ![w] = Idle]
  /\ UNCHANGED <<file, held, job, outcome, staff>>

\* cleanContactImportArtifacts: an old draft expires; a canceled import that has
\* issues and no report gets one.
CleanDraft ==
  /\ job.status = "DRAFT"
  /\ job' = [job EXCEPT !.status = "CANCELED"]
  /\ UNCHANGED <<file, held, outcome, work, staff, faults>>

CleanReport ==
  /\ job.status = "CANCELED"
  /\ ~job.report
  /\ Issues # {}
  /\ job' = [job EXCEPT !.report = TRUE]
  /\ UNCHANGED <<file, held, outcome, work, staff, faults>>

-----------------------------------------------------------------------------
(* processJob.                                                             *)

\* The job is read after the claim, and the stage follows from its phase.
Load(w) ==
  /\ At(w, "LOADING")
  /\ work' = [work EXCEPT ![w].stage = job.phase, ![w].at = job.committed]
  /\ UNCHANGED <<file, held, job, outcome, staff, faults>>

\* setPhase by the owner; by any other worker it throws.
Enter(w, phase) ==
  /\ Owns(w)
  /\ job' = [job EXCEPT !.phase = phase]
  /\ Goes(w, phase)
  /\ UNCHANGED <<file, held, outcome, staff, faults>>

Validate(w) == At(w, "VALIDATING") /\ Enter(w, "IMPORTING")

\* assertActive finds the token of the worker and another status: it leaves.
StopAsked(w) ==
  /\ work[w].stage \in {"VALIDATING", "IMPORTING", "REPORTING"}
  /\ job.owner = w
  /\ job.status # "PROCESSING"
  /\ Quits(w)
  /\ UNCHANGED <<file, held, job, outcome, staff, faults>>

\* Mutant of Found: the lookup forgets the contacts of the tenant.
FoundNone(rows) == {}

\* findExistingContacts
Found(rows) == held \cap {file[r] : r \in rows}

\* The rows of the next batch are read, and the contacts that have their keys.
Lookup(w, to) ==
  /\ At(w, "IMPORTING")
  /\ Owns(w)
  /\ to \in work[w].at + 1 .. work[w].at + BatchRows
  /\ to <= NRows
  /\ work' = [work EXCEPT ![w].stage = "BATCH", ![w].to = to,
                          ![w].seen = Found(work[w].at + 1 .. to)]
  /\ UNCHANGED <<file, held, job, outcome, staff, faults>>

\* A row is a duplicate of what the lookup found or of an earlier row of the batch.
Result(w, r) ==
  IF file[r] = Invalid THEN Invalid
  ELSE IF \/ file[r] \in work[w].seen
          \/ \E q \in work[w].at + 1 .. r - 1 : file[q] = file[r]
       THEN "DUPLICATE"
       ELSE "CREATED"

\* Mutant of MayCommit: an import that was asked to stop commits its batch.
MayCommitCanceled(w) == job.owner = w /\ job.status \in Leased /\ job.committed = work[w].at

\* Mutant of MayCommit: the token is not compared.
MayCommitUnfenced(w) == job.status = "PROCESSING"

MayCommit(w) == Owns(w) /\ job.committed = work[w].at

\* Contacts, issues, counters and checkpoint are committed together.
Commit(w) ==
  LET rows == work[w].at + 1 .. work[w].to
      created == {r \in rows : Result(w, r) = "CREATED"}
  IN  /\ At(w, "BATCH")
      /\ MayCommit(w)
      /\ job' = [job EXCEPT !.committed = work[w].to]
      /\ outcome' = [r \in Rows |-> IF r \in rows THEN Append(outcome[r], Result(w, r)) ELSE outcome[r]]
      /\ held' = held \cup {file[r] : r \in created}
      /\ work' = [work EXCEPT ![w].stage = "IMPORTING", ![w].at = work[w].to, ![w].seen = {}]
      /\ UNCHANGED <<file, staff, faults>>

\* Mutant of AllCommitted: the end of the file is enough.
AllCommittedUnchecked(w) == TRUE

\* Otherwise the file has changed, which is permanent.
AllCommitted(w) == work[w].at = NRows

EndImport(w) == At(w, "IMPORTING") /\ AllCommitted(w) /\ Enter(w, "REPORTING")

\* assertActive, then the report is written while the job may change.
Report(w) ==
  /\ At(w, "REPORTING")
  /\ Owns(w)
  /\ Goes(w, "CLOSING")
  /\ UNCHANGED <<file, held, job, outcome, staff, faults>>

\* The last update changes nothing when the job was canceled or taken over.
Close(w) ==
  /\ At(w, "CLOSING")
  /\ job' = IF Owns(w)
            THEN [Unleased(job) EXCEPT
                    !.status = IF Issues = {} THEN "COMPLETED" ELSE "COMPLETED_WITH_ISSUES",
                    !.report = Issues # {}]
            ELSE job
  /\ Quits(w)
  /\ UNCHANGED <<file, held, outcome, staff, faults>>

\* A structural error of the CSV is permanent, and so is the last attempt.
GivesUp(permanent) == permanent \/ job.attempts >= MaxAttempts

\* Anything that throws: the database, the storage, a lost lease, a bad file.
Throw(w, permanent) ==
  /\ work[w].stage \notin {"IDLE", "LEAVING"}
  /\ job' = IF Owns(w)
            THEN [Unleased(job) EXCEPT !.status = IF GivesUp(permanent) THEN "FAILED" ELSE "QUEUED"]
            ELSE job
  /\ Quits(w)
  /\ UNCHANGED <<file, held, outcome, staff, faults>>

\* finishCanceled; its report may fail and is then left to the cleanup.
Leave(w) ==
  /\ At(w, "LEAVING")
  /\ IF job.owner = w /\ job.status = "CANCEL_REQUESTED"
     THEN \E report \in {job.report, job.report \/ Issues # {}} :
            job' = [Unleased(job) EXCEPT !.status = "CANCELED", !.report = report]
     ELSE UNCHANGED job
  /\ work' = [work EXCEPT ![w] = Idle]
  /\ UNCHANGED <<file, held, outcome, staff, faults>>

-----------------------------------------------------------------------------
WorkerStep(w) ==
  \/ Load(w) \/ Validate(w) \/ StopAsked(w) \/ Commit(w) \/ EndImport(w)
  \/ Report(w) \/ Close(w) \/ Leave(w)
  \/ \E to \in Rows : Lookup(w, to)
  \/ \E permanent \in BOOLEAN : Throw(w, permanent)

Next ==
  \/ Queue \/ CancelUnclaimed \/ CancelClaimed \/ Answer
  \/ \E k \in StaffContacts : CreateContact(k)
  \/ Expire \/ ExpireDead \/ Recover \/ CleanDraft \/ CleanReport
  \/ \E w \in Workers : Claim(w) \/ Heartbeat(w) \/ Crash(w) \/ WorkerStep(w)

Spec == Init /\ [][Next]_vars

\* The worker processes poll for ever: they recover, claim and clean, and an
\* execution that has not crashed goes on.
Fairness ==
  /\ WF_vars(Answer) /\ WF_vars(CancelClaimed)
  /\ WF_vars(ExpireDead) /\ WF_vars(Recover) /\ WF_vars(CleanReport)
  /\ WF_vars(\E w \in Workers : Claim(w))
  /\ \A w \in Workers : WF_vars(WorkerStep(w))

FairSpec == Spec /\ Fairness

-----------------------------------------------------------------------------
(* Properties.                                                             *)

\* Every variable stays in its type, and the job has a token exactly while some
\* execution may hold it.
TypeOK ==
  /\ file \in [Rows -> Keys \cup {Invalid}]
  /\ held \subseteq Keys
  /\ job \in Jobs
  /\ job.owner # NoWorker <=> job.status \in Leased
  /\ outcome \in [Rows -> Seq(Results)]
  /\ work \in [Workers -> Works]
  /\ staff \in Requests
  /\ faults \in 0 .. MaxFaults

\* "A restarted worker resumes after the last committed row without replaying it":
\* each row up to the checkpoint has one result and the others have none, whichever
\* workers overlapped (commitBatch).
RowsOnce ==
  \A r \in Rows : Len(outcome[r]) = IF r <= job.committed THEN 1 ELSE 0

\* A completed import has a result for every row, and says whether there are issues
\* and has a report exactly then.
CompletedAccounts ==
  job.status \in {"COMPLETED", "COMPLETED_WITH_ISSUES"} =>
     /\ job.committed = NRows
     /\ job.status = "COMPLETED_WITH_ISSUES" <=> Issues # {}
     /\ job.report <=> Issues # {}

\* "Existing contacts are skipped": a batch creates no contact for a key that some
\* contact of the tenant has, and none twice.  The lookup precedes the transaction, so
\* a contact that staff create in between is not seen: their keys are left out.
SkipsExisting ==
  [][LET created == {r \in Rows : outcome'[r] # outcome[r] /\ outcome'[r] = <<"CREATED">>}
     IN  \A r \in created : /\ file[r] \in held => file[r] \in StaffContacts
                            /\ \A q \in created : file[q] = file[r] => q = r]_vars

\* "Cancellation stops after the current batch": from the request on nothing more is
\* committed, the import can only become canceled, whoever still works at it, and
\* what the cancel route has answered as accepted stays so.
CancelStops ==
  [][/\ job.status \in {"CANCEL_REQUESTED", "CANCELED"} =>
           /\ job'.committed = job.committed
           /\ outcome' = outcome
           /\ job'.status \in {job.status, "CANCELED"}
     /\ staff' = "ACCEPTED" => job'.status \in {"CANCEL_REQUESTED", "CANCELED"}]_vars

\* An import that is queued ends, and a canceled one that has issues has a report.
ImportEnds ==
  /\ (job.status = "QUEUED") ~> (job.status \in Finished \cup {"CANCELED"})
  /\ (job.status = "CANCEL_REQUESTED") ~> (job.status = "CANCELED")
  /\ (job.status = "CANCELED" /\ Issues # {}) ~> job.report
=============================================================================
