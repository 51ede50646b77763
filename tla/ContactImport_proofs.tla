------------------------- MODULE ContactImport_proofs -------------------------
(***************************************************************************)
(* Every row of an import has at most one result, a completed import       *)
(* accounts for every row, and no contact is created for a key that an     *)
(* earlier one has but those that staff create meanwhile, for every file,  *)
(* batch size and number of overlapping executions, faults and             *)
(* cancellations.                                                          *)
(***************************************************************************)
EXTENDS ContactImport, TLAPS

-----------------------------------------------------------------------------
(* Type correctness *)

\* The ways in which an action rewrites the row of the import.
LEMMA JobUpdates ==
  ASSUME NEW j \in Jobs
  PROVE  /\ j.status \in Statuses /\ j.phase \in Phases /\ j.owner \in Workers \cup {NoWorker}
         /\ j.live \in BOOLEAN /\ j.attempts \in 0 .. MaxClaims /\ j.committed \in 0 .. NRows
         /\ j.report \in BOOLEAN
         /\ \A s \in Statuses : [j EXCEPT !.status = s] \in Jobs
         /\ \A p \in Phases : [j EXCEPT !.phase = p] \in Jobs
         /\ \A b \in BOOLEAN : [j EXCEPT !.live = b] \in Jobs /\ [j EXCEPT !.report = b] \in Jobs
         /\ \A c \in 0 .. NRows : [j EXCEPT !.committed = c] \in Jobs
         /\ Unleased(j) \in Jobs
  BY DEF Jobs, Unleased

\* The ways in which an execution moves on.
LEMMA WorkUpdates ==
  ASSUME NEW x \in Works
  PROVE  /\ x.stage \in Stages /\ x.at \in 0 .. NRows /\ x.to \in 0 .. NRows /\ x.seen \in SUBSET Keys
         /\ \A s \in Stages : [x EXCEPT !.stage = s] \in Works
         /\ \A s \in Stages, c \in 0 .. NRows : [x EXCEPT !.stage = s, !.at = c] \in Works
  BY DEF Works

LEMMA IdleType == Idle \in Works /\ [Idle EXCEPT !.stage = "LEAVING"] \in Works
  BY ImportAssumption DEF Idle, Works, Stages

LEMMA GoesType ==
  ASSUME TypeOK, NEW w \in Workers, NEW s \in Stages, Goes(w, s)
  PROVE  work' \in [Workers -> Works]
<1>1. work[w] \in Works
  BY DEF TypeOK
<1> QED
  BY <1>1, WorkUpdates DEF Goes, TypeOK

LEMMA QuitsType ==
  ASSUME TypeOK, NEW w \in Workers, Quits(w)
  PROVE  work' \in [Workers -> Works]
  BY IdleType DEF Quits, TypeOK

LEMMA InitType == Init => TypeOK
  BY ImportAssumption, IdleType
  DEF Init, TypeOK, Rows, Jobs, Statuses, Phases, Leased, Requests

\* The routes and the staff.
LEMMA StaffType ==
  ASSUME TypeOK,
         \/ Queue \/ CancelUnclaimed \/ CancelClaimed \/ Answer
         \/ \E k \in StaffContacts : CreateContact(k)
  PROVE  TypeOK'
<1>0. job \in Jobs
  BY DEF TypeOK
<1>1. CASE Queue
  <2>1. job' \in Jobs /\ job'.owner = job.owner /\ job'.status = "QUEUED"
    BY <1>0, <1>1, JobUpdates DEF Queue, Statuses, Jobs
  <2> QED
    BY <1>1, <2>1 DEF Queue, TypeOK, Leased
<1>2. CASE CancelUnclaimed
  <2>1. CASE job.status \in {"DRAFT", "QUEUED"}
    <3>1. job' \in Jobs /\ job'.owner = job.owner /\ job'.status = "CANCELED"
      BY <1>0, <1>2, <2>1, JobUpdates DEF CancelUnclaimed, Statuses, Jobs
    <3> QED
      BY <1>2, <2>1, <3>1 DEF CancelUnclaimed, TypeOK, Leased, Requests
  <2>2. CASE job.status \notin {"DRAFT", "QUEUED"}
    BY <1>2, <2>2 DEF CancelUnclaimed, TypeOK, Requests
  <2> QED
    BY <2>1, <2>2
<1>3. CASE CancelClaimed
  <2>1. /\ job' \in Jobs /\ job'.owner = job.owner
        /\ job'.status = IF job.status = "PROCESSING" THEN "CANCEL_REQUESTED" ELSE job.status
    BY <1>0, <1>3, JobUpdates DEF CancelClaimed, Statuses, Jobs
  <2> QED
    BY <1>3, <2>1 DEF CancelClaimed, TypeOK, Leased, Requests
<1>4. CASE Answer
  BY <1>4 DEF Answer, TypeOK, Requests
<1>5. CASE \E k \in StaffContacts : CreateContact(k)
  BY <1>5, ImportAssumption DEF CreateContact, TypeOK
<1> QED
  BY <1>1, <1>2, <1>3, <1>4, <1>5

\* Leases, recovery, crashes and the cleanup.
LEMMA LeaseType ==
  ASSUME TypeOK,
         \/ Expire \/ ExpireDead \/ Recover \/ CleanDraft \/ CleanReport
         \/ \E w \in Workers : Claim(w) \/ Heartbeat(w) \/ Crash(w)
  PROVE  TypeOK'
<1>0. job \in Jobs /\ NoWorker \notin Workers
  BY ImportAssumption DEF TypeOK
<1>1. CASE Expire \/ ExpireDead
  <2>1. job' = [job EXCEPT !.live = FALSE]
    BY <1>1 DEF Expire, ExpireDead
  <2>2. [job EXCEPT !.live = FALSE] \in Jobs
    BY <1>0, JobUpdates
  <2>3. job' \in Jobs /\ job'.owner = job.owner /\ job'.status = job.status
    BY <1>0, <2>1, <2>2 DEF Jobs
  <2> QED
    BY <1>1, <2>3, ImportAssumption DEF Expire, ExpireDead, TypeOK
<1>2. CASE Recover
  <2>1. Unleased(job) \in Jobs /\ Unleased(job).owner = NoWorker /\ Unleased(job).status = job.status
    BY <1>0, JobUpdates DEF Unleased, Jobs
  <2>2. /\ job' \in Jobs /\ job'.owner = NoWorker
        /\ job'.status \in {"QUEUED", "CANCELED"}
    BY <1>2, <2>1, JobUpdates DEF Recover, Statuses, Jobs
  <2> QED
    BY <1>2, <2>2 DEF Recover, TypeOK, Leased
<1>3. CASE CleanDraft
  <2>1. job' \in Jobs /\ job'.owner = job.owner /\ job'.status = "CANCELED"
    BY <1>0, <1>3, JobUpdates DEF CleanDraft, Statuses, Jobs
  <2> QED
    BY <1>3, <2>1 DEF CleanDraft, TypeOK, Leased
<1>4. CASE CleanReport
  <2>1. job' \in Jobs /\ job'.owner = job.owner /\ job'.status = job.status
    BY <1>0, <1>4, JobUpdates DEF CleanReport, Jobs
  <2> QED
    BY <1>4, <2>1 DEF CleanReport, TypeOK
<1>5. ASSUME NEW w \in Workers, Claim(w)
      PROVE  TypeOK'
  <2>1. /\ job' \in Jobs /\ job'.owner = w /\ job'.status = "PROCESSING"
    <3>1. job.attempts + 1 \in 0 .. MaxClaims
      <4>1. job.attempts \in 0 .. MaxClaims
        BY <1>0, JobUpdates
      <4>2. job.attempts < MaxClaims
        BY <1>5 DEF Claim
      <4> QED
        BY <4>1, <4>2, ImportAssumption
    <3>2. job' = [job EXCEPT !.status = "PROCESSING", !.owner = w, !.live = TRUE,
                             !.attempts = job.attempts + 1]
      BY <1>5 DEF Claim
    <3> QED
      BY <1>0, <3>1, <3>2 DEF Statuses, Jobs
  <2>2. work' \in [Workers -> Works]
    BY <1>5, GoesType DEF Claim, Stages
  <2> QED
    BY <1>0, <1>5, <2>1, <2>2 DEF Claim, TypeOK, Leased
<1>6. ASSUME NEW w \in Workers, Heartbeat(w)
      PROVE  TypeOK'
  <2>1. job' \in Jobs /\ job'.owner = job.owner /\ job'.status = job.status
    BY <1>0, <1>6, JobUpdates DEF Heartbeat, Jobs
  <2> QED
    BY <1>6, <2>1 DEF Heartbeat, TypeOK
<1>7. ASSUME NEW w \in Workers, Crash(w)
      PROVE  TypeOK'
  BY <1>7, IdleType, ImportAssumption DEF Crash, TypeOK
<1> QED
  BY <1>1, <1>2, <1>3, <1>4, <1>5, <1>6, <1>7

\* An execution that changes nothing but itself.
LEMMA QuietType ==
  ASSUME TypeOK, work' \in [Workers -> Works], UNCHANGED <<file, held, job, outcome, staff, faults>>
  PROVE  TypeOK'
  BY DEF TypeOK

LEMMA EnterType ==
  ASSUME TypeOK, NEW w \in Workers, NEW phase \in {"IMPORTING", "REPORTING"}, Enter(w, phase)
  PROVE  TypeOK'
<1>1. job \in Jobs /\ phase \in Phases /\ phase \in Stages
  BY DEF TypeOK, Phases, Stages
<1>2. job' \in Jobs /\ job'.owner = job.owner /\ job'.status = job.status
  BY <1>1, JobUpdates DEF Enter, Jobs
<1>3. work' \in [Workers -> Works]
  BY <1>1, GoesType DEF Enter
<1> QED
  BY <1>2, <1>3 DEF Enter, TypeOK

\* The rows of the batch that an execution holds.
RowsOf(w) == work[w].at + 1 .. work[w].to

LEMMA CommitType ==
  ASSUME TypeOK, NEW w \in Workers, Commit(w)
  PROVE  TypeOK'
<1>1. job \in Jobs /\ work[w] \in Works
  BY DEF TypeOK
<1>2. work[w].to \in 0 .. NRows
  BY <1>1, WorkUpdates
<1>3. job' \in Jobs /\ job'.owner = job.owner /\ job'.status = job.status
  BY <1>1, <1>2, JobUpdates DEF Commit, Jobs
<1>4. work' \in [Workers -> Works]
  <2>1. [work[w] EXCEPT !.stage = "IMPORTING", !.at = work[w].to, !.seen = {}] \in Works
    BY <1>1, <1>2 DEF Works, Stages
  <2>2. work' = [work EXCEPT ![w] = [work[w] EXCEPT !.stage = "IMPORTING", !.at = work[w].to, !.seen = {}]]
    BY DEF Commit
  <2> QED
    BY <2>1, <2>2 DEF TypeOK
<1>5. outcome' \in [Rows -> Seq(Results)]
  <2>1. \A r \in Rows : Result(w, r) \in Results
    BY DEF Result, Results
  <2>2. \A r \in Rows : Append(outcome[r], Result(w, r)) \in Seq(Results)
    BY <2>1 DEF TypeOK
  <2>3. outcome' = [r \in Rows |-> IF r \in RowsOf(w) THEN Append(outcome[r], Result(w, r)) ELSE outcome[r]]
    BY DEF Commit, RowsOf
  <2> QED
    BY <2>2, <2>3 DEF TypeOK
<1>6. held' \subseteq Keys
  <2>1. /\ RowsOf(w) \subseteq Rows
    BY <1>1, ImportAssumption DEF RowsOf, Rows, Works
  <2>2. ASSUME NEW r \in RowsOf(w), Result(w, r) = "CREATED"
        PROVE  file[r] \in Keys
    BY <2>1, <2>2 DEF Result, Invalid, TypeOK
  <2>3. held' = held \cup {file[r] : r \in {q \in RowsOf(w) : Result(w, q) = "CREATED"}}
    BY DEF Commit, RowsOf
  <2> QED
    BY <2>2, <2>3 DEF TypeOK
<1> QED
  BY <1>3, <1>4, <1>5, <1>6 DEF Commit, TypeOK

\* The steps of processJob.
LEMMA WorkerType ==
  ASSUME TypeOK, NEW w \in Workers, WorkerStep(w)
  PROVE  TypeOK'
<1>0. job \in Jobs /\ work[w] \in Works /\ NoWorker \notin Workers
  BY ImportAssumption DEF TypeOK
<1>1. CASE Load(w)
  <2>1. [work[w] EXCEPT !.stage = job.phase, !.at = job.committed] \in Works
    BY <1>0, JobUpdates, WorkUpdates DEF Phases, Stages
  <2>2. work' = [work EXCEPT ![w] = [work[w] EXCEPT !.stage = job.phase, !.at = job.committed]]
    BY <1>1 DEF Load
  <2>3. work' \in [Workers -> Works]
    BY <2>1, <2>2 DEF TypeOK
  <2> QED
    BY <1>1, <2>3, QuietType DEF Load
<1>2. CASE Validate(w)
  BY <1>2, EnterType DEF Validate
<1>3. CASE StopAsked(w)
  BY <1>3, QuitsType, QuietType DEF StopAsked
<1>4. CASE Commit(w)
  BY <1>4, CommitType
<1>5. CASE EndImport(w)
  BY <1>5, EnterType DEF EndImport
<1>6. CASE Report(w)
  BY <1>6, GoesType, QuietType DEF Report, Stages
<1>7. ASSUME NEW to \in Rows, Lookup(w, to)
      PROVE  TypeOK'
  <2>1. Found(work[w].at + 1 .. to) \in SUBSET Keys
    BY DEF Found, TypeOK
  <2>2. [work[w] EXCEPT !.stage = "BATCH", !.to = to, !.seen = Found(work[w].at + 1 .. to)] \in Works
    <3>1. to \in 0 .. NRows
      BY ImportAssumption DEF Rows
    <3> HIDE DEF Rows
    <3> QED
      BY <1>0, <2>1, <3>1 DEF Works, Stages
  <2>3. work' = [work EXCEPT ![w] = [work[w] EXCEPT !.stage = "BATCH", !.to = to,
                                                    !.seen = Found(work[w].at + 1 .. to)]]
    BY <1>7 DEF Lookup
  <2>4. work' \in [Workers -> Works]
    BY <2>2, <2>3 DEF TypeOK
  <2> QED
    BY <1>7, <2>4, QuietType DEF Lookup
<1>8. Unleased(job) \in Jobs /\ Unleased(job).owner = NoWorker
  BY <1>0, JobUpdates DEF Unleased, Jobs
<1>9. CASE Close(w)
  <2>1. work' \in [Workers -> Works]
    BY <1>9, QuitsType DEF Close
  <2>2. CASE Owns(w)
    <3>1. /\ job' \in Jobs /\ job'.owner = NoWorker
          /\ job'.status \in {"COMPLETED", "COMPLETED_WITH_ISSUES"}
      BY <1>8, <1>9, <2>2 DEF Close, Jobs, Statuses
    <3> QED
      BY <1>9, <2>1, <3>1 DEF Close, TypeOK, Leased
  <2>3. CASE ~Owns(w)
    BY <1>9, <2>1, <2>3, QuietType DEF Close
  <2> QED
    BY <2>2, <2>3
<1>10. ASSUME NEW permanent \in BOOLEAN, Throw(w, permanent)
       PROVE  TypeOK'
  <2>1. work' \in [Workers -> Works]
    BY <1>10, QuitsType DEF Throw
  <2>2. CASE Owns(w)
    <3>1. job' \in Jobs /\ job'.owner = NoWorker /\ job'.status \in {"FAILED", "QUEUED"}
      BY <1>8, <1>10, <2>2 DEF Throw, Jobs, Statuses
    <3> QED
      BY <1>10, <2>1, <3>1 DEF Throw, TypeOK, Leased
  <2>3. CASE ~Owns(w)
    BY <1>10, <2>1, <2>3, QuietType DEF Throw
  <2> QED
    BY <2>2, <2>3
<1>11. CASE Leave(w)
  <2>1. work' \in [Workers -> Works]
    BY <1>11, IdleType DEF Leave, TypeOK
  <2>2. CASE job.owner = w /\ job.status = "CANCEL_REQUESTED"
    <3>1. PICK report \in {job.report, job.report \/ Issues # {}} :
             job' = [Unleased(job) EXCEPT !.status = "CANCELED", !.report = report]
      BY <1>11, <2>2 DEF Leave
    <3>2. report \in BOOLEAN
      BY <1>0, JobUpdates
    <3>3. job' \in Jobs /\ job'.owner = NoWorker /\ job'.status = "CANCELED"
      BY <1>8, <3>1, <3>2 DEF Jobs, Statuses
    <3> QED
      BY <1>11, <2>1, <3>3 DEF Leave, TypeOK, Leased
  <2>3. CASE ~(job.owner = w /\ job.status = "CANCEL_REQUESTED")
    BY <1>11, <2>1, <2>3, QuietType DEF Leave
  <2> QED
    BY <2>2, <2>3
<1> QED
  BY <1>1, <1>2, <1>3, <1>4, <1>5, <1>6, <1>7, <1>9, <1>10, <1>11 DEF WorkerStep

LEMMA StepType == TypeOK /\ [Next]_vars => TypeOK'
<1> SUFFICES ASSUME TypeOK, [Next]_vars
             PROVE  TypeOK'
  OBVIOUS
<1>1. CASE UNCHANGED vars
  BY <1>1 DEF vars, TypeOK
<1>2. CASE Next
  BY <1>2, StaffType, LeaseType, WorkerType DEF Next
<1> QED
  BY <1>1, <1>2

\* Every reachable state has the declared types, and the import has a lease token
\* exactly while an execution may hold it.
THEOREM TypeCorrect == Spec => []TypeOK
  BY InitType, StepType, PTL DEF Spec

-----------------------------------------------------------------------------
(* Rows and accounts *)

Working == {"VALIDATING", "IMPORTING", "BATCH", "REPORTING", "CLOSING"}
Ends == {"COMPLETED", "COMPLETED_WITH_ISSUES"}

\* What an execution w in the state x knows of the row j of the import: its own batch is
\* not empty, and while the token is its own it stands at the checkpoint, so that nobody
\* else can have moved it.
Knows(w, x, j) ==
  /\ x.stage = "BATCH" => x.at <= x.to
  /\ j.owner = w => /\ x.stage \in Working => x.at = j.committed
                    /\ x.stage \in {"REPORTING", "CLOSING"} => j.committed = NRows

WorkersKnow == \A w \in Workers : Knows(w, work[w], job)
ReportsAtEnd == job.phase = "REPORTING" => job.committed = NRows

ImportInv == TypeOK /\ WorkersKnow /\ ReportsAtEnd /\ RowsOnce /\ CompletedAccounts

LEMMA InitInv == Init => ImportInv
<1> SUFFICES ASSUME Init PROVE ImportInv
  OBVIOUS
<1>1. TypeOK
  BY InitType
<1>2. WorkersKnow
  BY ImportAssumption DEF Init, Idle, WorkersKnow, Knows, Working
<1>3. ReportsAtEnd /\ CompletedAccounts
  BY DEF Init, ReportsAtEnd, CompletedAccounts
<1>4. RowsOnce
  BY DEF Init, RowsOnce, Rows
<1> QED
  BY <1>1, <1>2, <1>3, <1>4 DEF ImportInv

\* The job as a step leaves it that commits no row and completes nothing.
Kept ==
  /\ outcome' = outcome
  /\ job'.committed = job.committed
  /\ job'.status \in Ends => job'.status = job.status /\ job'.report = job.report

LEMMA RowsKept ==
  ASSUME ImportInv, outcome' = outcome, job'.committed = job.committed
  PROVE  RowsOnce'
  BY DEF ImportInv, RowsOnce

LEMMA AccountsKept ==
  ASSUME ImportInv, Kept
  PROVE  CompletedAccounts'
<1>1. Issues' = Issues
  BY DEF Kept, Issues
<1> QED
  BY <1>1 DEF ImportInv, Kept, CompletedAccounts, Ends

LEMMA PhaseKept ==
  ASSUME ImportInv, job'.phase = job.phase, job'.committed = job.committed
  PROVE  ReportsAtEnd'
  BY DEF ImportInv, ReportsAtEnd

\* One execution moves; the others keep what they know, as long as none of them gets the
\* token and the checkpoint stays where it is for the one that has it.
LEMMA OthersKnow ==
  ASSUME ImportInv, NEW w \in Workers, NEW x,
         work' = [work EXCEPT ![w] = x], Knows(w, x, job'),
         \A v \in Workers : v # w /\ job'.owner = v =>
                               job.owner = v /\ job'.committed = job.committed
  PROVE  WorkersKnow'
<1>1. ASSUME NEW v \in Workers, v # w
      PROVE  Knows(v, work'[v], job')
  <2>1. work'[v] = work[v] /\ Knows(v, work[v], job)
    BY <1>1 DEF ImportInv, TypeOK, WorkersKnow
  <2>2. job'.owner = v => job.owner = v /\ job'.committed = job.committed
    BY <1>1
  <2> QED
    BY <2>1, <2>2 DEF Knows
<1>2. work'[w] = x
  BY DEF ImportInv, TypeOK
<1> QED
  BY <1>1, <1>2 DEF WorkersKnow

LEMMA AllKnow ==
  ASSUME ImportInv, work' = work, job'.committed = job.committed,
         \A v \in Workers : job'.owner = v => job.owner = v
  PROVE  WorkersKnow'
<1>1. ASSUME NEW v \in Workers
      PROVE  Knows(v, work'[v], job')
  <2>1. Knows(v, work[v], job)
    BY DEF ImportInv, WorkersKnow
  <2> QED
    BY <2>1 DEF Knows
<1> QED
  BY <1>1 DEF WorkersKnow

\* Staff, the recovery and the cleanup.
LEMMA BesideInv ==
  ASSUME ImportInv, TypeOK',
         \/ Queue \/ CancelUnclaimed \/ CancelClaimed \/ Answer
         \/ Expire \/ ExpireDead \/ Recover \/ CleanDraft \/ CleanReport
         \/ \E k \in StaffContacts : CreateContact(k)
         \/ \E w \in Workers : Heartbeat(w)
  PROVE  ImportInv'
<1>0. job \in Jobs /\ NoWorker \notin Workers
  BY ImportAssumption DEF ImportInv, TypeOK
<1>1. /\ Kept /\ work' = work /\ job'.phase = job.phase
      /\ job'.owner = job.owner \/ job'.owner = NoWorker
  <2>1. CASE Queue
    BY <1>0, <2>1 DEF Queue, Kept, Jobs, Ends
  <2>2. CASE CancelUnclaimed
    BY <1>0, <2>2 DEF CancelUnclaimed, Kept, Jobs, Ends
  <2>3. CASE CancelClaimed
    BY <1>0, <2>3 DEF CancelClaimed, Kept, Jobs, Ends
  <2>4. CASE Answer \/ \E k \in StaffContacts : CreateContact(k)
    BY <2>4 DEF Answer, CreateContact, Kept
  <2>5. CASE Expire \/ ExpireDead \/ \E w \in Workers : Heartbeat(w)
    BY <1>0, <2>5 DEF Expire, ExpireDead, Heartbeat, Kept, Jobs
  <2>6. CASE Recover
    BY <1>0, <2>6 DEF Recover, Unleased, Kept, Jobs, Ends
  <2>7. CASE CleanDraft
    BY <1>0, <2>7 DEF CleanDraft, Kept, Jobs, Ends
  <2>8. CASE CleanReport
    BY <1>0, <2>8 DEF CleanReport, Kept, Jobs, Ends
  <2> QED
    BY <2>1, <2>2, <2>3, <2>4, <2>5, <2>6, <2>7, <2>8
<1>2. WorkersKnow'
  BY <1>0, <1>1, AllKnow DEF Kept
<1>3. RowsOnce' /\ CompletedAccounts' /\ ReportsAtEnd'
  BY <1>1, RowsKept, AccountsKept, PhaseKept DEF Kept
<1> QED
  BY <1>2, <1>3 DEF ImportInv

\* An execution moves to x and commits, completes and enters nothing.
LEMMA MoveInv ==
  ASSUME ImportInv, TypeOK', NEW w \in Workers, NEW x, work' = [work EXCEPT ![w] = x],
         Kept, job'.phase = job.phase, Knows(w, x, job'),
         \A v \in Workers : v # w /\ job'.owner = v => job.owner = v
  PROVE  ImportInv'
<1>1. WorkersKnow'
  BY OthersKnow DEF Kept
<1>2. RowsOnce' /\ CompletedAccounts' /\ ReportsAtEnd'
  BY RowsKept, AccountsKept, PhaseKept DEF Kept
<1> QED
  BY <1>1, <1>2 DEF ImportInv

\* An execution that does not work at the import knows all there is to know.
LEMMA LeaverKnows ==
  ASSUME NEW w, NEW j
  PROVE  Knows(w, Idle, j) /\ Knows(w, [Idle EXCEPT !.stage = "LEAVING"], j)
  BY DEF Knows, Idle, Working

LEMMA ClaimCrashInv ==
  ASSUME ImportInv, TypeOK', NEW w \in Workers, Claim(w) \/ Crash(w)
  PROVE  ImportInv'
<1>0. job \in Jobs /\ NoWorker \notin Workers
  BY ImportAssumption DEF ImportInv, TypeOK
<1>1. CASE Claim(w)
  <2>1. /\ Kept /\ job'.phase = job.phase /\ job'.owner = w
    BY <1>0, <1>1 DEF Claim, Kept, Jobs, Ends
  <2>2. Knows(w, [work[w] EXCEPT !.stage = "LOADING"], job')
    BY DEF Knows, Working, ImportInv, TypeOK, Works
  <2>3. work' = [work EXCEPT ![w] = [work[w] EXCEPT !.stage = "LOADING"]]
    BY <1>1 DEF Claim, Goes
  <2> QED
    BY <2>1, <2>2, <2>3, MoveInv
<1>2. CASE Crash(w)
  <2>1. Kept /\ job' = job /\ work' = [work EXCEPT ![w] = Idle]
    BY <1>2 DEF Crash, Kept
  <2> QED
    BY <2>1, LeaverKnows, MoveInv
<1> QED
  BY <1>1, <1>2

LEMMA EnterInv ==
  ASSUME ImportInv, TypeOK', NEW w \in Workers, NEW phase \in {"IMPORTING", "REPORTING"},
         Enter(w, phase), work[w].stage \in Working,
         phase = "REPORTING" => work[w].at = NRows
  PROVE  ImportInv'
<1>0. job \in Jobs /\ work[w] \in Works
  BY DEF ImportInv, TypeOK
<1>1. /\ Kept /\ job'.phase = phase /\ job'.owner = job.owner /\ job.owner = w
  BY <1>0 DEF Enter, Owns, Kept, Jobs
<1>2. work[w].at = job.committed
  BY <1>1 DEF ImportInv, WorkersKnow, Knows
<1>3. Knows(w, [work[w] EXCEPT !.stage = phase], job')
  BY <1>0, <1>1, <1>2 DEF Knows, Kept, Works
<1>4. work' = [work EXCEPT ![w] = [work[w] EXCEPT !.stage = phase]]
  BY DEF Enter, Goes
<1>5. WorkersKnow'
  BY <1>1, <1>3, <1>4, OthersKnow DEF Kept
<1>6. ReportsAtEnd'
  BY <1>1, <1>2 DEF ReportsAtEnd, Kept
<1>7. RowsOnce' /\ CompletedAccounts'
  BY <1>1, RowsKept, AccountsKept DEF Kept
<1> QED
  BY <1>5, <1>6, <1>7 DEF ImportInv

\* The batch of the owner starts at the checkpoint: its rows have no result yet.
LEMMA CommitInv ==
  ASSUME ImportInv, TypeOK', NEW w \in Workers, Commit(w)
  PROVE  ImportInv'
<1> DEFINE x == [work[w] EXCEPT !.stage = "IMPORTING", !.at = work[w].to, !.seen = {}]
<1>0. job \in Jobs /\ work[w] \in Works /\ NRows \in Nat
  BY ImportAssumption DEF ImportInv, TypeOK
<1>1. /\ work[w].at = job.committed /\ work[w].at <= work[w].to
      /\ work[w].at \in 0 .. NRows /\ work[w].to \in 0 .. NRows
      /\ job.owner = w /\ job.status = "PROCESSING"
  BY <1>0, WorkUpdates DEF Commit, MayCommit, Owns, At, ImportInv, WorkersKnow, Knows
<1>2. /\ job'.committed = work[w].to /\ job'.owner = w /\ job'.status = "PROCESSING"
      /\ job'.phase = job.phase
  BY <1>0, <1>1 DEF Commit, Jobs
<1>3. WorkersKnow'
  <2>1. Knows(w, x, job')
    BY <1>0, <1>2 DEF Knows, Works
  <2>2. work' = [work EXCEPT ![w] = x]
    BY DEF Commit
  <2> HIDE DEF x
  <2> QED
    BY <1>2, <2>1, <2>2, OthersKnow
<1>4. RowsOnce'
  <2>1. ASSUME NEW r \in Rows
        PROVE  Len(outcome'[r]) = IF r <= job'.committed THEN 1 ELSE 0
    <3>1. outcome[r] \in Seq(Results) /\ r \in 1 .. NRows
      BY DEF ImportInv, TypeOK, Rows
    <3>2. Len(outcome[r]) = IF r <= work[w].at THEN 1 ELSE 0
      BY <1>1 DEF ImportInv, RowsOnce
    <3>3. CASE r \in RowsOf(w)
      <4>1. outcome'[r] = Append(outcome[r], Result(w, r))
        BY <3>3 DEF Commit, RowsOf
      <4>2. Len(outcome'[r]) = Len(outcome[r]) + 1
        <5>1. Result(w, r) \in Results
          BY DEF Result, Results
        <5> QED
          BY <3>1, <4>1, <5>1
      <4>3. ~(r <= work[w].at) /\ r <= work[w].to
        BY <1>1, <3>1, <3>3 DEF RowsOf
      <4> QED
        BY <1>2, <3>2, <4>2, <4>3
    <3>4. CASE r \notin RowsOf(w)
      <4>1. outcome'[r] = outcome[r]
        BY <3>4 DEF Commit, RowsOf
      <4>2. r <= work[w].at <=> r <= work[w].to
        BY <1>1, <3>1, <3>4 DEF RowsOf
      <4> QED
        BY <1>2, <3>2, <4>1, <4>2
    <3> QED
      BY <3>3, <3>4
  <2> QED
    BY <2>1 DEF RowsOnce
<1>5. ReportsAtEnd'
  BY <1>0, <1>1, <1>2 DEF ImportInv, ReportsAtEnd
<1>6. CompletedAccounts'
  BY <1>2 DEF CompletedAccounts
<1> QED
  BY <1>3, <1>4, <1>5, <1>6 DEF ImportInv

LEMMA CloseInv ==
  ASSUME ImportInv, TypeOK', NEW w \in Workers, Close(w)
  PROVE  ImportInv'
<1>0. job \in Jobs /\ NoWorker \notin Workers
  BY ImportAssumption DEF ImportInv, TypeOK
<1>1. /\ work' = [work EXCEPT ![w] = [Idle EXCEPT !.stage = "LEAVING"]]
      /\ outcome' = outcome
  BY DEF Close, Quits
<1>2. CASE ~Owns(w)
  <2>1. Kept /\ job' = job
    BY <1>1, <1>2 DEF Close, Kept
  <2> QED
    BY <1>1, <2>1, LeaverKnows, MoveInv
<1>3. CASE Owns(w)
  <2>1. job.committed = NRows
    BY <1>3 DEF Owns, Close, At, ImportInv, WorkersKnow, Knows
  <2>2. /\ job'.committed = NRows /\ job'.owner = NoWorker
        /\ job'.phase = job.phase
        /\ job'.status = IF Issues = {} THEN "COMPLETED" ELSE "COMPLETED_WITH_ISSUES"
        /\ job'.report = (Issues # {})
    BY <1>0, <1>3, <2>1 DEF Close, Unleased, Jobs
  <2>3. CompletedAccounts'
    <3>1. Issues' = Issues
      BY <1>1 DEF Issues
    <3> QED
      BY <2>2, <3>1 DEF CompletedAccounts
  <2>4. WorkersKnow'
    BY <1>0, <1>1, <2>2, LeaverKnows, OthersKnow
  <2>5. RowsOnce' /\ ReportsAtEnd'
    BY <1>1, <2>1, <2>2, RowsKept, PhaseKept
  <2> QED
    BY <2>3, <2>4, <2>5 DEF ImportInv
<1> QED
  BY <1>2, <1>3

LEMMA WorkerInv ==
  ASSUME ImportInv, TypeOK', NEW w \in Workers, WorkerStep(w)
  PROVE  ImportInv'
<1>0. job \in Jobs /\ work[w] \in Works /\ NRows \in Nat /\ NoWorker \notin Workers
  BY ImportAssumption DEF ImportInv, TypeOK
<1>1. CASE Load(w)
  <2> DEFINE x == [work[w] EXCEPT !.stage = job.phase, !.at = job.committed]
  <2>1. x.stage = job.phase /\ x.at = job.committed /\ job.phase \in Phases
    BY <1>0 DEF Works, Jobs
  <2>2. /\ x.stage # "BATCH" /\ x.stage # "CLOSING"
        /\ x.stage = "REPORTING" => job.committed = NRows
    BY <2>1 DEF Phases, ImportInv, ReportsAtEnd
  <2>3. Kept /\ job' = job /\ work' = [work EXCEPT ![w] = x]
    BY <1>1 DEF Load, Kept
  <2> HIDE DEF x
  <2>4. Knows(w, x, job')
    BY <2>1, <2>2, <2>3 DEF Knows
  <2> QED
    BY <2>3, <2>4, MoveInv
<1>2. CASE Validate(w)
  BY <1>2, EnterInv DEF Validate, At, Working
<1>3. CASE StopAsked(w)
  BY <1>3, LeaverKnows, MoveInv DEF StopAsked, Quits, Kept
<1>4. CASE Commit(w)
  BY <1>4, CommitInv
<1>5. CASE EndImport(w)
  BY <1>5, EnterInv DEF EndImport, At, AllCommitted, Working
<1>6. CASE Report(w)
  <2> DEFINE x == [work[w] EXCEPT !.stage = "CLOSING"]
  <2>1. x.stage = "CLOSING" /\ x.at = work[w].at
    BY <1>0 DEF Works
  <2>2. Kept /\ job' = job /\ work' = [work EXCEPT ![w] = x]
    BY <1>6 DEF Report, Goes, Kept
  <2>3. /\ job.owner = w /\ work[w].stage = "REPORTING"
        /\ Knows(w, work[w], job)
    BY <1>6 DEF Report, Owns, At, ImportInv, WorkersKnow
  <2> HIDE DEF x
  <2>4. Knows(w, x, job')
    BY <2>1, <2>2, <2>3 DEF Knows, Working
  <2> QED
    BY <2>2, <2>4, MoveInv
<1>7. ASSUME NEW to \in Rows, Lookup(w, to)
      PROVE  ImportInv'
  <2> DEFINE x == [work[w] EXCEPT !.stage = "BATCH", !.to = to,
                                  !.seen = Found(work[w].at + 1 .. to)]
  <2>1. x.stage = "BATCH" /\ x.at = work[w].at /\ x.to = to
    BY <1>0 DEF Works
  <2>2. Kept /\ job' = job /\ work' = [work EXCEPT ![w] = x]
    BY <1>7 DEF Lookup, Kept
  <2>3. /\ job.owner = w /\ work[w].stage = "IMPORTING"
        /\ Knows(w, work[w], job)
    BY <1>7 DEF Lookup, Owns, At, ImportInv, WorkersKnow
  <2>4. work[w].at <= to
    <3>1. work[w].at \in 0 .. NRows
      BY <1>0, WorkUpdates
    <3>2. to \in work[w].at + 1 .. work[w].at + BatchRows
      BY <1>7 DEF Lookup
    <3> QED
      BY <3>1, <3>2, ImportAssumption
  <2> HIDE DEF x
  <2>5. Knows(w, x, job')
    BY <2>1, <2>2, <2>3, <2>4 DEF Knows, Working
  <2> QED
    BY <2>2, <2>5, MoveInv
<1>8. CASE Close(w)
  BY <1>8, CloseInv
<1>9. ASSUME NEW permanent \in BOOLEAN, Throw(w, permanent)
      PROVE  ImportInv'
  <2>1. /\ Kept /\ job'.phase = job.phase
        /\ job'.owner = job.owner \/ job'.owner = NoWorker
    BY <1>0, <1>9 DEF Throw, Unleased, Kept, Jobs, Ends
  <2>2. work' = [work EXCEPT ![w] = [Idle EXCEPT !.stage = "LEAVING"]]
    BY <1>9 DEF Throw, Quits
  <2> QED
    BY <1>0, <2>1, <2>2, LeaverKnows, MoveInv
<1>10. CASE Leave(w)
  <2>1. /\ Kept /\ job'.phase = job.phase
        /\ job'.owner = job.owner \/ job'.owner = NoWorker
    BY <1>0, <1>10 DEF Leave, Unleased, Kept, Jobs, Ends
  <2>2. work' = [work EXCEPT ![w] = Idle]
    BY <1>10 DEF Leave
  <2> QED
    BY <1>0, <2>1, <2>2, LeaverKnows, MoveInv
<1> QED
  BY <1>1, <1>2, <1>3, <1>4, <1>5, <1>6, <1>7, <1>8, <1>9, <1>10 DEF WorkerStep

LEMMA StepInv == ImportInv /\ [Next]_vars => ImportInv'
<1> SUFFICES ASSUME ImportInv, [Next]_vars
             PROVE  ImportInv'
  OBVIOUS
<1>1. TypeOK'
  BY StepType DEF ImportInv
<1>2. CASE UNCHANGED vars
  BY <1>2 DEF vars, ImportInv, TypeOK, WorkersKnow, ReportsAtEnd, RowsOnce, CompletedAccounts, Issues
<1>3. CASE Next
  BY <1>1, <1>3, BesideInv, ClaimCrashInv, WorkerInv DEF Next
<1> QED
  BY <1>2, <1>3

\* "A restarted worker resumes after the last committed row without replaying it": each row
\* up to the checkpoint has exactly one result and the others have none.
THEOREM RowsOnceHolds == Spec => []RowsOnce
<1>1. ImportInv => RowsOnce
  BY DEF ImportInv
<1> QED
  BY <1>1, InitInv, StepInv, PTL DEF Spec

\* A completed import has a result for every row, and reports its issues.
THEOREM CompletedAccountsHolds == Spec => []CompletedAccounts
<1>1. ImportInv => CompletedAccounts
  BY DEF ImportInv
<1> QED
  BY <1>1, InitInv, StepInv, PTL DEF Spec

-----------------------------------------------------------------------------
(* Cancellation *)

Stopping == {"CANCEL_REQUESTED", "CANCELED"}

\* What CancelStops says of one step.
Stops ==
  /\ job.status \in {"CANCEL_REQUESTED", "CANCELED"} =>
        /\ job'.committed = job.committed
        /\ outcome' = outcome
        /\ job'.status \in {job.status, "CANCELED"}
  /\ staff' = "ACCEPTED" => job'.status \in {"CANCEL_REQUESTED", "CANCELED"}

\* What was answered as accepted.
AcceptedStays == staff = "ACCEPTED" => job.status \in Stopping

\* Nobody but the owner of an import in progress commits, completes, fails or requeues it,
\* and a recovered one that was asked to stop is canceled.
LEMMA StepStops ==
  ASSUME TypeOK, AcceptedStays, Next
  PROVE  Stops /\ AcceptedStays'
<1>0. job \in Jobs
  BY DEF TypeOK
<1>1. job.status \in Stopping =>
        /\ job'.committed = job.committed /\ outcome' = outcome
        /\ job'.status \in {job.status, "CANCELED"}
  <2> SUFFICES ASSUME job.status \in Stopping
               PROVE  /\ job'.committed = job.committed /\ outcome' = outcome
                      /\ job'.status \in {job.status, "CANCELED"}
    OBVIOUS
  <2> USE DEF Stopping
  <2>1. CASE Queue \/ CancelUnclaimed \/ CleanDraft
    BY <2>1 DEF Queue, CancelUnclaimed, CleanDraft
  <2>2. CASE CancelClaimed
    BY <1>0, <2>2 DEF CancelClaimed, Jobs
  <2>3. CASE Answer \/ \E k \in StaffContacts : CreateContact(k)
    BY <2>3 DEF Answer, CreateContact
  <2>4. CASE Expire \/ ExpireDead \/ CleanReport
    BY <1>0, <2>4 DEF Expire, ExpireDead, CleanReport, Jobs
  <2>5. CASE Recover
    BY <1>0, <2>5 DEF Recover, Unleased, Jobs
  <2>6. ASSUME NEW w \in Workers, Claim(w) \/ Heartbeat(w) \/ Crash(w)
        PROVE  /\ job'.committed = job.committed /\ outcome' = outcome
               /\ job'.status \in {job.status, "CANCELED"}
    BY <1>0, <2>6 DEF Claim, Heartbeat, Crash, Jobs
  <2>7. ASSUME NEW w \in Workers, WorkerStep(w)
        PROVE  /\ job'.committed = job.committed /\ outcome' = outcome
               /\ job'.status \in {job.status, "CANCELED"}
    <3>1. ~Owns(w)
      BY DEF Owns
    <3>2. ~Validate(w) /\ ~Commit(w) /\ ~EndImport(w)
      BY <3>1 DEF Validate, Enter, Commit, MayCommit, EndImport
    <3>3. CASE Load(w) \/ StopAsked(w) \/ Report(w) \/ \E to \in Rows : Lookup(w, to)
      BY <3>3 DEF Load, StopAsked, Report, Lookup
    <3>4. CASE Close(w) \/ \E permanent \in BOOLEAN : Throw(w, permanent)
      BY <3>1, <3>4 DEF Close, Throw
    <3>5. CASE Leave(w)
      BY <1>0, <3>5 DEF Leave, Unleased, Jobs
    <3> QED
      BY <2>7, <3>2, <3>3, <3>4, <3>5 DEF WorkerStep
  <2> QED
    BY <2>1, <2>2, <2>3, <2>4, <2>5, <2>6, <2>7 DEF Next
<1>2. staff' = "ACCEPTED" => job.status \in Stopping
  <2>1. staff' = staff \/ CancelUnclaimed \/ CancelClaimed \/ Answer
    BY DEF Next, Queue, CreateContact, Expire, ExpireDead, Recover, CleanDraft, CleanReport,
       Claim, Heartbeat, Crash, WorkerStep, Load, Validate, Enter, StopAsked, Commit, EndImport,
       Report, Close, Leave, Lookup, Throw
  <2> QED
    BY <2>1 DEF CancelUnclaimed, CancelClaimed, Answer, AcceptedStays, Stopping
<1> QED
  BY <1>1, <1>2 DEF Stops, AcceptedStays, Stopping

\* "Cancellation stops after the current batch", for every number of overlapping
\* executions: nothing is committed after the request, the import can only become
\* canceled, and an accepted cancellation is never taken back.
THEOREM CancelStopsHolds == Spec => CancelStops
<1>1. Init => AcceptedStays
  BY DEF Init, AcceptedStays
<1>2. TypeOK /\ AcceptedStays /\ [Next]_vars => [Stops]_vars /\ AcceptedStays'
  BY StepStops DEF vars, AcceptedStays
<1>3. CancelStops <=> [][Stops]_vars
  BY PTL DEF CancelStops, Stops
<1> QED
  BY <1>1, <1>2, <1>3, TypeCorrect, PTL DEF Spec

-----------------------------------------------------------------------------
(* Existing contacts *)

\* What the lookup x of a batch is worth while the first n rows are committed: the batch is
\* not empty and starts at the checkpoint or behind it; as long as it is the next one, it
\* knows the contacts h that have its keys, but for those that staff create.
Fresh(x, n, h) ==
  x.stage = "BATCH" =>
     /\ x.at < x.to /\ x.at <= n
     /\ x.at = n => \A r \in Rows : r \in x.at + 1 .. x.to /\ file[r] \in h
                                     => file[r] \in x.seen \cup StaffContacts
Lookups == \A w \in Workers : Fresh(work[w], job.committed, held)

\* What SkipsExisting says of one step.
Skips ==
  LET created == {r \in Rows : outcome'[r] # outcome[r] /\ outcome'[r] = <<"CREATED">>}
  IN  \A r \in created : /\ file[r] \in held => file[r] \in StaffContacts
                         /\ \A q \in created : file[q] = file[r] => q = r

\* A step that starts no batch and commits none.
LEMMA LookupsKept ==
  ASSUME Lookups, file' = file, job'.committed = job.committed,
         \A k \in held' : k \in held \/ k \in StaffContacts,
         \A w \in Workers : work'[w] = work[w] \/ work'[w].stage # "BATCH"
  PROVE  Lookups'
<1>1. ASSUME NEW w \in Workers, work'[w] = work[w]
      PROVE  Fresh(work[w], job.committed, held)'
  BY <1>1 DEF Lookups, Fresh
<1>2. ASSUME NEW w \in Workers, work'[w].stage # "BATCH"
      PROVE  Fresh(work[w], job.committed, held)'
  BY <1>2 DEF Fresh
<1> QED
  BY <1>1, <1>2 DEF Lookups

\* A batch that another execution commits moves the checkpoint past every lookup that
\* started from it.
LEMMA CommitLookups ==
  ASSUME ImportInv, Lookups, NEW w \in Workers, Commit(w)
  PROVE  Lookups'
<1>1. /\ job \in Jobs /\ work[w] \in Works /\ job.committed = work[w].at
      /\ work[w].at < work[w].to /\ work[w].at \in Int /\ work[w].to \in Int
  <2>1. job \in Jobs /\ work[w] \in Works
    BY DEF ImportInv, TypeOK
  <2>2. work[w].at \in 0 .. NRows /\ work[w].to \in 0 .. NRows
    BY <2>1, WorkUpdates
  <2>3. work[w].at < work[w].to /\ job.committed = work[w].at
    BY DEF Commit, At, MayCommit, Lookups, Fresh
  <2> QED
    BY <2>1, <2>2, <2>3, ImportAssumption
<1>2. /\ job'.committed = work[w].to /\ file' = file
      /\ work' = [work EXCEPT ![w] = [work[w] EXCEPT !.stage = "IMPORTING", !.at = work[w].to,
                                                     !.seen = {}]]
  BY <1>1 DEF Commit, Jobs
<1>3. ASSUME NEW v \in Workers, v # w
      PROVE  Fresh(work[v], job.committed, held)'
  <2>1. work'[v] = work[v] /\ work[v] \in Works
    BY <1>2, <1>3 DEF ImportInv, TypeOK
  <2>2. work[v].at \in Int
    <3>1. work[v].at \in 0 .. NRows
      BY <2>1, WorkUpdates
    <3> QED
      BY <3>1, ImportAssumption
  <2>3. work[v].stage = "BATCH" => work[v].at < work[v].to /\ work[v].at <= job.committed
    BY DEF Lookups, Fresh
  <2>4. CASE work[v].stage = "BATCH"
    <3>1. /\ work[v].at < work[v].to
          /\ work[v].at <= job'.committed /\ work[v].at # job'.committed
      BY <1>1, <1>2, <2>2, <2>3, <2>4
    <3> QED
      BY <2>1, <3>1 DEF Fresh
  <2> QED
    BY <2>1, <2>4 DEF Fresh
<1>4. Fresh(work[w], job.committed, held)'
  <2>1. work'[w].stage = "IMPORTING"
    BY <1>1, <1>2 DEF ImportInv, TypeOK, Works
  <2> QED
    BY <2>1 DEF Fresh
<1> QED
  BY <1>3, <1>4 DEF Lookups

\* The lookup of the owner, who stands at the checkpoint.
LEMMA LookupLookups ==
  ASSUME ImportInv, Lookups, NEW w \in Workers, NEW to \in Rows, Lookup(w, to)
  PROVE  Lookups'
<1>1. /\ work[w] \in Works /\ work[w].at = job.committed /\ work[w].at \in 0 .. NRows
      /\ to \in work[w].at + 1 .. work[w].at + BatchRows
  <2>1. work[w] \in Works
    BY DEF ImportInv, TypeOK
  <2> QED
    BY <2>1, WorkUpdates DEF Lookup, At, Owns, ImportInv, WorkersKnow, Knows, Working
<1>2. /\ job' = job /\ held' = held /\ file' = file
      /\ work' = [work EXCEPT ![w] = [work[w] EXCEPT !.stage = "BATCH", !.to = to,
                                                     !.seen = Found(work[w].at + 1 .. to)]]
  BY DEF Lookup
<1>3. ASSUME NEW v \in Workers, v # w
      PROVE  Fresh(work[v], job.committed, held)'
  <2>1. work'[v] = work[v]
    BY <1>2, <1>3 DEF ImportInv, TypeOK
  <2> QED
    BY <1>2, <2>1 DEF Lookups, Fresh
<1>4. Fresh(work[w], job.committed, held)'
  <2>1. /\ work'[w].at = work[w].at /\ work'[w].to = to
        /\ work'[w].seen = Found(work[w].at + 1 .. to)
    BY <1>1, <1>2 DEF ImportInv, TypeOK, Works
  <2>2. work[w].at < to /\ work[w].at \in Int
    BY <1>1, ImportAssumption DEF Rows
  <2>3. \A r \in Rows : r \in work[w].at + 1 .. to /\ file[r] \in held
                        => file[r] \in Found(work[w].at + 1 .. to)
    BY DEF Found
  <2> QED
    BY <1>1, <1>2, <2>1, <2>2, <2>3 DEF Fresh
<1> QED
  BY <1>3, <1>4 DEF Lookups

LEMMA StepLookups ==
  ASSUME ImportInv, Lookups, Next
  PROVE  Lookups'
<1>0. job \in Jobs /\ work \in [Workers -> Works]
  BY DEF ImportInv, TypeOK
<1>1. CASE Queue \/ CancelUnclaimed \/ CancelClaimed \/ Answer \/ Expire \/ ExpireDead
           \/ Recover \/ CleanDraft \/ CleanReport
  <2>1. job'.committed = job.committed
    BY <1>0, <1>1 DEF Queue, CancelUnclaimed, CancelClaimed, Answer, Expire, ExpireDead, Recover,
                      Unleased, CleanDraft, CleanReport, Jobs
  <2>2. held' = held /\ work' = work /\ file' = file
    BY <1>1 DEF Queue, CancelUnclaimed, CancelClaimed, Answer, Expire, ExpireDead, Recover,
                CleanDraft, CleanReport
  <2> QED
    BY <2>1, <2>2, LookupsKept
<1>2. CASE \E k \in StaffContacts : CreateContact(k)
  BY <1>2, LookupsKept DEF CreateContact
<1>3. ASSUME NEW w \in Workers, Claim(w) \/ Heartbeat(w) \/ Crash(w)
      PROVE  Lookups'
  <2>1. job'.committed = job.committed
    BY <1>0, <1>3 DEF Claim, Heartbeat, Crash, Jobs
  <2>2. held' = held /\ file' = file
    BY <1>3 DEF Claim, Heartbeat, Crash
  <2>3. \A v \in Workers : work'[v] = work[v] \/ work'[v].stage # "BATCH"
    BY <1>0, <1>3 DEF Claim, Heartbeat, Crash, Goes, Idle, Works
  <2> QED
    BY <2>1, <2>2, <2>3, LookupsKept
<1>4. ASSUME NEW w \in Workers, Load(w) \/ Validate(w) \/ StopAsked(w) \/ EndImport(w)
                                \/ Report(w) \/ Close(w) \/ Leave(w)
                                \/ \E permanent \in BOOLEAN : Throw(w, permanent)
      PROVE  Lookups'
  <2>1. job'.committed = job.committed
    BY <1>0, <1>4 DEF Load, Validate, Enter, StopAsked, EndImport, Report, Close, Leave, Throw,
                      Unleased, Jobs
  <2>2. held' = held /\ file' = file
    BY <1>4 DEF Load, Validate, Enter, StopAsked, EndImport, Report, Close, Leave, Throw
  <2>3. job.phase \in Phases
    BY <1>0, JobUpdates
  <2>4. \A v \in Workers : work'[v] = work[v] \/ work'[v].stage # "BATCH"
    BY <1>0, <1>4, <2>3 DEF Load, Validate, Enter, StopAsked, EndImport, Report, Close, Leave,
                            Throw, Goes, Quits, Idle, Works, Phases
  <2> QED
    BY <2>1, <2>2, <2>4, LookupsKept
<1> QED
  BY <1>1, <1>2, <1>3, <1>4, CommitLookups, LookupLookups DEF Next, WorkerStep

\* Only a batch that starts at the checkpoint commits, so what it creates no contact had
\* when it looked, unless staff have created it since.
LEMMA StepSkips ==
  ASSUME ImportInv, Lookups, Next
  PROVE  Skips
<1>1. CASE outcome' = outcome
  BY <1>1 DEF Skips
<1>2. ASSUME NEW w \in Workers, Commit(w)
      PROVE  Skips
  <2>1. ASSUME NEW r \in Rows, outcome'[r] # outcome[r], outcome'[r] = <<"CREATED">>
        PROVE  r \in work[w].at + 1 .. work[w].to /\ Result(w, r) = "CREATED"
    <3>1. r \in work[w].at + 1 .. work[w].to /\ outcome'[r] = Append(outcome[r], Result(w, r))
      BY <1>2, <2>1 DEF Commit
    <3>2. outcome[r] \in Seq(Results) /\ Result(w, r) \in Results
      BY DEF ImportInv, TypeOK, Result, Results
    <3>3. /\ Len(outcome[r]) \in Nat /\ Len(outcome'[r]) = Len(outcome[r]) + 1
          /\ outcome'[r][Len(outcome[r]) + 1] = Result(w, r)
      BY <3>1, <3>2
    <3>4. Len(outcome'[r]) = 1 /\ outcome'[r][1] = "CREATED"
      BY <2>1
    <3>5. Len(outcome[r]) = 0
      BY <3>3, <3>4
    <3> QED
      BY <3>1, <3>3, <3>4, <3>5
  <2>2. ASSUME NEW r \in Rows, r \in work[w].at + 1 .. work[w].to, Result(w, r) = "CREATED",
               file[r] \in held
        PROVE  file[r] \in StaffContacts
    <3>1. file[r] \notin work[w].seen
      BY <2>2 DEF Result, Invalid
    <3>2. work[w].stage = "BATCH" /\ job.committed = work[w].at
      BY <1>2 DEF Commit, At, MayCommit
    <3> QED
      BY <2>2, <3>1, <3>2 DEF Lookups, Fresh
  <2>3. ASSUME NEW r \in Rows, NEW q \in Rows, r \in work[w].at + 1 .. work[w].to,
               q \in work[w].at + 1 .. work[w].to, Result(w, r) = "CREATED", q < r
        PROVE  file[q] # file[r]
    <3>1. q \in work[w].at + 1 .. r - 1
      BY <2>3 DEF Rows
    <3> QED
      BY <2>3, <3>1 DEF Result, Invalid
  <2>4. \A q, r \in Rows : q = r \/ q < r \/ r < q
    BY ImportAssumption DEF Rows
  <2> QED
    BY <2>1, <2>2, <2>3, <2>4 DEF Skips
<1>3. outcome' = outcome \/ \E w \in Workers : Commit(w)
  BY DEF Next, Queue, CancelUnclaimed, CancelClaimed, Answer, CreateContact, Expire, ExpireDead,
     Recover, CleanDraft, CleanReport, Claim, Heartbeat, Crash, WorkerStep, Load, Validate, Enter,
     StopAsked, EndImport, Report, Close, Leave, Lookup, Throw
<1> QED
  BY <1>1, <1>2, <1>3

\* "Existing contacts are skipped" (findExistingContacts, commitBatch): for every file and any
\* number of overlapping executions no contact is created for a key that some contact has,
\* but for those that staff create meanwhile, and none twice.
THEOREM SkipsExistingHolds == Spec => SkipsExisting
<1>1. Init => ImportInv /\ Lookups
  <2> SUFFICES ASSUME Init PROVE Lookups
    BY InitInv
  <2> QED
    BY DEF Init, Idle, Lookups, Fresh
<1>2. ImportInv /\ Lookups /\ [Next]_vars => [Skips]_vars /\ ImportInv' /\ Lookups'
  <2>1. ASSUME Lookups, UNCHANGED vars
        PROVE  Lookups'
    BY <2>1 DEF vars, Lookups, Fresh
  <2> QED
    BY <2>1, StepInv, StepLookups, StepSkips
<1>3. SkipsExisting <=> [][Skips]_vars
  BY PTL DEF SkipsExisting, Skips
<1> QED
  BY <1>1, <1>2, <1>3, PTL DEF Spec
=============================================================================
