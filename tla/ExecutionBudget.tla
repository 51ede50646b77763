--------------------------- MODULE ExecutionBudget ---------------------------
(***************************************************************************)
(* Admission of automation work (lib/automation-execution-budget.ts) and   *)
(* the two polling workers that use it: the event worker                   *)
(* (lib/automation-event-worker.ts) and the run worker                     *)
(* (resumeDueAutomationRuns in lib/opportunity-automations.ts).            *)
(*                                                                         *)
(* A job is a row of AutomationEvent or AutomationRun.  A pass of a worker *)
(* claims a batch of due jobs in one transaction under an advisory lock;   *)
(* every claimed job gets a row of AutomationExecutionLease, which counts  *)
(* against the global and the tenant limit and owns the contact of the job.*)
(* What a job does is abstracted to how its row ends up: finished, put off *)
(* (a Wait, a yield, a retry) or left alone by a fenced worker.            *)
(*                                                                         *)
(* Time is abstracted to flags: a due date that passes and a lease that    *)
(* expires are steps.  A lease that expires while its execution is still   *)
(* alive is a stall, and stalls are counted.                               *)
(***************************************************************************)
EXTENDS Integers, FiniteSets

CONSTANTS
    Job,          \* rows of AutomationEvent and AutomationRun
    Tenant,
    Contact,
    NoContact,    \* contactId is null
    Process,      \* backend instances
    KindOf,       \* [Job -> {"EVENT", "RUN"}]
    TenantOf,     \* [Job -> Tenant]
    ContactOf,    \* [Job -> Contact \cup {NoContact}], at the start
    GlobalCap,    \* AUTOMATION_EXECUTION_CONCURRENCY
    TenantCap,    \* AUTOMATION_EXECUTION_TENANT_CONCURRENCY
    ClaimSize,    \* the limit argument of claimAutomationExecutionJobs
    Lockable,     \* job rows that other transactions may hold during a claim
    MaxDelays,    \* bound: how often jobs are put off
    MaxStalls,    \* bound: leases that expire under a live execution
    MaxFaults,    \* bound: crashes of a process and rejected executions
    MaxFences     \* bound: staff steps that take a job from its worker

ASSUME JobAssumption ==
    /\ IsFiniteSet(Job)
    /\ KindOf \in [Job -> {"EVENT", "RUN"}]
    /\ TenantOf \in [Job -> Tenant]
    /\ NoContact \notin Contact
    /\ ContactOf \in [Job -> Contact \cup {NoContact}]
    /\ Lockable \subseteq Job

\* executionBudget(): 1 <= tenant <= global, or the process does not start.
ASSUME BudgetAssumption ==
    /\ GlobalCap \in Nat \ {0}
    /\ TenantCap \in 1 .. GlobalCap
    /\ ClaimSize \in Nat \ {0}
    /\ {MaxDelays, MaxStalls, MaxFaults, MaxFences} \subseteq Nat

Kind == {"EVENT", "RUN"}

VARIABLES
    row,      \* the job rows: status, leaseToken, leaseExpiresAt, claims so far
    contact,  \* contactId of each job row
    lease,    \* the AutomationExecutionLease rows, by job; token 0 is no row
    older,    \* updatedAt order of the job rows: <<i, j>> when i is older
    rotation, \* lastAdmittedAt order: <<s, t>> when s was admitted before t
    pass,     \* what the pass of a worker is doing, by process and kind
    exec,     \* executions in progress
    delays, stalls, faults, fences

vars == <<row, contact, lease, older, rotation, pass, exec,
          delays, stalls, faults, fences>>
bounds == <<delays, stalls, faults, fences>>

\* QUEUED stands for every due status (an event QUEUED, a run QUEUED or WAITING
\* whose time has come), DELAYED for the same before its time, BUSY for an event
\* PROCESSING or a run RUNNING, DONE for every terminal status.
RowStatus == {"QUEUED", "DELAYED", "BUSY", "DONE"}
Scopes == Tenant \X (Contact \cup Job)
NoScope == <<>>
NoLease == [token |-> 0, scope |-> NoScope, live |-> FALSE]

Rows == [status : RowStatus, token : Nat, live : BOOLEAN, claims : Nat]
Leases == [token : Nat, scope : Scopes \cup {NoScope}, live : BOOLEAN]
Executions == [job : Job, token : Nat, proc : Process,
               step : {"work", "release"}, orphan : BOOLEAN]

TypeOK ==
    /\ row \in [Job -> Rows]
    /\ contact \in [Job -> Contact \cup {NoContact}]
    /\ lease \in [Job -> Leases]
    /\ older \in SUBSET (Job \X Job)
    /\ rotation \in SUBSET (Tenant \X Tenant)
    /\ pass \in [Process \X Kind -> {"idle", "claiming", "executing"}]
    /\ exec \subseteq Executions
    /\ delays \in Nat
    /\ stalls \in Nat /\ faults \in Nat /\ fences \in Nat

-----------------------------------------------------------------------------
(* Orders *)

IsStrictOrder(R, S) ==
    /\ \A i, j \in S : i # j => (<<i, j>> \in R \/ <<j, i>> \in R)
    /\ \A i, j \in S : ~(<<i, j>> \in R /\ <<j, i>> \in R)
    /\ \A i, j, k \in S : <<i, j>> \in R /\ <<j, k>> \in R => <<i, k>> \in R

\* Writing rows sets their updatedAt: they become the youngest.
Touched(S) ==
    {p \in Job \X Job : IF (p[1] \in S) = (p[2] \in S) THEN p \in older ELSE p[2] \in S}

\* The tenants admitted in one claim share its timestamp.
Admitted(T) ==
    {p \in Tenant \X Tenant : p[1] \notin T /\ (p[2] \in T \/ p \in rotation)}

-----------------------------------------------------------------------------
(* Leases and eligibility *)

Scope(j) == <<TenantOf[j], IF contact[j] = NoContact THEN j ELSE contact[j]>>

Held == {j \in Job : lease[j].token # 0}

\* A claim first deletes the expired leases.
Unexpired == {j \in Held : lease[j].live}

\* Mutant of Room: the leases that are held are forgotten.
EmptyRoom == IF GlobalCap < ClaimSize THEN GlobalCap ELSE ClaimSize

Room ==
    LET free == GlobalCap - Cardinality(Unexpired)
    IN  IF free < 0 THEN 0 ELSE IF free < ClaimSize THEN free ELSE ClaimSize

\* Mutant of TenantRoom: the leases the tenant holds are forgotten.
EmptyTenantRoom(t) == TenantCap

TenantRoom(t) == TenantCap - Cardinality({j \in Unexpired : TenantOf[j] = t})

\* Mutant of Eligible: rows whose lease has expired are not taken up again.
EligibleQueued(k) == {j \in Job : KindOf[j] = k /\ row[j].status = "QUEUED"}

Eligible(k) ==
    {j \in Job : /\ KindOf[j] = k
                 /\ \/ row[j].status = "QUEUED"
                    \/ row[j].status = "BUSY" /\ ~row[j].live}

\* Mutant of ScopeFree: only the own lease of the job counts, not its contact.
JobFree(j) == \A i \in Unexpired : i # j

ScopeFree(j) == \A i \in Unexpired : lease[i].scope # Scope(j)

\* contact_rank = 1: the oldest eligible job of each free contact.
FirstOfContact(k) ==
    {j \in Eligible(k) :
        /\ ScopeFree(j)
        /\ \A i \in Eligible(k) : Scope(i) = Scope(j) => i = j \/ <<j, i>> \in older}

\* tenant_rank
Rank(j, F) == Cardinality({i \in F : TenantOf[i] = TenantOf[j] /\ (i = j \/ <<i, j>> \in older)})

Candidates(k) ==
    LET F == FirstOfContact(k)
    IN  {j \in F : Rank(j, F) <= TenantRoom(TenantOf[j])}

\* Mutant of Before: the rotation of the tenants is left out of the order.
OldestFirst(i, j, F) ==
    Rank(i, F) < Rank(j, F) \/ (Rank(i, F) = Rank(j, F) /\ <<i, j>> \in older)

\* ORDER BY tenant_rank, lastAdmittedAt, updatedAt
Before(i, j, F) ==
    \/ Rank(i, F) < Rank(j, F)
    \/ /\ Rank(i, F) = Rank(j, F)
       /\ \/ <<TenantOf[i], TenantOf[j]>> \in rotation
          \/ <<TenantOf[j], TenantOf[i]>> \notin rotation /\ <<i, j>> \in older

\* FOR UPDATE SKIP LOCKED LIMIT capacity, when other transactions hold the rows
\* of skipped.
IsBatch(S, k, skipped) ==
    LET C == Candidates(k) \ skipped
    IN  /\ S \subseteq C
        /\ Cardinality(S) <= Room
        /\ S = C \/ Cardinality(S) = Room
        /\ \A i \in S, j \in C \ S : Before(i, j, FirstOfContact(k))

\* The primary key (kind, jobId): a job that still has an unexpired lease cannot
\* get a second one, and the insert that tries rolls the whole claim back.
Conflict(S) == S \cap Unexpired # {}

-----------------------------------------------------------------------------
(* Passes of a worker *)

Init ==
    /\ row = [j \in Job |-> [status |-> "QUEUED", token |-> 0, live |-> FALSE, claims |-> 0]]
    /\ contact = ContactOf
    /\ lease = [j \in Job |-> NoLease]
    /\ older \in {R \in SUBSET (Job \X Job) : IsStrictOrder(R, Job)}
    /\ rotation = {}
    /\ pass = [pk \in Process \X Kind |-> "idle"]
    /\ exec = {}
    /\ delays = 0
    /\ stalls = 0 /\ faults = 0 /\ fences = 0

\* recoverExpiredLeases: every event whose lease has passed goes back to the queue.
Lapsed == {j \in Job : KindOf[j] = "EVENT" /\ row[j].status = "BUSY" /\ ~row[j].live}

\* A timer or a kick starts a pass; while one runs, another is not started.
StartPass(p, k) ==
    LET recovered == IF k = "EVENT" THEN Lapsed ELSE {}
    IN  /\ pass[<<p, k>>] = "idle"
        /\ pass' = [pass EXCEPT ![<<p, k>>] = "claiming"]
        /\ row' = [j \in Job |-> IF j \in recovered
                                 THEN [row[j] EXCEPT !.status = "QUEUED", !.token = 0, !.live = FALSE]
                                 ELSE row[j]]
        /\ older' = Touched(recovered)
        /\ UNCHANGED <<contact, lease, rotation, exec, bounds>>

\* claimAutomationExecutionJobs, committed: the batch S is admitted.
Admit(p, k, S) ==
    /\ ~Conflict(S)
    /\ lease' = [j \in Job |-> IF j \in S
                               THEN [token |-> row[j].claims + 1, scope |-> Scope(j), live |-> TRUE]
                               ELSE IF j \in Unexpired THEN lease[j] ELSE NoLease]
    /\ row' = [j \in Job |-> IF j \in S
                             THEN [status |-> "BUSY", token |-> row[j].claims + 1, live |-> TRUE,
                                   claims |-> row[j].claims + 1]
                             ELSE row[j]]
    /\ older' = Touched(S)
    /\ rotation' = Admitted({TenantOf[j] : j \in S})
    /\ exec' = exec \cup {[job |-> j, token |-> row[j].claims + 1, proc |-> p,
                           step |-> "work", orphan |-> FALSE] : j \in S}
    /\ pass' = [pass EXCEPT ![<<p, k>>] = IF S = {} THEN "idle" ELSE "executing"]

\* The same, rolled back on the duplicate key: the pass fails, nothing is claimed.
Abort(p, k, S) ==
    /\ Conflict(S)
    /\ pass' = [pass EXCEPT ![<<p, k>>] = "idle"]
    /\ UNCHANGED <<lease, row, older, rotation, exec>>

Claim(p, k, skipped) ==
    /\ pass[<<p, k>>] = "claiming"
    /\ \E S \in SUBSET Candidates(k) :
          /\ IsBatch(S, k, skipped)
          /\ Admit(p, k, S) \/ Abort(p, k, S)
    /\ UNCHANGED <<contact, bounds>>

-----------------------------------------------------------------------------
(* Executions *)

Alive(j, n) == \E x \in exec : x.job = j /\ x.token = n

\* The fence of every write of a worker: the row is busy under its own token.
Own(x) == row[x.job].status = "BUSY" /\ row[x.job].token = x.token

HoldsLease(x) == lease[x.job].token = x.token /\ lease[x.job].live

\* processDispatch is fenced by the token alone, resumeAutomationRun also rereads
\* the expiry.
MayCommit(x) ==
    x.step = "work" /\ Own(x) /\ (KindOf[x.job] = "RUN" => row[x.job].live)

GoesTo(x, step) == exec' = (exec \ {x}) \cup {[x EXCEPT !.step = step]}

\* Between two dispatches the event worker renews the execution lease, unless it
\* has expired, and then the lease of the event.
Renew(x) ==
    /\ x.step = "work" /\ KindOf[x.job] = "EVENT"
    /\ HoldsLease(x) /\ Own(x)
    /\ row' = [row EXCEPT ![x.job].live = TRUE]
    /\ older' = Touched({x.job})
    /\ UNCHANGED <<contact, lease, rotation, pass, exec, bounds>>

\* The work of the job is committed and its row is left in status.
Commit(x, status) ==
    /\ MayCommit(x)
    /\ row' = [row EXCEPT ![x.job] = [@ EXCEPT !.status = status, !.token = 0, !.live = FALSE]]
    /\ older' = Touched({x.job})
    /\ GoesTo(x, "release")
    /\ UNCHANGED <<contact, lease, rotation, pass, stalls, faults, fences>>

Finish(x) == Commit(x, "DONE") /\ UNCHANGED delays

\* A Wait, a yield or a transient failure puts the job off.
PutOff(x) ==
    /\ delays < MaxDelays
    /\ delays' = delays + 1
    /\ Commit(x, "DELAYED")

\* The worker finds that the job or the lease is no longer its own and returns.
GiveUp(x) ==
    /\ x.step = "work"
    /\ ~MayCommit(x) \/ (KindOf[x.job] = "EVENT" /\ ~HoldsLease(x))
    /\ GoesTo(x, "release")
    /\ UNCHANGED <<row, contact, lease, older, rotation, pass, bounds>>

\* Mutant of Released: the delete does not name the token.
ReleasedAny(x) == [lease EXCEPT ![x.job] = NoLease]

\* releaseAutomationExecutionLease deletes the row of this token only.
Released(x) ==
    IF lease[x.job].token = x.token THEN [lease EXCEPT ![x.job] = NoLease] ELSE lease

Siblings(x) ==
    {y \in exec : /\ y # x /\ y.proc = x.proc /\ KindOf[y.job] = KindOf[x.job]
                  /\ ~y.orphan}

\* The execution ends; Promise.all, and with it the pass, ends with the last one.
Return(x) ==
    /\ x.step = "release"
    /\ lease' = Released(x)
    /\ exec' = exec \ {x}
    /\ pass' = IF x.orphan \/ Siblings(x) # {}
               THEN pass ELSE [pass EXCEPT ![<<x.proc, KindOf[x.job]>>] = "idle"]
    /\ UNCHANGED <<row, contact, older, rotation, bounds>>

\* The execution rejects, with or without its lease deleted: Promise.all rejects
\* at once and the pass is over while the other executions go on.
Reject(x) ==
    /\ x.step = "release" /\ faults < MaxFaults
    /\ faults' = faults + 1
    /\ lease' \in {lease, Released(x)}
    /\ exec' = (exec \ (Siblings(x) \cup {x})) \cup {[y EXCEPT !.orphan = TRUE] : y \in Siblings(x)}
    /\ pass' = IF x.orphan THEN pass ELSE [pass EXCEPT ![<<x.proc, KindOf[x.job]>>] = "idle"]
    /\ UNCHANGED <<row, contact, older, rotation, delays, stalls, fences>>

-----------------------------------------------------------------------------
(* The environment *)

BecomeDue(j) ==
    /\ row[j].status = "DELAYED"
    /\ row' = [row EXCEPT ![j].status = "QUEUED"]
    /\ UNCHANGED <<contact, lease, older, rotation, pass, exec, bounds>>

\* An expiry under a live execution is a stall of that execution.
CountStall(j, n) ==
    IF Alive(j, n) THEN stalls < MaxStalls /\ stalls' = stalls + 1 ELSE UNCHANGED stalls

\* The two leases of a run have the same expiry, those of an event are renewed
\* one after the other.
ExpireLease(j) ==
    /\ lease[j].live
    /\ CountStall(j, lease[j].token)
    /\ lease' = [lease EXCEPT ![j].live = FALSE]
    /\ row' = IF KindOf[j] = "RUN" /\ row[j].token = lease[j].token
              THEN [row EXCEPT ![j].live = FALSE] ELSE row
    /\ UNCHANGED <<contact, older, rotation, pass, exec, delays, faults, fences>>

\* The lease columns of a job row expire; those of a run whose execution lease was
\* already deleted are the only ones of a run that do so alone.
ExpireRow(j) ==
    /\ row[j].status = "BUSY" /\ row[j].live
    /\ KindOf[j] = "RUN" => lease[j].token # row[j].token
    /\ CountStall(j, row[j].token)
    /\ row' = [row EXCEPT ![j].live = FALSE]
    /\ UNCHANGED <<contact, lease, older, rotation, pass, exec, delays, faults, fences>>

Crash(p) ==
    /\ faults < MaxFaults
    /\ \E x \in exec : x.proc = p
    /\ faults' = faults + 1
    /\ exec' = {x \in exec : x.proc # p}
    /\ pass' = [pk \in Process \X Kind |-> IF pk[1] = p THEN "idle" ELSE pass[pk]]
    /\ UNCHANGED <<row, contact, lease, older, rotation, delays, stalls, fences>>

\* onDelete: SetNull on the contact of events and runs.
DeleteContact(c) ==
    /\ \E j \in Job : contact[j] = c
    /\ contact' = [j \in Job |-> IF contact[j] = c THEN NoContact ELSE contact[j]]
    /\ UNCHANGED <<row, lease, older, rotation, pass, exec, bounds>>

\* Staff take the job from its worker: a wait control puts a claimed run back to
\* WAITING, a step movement or a removal ends the job.
Fence(j) ==
    /\ fences < MaxFences
    /\ \/ row[j].status # "DONE" /\ row' = [row EXCEPT ![j] = [@ EXCEPT !.status = "DONE", !.token = 0, !.live = FALSE]]
       \/ /\ KindOf[j] = "RUN" /\ row[j].status \in {"BUSY", "DELAYED"}
          /\ \E s \in {"QUEUED", "DELAYED"} :
                row' = [row EXCEPT ![j] = [@ EXCEPT !.status = s, !.token = 0, !.live = FALSE]]
    /\ fences' = fences + 1
    /\ older' = Touched({j})
    /\ UNCHANGED <<contact, lease, rotation, pass, exec, delays, stalls, faults>>

-----------------------------------------------------------------------------

ExecStep(x) == Renew(x) \/ Finish(x) \/ PutOff(x) \/ GiveUp(x) \/ Return(x) \/ Reject(x)

Next ==
    \/ \E p \in Process, k \in Kind : StartPass(p, k)
    \/ \E p \in Process, k \in Kind, skipped \in SUBSET Lockable : Claim(p, k, skipped)
    \/ \E x \in exec : ExecStep(x)
    \/ \E j \in Job : BecomeDue(j) \/ ExpireLease(j) \/ ExpireRow(j) \/ Fence(j)
    \/ \E p \in Process : Crash(p)
    \/ \E c \in Contact : DeleteContact(c)

Spec == Init /\ [][Next]_vars

\* Timers restart the passes, time passes, and a live process carries its
\* executions on.  A row is locked by another transaction only for a moment, so a
\* claim that is repeated for ever meets every row unlocked again and again.
Fairness ==
    /\ \A p \in Process, k \in Kind : /\ WF_vars(StartPass(p, k))
                                      /\ SF_vars(Claim(p, k, {}))
    /\ \A j \in Job : /\ WF_vars(BecomeDue(j))
                      /\ WF_vars(ExpireLease(j))
                      /\ WF_vars(ExpireRow(j))
                      /\ WF_vars(\E x \in exec : /\ x.job = j
                                                 /\ Finish(x) \/ GiveUp(x) \/ Return(x))

FairSpec == Spec /\ Fairness

-----------------------------------------------------------------------------
(* Properties *)

\* The leases never exceed the database-wide limit, over both queues and all
\* processes (automation-execution-budget.ts, "Leases bound actual execution").
GlobalBudget == Cardinality(Held) <= GlobalCap

\* ... nor the limit of any tenant.
TenantBudget == \A t \in Tenant : Cardinality({j \in Held : TenantOf[j] = t}) <= TenantCap

\* No two leases own the same contact, also after the contact of a job is deleted
\* and its scope changes while it holds a lease.
OneLeasePerScope == \A i, j \in Held : lease[i].scope = lease[j].scope => i = j

\* Two executions that can still commit their work never belong to the same
\* contact ("one contact scope, which also serializes enrollments for that
\* contact", docs/automation-event-queue.md), as long as no lease expires under a
\* live execution: processDispatch does not look at the expiry.
ContactSerialized ==
    stalls = 0 =>
    \A x, y \in exec : x # y /\ MayCommit(x) /\ MayCommit(y)
                       /\ contact[x.job] # NoContact /\ TenantOf[x.job] = TenantOf[y.job]
                       => contact[x.job] # contact[y.job]

\* An unexpired lease is deleted only by the execution it was created for: a worker
\* that was overtaken does not free the contact its successor holds.
OnlyOwnerReleases ==
    [][\A j \in Job : lease[j].live /\ lease'[j] = NoLease
                      => \E x \in exec \ exec' : x.job = j /\ x.token = lease[j].token]_vars

\* "The least recently admitted tenants receive the next bounded claims": when a
\* claim admits tenants and leaves out one whose first candidate was free, no admitted
\* tenant was admitted more recently than it.  (A tenant whose first candidate another
\* transaction holds is passed over: the ranks are taken before locked rows are skipped.)
NewlyAdmitted(j) == row'[j].claims > row[j].claims
LeastRecentTenantsFirst ==
    [][\A i \in Job : NewlyAdmitted(i) =>
          \A c \in Candidates(KindOf[i]) \ Lockable :
             /\ Rank(c, FirstOfContact(KindOf[i])) = 1
             /\ \A j \in Job : TenantOf[j] = TenantOf[c] => ~NewlyAdmitted(j)
             => <<TenantOf[c], TenantOf[i]>> \notin rotation]_vars

\* Every job ends, whatever crashes, stalls, deletions and staff steps happen on
\* the way, and even though a claim can be rolled back by one conflicting job.
EveryJobEnds == \A j \in Job : <>[](row[j].status = "DONE")
=============================================================================
