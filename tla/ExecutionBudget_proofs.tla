------------------------ MODULE ExecutionBudget_proofs ------------------------
(***************************************************************************)
(* The limits of ExecutionBudget hold for every set of jobs, every budget  *)
(* and every number of faults.                                             *)
(***************************************************************************)
EXTENDS ExecutionBudget, FiniteSetTheorems, TLAPS

-----------------------------------------------------------------------------
(* Type correctness *)

LEMMA InitType == Init => TypeOK
  BY JobAssumption, BudgetAssumption
  DEF Init, TypeOK, NoLease, NoScope, RowStatus, Kind, Rows, Leases

\* Every way in which an action rewrites a row gives a row.
LEMMA RowUpdates ==
  ASSUME NEW r \in Rows
  PROVE  /\ \A s \in RowStatus : [r EXCEPT !.status = s] \in Rows
         /\ [r EXCEPT !.live = TRUE] \in Rows /\ [r EXCEPT !.live = FALSE] \in Rows
         /\ \A s \in RowStatus :
               [r EXCEPT !.status = s, !.token = 0, !.live = FALSE] \in Rows
         /\ [status |-> "BUSY", token |-> r.claims + 1, live |-> TRUE,
             claims |-> r.claims + 1] \in Rows
         /\ r.claims + 1 \in Nat /\ r.token \in Nat
<1>1. "BUSY" \in RowStatus
  BY DEF RowStatus
<1>2. /\ r.status \in RowStatus /\ r.token \in Nat /\ r.live \in BOOLEAN /\ r.claims \in Nat
      /\ r.claims + 1 \in Nat
      /\ r = [status |-> r.status, token |-> r.token, live |-> r.live, claims |-> r.claims]
  BY DEF Rows
<1> QED
  BY <1>1, <1>2 DEF Rows

LEMMA ExecutionUpdates ==
  ASSUME NEW x \in Executions
  PROVE  /\ [x EXCEPT !.step = "work"] \in Executions
         /\ [x EXCEPT !.step = "release"] \in Executions
         /\ [x EXCEPT !.orphan = TRUE] \in Executions
         /\ x.job \in Job /\ x.proc \in Process /\ x.token \in Nat
  BY DEF Executions

LEMMA LeaseUpdates ==
  /\ NoLease \in Leases
  /\ \A l \in Leases : [l EXCEPT !.live = FALSE] \in Leases
  BY DEF Leases, NoLease

LEMMA TouchedType == \A S : Touched(S) \in SUBSET (Job \X Job)
  BY DEF Touched

LEMMA ClaimType ==
  ASSUME TypeOK, NEW p \in Process, NEW k \in Kind, NEW skipped, Claim(p, k, skipped)
  PROVE  TypeOK'
<1> USE JobAssumption DEF bounds
<1>1. CASE \E S \in SUBSET Candidates(k) : Abort(p, k, S)
  BY <1>1 DEF Claim, Abort, TypeOK
<1>2. CASE \E S \in SUBSET Candidates(k) : Admit(p, k, S)
  <2>1. PICK S \in SUBSET Candidates(k) : Admit(p, k, S)
    BY <1>2
  <2>2. S \subseteq Job
    BY DEF Candidates, FirstOfContact, Eligible
  <2>3. \A j \in Job : /\ row[j] \in Rows
                       /\ row[j].claims + 1 \in Nat
                       /\ [status |-> "BUSY", token |-> row[j].claims + 1, live |-> TRUE,
                           claims |-> row[j].claims + 1] \in Rows
    BY RowUpdates DEF TypeOK
  <2>4. \A j \in Job :
           [token |-> row[j].claims + 1, scope |-> Scope(j), live |-> TRUE] \in Leases
    <3>1. \A j \in Job : Scope(j) \in Scopes
      BY DEF Scope, Scopes, TypeOK
    <3> QED
      BY <2>3, <3>1 DEF Leases
  <2>5. row' \in [Job -> Rows]
    BY <2>1, <2>3 DEF Admit
  <2>6. lease' \in [Job -> Leases]
    BY <2>1, <2>4, LeaseUpdates DEF Admit, TypeOK
  <2>7. /\ older' \in SUBSET (Job \X Job)
        /\ rotation' \in SUBSET (Tenant \X Tenant)
    BY <2>1 DEF Admit, Touched, Admitted
  <2>8. pass' \in [Process \X Kind -> {"idle", "claiming", "executing"}]
    BY <2>1 DEF Admit, TypeOK
  <2>9. exec' \subseteq Executions
    <3>1. \A j \in S : [job |-> j, token |-> row[j].claims + 1, proc |-> p,
                        step |-> "work", orphan |-> FALSE] \in Executions
      BY <2>2, <2>3 DEF Executions
    <3> QED
      BY <2>1, <3>1 DEF Admit, TypeOK
  <2>10. UNCHANGED <<contact, delays, stalls, faults, fences>>
    BY DEF Claim
  <2> QED
    BY <2>5, <2>6, <2>7, <2>8, <2>9, <2>10 DEF TypeOK
<1> QED
  BY <1>1, <1>2 DEF Claim

LEMMA PassType ==
  ASSUME TypeOK, NEW p \in Process, NEW k \in Kind, StartPass(p, k) \/ Crash(p)
  PROVE  TypeOK'
<1> USE DEF bounds
<1>1. CASE StartPass(p, k)
  <2>1. row' \in [Job -> Rows]
    BY <1>1, RowUpdates DEF StartPass, TypeOK, RowStatus
  <2>2. pass' \in [Process \X Kind -> {"idle", "claiming", "executing"}]
    BY <1>1 DEF StartPass, TypeOK
  <2> QED
    BY <1>1, <2>1, <2>2, TouchedType DEF StartPass, TypeOK
<1>2. CASE Crash(p)
  <2>1. pass' \in [Process \X Kind -> {"idle", "claiming", "executing"}]
    BY <1>2 DEF Crash, TypeOK
  <2> QED
    BY <1>2, <2>1 DEF Crash, TypeOK
<1> QED
  BY <1>1, <1>2

LEMMA ExecType ==
  ASSUME TypeOK, NEW x \in exec, ExecStep(x)
  PROVE  TypeOK'
<1> USE JobAssumption DEF bounds
<1>0. exec \subseteq Executions /\ x \in Executions /\ x.job \in Job
  BY ExecutionUpdates DEF TypeOK
<1>1. KindOf[x.job] \in Kind /\ <<x.proc, KindOf[x.job]>> \in Process \X Kind
  BY <1>0, ExecutionUpdates DEF Kind
<1>2. GoesTo(x, "release") => exec' \subseteq Executions
  BY <1>0, ExecutionUpdates DEF GoesTo
<1>3. Released(x) \in [Job -> Leases]
  BY <1>0, LeaseUpdates DEF Released, TypeOK
<1>4. row[x.job] \in Rows
  BY <1>0 DEF TypeOK
<1>5. CASE Renew(x)
  <2>1. row' \in [Job -> Rows]
    BY <1>0, <1>4, <1>5, RowUpdates DEF Renew, TypeOK
  <2> QED
    BY <1>5, <2>1, TouchedType DEF Renew, TypeOK
<1>6. ASSUME NEW status \in RowStatus, Commit(x, status), delays' \in Nat
      PROVE  TypeOK'
  <2>1. row' \in [Job -> Rows]
    BY <1>0, <1>4, <1>6, RowUpdates DEF Commit, TypeOK
  <2> QED
    BY <1>2, <1>6, <2>1, TouchedType DEF Commit, TypeOK
<1>7. CASE Finish(x)
  BY <1>6, <1>7 DEF Finish, TypeOK, RowStatus
<1>8. CASE PutOff(x)
  <2>1. delays' \in Nat
    BY <1>0, <1>8 DEF PutOff, TypeOK
  <2> QED
    BY <1>6, <1>8, <2>1 DEF PutOff, RowStatus
<1>9. CASE GiveUp(x)
  BY <1>2, <1>9 DEF GiveUp, TypeOK
<1>10. CASE Return(x)
  <2>1. pass' \in [Process \X Kind -> {"idle", "claiming", "executing"}]
    BY <1>1, <1>10 DEF Return, TypeOK
  <2> QED
    BY <1>3, <1>10, <2>1 DEF Return, TypeOK
<1>11. CASE Reject(x)
  <2>1. pass' \in [Process \X Kind -> {"idle", "claiming", "executing"}]
    BY <1>1, <1>11 DEF Reject, TypeOK
  <2>2. exec' \subseteq Executions
    BY <1>0, <1>11, ExecutionUpdates DEF Reject, Siblings
  <2>3. lease' \in [Job -> Leases]
    BY <1>3, <1>11 DEF Reject, TypeOK
  <2> QED
    BY <1>11, <2>1, <2>2, <2>3 DEF Reject, TypeOK
<1> QED
  BY <1>5, <1>7, <1>8, <1>9, <1>10, <1>11 DEF ExecStep

LEMMA EnvironmentType ==
  ASSUME TypeOK,
         \/ \E j \in Job : BecomeDue(j) \/ ExpireLease(j) \/ ExpireRow(j) \/ Fence(j)
         \/ \E c \in Contact : DeleteContact(c)
  PROVE  TypeOK'
<1> USE DEF bounds
<1>0. \A j \in Job : row[j] \in Rows /\ lease[j] \in Leases
  BY DEF TypeOK
<1>1. ASSUME NEW j \in Job, BecomeDue(j)
      PROVE  TypeOK'
  <2>1. row' \in [Job -> Rows]
    BY <1>0, <1>1, RowUpdates DEF BecomeDue, TypeOK, RowStatus
  <2> QED
    BY <1>1, <2>1 DEF BecomeDue, TypeOK
<1>2. ASSUME NEW j \in Job, ExpireLease(j)
      PROVE  TypeOK'
  <2>1. row' \in [Job -> Rows]
    BY <1>0, <1>2, RowUpdates DEF ExpireLease, TypeOK
  <2>2. lease' \in [Job -> Leases]
    BY <1>0, <1>2, LeaseUpdates DEF ExpireLease, TypeOK
  <2> QED
    BY <1>2, <2>1, <2>2 DEF ExpireLease, CountStall, TypeOK
<1>3. ASSUME NEW j \in Job, ExpireRow(j)
      PROVE  TypeOK'
  <2>1. row' \in [Job -> Rows]
    BY <1>0, <1>3, RowUpdates DEF ExpireRow, TypeOK
  <2> QED
    BY <1>3, <2>1 DEF ExpireRow, CountStall, TypeOK
<1>4. ASSUME NEW j \in Job, Fence(j)
      PROVE  TypeOK'
  <2>1. \E r \in Rows : row' = [row EXCEPT ![j] = r]
    <3>1. \A s \in RowStatus :
             [row[j] EXCEPT !.status = s, !.token = 0, !.live = FALSE] \in Rows
      BY <1>0, RowUpdates
    <3> QED
      BY <1>4, <3>1 DEF Fence, RowStatus
  <2>2. row' \in [Job -> Rows]
    BY <2>1 DEF TypeOK
  <2>3. /\ older' = Touched({j}) /\ fences' = fences + 1
        /\ UNCHANGED <<contact, lease, rotation, pass, exec, delays, stalls, faults>>
    BY <1>4 DEF Fence
  <2> QED
    BY <2>2, <2>3, TouchedType DEF TypeOK
<1>5. ASSUME NEW c \in Contact, DeleteContact(c)
      PROVE  TypeOK'
  BY <1>5 DEF DeleteContact, TypeOK
<1> QED
  BY <1>1, <1>2, <1>3, <1>4, <1>5

LEMMA StepType == TypeOK /\ [Next]_vars => TypeOK'
<1> SUFFICES ASSUME TypeOK, [Next]_vars
             PROVE  TypeOK'
  OBVIOUS
<1>1. CASE UNCHANGED vars
  BY <1>1 DEF vars, TypeOK
<1>2. CASE Next
  <2>1. \A p \in Process : Crash(p) => TypeOK'
    BY PassType DEF Kind
  <2> QED
    BY <1>2, <2>1, PassType, ClaimType, ExecType, EnvironmentType DEF Next
<1> QED
  BY <1>1, <1>2

\* Every reachable state has the declared types.
THEOREM TypeCorrect == Spec => []TypeOK
  BY InitType, StepType, PTL DEF Spec

-----------------------------------------------------------------------------
(* The limits *)

\* The limits are not inductive alone: the rank that cuts the batch of a tenant
\* counts older jobs, so updatedAt must keep ordering the job rows totally.
Limits ==
    /\ TypeOK
    /\ IsStrictOrder(older, Job)
    /\ GlobalBudget
    /\ TenantBudget
    /\ OneLeasePerScope

LEMMA OrderKept ==
  ASSUME IsStrictOrder(older, Job), NEW S, S \subseteq Job, older' = Touched(S)
  PROVE  IsStrictOrder(older', Job)
  BY DEF IsStrictOrder, Touched

LEMMA FiniteJobs ==
  ASSUME NEW S, S \subseteq Job
  PROVE  IsFiniteSet(S) /\ Cardinality(S) \in Nat
<1>1. S \in SUBSET Job
  OBVIOUS
<1> QED
  BY <1>1, JobAssumption, FS_Subset, FS_CardinalityType

LEMMA DisjointUnion ==
  ASSUME NEW A, NEW B, A \subseteq Job, B \subseteq Job, A \cap B = {}
  PROVE  Cardinality(A \cup B) = Cardinality(A) + Cardinality(B)
<1>1. /\ IsFiniteSet(A) /\ IsFiniteSet(B)
      /\ Cardinality(A) \in Nat /\ Cardinality(B) \in Nat
  BY FiniteJobs
<1>2. Cardinality(A \cup B) = Cardinality(A) + Cardinality(B) - Cardinality(A \cap B)
  BY <1>1, FS_Union
<1>3. Cardinality(A \cap B) = 0
  BY FS_EmptySet
<1> QED
  BY <1>1, <1>2, <1>3

\* tenant_rank numbers the jobs of one tenant from 1 without repetition.
LEMMA RankIsNumbering ==
  ASSUME IsStrictOrder(older, Job), NEW F, F \subseteq Job,
         NEW i \in F, NEW j \in F, TenantOf[i] = TenantOf[j]
  PROVE  /\ Rank(i, F) \in Nat \ {0}
         /\ i # j => Rank(i, F) # Rank(j, F)
<1> DEFINE Up(n) == {m \in F : TenantOf[m] = TenantOf[n] /\ (m = n \/ <<m, n>> \in older)}
<1>1. \A n \in F : Up(n) \subseteq Job /\ IsFiniteSet(Up(n)) /\ Cardinality(Up(n)) \in Nat
  BY FiniteJobs
<1>2. \A n \in F : Rank(n, F) = Cardinality(Up(n))
  BY DEF Rank
<1>3. i \in Up(i)
  OBVIOUS
<1>4. Cardinality(Up(i)) # 0
  BY <1>1, <1>3, FS_EmptySet
<1>5. ASSUME NEW m \in F, NEW n \in F, TenantOf[m] = TenantOf[n], <<m, n>> \in older
      PROVE  Cardinality(Up(m)) # Cardinality(Up(n))
  <2>1. Up(m) \in SUBSET Up(n)
    BY <1>5 DEF IsStrictOrder
  <2>2. n \in Up(n) /\ n \notin Up(m)
    BY <1>5 DEF IsStrictOrder
  <2> HIDE DEF Up
  <2>3. Cardinality(Up(n)) = Cardinality(Up(m)) => Up(n) = Up(m)
    BY <1>1, <2>1, FS_Subset
  <2> QED
    BY <2>2, <2>3
<1>6. i # j => <<i, j>> \in older \/ <<j, i>> \in older
  BY DEF IsStrictOrder
<1> HIDE DEF Up
<1> QED
  BY <1>1, <1>2, <1>4, <1>5, <1>6

\* A batch holds at most as many jobs of a tenant as the tenant has room for.
LEMMA BatchFitsTenant ==
  ASSUME TypeOK, IsStrictOrder(older, Job), NEW k \in Kind,
         NEW S, S \subseteq Candidates(k), NEW t \in Tenant, TenantRoom(t) \in Nat
  PROVE  Cardinality({j \in S : TenantOf[j] = t}) <= TenantRoom(t)
<1> DEFINE F == FirstOfContact(k)
           X == {j \in S : TenantOf[j] = t}
           f == [j \in X |-> Rank(j, F)]
<1>1. F \subseteq Job /\ S \subseteq F /\ X \subseteq F
  BY DEF Candidates, FirstOfContact, Eligible
<1>2. \A j \in X : Rank(j, F) <= TenantRoom(t)
  BY DEF Candidates
<1>3. \A i, j \in X : /\ Rank(i, F) \in Nat \ {0}
                      /\ i # j => Rank(i, F) # Rank(j, F)
  <2> SUFFICES ASSUME NEW i \in X, NEW j \in X
               PROVE  /\ Rank(i, F) \in Nat \ {0}
                      /\ i # j => Rank(i, F) # Rank(j, F)
    OBVIOUS
  <2>1. i \in F /\ j \in F /\ TenantOf[i] = TenantOf[j]
    BY <1>1
  <2> HIDE DEF F, X
  <2> QED
    BY <1>1, <2>1, RankIsNumbering
<1> HIDE DEF F, X
<1>4. f \in Injection(X, 1 .. TenantRoom(t))
  BY <1>2, <1>3 DEF Injection, IsInjective
<1>5. IsFiniteSet(1 .. TenantRoom(t)) /\ Cardinality(1 .. TenantRoom(t)) = TenantRoom(t)
  BY FS_Interval
<1>6. Cardinality(X) <= Cardinality(1 .. TenantRoom(t))
  BY <1>4, <1>5, FS_Injection
<1> QED
  BY <1>5, <1>6 DEF X

\* A step that creates no lease and moves none keeps the limits.
LEMMA NoNewLease ==
  ASSUME Limits, TypeOK', IsStrictOrder(older', Job),
         \A j \in Job : lease'[j].token # 0 => /\ lease[j].token # 0
                                               /\ lease'[j].scope = lease[j].scope
  PROVE  Limits'
<1>1. Held' \in SUBSET Held /\ Held \subseteq Job
  BY DEF Held
<1>2. GlobalBudget'
  <2>1. Cardinality(Held') <= Cardinality(Held)
    BY <1>1, FiniteJobs, FS_Subset
  <2>2. Held' \subseteq Job
    BY <1>1
  <2>3. Cardinality(Held) \in Nat /\ Cardinality(Held') \in Nat
    BY <1>1, <2>2, FiniteJobs
  <2> QED
    BY <2>1, <2>3, BudgetAssumption DEF Limits, GlobalBudget
<1>3. TenantBudget'
  <2> SUFFICES ASSUME NEW t \in Tenant
               PROVE  Cardinality({j \in Held' : TenantOf[j] = t}) <= TenantCap
    BY DEF TenantBudget
  <2> DEFINE A == {j \in Held : TenantOf[j] = t}
             B == {j \in Held' : TenantOf[j] = t}
  <2>1. B \in SUBSET A /\ A \subseteq Job /\ B \subseteq Job
    BY <1>1
  <2>2. Cardinality(A) <= TenantCap
    BY DEF Limits, TenantBudget
  <2> HIDE DEF A, B
  <2>3. Cardinality(B) <= Cardinality(A)
    BY <2>1, FiniteJobs, FS_Subset
  <2>4. Cardinality(A) \in Nat /\ Cardinality(B) \in Nat
    BY <2>1, FiniteJobs
  <2>5. Cardinality(B) <= TenantCap
    BY <2>2, <2>3, <2>4, BudgetAssumption
  <2> QED
    BY <2>5 DEF B
<1>4. OneLeasePerScope'
  BY <1>1 DEF Limits, OneLeasePerScope, Held
<1> QED
  BY <1>2, <1>3, <1>4 DEF Limits

\* The counting step of an admission: unexpired leases and new ones are disjoint
\* and fit together.
LEMMA AdmitLimits ==
  ASSUME Limits, NEW p \in Process, NEW k \in Kind, NEW skipped,
         NEW S \in SUBSET Candidates(k), IsBatch(S, k, skipped), Admit(p, k, S),
         TypeOK'
  PROVE  Limits'
<1>0. TypeOK /\ IsStrictOrder(older, Job)
  BY DEF Limits
<1>1. S \subseteq Job /\ S \subseteq FirstOfContact(k)
  BY DEF Candidates, FirstOfContact, Eligible
<1>2. /\ Unexpired \in SUBSET Held /\ Held \subseteq Job /\ Unexpired \subseteq Job
      /\ S \cap Unexpired = {}
  BY DEF Held, Unexpired, Admit, Conflict
<1>3. Held' = Unexpired \cup S
  <2>1. \A j \in Job : row[j].claims + 1 # 0
    <3>1. \A j \in Job : row[j] \in Rows
      BY <1>0 DEF TypeOK
    <3> QED
      BY <3>1 DEF Rows
  <2>2. \A j \in Job :
           lease'[j] = IF j \in S
                       THEN [token |-> row[j].claims + 1, scope |-> Scope(j), live |-> TRUE]
                       ELSE IF j \in Unexpired THEN lease[j] ELSE NoLease
    BY DEF Admit
  <2>3. \A j \in Job : lease'[j].token # 0 <=> j \in S \/ j \in Unexpired
    <3> SUFFICES ASSUME NEW j \in Job
                 PROVE  lease'[j].token # 0 <=> j \in S \/ j \in Unexpired
      OBVIOUS
    <3>1. CASE j \in S
      <4>1. lease'[j] = [token |-> row[j].claims + 1, scope |-> Scope(j), live |-> TRUE]
        BY <2>2, <3>1
      <4>2. lease'[j].token = row[j].claims + 1
        BY <4>1
      <4> QED
        BY <2>1, <3>1, <4>2
    <3>2. CASE j \notin S /\ j \in Unexpired
      <4>1. lease'[j] = lease[j]
        BY <2>2, <3>2
      <4>2. lease[j].token # 0
        BY <3>2 DEF Unexpired, Held
      <4> QED
        BY <3>2, <4>1, <4>2
    <3>3. CASE j \notin S /\ j \notin Unexpired
      <4>1. lease'[j] = NoLease
        BY <2>2, <3>3
      <4>2. lease'[j].token = 0
        BY <4>1 DEF NoLease
      <4> QED
        BY <3>3, <4>2
    <3> QED
      BY <3>1, <3>2, <3>3
  <2> QED
    BY <1>1, <1>2, <2>3 DEF Held
<1>4. /\ \A j \in S : lease'[j].scope = Scope(j)
      /\ \A j \in Unexpired : lease'[j].scope = lease[j].scope
  BY <1>1, <1>2 DEF Admit
<1>5. IsStrictOrder(older', Job)
  BY <1>0, <1>1, OrderKept DEF Admit
<1>6. GlobalBudget'
  <2>1. Cardinality(Unexpired) <= Cardinality(Held)
    BY <1>2, FiniteJobs, FS_Subset
  <2>2. /\ IsFiniteSet(S) /\ Cardinality(S) \in Nat
        /\ IsFiniteSet(Unexpired) /\ Cardinality(Unexpired) \in Nat
        /\ Cardinality(Held) \in Nat
    BY <1>1, <1>2, FiniteJobs
  <2>3. Cardinality(S) <= Room /\ Cardinality(Held) <= GlobalCap
    BY DEF IsBatch, Limits, GlobalBudget
  <2>4. Cardinality(Unexpired) + Cardinality(S) <= GlobalCap
    BY <2>1, <2>2, <2>3, BudgetAssumption DEF Room
  <2>5. Cardinality(Unexpired \cup S) = Cardinality(Unexpired) + Cardinality(S)
    BY <1>1, <1>2, DisjointUnion
  <2> QED
    BY <1>3, <2>4, <2>5 DEF GlobalBudget
<1>7. TenantBudget'
  <2> SUFFICES ASSUME NEW t \in Tenant
               PROVE  Cardinality({j \in Held' : TenantOf[j] = t}) <= TenantCap
    BY DEF TenantBudget
  <2> DEFINE A == {j \in Unexpired : TenantOf[j] = t}
             B == {j \in S : TenantOf[j] = t}
             C == {j \in Held : TenantOf[j] = t}
  <2>1. {j \in Held' : TenantOf[j] = t} = A \cup B
    BY <1>3
  <2>2. A \in SUBSET C /\ A \subseteq Job /\ B \subseteq Job /\ C \subseteq Job /\ A \cap B = {}
    BY <1>1, <1>2
  <2>3. Cardinality(C) <= TenantCap
    BY DEF Limits, TenantBudget
  <2>4. TenantRoom(t) = TenantCap - Cardinality(A)
    BY DEF TenantRoom
  <2>5. TenantRoom(t) \in Nat => Cardinality(B) <= TenantRoom(t)
    BY <1>0, BatchFitsTenant
  <2> HIDE DEF A, B, C
  <2>6. /\ IsFiniteSet(A) /\ IsFiniteSet(B) /\ Cardinality(C) \in Nat
        /\ Cardinality(A) \in Nat /\ Cardinality(B) \in Nat
    BY <2>2, FiniteJobs
  <2>7. Cardinality(A) <= Cardinality(C)
    BY <2>2, FiniteJobs, FS_Subset
  <2>8. Cardinality(A) + Cardinality(B) <= TenantCap
    BY <2>3, <2>4, <2>5, <2>6, <2>7, BudgetAssumption
  <2>9. Cardinality(A \cup B) = Cardinality(A) + Cardinality(B)
    BY <2>2, DisjointUnion
  <2> QED
    BY <2>1, <2>8, <2>9
<1>8. OneLeasePerScope'
  <2> SUFFICES ASSUME NEW i \in Unexpired \cup S, NEW j \in Unexpired \cup S,
                      lease'[i].scope = lease'[j].scope
               PROVE  i = j
    BY <1>3 DEF OneLeasePerScope
  <2>1. CASE i \in Unexpired /\ j \in Unexpired
    BY <1>2, <1>4, <2>1 DEF Limits, OneLeasePerScope
  <2>2. CASE i \in S /\ j \in Unexpired
    BY <1>1, <1>4, <2>2 DEF FirstOfContact, ScopeFree
  <2>3. CASE i \in Unexpired /\ j \in S
    BY <1>1, <1>4, <2>3 DEF FirstOfContact, ScopeFree
  <2>4. CASE i \in S /\ j \in S
    <3>1. /\ i \in Eligible(k) /\ j \in Eligible(k) /\ Scope(i) = Scope(j)
          /\ i \in Job /\ j \in Job
      BY <1>1, <1>4, <2>4 DEF FirstOfContact
    <3>2. (i = j \/ <<j, i>> \in older) /\ (i = j \/ <<i, j>> \in older)
      BY <1>1, <2>4, <3>1 DEF FirstOfContact
    <3> QED
      BY <1>0, <3>1, <3>2 DEF IsStrictOrder
  <2> QED
    BY <2>1, <2>2, <2>3, <2>4
<1> QED
  BY <1>5, <1>6, <1>7, <1>8 DEF Limits

LEMMA InitLimits == Init => Limits
<1> SUFFICES ASSUME Init
             PROVE  Limits
  OBVIOUS
<1>1. TypeOK /\ IsStrictOrder(older, Job)
  BY InitType DEF Init
<1>2. Held = {}
  BY DEF Init, Held, NoLease
<1>3. GlobalBudget
  BY <1>2, FS_EmptySet, BudgetAssumption DEF GlobalBudget
<1>4. TenantBudget
  <2>1. \A t \in Tenant : {j \in Held : TenantOf[j] = t} = {}
    BY <1>2
  <2> QED
    BY <2>1, FS_EmptySet, BudgetAssumption DEF TenantBudget
<1>5. OneLeasePerScope
  BY <1>2 DEF OneLeasePerScope
<1> QED
  BY <1>1, <1>3, <1>4, <1>5 DEF Limits

LEMMA ClaimLimits ==
  ASSUME Limits, TypeOK', NEW p \in Process, NEW k \in Kind, NEW skipped, Claim(p, k, skipped)
  PROVE  Limits'
<1>1. PICK S \in SUBSET Candidates(k) :
         IsBatch(S, k, skipped) /\ (Admit(p, k, S) \/ Abort(p, k, S))
  BY DEF Claim
<1>2. CASE Admit(p, k, S)
  BY <1>1, <1>2, AdmitLimits
<1>3. CASE Abort(p, k, S)
  BY <1>3, NoNewLease DEF Abort, Limits
<1> QED
  BY <1>1, <1>2, <1>3

\* Only a claim creates a lease; every other step keeps, expires or deletes leases.
LEMMA OtherStepsLimits ==
  ASSUME Limits, TypeOK',
         \/ \E p \in Process, k \in Kind : StartPass(p, k)
         \/ \E x \in exec : ExecStep(x)
         \/ \E j \in Job : BecomeDue(j) \/ ExpireLease(j) \/ ExpireRow(j) \/ Fence(j)
         \/ \E p \in Process : Crash(p)
         \/ \E c \in Contact : DeleteContact(c)
         \/ UNCHANGED vars
  PROVE  Limits'
<1>1. \/ UNCHANGED lease
      \/ \E x \in exec : lease' = Released(x)
      \/ \E j \in Job : lease' = [lease EXCEPT ![j].live = FALSE]
  BY DEF StartPass, ExecStep, Renew, Finish, PutOff, Commit, GiveUp, Return, Reject,
         BecomeDue, ExpireLease, ExpireRow, Fence, Crash, DeleteContact, vars
<1>2. \/ UNCHANGED older
      \/ \E S \in SUBSET Job : older' = Touched(S)
  <2>1. \A p \in Process, k \in Kind :
           StartPass(p, k) => \E S \in SUBSET Job : older' = Touched(S)
    BY DEF StartPass, Lapsed
  <2>2. \A x \in exec : x.job \in Job
    BY ExecutionUpdates DEF Limits, TypeOK
  <2> QED
    BY <2>1, <2>2
    DEF ExecStep, Renew, Finish, PutOff, Commit, GiveUp, Return, Reject,
        BecomeDue, ExpireLease, ExpireRow, Fence, Crash, DeleteContact, vars
<1>3. IsStrictOrder(older', Job)
  BY <1>2, OrderKept DEF Limits
<1>4. \A j \in Job : lease[j] \in Leases
  BY DEF Limits, TypeOK
<1>5. \A j \in Job : lease'[j].token # 0 => /\ lease[j].token # 0
                                             /\ lease'[j].scope = lease[j].scope
  <2>1. CASE \E x \in exec : lease' = Released(x)
    BY <2>1 DEF Released, NoLease, Limits, TypeOK
  <2>2. CASE \E j \in Job : lease' = [lease EXCEPT ![j].live = FALSE]
    BY <1>4, <2>2 DEF Limits, TypeOK, Leases
  <2> QED
    BY <1>1, <2>1, <2>2
<1> QED
  BY <1>3, <1>5, NoNewLease

LEMMA StepLimits == Limits /\ [Next]_vars => Limits'
<1> SUFFICES ASSUME Limits, [Next]_vars
             PROVE  Limits'
  OBVIOUS
<1>1. TypeOK'
  BY StepType DEF Limits
<1>2. CASE \E p \in Process, k \in Kind, skipped \in SUBSET Lockable : Claim(p, k, skipped)
  BY <1>1, <1>2, ClaimLimits
<1> QED
  BY <1>1, <1>2, OtherStepsLimits DEF Next

\* Both queues and all processes together never hold more leases than
\* AUTOMATION_EXECUTION_CONCURRENCY, whatever expires, crashes or is deleted.
THEOREM GlobalBudgetHolds == Spec => []GlobalBudget
<1>1. Limits => GlobalBudget
  BY DEF Limits
<1> QED
  BY InitLimits, StepLimits, <1>1, PTL DEF Spec

\* No tenant ever holds more than AUTOMATION_EXECUTION_TENANT_CONCURRENCY leases.
THEOREM TenantBudgetHolds == Spec => []TenantBudget
<1>1. Limits => TenantBudget
  BY DEF Limits
<1> QED
  BY InitLimits, StepLimits, <1>1, PTL DEF Spec

\* No contact is ever owned by two leases.
THEOREM OneLeasePerScopeHolds == Spec => []OneLeasePerScope
<1>1. Limits => OneLeasePerScope
  BY DEF Limits
<1> QED
  BY InitLimits, StepLimits, <1>1, PTL DEF Spec

-----------------------------------------------------------------------------
(* Whose lease it is *)

\* Every execution carries a token of its own.
TokensAreOwn ==
    /\ \A x \in exec : x.token \in 1 .. row[x.job].claims
    /\ \A x, y \in exec : x.job = y.job /\ x.token = y.token => x = y

\* A lease owns the contact of its job until that contact is deleted.
LeasesTellContact ==
    \A j \in Job : /\ lease[j].live => lease[j].token # 0
                   /\ lease[j].token # 0 /\ contact[j] # NoContact => lease[j].scope = Scope(j)

\* Without a stall, work goes on only under an unexpired lease.
WorkIsLeased == stalls = 0 => \A x \in exec : x.step = "work" => HoldsLease(x)

RotationIsOrder == \A s, t \in Tenant : ~(<<s, t>> \in rotation /\ <<t, s>> \in rotation)

Owners == Limits /\ TokensAreOwn /\ LeasesTellContact /\ WorkIsLeased /\ RotationIsOrder

\* OnlyOwnerReleases and LeastRecentTenantsFirst of one step.
ReleasedByOwner ==
    \A j \in Job : lease[j].live /\ lease'[j] = NoLease
                   => \E x \in exec \ exec' : x.job = j /\ x.token = lease[j].token
RotationFollowed ==
    \A i \in Job : NewlyAdmitted(i) =>
       \A c \in Candidates(KindOf[i]) \ Lockable :
          /\ Rank(c, FirstOfContact(KindOf[i])) = 1
          /\ \A j \in Job : TenantOf[j] = TenantOf[c] => ~NewlyAdmitted(j)
          => <<TenantOf[c], TenantOf[i]>> \notin rotation

LEMMA OwnersHaveTypes ==
  ASSUME Owners
  PROVE  /\ TypeOK /\ exec \subseteq Executions
         /\ \A x \in exec : x.job \in Job /\ x.token \in Nat \ {0}
         /\ \A j \in Job : row[j] \in Rows /\ row[j].claims \in Nat /\ lease[j] \in Leases
<1>1. TypeOK
  BY DEF Owners, Limits
<1>2. \A j \in Job : row[j] \in Rows /\ row[j].claims \in Nat /\ lease[j] \in Leases
  BY <1>1 DEF TypeOK, Rows
<1>3. exec \subseteq Executions /\ \A x \in exec : x.job \in Job
  BY <1>1, ExecutionUpdates DEF TypeOK
<1>4. \A x \in exec : x.token \in Nat \ {0}
  BY <1>2, <1>3 DEF Owners, TokensAreOwn
<1> QED
  BY <1>1, <1>2, <1>3, <1>4

\* Executions that go on are executions of before, each with its own token.
Continue ==
    /\ \A x \in exec' : \E y \in exec : /\ y.job = x.job /\ y.token = x.token
                                        /\ x.step = "work" => y.step = "work"
    /\ \A x, y \in exec' : x.job = y.job /\ x.token = y.token => x = y

LEMMA OneGoesOn ==
  ASSUME Owners, NEW x \in exec, GoesTo(x, "release")
  PROVE  Continue
<1>1. /\ [x EXCEPT !.step = "release"].job = x.job /\ [x EXCEPT !.step = "release"].token = x.token
      /\ [x EXCEPT !.step = "release"].step = "release"
  BY OwnersHaveTypes DEF Executions
<1>2. exec' = (exec \ {x}) \cup {[x EXCEPT !.step = "release"]}
  BY DEF GoesTo
<1> DEFINE r == [x EXCEPT !.step = "release"]
<1>3. \A y, z \in exec : y.job = z.job /\ y.token = z.token => y = z
  BY DEF Owners, TokensAreOwn
<1>4. \A z \in exec' : z = r \/ (z \in exec /\ z # x)
  BY <1>2
<1>5. r.job = x.job /\ r.token = x.token /\ r.step = "release"
  BY <1>1
<1> HIDE DEF r
<1>6. \A y, z \in exec' : y.job = z.job /\ y.token = z.token => y = z
  BY <1>3, <1>4, <1>5
<1>7. \A z \in exec' : \E y \in exec : /\ y.job = z.job /\ y.token = z.token
                                       /\ z.step = "work" => y.step = "work"
  BY <1>4, <1>5
<1> QED
  BY <1>6, <1>7 DEF Continue

LEMMA SomeEnd ==
  ASSUME Owners, exec' \subseteq exec
  PROVE  Continue
  BY DEF Continue, Owners, TokensAreOwn

LEMMA OrphansGoOn ==
  ASSUME Owners, NEW x \in exec,
         exec' = (exec \ (Siblings(x) \cup {x})) \cup {[y EXCEPT !.orphan = TRUE] : y \in Siblings(x)}
  PROVE  Continue /\ \A z \in exec' : z.job = x.job => z.token # x.token
<1> DEFINE o(y) == [y EXCEPT !.orphan = TRUE]
<1>1. \A y \in exec : o(y).job = y.job /\ o(y).token = y.token /\ o(y).step = y.step
  BY OwnersHaveTypes DEF Executions
<1>2. Siblings(x) \subseteq exec /\ x \notin Siblings(x)
  BY DEF Siblings
<1>3. exec' = (exec \ (Siblings(x) \cup {x})) \cup {o(y) : y \in Siblings(x)}
  OBVIOUS
<1>4. \A y, z \in exec : y.job = z.job /\ y.token = z.token => y = z
  BY DEF Owners, TokensAreOwn
<1>5. ASSUME NEW z \in exec'
      PROVE  \E y \in exec : /\ y # x /\ y.job = z.job /\ y.token = z.token
                             /\ z.step = "work" => y.step = "work"
                             /\ z = IF y \in Siblings(x) THEN o(y) ELSE y
  <2>1. CASE z \in exec \ (Siblings(x) \cup {x})
    BY <2>1
  <2>2. CASE z \in {o(y) : y \in Siblings(x)}
    <3>1. PICK y \in Siblings(x) : z = o(y)
      BY <2>2
    <3>2. y \in exec /\ y # x /\ o(y).job = y.job /\ o(y).token = y.token /\ o(y).step = y.step
      BY <1>1, <1>2
    <3> HIDE DEF o
    <3> QED
      BY <3>1, <3>2
  <2> QED
    BY <1>3, <2>1, <2>2
<1> HIDE DEF o
<1>6. \A y, z \in exec' : y.job = z.job /\ y.token = z.token => y = z
  BY <1>4, <1>5
<1>7. \A z \in exec' : z.job = x.job => z.token # x.token
  BY <1>4, <1>5
<1> QED
  BY <1>5, <1>6, <1>7 DEF Continue

\* A step that claims nothing keeps what the leases say, if what it deletes is the
\* lease of an execution that ends.
LEMMA NothingClaimed ==
  ASSUME Owners, Limits', Continue,
         \A j \in Job : row'[j].claims = row[j].claims,
         \A j \in Job : contact'[j] = contact[j] \/ contact'[j] = NoContact,
         stalls' = 0 => stalls = 0,
         rotation' = rotation,
         \A j \in Job : \/ lease'[j] = lease[j]
                        \/ /\ lease'[j] = [lease[j] EXCEPT !.live = FALSE]
                           /\ lease[j].live
                           /\ stalls' = 0 => ~Alive(j, lease[j].token)
                        \/ /\ lease'[j] = NoLease
                           /\ \E x \in exec \ exec' : x.job = j /\ x.token = lease[j].token
                           /\ \A x \in exec' : x.job = j /\ x.step = "work" => x.token # lease[j].token
  PROVE  Owners' /\ ReleasedByOwner /\ RotationFollowed
<1>0. /\ TypeOK /\ exec \subseteq Executions
      /\ \A x \in exec : x.job \in Job /\ x.token \in Nat \ {0}
      /\ \A j \in Job : row[j].claims \in Nat /\ lease[j] \in Leases
  BY OwnersHaveTypes
<1>1. \A x \in exec' : \E y \in exec : /\ y.job = x.job /\ y.token = x.token
                                       /\ x.step = "work" => y.step = "work"
  BY DEF Continue
<1>2. \A j \in Job : /\ [lease[j] EXCEPT !.live = FALSE].token = lease[j].token
                     /\ [lease[j] EXCEPT !.live = FALSE].scope = lease[j].scope
                     /\ [lease[j] EXCEPT !.live = FALSE].live = FALSE
  BY <1>0 DEF Leases
<1>3. TokensAreOwn'
  <2>1. ASSUME NEW x \in exec' PROVE x.token \in 1 .. row'[x.job].claims
    <3>1. PICK y \in exec : y.job = x.job /\ y.token = x.token
      BY <1>1
    <3>2. y.token \in 1 .. row[y.job].claims /\ y.job \in Job
      BY <1>0 DEF Owners, TokensAreOwn
    <3> QED
      BY <3>1, <3>2
  <2> QED
    BY <2>1 DEF Continue, TokensAreOwn
<1>4. LeasesTellContact'
  <2> SUFFICES ASSUME NEW j \in Job
               PROVE  /\ lease'[j].live => lease'[j].token # 0
                      /\ lease'[j].token # 0 /\ contact'[j] # NoContact => lease'[j].scope = Scope(j)'
    BY DEF LeasesTellContact
  <2>1. /\ lease[j].live => lease[j].token # 0
        /\ lease[j].token # 0 /\ contact[j] # NoContact => lease[j].scope = Scope(j)
    BY DEF Owners, LeasesTellContact
  <2>2. contact'[j] # NoContact => contact[j] # NoContact /\ Scope(j)' = Scope(j)
    BY DEF Scope
  <2>3. NoLease.token = 0 /\ NoLease.live = FALSE
    BY DEF NoLease
  <2>4. \/ lease'[j] = lease[j]
        \/ /\ lease'[j].token = lease[j].token /\ lease'[j].scope = lease[j].scope /\ lease'[j].live = FALSE
        \/ lease'[j] = NoLease
    BY <1>2
  <2> QED
    BY <2>1, <2>2, <2>3, <2>4
<1>5. WorkIsLeased'
  <2> SUFFICES ASSUME stalls' = 0, NEW x \in exec', x.step = "work"
               PROVE  lease'[x.job].token = x.token /\ lease'[x.job].live
    BY DEF WorkIsLeased, HoldsLease
  <2>1. PICK y \in exec : y.job = x.job /\ y.token = x.token /\ y.step = "work"
    BY <1>1
  <2>2. lease[x.job].token = x.token /\ lease[x.job].live /\ x.job \in Job
    BY <1>0, <2>1 DEF Owners, WorkIsLeased, HoldsLease
  <2>3. Alive(x.job, lease[x.job].token)
    BY <2>1, <2>2 DEF Alive
  <2> QED
    BY <2>2, <2>3
<1>6. RotationIsOrder'
  BY DEF Owners, RotationIsOrder
<1>7. ReleasedByOwner
  <2> SUFFICES ASSUME NEW j \in Job, lease[j].live, lease'[j] = NoLease
               PROVE  \E x \in exec \ exec' : x.job = j /\ x.token = lease[j].token
    BY DEF ReleasedByOwner
  <2>1. lease[j].token # 0
    BY DEF Owners, LeasesTellContact
  <2>2. NoLease.token = 0
    BY DEF NoLease
  <2> QED
    BY <1>2, <2>1, <2>2
<1>8. RotationFollowed
  BY <1>0 DEF RotationFollowed, NewlyAdmitted
<1> QED
  BY <1>3, <1>4, <1>5, <1>6, <1>7, <1>8 DEF Owners

\* An execution that ends may delete its own lease.
LEMMA ReleasedOwn ==
  ASSUME Owners, NEW x \in exec, \A z \in exec' : z.job = x.job => z.token # x.token,
         lease' \in {lease, Released(x)}
  PROVE  \A j \in Job : \/ lease'[j] = lease[j]
                        \/ /\ lease'[j] = NoLease
                           /\ \E y \in exec \ exec' : y.job = j /\ y.token = lease[j].token
                           /\ \A y \in exec' : y.job = j /\ y.step = "work" => y.token # lease[j].token
<1> SUFFICES ASSUME NEW j \in Job, lease'[j] # lease[j]
             PROVE  /\ lease'[j] = NoLease
                    /\ \E y \in exec \ exec' : y.job = j /\ y.token = lease[j].token
                    /\ \A y \in exec' : y.job = j /\ y.step = "work" => y.token # lease[j].token
  OBVIOUS
<1>1. lease' = [lease EXCEPT ![x.job] = NoLease] /\ lease[x.job].token = x.token
  BY DEF Released
<1>2. j = x.job /\ lease'[j] = NoLease
  BY <1>1, OwnersHaveTypes DEF TypeOK
<1> QED
  BY <1>1, <1>2

\* An admission gives each job of the batch a token nobody has had.
LEMMA AdmitOwns ==
  ASSUME Owners, Limits', NEW p \in Process, NEW k \in Kind, NEW S \in SUBSET Candidates(k),
         Admit(p, k, S), UNCHANGED <<contact, bounds>>
  PROVE  TokensAreOwn' /\ LeasesTellContact' /\ WorkIsLeased' /\ ReleasedByOwner
<1>0. /\ TypeOK /\ S \subseteq Job
      /\ \A x \in exec : x.job \in Job /\ x.token \in Nat \ {0}
      /\ \A j \in Job : row[j].claims \in Nat /\ lease[j] \in Leases
  BY OwnersHaveTypes DEF Candidates, FirstOfContact, Eligible
<1> DEFINE New(j) == [job |-> j, token |-> row[j].claims + 1, proc |-> p,
                      step |-> "work", orphan |-> FALSE]
<1>1. /\ exec' = exec \cup {New(j) : j \in S}
      /\ \A j \in S : New(j).job = j /\ New(j).token = row[j].claims + 1
  BY DEF Admit
<1>2. /\ \A j \in S : row'[j].claims = row[j].claims + 1
      /\ \A j \in Job \ S : row'[j].claims = row[j].claims
  BY <1>0 DEF Admit
<1>3. /\ \A j \in S : /\ lease'[j].token = row[j].claims + 1
                      /\ lease'[j].scope = Scope(j) /\ lease'[j].live = TRUE
      /\ \A j \in Job \ S : j \in Unexpired => lease'[j] = lease[j]
      /\ \A j \in Job \ S : j \notin Unexpired => lease'[j] = NoLease
  BY <1>0 DEF Admit
<1>4. \A j \in Job : lease[j].live => j \in Unexpired /\ j \notin S /\ lease[j].token # 0
  BY DEF Owners, LeasesTellContact, Unexpired, Held, Admit, Conflict
<1>5. NoLease.token = 0 /\ NoLease.live = FALSE
  BY DEF NoLease
<1>6. \A j \in Job : Scope(j)' = Scope(j)
  BY DEF Scope
<1>7. \A x \in exec : x.token \in 1 .. row[x.job].claims
  BY DEF Owners, TokensAreOwn
<1>8. \A x, y \in exec : x.job = y.job /\ x.token = y.token => x = y
  BY DEF Owners, TokensAreOwn
<1> HIDE DEF New
<1>9. \A x \in exec' : x \in exec \/ (x.job \in S /\ x = New(x.job))
  BY <1>1
<1>10. TokensAreOwn'
  <2>1. \A x \in exec' : x.token \in 1 .. row'[x.job].claims
    BY <1>0, <1>1, <1>2, <1>7, <1>9
  <2>2. \A x, y \in exec' : x.job = y.job /\ x.token = y.token => x = y
    <3> SUFFICES ASSUME NEW x \in exec', NEW y \in exec', x.job = y.job, x.token = y.token
                 PROVE  x = y
      OBVIOUS
    <3>1. CASE x \in exec /\ y \in exec
      BY <1>8, <3>1
    <3>2. \A z \in exec : z.token <= row[z.job].claims
      BY <1>0, <1>7
    <3>3. x \notin exec => x = New(x.job) /\ x.job \in S /\ x.token = row[x.job].claims + 1
      BY <1>1, <1>9
    <3>4. y \notin exec => y = New(y.job) /\ y.job \in S /\ y.token = row[y.job].claims + 1
      BY <1>1, <1>9
    <3>5. x \in exec <=> y \in exec
      BY <1>0, <3>2, <3>3, <3>4
    <3> QED
      BY <3>1, <3>3, <3>4, <3>5
  <2> QED
    BY <2>1, <2>2 DEF TokensAreOwn
<1>11. LeasesTellContact'
  <2> SUFFICES ASSUME NEW j \in Job
               PROVE  /\ lease'[j].live => lease'[j].token # 0
                      /\ lease'[j].token # 0 /\ contact'[j] # NoContact => lease'[j].scope = Scope(j)'
    BY DEF LeasesTellContact
  <2>1. CASE j \in S
    BY <1>0, <1>3, <1>6, <2>1
  <2>2. CASE j \notin S
    BY <1>3, <1>5, <1>6, <2>2 DEF Owners, LeasesTellContact
  <2> QED
    BY <2>1, <2>2
<1>12. WorkIsLeased'
  <2> SUFFICES ASSUME stalls = 0, NEW x \in exec', x.step = "work"
               PROVE  lease'[x.job].token = x.token /\ lease'[x.job].live
    BY DEF WorkIsLeased, HoldsLease, bounds
  <2>1. CASE x \in exec
    <3>1. lease[x.job].token = x.token /\ lease[x.job].live
      BY <2>1 DEF Owners, WorkIsLeased, HoldsLease
    <3> QED
      BY <1>0, <1>3, <1>4, <2>1, <3>1
  <2>2. CASE x.job \in S /\ x = New(x.job)
    BY <1>1, <1>3, <2>2
  <2> QED
    BY <1>9, <2>1, <2>2
<1>13. ReleasedByOwner
  BY <1>3, <1>4, <1>5 DEF ReleasedByOwner
<1> QED
  BY <1>10, <1>11, <1>12, <1>13

\* An admission goes through the tenants in the order of their last admission.
LEMMA AdmitRotates ==
  ASSUME Owners, Limits', NEW p \in Process, NEW k \in Kind, NEW skipped \in SUBSET Lockable,
         NEW S \in SUBSET Candidates(k), IsBatch(S, k, skipped), Admit(p, k, S)
  PROVE  RotationIsOrder' /\ RotationFollowed
<1> DEFINE F == FirstOfContact(k)
<1>0. /\ S \subseteq Job /\ F \subseteq Job /\ Candidates(k) \subseteq F
      /\ \A j \in S : KindOf[j] = k /\ j \in F
      /\ \A j \in Job : row[j].claims \in Nat
  BY OwnersHaveTypes DEF Candidates, FirstOfContact, Eligible
<1>1. RotationIsOrder'
  BY DEF Owners, RotationIsOrder, Admit, Admitted
<1>2. \A j \in Job : NewlyAdmitted(j) <=> j \in S
  BY <1>0 DEF NewlyAdmitted, Admit
<1>3. \A s, t \in Tenant : ~(<<s, t>> \in rotation /\ <<t, s>> \in rotation)
  BY DEF Owners, RotationIsOrder
<1>4. RotationFollowed
  <2> SUFFICES ASSUME NEW i \in S, NEW c \in Candidates(k) \ Lockable, Rank(c, F) = 1, c \notin S
               PROVE  <<TenantOf[c], TenantOf[i]>> \notin rotation
    BY <1>0, <1>2 DEF RotationFollowed
  <2>1. Before(i, c, F)
    BY DEF IsBatch
  <2>2. Rank(i, F) \in Nat \ {0}
    BY <1>0, RankIsNumbering DEF Owners, Limits
  <2>3. TenantOf[i] \in Tenant /\ TenantOf[c] \in Tenant
    BY <1>0, JobAssumption
  <2> HIDE DEF F
  <2>4. \/ <<TenantOf[i], TenantOf[c]>> \in rotation
        \/ <<TenantOf[c], TenantOf[i]>> \notin rotation
    BY <2>1, <2>2 DEF Before
  <2> QED
    BY <1>3, <2>3, <2>4
<1> QED
  BY <1>1, <1>4

LEMMA ClaimOwns ==
  ASSUME Owners, Limits', NEW p \in Process, NEW k \in Kind, NEW skipped \in SUBSET Lockable,
         Claim(p, k, skipped)
  PROVE  Owners' /\ ReleasedByOwner /\ RotationFollowed
<1>1. PICK S \in SUBSET Candidates(k) :
         IsBatch(S, k, skipped) /\ (Admit(p, k, S) \/ Abort(p, k, S))
  BY DEF Claim
<1>2. UNCHANGED <<contact, bounds>>
  BY DEF Claim
<1>3. CASE Admit(p, k, S)
  BY <1>1, <1>2, <1>3, AdmitOwns, AdmitRotates DEF Owners
<1>4. CASE Abort(p, k, S)
  <2>1. Continue
    BY <1>4, SomeEnd DEF Abort
  <2> QED
    BY <1>2, <1>4, <2>1, NothingClaimed DEF Abort, bounds
<1> QED
  BY <1>1, <1>3, <1>4

LEMMA ExecOwns ==
  ASSUME Owners, Limits', NEW x \in exec, ExecStep(x)
  PROVE  Owners' /\ ReleasedByOwner /\ RotationFollowed
<1>0. /\ TypeOK /\ x.job \in Job /\ row[x.job] \in Rows
      /\ \A y, z \in exec : y.job = z.job /\ y.token = z.token => y = z
  BY OwnersHaveTypes DEF Owners, TokensAreOwn
<1>1. CASE Renew(x)
  <2>1. Continue /\ lease' = lease
    BY <1>1, SomeEnd DEF Renew
  <2>2. \A j \in Job : row'[j].claims = row[j].claims
    BY <1>0, <1>1 DEF Renew, TypeOK, Rows
  <2> QED
    BY <1>1, <2>1, <2>2, NothingClaimed DEF Renew, bounds
<1>2. CASE Finish(x) \/ PutOff(x)
  <2>1. PICK status \in RowStatus : Commit(x, status)
    BY <1>2 DEF Finish, PutOff, RowStatus
  <2>2. Continue /\ lease' = lease
    BY <2>1, OneGoesOn DEF Commit
  <2>3. \A j \in Job : row'[j].claims = row[j].claims
    BY <1>0, <2>1 DEF Commit, TypeOK, Rows
  <2> QED
    BY <2>1, <2>2, <2>3, NothingClaimed DEF Commit
<1>3. CASE GiveUp(x)
  <2>1. Continue
    BY <1>3, OneGoesOn DEF GiveUp
  <2> QED
    BY <1>3, <2>1, NothingClaimed DEF GiveUp, bounds
<1>4. CASE Return(x)
  <2>1. Continue
    BY <1>4, SomeEnd DEF Return
  <2>2. \A z \in exec' : z.job = x.job => z.token # x.token
    BY <1>0, <1>4 DEF Return
  <2>3. \A j \in Job : \/ lease'[j] = lease[j]
                       \/ /\ lease'[j] = NoLease
                          /\ \E y \in exec \ exec' : y.job = j /\ y.token = lease[j].token
                          /\ \A y \in exec' : y.job = j /\ y.step = "work" => y.token # lease[j].token
    BY <1>4, <2>2, ReleasedOwn DEF Return
  <2> QED
    BY <1>4, <2>1, <2>3, NothingClaimed DEF Return, bounds
<1>5. CASE Reject(x)
  <2>1. Continue /\ \A z \in exec' : z.job = x.job => z.token # x.token
    BY <1>5, OrphansGoOn DEF Reject
  <2>2. \A j \in Job : \/ lease'[j] = lease[j]
                       \/ /\ lease'[j] = NoLease
                          /\ \E y \in exec \ exec' : y.job = j /\ y.token = lease[j].token
                          /\ \A y \in exec' : y.job = j /\ y.step = "work" => y.token # lease[j].token
    BY <1>5, <2>1, ReleasedOwn DEF Reject
  <2> QED
    BY <1>5, <2>1, <2>2, NothingClaimed DEF Reject
<1> QED
  BY <1>1, <1>2, <1>3, <1>4, <1>5 DEF ExecStep

LEMMA EnvironmentOwns ==
  ASSUME Owners, Limits',
         \/ \E p \in Process, k \in Kind : StartPass(p, k)
         \/ \E j \in Job : BecomeDue(j) \/ ExpireLease(j) \/ ExpireRow(j) \/ Fence(j)
         \/ \E p \in Process : Crash(p)
         \/ \E c \in Contact : DeleteContact(c)
         \/ UNCHANGED vars
  PROVE  Owners' /\ ReleasedByOwner /\ RotationFollowed
<1>0. TypeOK /\ \A j \in Job : row[j] \in Rows /\ lease[j] \in Leases
  BY OwnersHaveTypes
<1>1. ASSUME UNCHANGED <<lease, contact, rotation, stalls>>, exec' \subseteq exec,
             \A j \in Job : row'[j].claims = row[j].claims
      PROVE  Owners' /\ ReleasedByOwner /\ RotationFollowed
  BY <1>1, SomeEnd, NothingClaimed
<1>2. ASSUME NEW p \in Process, NEW k \in Kind, StartPass(p, k)
      PROVE  Owners' /\ ReleasedByOwner /\ RotationFollowed
  <2>1. \A j \in Job : row'[j].claims = row[j].claims
    BY <1>0, <1>2 DEF StartPass, TypeOK, Rows
  <2> QED
    BY <1>1, <1>2, <2>1 DEF StartPass, bounds
<1>3. ASSUME NEW j \in Job, BecomeDue(j) \/ Fence(j)
      PROVE  Owners' /\ ReleasedByOwner /\ RotationFollowed
  <2>1. CASE BecomeDue(j)
    BY <1>0, <1>1, <2>1 DEF BecomeDue, TypeOK, Rows, bounds
  <2>2. CASE Fence(j)
    <3>1. PICK s \in RowStatus :
             row' = [row EXCEPT ![j] = [@ EXCEPT !.status = s, !.token = 0, !.live = FALSE]]
      BY <2>2 DEF Fence, RowStatus
    <3>2. \A i \in Job : row'[i].claims = row[i].claims
      BY <1>0, <3>1 DEF TypeOK, Rows
    <3> QED
      BY <1>1, <2>2, <3>2 DEF Fence
  <2> QED
    BY <1>3, <2>1, <2>2
<1>4. ASSUME NEW j \in Job, ExpireRow(j)
      PROVE  Owners' /\ ReleasedByOwner /\ RotationFollowed
  <2>1. \A i \in Job : row'[i].claims = row[i].claims
    BY <1>0, <1>4 DEF ExpireRow, TypeOK, Rows
  <2>2. stalls' = 0 => stalls = 0
    BY <1>0, <1>4 DEF ExpireRow, CountStall, TypeOK
  <2>3. Continue
    BY <1>4, SomeEnd DEF ExpireRow
  <2> QED
    BY <1>4, <2>1, <2>2, <2>3, NothingClaimed DEF ExpireRow
<1>5. ASSUME NEW j \in Job, ExpireLease(j)
      PROVE  Owners' /\ ReleasedByOwner /\ RotationFollowed
  <2>1. \A i \in Job : row'[i].claims = row[i].claims
    BY <1>0, <1>5 DEF ExpireLease, TypeOK, Rows
  <2>2. stalls' = 0 => stalls = 0 /\ ~Alive(j, lease[j].token)
    BY <1>0, <1>5 DEF ExpireLease, CountStall, TypeOK
  <2>3. Continue
    BY <1>5, SomeEnd DEF ExpireLease
  <2>4. \A i \in Job : \/ lease'[i] = lease[i]
                       \/ /\ lease'[i] = [lease[i] EXCEPT !.live = FALSE]
                          /\ lease[i].live
                          /\ stalls' = 0 => ~Alive(i, lease[i].token)
    BY <1>0, <1>5, <2>2 DEF ExpireLease, TypeOK
  <2> QED
    BY <1>5, <2>1, <2>2, <2>3, <2>4, NothingClaimed DEF ExpireLease
<1>6. ASSUME NEW p \in Process, Crash(p)
      PROVE  Owners' /\ ReleasedByOwner /\ RotationFollowed
  BY <1>1, <1>6 DEF Crash
<1>7. ASSUME NEW c \in Contact, DeleteContact(c)
      PROVE  Owners' /\ ReleasedByOwner /\ RotationFollowed
  <2>1. Continue
    BY <1>7, SomeEnd DEF DeleteContact
  <2>2. \A j \in Job : contact'[j] = contact[j] \/ contact'[j] = NoContact
    BY <1>7 DEF DeleteContact
  <2> QED
    BY <1>7, <2>1, <2>2, NothingClaimed DEF DeleteContact, bounds
<1>8. CASE UNCHANGED vars
  BY <1>1, <1>8 DEF vars, bounds
<1> QED
  BY <1>2, <1>3, <1>4, <1>5, <1>6, <1>7, <1>8

LEMMA InitOwns == Init => Owners
<1> SUFFICES ASSUME Init
             PROVE  Owners
  OBVIOUS
<1>1. Limits
  BY InitLimits
<1>2. \A j \in Job : lease[j].token = 0 /\ lease[j].live = FALSE
  BY DEF Init, NoLease
<1>3. TokensAreOwn /\ WorkIsLeased /\ RotationIsOrder
  BY DEF Init, TokensAreOwn, WorkIsLeased, RotationIsOrder
<1>4. LeasesTellContact
  BY <1>2 DEF LeasesTellContact
<1> QED
  BY <1>1, <1>3, <1>4 DEF Owners

LEMMA StepOwns == Owners /\ [Next]_vars => Owners' /\ ReleasedByOwner /\ RotationFollowed
<1> SUFFICES ASSUME Owners, [Next]_vars
             PROVE  Owners' /\ ReleasedByOwner /\ RotationFollowed
  OBVIOUS
<1>1. Limits'
  BY StepLimits DEF Owners
<1>2. CASE \E p \in Process, k \in Kind, skipped \in SUBSET Lockable : Claim(p, k, skipped)
  BY <1>1, <1>2, ClaimOwns
<1>3. CASE \E x \in exec : ExecStep(x)
  BY <1>1, <1>3, ExecOwns
<1> QED
  BY <1>1, <1>2, <1>3, EnvironmentOwns DEF Next

LEMMA OwnersHold == Spec => []Owners
  BY InitOwns, StepOwns, PTL DEF Spec

\* While no lease expires under a live execution, two executions that can still commit
\* never work for the same contact: each holds the lease of its job, the lease of a job
\* that has a contact owns that contact, and a contact is owned once.
THEOREM ContactSerializedHolds == Spec => []ContactSerialized
<1>1. Owners => ContactSerialized
  <2> SUFFICES ASSUME Owners, stalls = 0, NEW x \in exec, NEW y \in exec,
                      MayCommit(x), MayCommit(y), contact[x.job] # NoContact,
                      TenantOf[x.job] = TenantOf[y.job], contact[x.job] = contact[y.job]
               PROVE  x = y
    BY DEF ContactSerialized
  <2>1. x.job \in Job /\ y.job \in Job /\ x.token # 0 /\ y.token # 0
    BY OwnersHaveTypes
  <2>2. lease[x.job].token = x.token /\ lease[y.job].token = y.token
    BY DEF Owners, WorkIsLeased, HoldsLease, MayCommit
  <2>3. lease[x.job].scope = Scope(x.job) /\ lease[y.job].scope = Scope(y.job)
    BY <2>1, <2>2 DEF Owners, LeasesTellContact
  <2>4. Scope(x.job) = Scope(y.job)
    BY DEF Scope
  <2>5. x.job = y.job
    BY <2>1, <2>2, <2>3, <2>4 DEF Owners, Limits, OneLeasePerScope, Held
  <2> QED
    BY <2>2, <2>5 DEF Owners, TokensAreOwn
<1> QED
  BY OwnersHold, <1>1, PTL

\* An unexpired lease is deleted only by the execution it was created for.
THEOREM OnlyOwnerReleasesHolds == Spec => OnlyOwnerReleases
<1>1. Owners /\ [Next]_vars => ReleasedByOwner
  BY StepOwns
<1> QED
  BY OwnersHold, <1>1, PTL DEF Spec, OnlyOwnerReleases, ReleasedByOwner

\* A claim takes the tenants in the order of their last admission, for every queue,
\* every budget and every set of rows that other transactions may hold.
THEOREM LeastRecentTenantsFirstHolds == Spec => LeastRecentTenantsFirst
<1>1. Owners /\ [Next]_vars => RotationFollowed
  BY StepOwns
<1> QED
  BY OwnersHold, <1>1, PTL DEF Spec, LeastRecentTenantsFirst, RotationFollowed
=============================================================================
