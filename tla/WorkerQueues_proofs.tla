--------------------------- MODULE WorkerQueues_proofs ---------------------------
(***************************************************************************)
(* What two queues of background work promise although their results are  *)
(* written by id alone: the bulk enrollment and the outbox.                *)
(*                                                                         *)
(* A bulk enrollment enrolls every contact at most once and completes only *)
(* when every contact has an answer, for any number of batches, contacts,  *)
(* instances, faults and requests to start it, as long as no instance      *)
(* outlives its lock: a batch has one instance at a time although nothing  *)
(* but the age of the lock says so, and answers are not taken back.        *)
(*                                                                         *)
(* What the rows of the outbox say is true, for any number of effects and  *)
(* overlapping executions, also of those that outlive their lease.         *)
(***************************************************************************)
EXTENDS AutomationProcess, SideEffects, FiniteSetTheorems, WellFoundedInduction, TLAPS

-----------------------------------------------------------------------------
(* The bulk enrollment: its inductive invariant *)

\* The types of what the argument reads.
Typed ==
  /\ status \in Statuses
  /\ uploaded \in 0 .. NBatches /\ starting \in Nat /\ stalls \in Nat
  /\ batch \in [Batches -> BatchRows]
  /\ item \in [Items -> ItemStates]
  /\ logged \in [Items -> Nat]
  /\ calls \in [Workers -> Calls]

Busy(w) == ~At(w, "IDLE")

\* Once a request has read that the upload is complete, it stays so.
UploadComplete ==
  starting > 0 \/ status \notin {"PREPARING", "FAILED"} \/ (\E w \in Workers : Busy(w))
     => uploaded = NBatches

\* An instance at work has its batch to itself: locked until it is completed, completed
\* while the totals are counted.
Fits(row, stage) ==
  /\ stage \in {"CLAIMED", "ENROLLING"} => row.status = "PROCESSING" /\ row.locked
  /\ stage = "COUNTING" => row.status \in Completed
BatchesOwned ==
  /\ \A w \in Workers : Fits(batch[calls[w].batch], calls[w].stage)
  /\ \A v, w \in Workers : v # w /\ Busy(v) /\ Busy(w) => calls[v].batch # calls[w].batch

\* What it has still to try belongs to the batch and has no answer.
Untried ==
  \A w \in Workers : At(w, "ENROLLING") =>
     \A i \in calls[w].todo : i \in Of(calls[w].batch) /\ item[i] = "PENDING"

LoggedOnce == \A i \in Items : logged[i] <= 1 /\ (item[i] = "PENDING" => logged[i] = 0)

\* Answers are not taken back, so what was counted is still there.
CountsStand ==
  \A w \in Workers : /\ calls[w].seen.succeeded <= CountItems("SUCCEEDED")
                     /\ calls[w].seen.failed <= CountItems("FAILED")

AllAnswered ==
  status \in Completed =>
    /\ \A i \in Items : item[i] # "PENDING"
    /\ status = "COMPLETED" => \A i \in Items : item[i] = "SUCCEEDED"

Orderly == BatchesOwned /\ Untried /\ LoggedOnce /\ CountsStand /\ AllAnswered
ProcessInv == Typed /\ UploadComplete /\ (stalls = 0 => Orderly)

-----------------------------------------------------------------------------
(* Batches, contacts and counts *)

LEMMA ItemsFinite ==
  /\ IsFiniteSet(Items) /\ Cardinality(Items) = NBatches * BatchSize
  /\ \A S \in SUBSET Items : IsFiniteSet(S) /\ Cardinality(S) \in Nat
<1>1. NBatches \in Nat /\ BatchSize \in Nat /\ NBatches >= 1 /\ BatchSize >= 1
  BY ProcessAssumption
<1>2. IsFiniteSet(1 .. NBatches) /\ Cardinality(1 .. NBatches) = NBatches
  BY <1>1, FS_Interval
<1>3. IsFiniteSet(1 .. BatchSize) /\ Cardinality(1 .. BatchSize) = BatchSize
  BY <1>1, FS_Interval
<1>4. IsFiniteSet(Items) /\ Cardinality(Items) = NBatches * BatchSize
  <2>1. Items = (1 .. NBatches) \X (1 .. BatchSize)
    BY DEF Items, Batches
  <2> DEFINE S == 1 .. NBatches
             T == 1 .. BatchSize
  <2> HIDE DEF S, T
  <2>2. IsFiniteSet(S \X T) /\ Cardinality(S \X T) = Cardinality(S) * Cardinality(T)
    BY <1>2, <1>3, FS_Product, Zenon DEF S, T
  <2> QED
    BY <1>2, <1>3, <2>1, <2>2 DEF S, T
<1>5. ASSUME NEW S \in SUBSET Items
      PROVE  IsFiniteSet(S) /\ Cardinality(S) \in Nat
  BY <1>4, FS_Subset, FS_CardinalityType
<1> QED
  BY <1>4, <1>5

LEMMA CountsType ==
  \A st \in ItemStates : CountItems(st) \in Nat
  BY ItemsFinite DEF CountItems

\* The claim takes one of the pending batches.
LEMMA OldestPending ==
  ASSUME Typed, Pending # {}
  PROVE  Min(Pending) \in Pending /\ Pending \subseteq Batches
<1> DEFINE R == OpToRel(<, Nat)
<1>1. Pending \subseteq Nat /\ Pending \subseteq Batches
  BY ProcessAssumption DEF Typed, Pending, Batches
<1>2. \E x \in Pending : \A y \in Pending : ~(<<y, x>> \in R)
  <2> HIDE DEF R
  <2>1. IsWellFoundedOn(R, Nat)
    BY NatLessThanWellFounded DEF R
  <2> QED
    BY <1>1, <2>1, WFMin
<1>3. PICK x \in Pending : \A y \in Pending : ~(y < x)
  BY <1>1, <1>2 DEF OpToRel
<1>4. \A y \in Pending : x <= y
  BY <1>1, <1>3
<1>5. Min(Pending) \in Pending
  BY <1>4, Zenon DEF Min
<1> QED
  BY <1>1, <1>5

\* Contacts only get answers.
Answering ==
  /\ item' \in [Items -> ItemStates]
  /\ \A i \in Items : item'[i] = item[i] \/ item[i] = "PENDING"

LEMMA CountsGrow ==
  ASSUME Answering
  PROVE  \A st \in {"SUCCEEDED", "FAILED"} : CountItems(st) <= CountItems(st)'
<1> SUFFICES ASSUME NEW st \in {"SUCCEEDED", "FAILED"}
             PROVE  CountItems(st) <= CountItems(st)'
  OBVIOUS
<1>1. {i \in Items : item[i] = st} \subseteq {i \in Items : item'[i] = st}
  BY DEF Answering
<1>2. {i \in Items : item'[i] = st} \in SUBSET Items
  OBVIOUS
<1> QED
  BY <1>1, <1>2, ItemsFinite, FS_Subset DEF CountItems

\* As many answers as there are contacts.
LEMMA AllCounted ==
  ASSUME Typed
  PROVE  /\ CountItems("SUCCEEDED") + CountItems("FAILED") >= NBatches * BatchSize
              => \A i \in Items : item[i] # "PENDING"
         /\ CountItems("SUCCEEDED") >= NBatches * BatchSize
              => \A i \in Items : item[i] = "SUCCEEDED"
<1> DEFINE S == {i \in Items : item[i] = "SUCCEEDED"}
           F == {i \in Items : item[i] = "FAILED"}
           n == NBatches * BatchSize
<1>1. /\ IsFiniteSet(Items) /\ Cardinality(Items) = n /\ n \in Nat
      /\ IsFiniteSet(S) /\ IsFiniteSet(F) /\ IsFiniteSet(S \cup F)
      /\ Cardinality(S) \in Nat /\ Cardinality(F) \in Nat /\ Cardinality(S \cup F) \in Nat
  <2>1. S \in SUBSET Items /\ F \in SUBSET Items /\ S \cup F \in SUBSET Items
    OBVIOUS
  <2> HIDE DEF S, F, n
  <2>2. IsFiniteSet(Items) /\ Cardinality(Items) = n
    BY ItemsFinite DEF n
  <2>3. n \in Nat
    BY <2>2, FS_CardinalityType
  <2> QED
    BY <2>1, <2>2, <2>3, ItemsFinite
<1>2. Cardinality(S \cup F) = Cardinality(S) + Cardinality(F)
  <2>1. S \cap F = {}
    OBVIOUS
  <2> HIDE DEF S, F
  <2>2. Cardinality(S \cap F) = 0
    BY <2>1, FS_EmptySet
  <2>3. Cardinality(S \cup F) = Cardinality(S) + Cardinality(F) - Cardinality(S \cap F)
    BY <1>1, FS_Union
  <2> QED
    BY <1>1, <2>2, <2>3
<1>3. CountItems("SUCCEEDED") = Cardinality(S) /\ CountItems("FAILED") = Cardinality(F)
  BY DEF CountItems
<1>4. ASSUME NEW T \in SUBSET Items, Cardinality(T) >= n, Cardinality(T) \in Nat
      PROVE  T = Items
  <2>1. Cardinality(T) <= n
    BY <1>1, FS_Subset
  <2>2. Cardinality(T) = Cardinality(Items)
    BY <1>1, <1>4, <2>1
  <2> QED
    BY <1>1, <2>2, FS_Subset
<1>5. S \cup F \in SUBSET Items /\ S \in SUBSET Items
  OBVIOUS
<1>6. ASSUME CountItems("SUCCEEDED") + CountItems("FAILED") >= n
      PROVE  \A i \in Items : item[i] # "PENDING"
  <2>1. S \cup F = Items
    <3> HIDE DEF S, F, n
    <3> QED
      BY <1>1, <1>2, <1>3, <1>4, <1>5, <1>6
  <2> QED
    BY <2>1
<1>7. ASSUME CountItems("SUCCEEDED") >= n
      PROVE  \A i \in Items : item[i] = "SUCCEEDED"
  <2>1. S = Items
    <3> HIDE DEF S, F, n
    <3> QED
      BY <1>1, <1>3, <1>4, <1>5, <1>7
  <2> QED
    BY <2>1
<1> QED
  BY <1>6, <1>7

-----------------------------------------------------------------------------
(* What the steps have in common *)

LEMMA CallType ==
  ASSUME Typed, NEW w \in Workers
  PROVE  /\ calls[w] \in Calls /\ calls[w].stage \in Stages /\ calls[w].batch \in Batches
         /\ calls[w].attempt \in Nat /\ calls[w].todo \in SUBSET Items
         /\ calls[w].seen \in Totals /\ calls[w].uncounted \in SUBSET Fields
  BY DEF Typed, Calls

LEMMA IdleType ==
  /\ Zero \in Totals /\ Zero.succeeded = 0 /\ Zero.failed = 0
  /\ Idle \in Calls /\ Idle.stage = "IDLE" /\ Idle.seen = Zero
<1>1. Zero \in Totals /\ Zero.succeeded = 0 /\ Zero.failed = 0
  BY DEF Zero, Totals, Fields
<1>2. 1 \in Batches
  BY ProcessAssumption DEF Batches
<1> QED
  BY <1>1, <1>2 DEF Idle, Calls, Stages

\* The routes, and the contacts that staff delete.
LEMMA BesideStep ==
  ASSUME ProcessInv, UNCHANGED <<batch, item, logged, calls, stalls>>,
         status' \in Statuses, status' = status \/ status' \notin Completed,
         uploaded' \in 0 .. NBatches, starting' \in Nat, UploadComplete'
  PROVE  ProcessInv'
<1>1. Typed'
  BY DEF ProcessInv, Typed
<1>2. ASSUME Orderly PROVE Orderly'
  <2>1. BatchesOwned'
    BY <1>2 DEF Orderly, BatchesOwned, Busy, At
  <2>2. Untried'
    BY <1>2 DEF Orderly, Untried, At
  <2>3. LoggedOnce'
    BY <1>2 DEF Orderly, LoggedOnce
  <2>4. CountsStand'
    BY <1>2 DEF Orderly, CountsStand, CountItems
  <2>5. AllAnswered'
    BY <1>2 DEF Orderly, AllAnswered
  <2> QED
    BY <2>1, <2>2, <2>3, <2>4, <2>5 DEF Orderly
<1> QED
  BY <1>1, <1>2 DEF ProcessInv

\* Locks that grow old and their recovery: nobody is at work on the batch.
LEMMA BatchStep ==
  ASSUME ProcessInv, NEW b \in Batches, NEW row \in BatchRows, batch' = [batch EXCEPT ![b] = row],
         UNCHANGED <<status, uploaded, starting, item, logged, calls>>, stalls' \in Nat,
         stalls' = 0 => stalls = 0 /\ \A w \in Workers : Busy(w) => calls[w].batch # b
  PROVE  ProcessInv'
<1>1. Typed' /\ UploadComplete'
  BY DEF ProcessInv, Typed, UploadComplete, Busy, At
<1>2. ASSUME Orderly, \A w \in Workers : Busy(w) => calls[w].batch # b
      PROVE  Orderly'
  <2>1. ASSUME NEW w \in Workers
        PROVE  Fits(batch'[calls'[w].batch], calls'[w].stage)
    <3>1. CASE Busy(w)
      <4>1. batch'[calls[w].batch] = batch[calls[w].batch]
        BY <1>2, <3>1 DEF ProcessInv, Typed
      <4> QED
        BY <1>2, <4>1 DEF Orderly, BatchesOwned
    <3>2. CASE ~Busy(w)
      BY <3>2 DEF Busy, At, Fits
    <3> QED
      BY <3>1, <3>2
  <2>2. BatchesOwned'
    BY <1>2, <2>1 DEF Orderly, BatchesOwned, Busy, At
  <2>3. Untried'
    BY <1>2 DEF Orderly, Untried, At
  <2>4. LoggedOnce' /\ AllAnswered'
    BY <1>2 DEF Orderly, LoggedOnce, AllAnswered
  <2>5. CountsStand'
    BY <1>2 DEF Orderly, CountsStand, CountItems
  <2> QED
    BY <2>2, <2>3, <2>4, <2>5 DEF Orderly
<1> QED
  BY <1>1, <1>2 DEF ProcessInv

\* A step of instance w, which is in the state c afterwards.
LEMMA CallStep ==
  ASSUME Typed, Orderly, NEW w \in Workers, NEW c, calls' = [calls EXCEPT ![w] = c], Answering,
         \A i \in Items : item'[i] # item[i] => Busy(w) /\ i \in Of(calls[w].batch),
         \A v \in Workers : v # w /\ Busy(v) => batch'[calls[v].batch] = batch[calls[v].batch],
         Fits(batch'[c.batch], c.stage),
         c.stage # "IDLE" => \A v \in Workers : v # w /\ Busy(v) => calls[v].batch # c.batch,
         c.stage = "ENROLLING" => \A i \in c.todo : i \in Of(c.batch) /\ item'[i] = "PENDING",
         c.seen.succeeded <= CountItems("SUCCEEDED"), c.seen.succeeded \in Nat,
         c.seen.failed <= CountItems("FAILED"), c.seen.failed \in Nat
  PROVE  BatchesOwned' /\ Untried' /\ CountsStand'
<1>1. calls'[w] = c /\ \A v \in Workers : v # w => calls'[v] = calls[v]
  BY DEF Typed
<1>2. BatchesOwned'
  <2>1. ASSUME NEW v \in Workers
        PROVE  Fits(batch'[calls'[v].batch], calls'[v].stage)
    <3>1. CASE v = w
      BY <1>1, <3>1
    <3>2. CASE v # w /\ Busy(v)
      BY <1>1, <3>2 DEF Orderly, BatchesOwned
    <3>3. CASE v # w /\ ~Busy(v)
      BY <1>1, <3>3 DEF Fits, Busy, At
    <3> QED
      BY <3>1, <3>2, <3>3
  <2>2. ASSUME NEW u \in Workers, NEW v \in Workers, u # v, calls'[u].stage # "IDLE",
               calls'[v].stage # "IDLE"
        PROVE  calls'[u].batch # calls'[v].batch
    <3>1. CASE u # w /\ v # w
      BY <1>1, <2>2, <3>1 DEF Orderly, BatchesOwned, Busy, At
    <3>2. CASE u = w \/ v = w
      BY <1>1, <2>2, <3>2 DEF Busy, At
    <3> QED
      BY <3>1, <3>2
  <2> QED
    BY <2>1, <2>2 DEF BatchesOwned, Busy, At
<1>3. Untried'
  <2> SUFFICES ASSUME NEW v \in Workers, calls'[v].stage = "ENROLLING", NEW i \in calls'[v].todo
               PROVE  i \in Of(calls'[v].batch) /\ item'[i] = "PENDING"
    BY DEF Untried, At, Of
  <2>1. CASE v = w
    BY <1>1, <2>1
  <2>2. CASE v # w
    <3>1. calls'[v] = calls[v] /\ At(v, "ENROLLING") /\ Busy(v)
      BY <1>1, <2>2 DEF At, Busy
    <3>2. i \in Of(calls[v].batch) /\ item[i] = "PENDING"
      BY <3>1 DEF Orderly, Untried
    <3>3. Busy(w) => i \notin Of(calls[w].batch)
      BY <2>2, <3>1, <3>2 DEF Orderly, BatchesOwned, Of
    <3>4. i \in Items
      BY <3>2 DEF Of
    <3> QED
      BY <3>1, <3>2, <3>3, <3>4
  <2> QED
    BY <2>1, <2>2
<1>4. CountsStand'
  <2>1. \A st \in {"SUCCEEDED", "FAILED"} : CountItems(st) <= CountItems(st)'
    BY CountsGrow
  <2>2. \A st \in {"SUCCEEDED", "FAILED"} : CountItems(st) \in Nat /\ CountItems(st)' \in Nat
    BY ItemsFinite DEF CountItems
  <2>3. ASSUME NEW v \in Workers
        PROVE  /\ calls'[v].seen.succeeded <= CountItems("SUCCEEDED")'
               /\ calls'[v].seen.failed <= CountItems("FAILED")'
    <3>1. /\ calls'[v].seen.succeeded \in Nat /\ calls'[v].seen.failed \in Nat
          /\ calls'[v].seen.succeeded <= CountItems("SUCCEEDED")
          /\ calls'[v].seen.failed <= CountItems("FAILED")
      <4>1. CASE v = w
        BY <1>1, <4>1
      <4>2. CASE v # w
        <5>1. calls[v].seen \in Totals
          BY CallType
        <5>2. calls[v].seen.succeeded \in Nat /\ calls[v].seen.failed \in Nat
          BY <5>1 DEF Totals, Fields
        <5> QED
          BY <1>1, <4>2, <5>2 DEF Orderly, CountsStand
      <4> QED
        BY <4>1, <4>2
    <3> QED
      BY <2>1, <2>2, <3>1
  <2> QED
    BY <2>3 DEF CountsStand
<1> QED
  BY <1>2, <1>3, <1>4

LEMMA CallInv ==
  ASSUME ProcessInv, NEW w \in Workers, NEW c \in Calls, calls' = [calls EXCEPT ![w] = c],
         UNCHANGED <<uploaded, starting, stalls>>, uploaded = NBatches, status' \in Statuses,
         batch' \in [Batches -> BatchRows], item' \in [Items -> ItemStates],
         logged' \in [Items -> Nat],
         Orderly => Orderly'
  PROVE  ProcessInv'
<1>1. Typed'
  BY DEF ProcessInv, Typed
<1>2. UploadComplete'
  BY DEF UploadComplete
<1> QED
  BY <1>1, <1>2 DEF ProcessInv

LEMMA AnswersKept ==
  ASSUME Orderly, Answering
  PROVE  /\ logged' = logged => LoggedOnce'
         /\ status' = status \/ status' \notin Completed => AllAnswered'
<1>1. ASSUME logged' = logged PROVE LoggedOnce'
  BY <1>1 DEF Orderly, LoggedOnce, Answering
<1>2. ASSUME status' = status \/ status' \notin Completed PROVE AllAnswered'
  <2>1. Completed \cap {"PENDING"} = {}
    BY DEF Completed
  <2> QED
    BY <1>2 DEF Orderly, AllAnswered, Answering
<1> QED
  BY <1>1, <1>2

-----------------------------------------------------------------------------
(* The steps of an instance *)

\* A batch that is pending has nobody at work.
LEMMA ClaimStep ==
  ASSUME ProcessInv, NEW w \in Workers, Claim(w)
  PROVE  ProcessInv'
<1> DEFINE b == Min(Pending)
           row == [status |-> "PROCESSING", locked |-> TRUE, attempts |-> batch[b].attempts + 1]
           c == [Idle EXCEPT !.stage = "CLAIMED", !.batch = b, !.attempt = batch[b].attempts + 1]
<1>0. Typed
  BY DEF ProcessInv
<1>1. b \in Batches /\ b \in Pending /\ batch[b].status = "PENDING"
  BY <1>0, OldestPending DEF Claim, Pending
<1>2. batch[b].attempts + 1 \in Nat /\ row \in BatchRows
  BY <1>0, <1>1 DEF Typed, BatchRows, BatchStates
<1>3. /\ c \in Calls /\ c.stage = "CLAIMED" /\ c.batch = b /\ c.seen = Zero
  BY <1>1, <1>2, IdleType DEF Calls, Stages
<1>4. /\ batch' = [batch EXCEPT ![b] = row] /\ calls' = [calls EXCEPT ![w] = c]
      /\ UNCHANGED <<status, uploaded, starting, item, logged, stalls>> /\ ~Busy(w)
      /\ status \in {"QUEUED", "RUNNING"}
  BY DEF Claim, routes, bounds, Busy
<1>5. row.status = "PROCESSING" /\ row.locked
  OBVIOUS
<1> HIDE DEF b, row, c
<1>6. ASSUME Orderly PROVE Orderly'
  <2>1. \A v \in Workers : Busy(v) => calls[v].batch # b
    <3> SUFFICES ASSUME NEW v \in Workers, Busy(v), calls[v].batch = b PROVE FALSE
      OBVIOUS
    <3>1. calls[v].stage \in {"CLAIMED", "ENROLLING", "COUNTING"}
      BY <1>0, CallType DEF Busy, At, Stages
    <3> QED
      BY <1>1, <1>6, <3>1 DEF Orderly, BatchesOwned, Fits, Completed
  <2>2. Answering
    BY <1>0, <1>4 DEF Answering, Typed
  <2>3. batch'[b] = row /\ \A v \in Workers : Busy(v) => batch'[calls[v].batch] = batch[calls[v].batch]
    BY <1>0, <1>1, <1>4, <2>1 DEF Typed
  <2>4. Fits(batch'[c.batch], c.stage)
    BY <1>3, <1>5, <2>3 DEF Fits
  <2>5. /\ c.seen.succeeded <= CountItems("SUCCEEDED") /\ c.seen.succeeded \in Nat
        /\ c.seen.failed <= CountItems("FAILED") /\ c.seen.failed \in Nat
    <3>1. CountItems("SUCCEEDED") \in Nat /\ CountItems("FAILED") \in Nat
      BY CountsType DEF ItemStates
    <3>2. c.seen.succeeded = 0 /\ c.seen.failed = 0
      BY <1>3, IdleType
    <3> QED
      BY <3>1, <3>2
  <2>6. BatchesOwned' /\ Untried' /\ CountsStand'
    <3>1. \A i \in Items : item'[i] = item[i]
      BY <1>4
    <3>2. c.stage # "ENROLLING" /\ \A v \in Workers : Busy(v) => calls[v].batch # c.batch
      BY <1>3, <2>1
    <3> QED
      BY <1>0, <1>4, <1>6, <2>2, <2>3, <2>4, <2>5, <3>1, <3>2, CallStep
  <2>7. LoggedOnce' /\ AllAnswered'
    BY <1>4, <1>6, <2>2, AnswersKept
  <2> QED
    BY <2>6, <2>7 DEF Orderly
<1>7. uploaded = NBatches
  BY <1>4 DEF ProcessInv, UploadComplete
<1>8. batch' \in [Batches -> BatchRows] /\ status' \in Statuses /\ item' \in [Items -> ItemStates]
      /\ logged' \in [Items -> Nat]
  BY <1>0, <1>1, <1>2, <1>4 DEF Typed
<1> QED
  BY <1>3, <1>4, <1>6, <1>7, <1>8, CallInv

\* A step that leaves the batches alone and goes on with the same one, or ends.
LEMMA GoOn ==
  ASSUME ProcessInv, NEW w \in Workers, Busy(w), NEW c \in Calls, calls' = [calls EXCEPT ![w] = c],
         UNCHANGED <<uploaded, starting, stalls, batch>>, status' \in Statuses,
         item' \in [Items -> ItemStates], logged' \in [Items -> Nat],
         c.stage # "IDLE" => c.batch = calls[w].batch,
         Orderly =>
           /\ Answering /\ LoggedOnce' /\ AllAnswered'
           /\ \A i \in Items : item'[i] # item[i] => i \in Of(calls[w].batch)
           /\ Fits(batch[c.batch], c.stage)
           /\ c.stage = "ENROLLING" => \A i \in c.todo : i \in Of(c.batch) /\ item'[i] = "PENDING"
           /\ c.seen.succeeded <= CountItems("SUCCEEDED") /\ c.seen.failed <= CountItems("FAILED")
  PROVE  ProcessInv'
<1>0. Typed
  BY DEF ProcessInv
<1>1. ASSUME Orderly PROVE Orderly'
  <2>1. c.seen \in Totals
    BY DEF Calls
  <2>2. c.seen.succeeded \in Nat /\ c.seen.failed \in Nat
    BY <2>1 DEF Totals, Fields
  <2>3. c.stage # "IDLE" => \A v \in Workers : v # w /\ Busy(v) => calls[v].batch # c.batch
    BY <1>1 DEF Orderly, BatchesOwned
  <2>4. BatchesOwned' /\ Untried' /\ CountsStand'
    BY <1>0, <1>1, <2>2, <2>3, CallStep
  <2> QED
    BY <1>1, <2>4 DEF Orderly
<1>2. uploaded = NBatches /\ batch' \in [Batches -> BatchRows]
  BY DEF ProcessInv, Typed, UploadComplete
<1> QED
  BY <1>1, <1>2, CallInv

LEMMA CrashStep ==
  ASSUME ProcessInv, NEW w \in Workers, Crash(w)
  PROVE  ProcessInv'
<1>1. /\ calls' = [calls EXCEPT ![w] = Idle] /\ Busy(w)
      /\ UNCHANGED <<status, uploaded, starting, stalls, batch, item, logged>>
  BY DEF Crash, routes, Busy
<1>2. status' \in Statuses /\ item' \in [Items -> ItemStates] /\ logged' \in [Items -> Nat]
  BY <1>1 DEF ProcessInv, Typed
<1>3. Answering
  BY <1>1, <1>2 DEF Answering
<1>4. Fits(batch[Idle.batch], Idle.stage)
  BY IdleType DEF Fits
<1>5. 0 <= CountItems("SUCCEEDED") /\ 0 <= CountItems("FAILED")
  BY CountsType DEF ItemStates
<1> QED
  BY <1>1, <1>2, <1>3, <1>4, <1>5, IdleType, AnswersKept, GoOn

LEMMA LoadStep ==
  ASSUME ProcessInv, NEW w \in Workers, Load(w)
  PROVE  ProcessInv'
<1> DEFINE todo == ToEnroll(calls[w].batch)
           c == [calls[w] EXCEPT !.stage = "ENROLLING", !.todo = todo]
<1>0. Typed
  BY DEF ProcessInv
<1>1. /\ calls' = [calls EXCEPT ![w] = c] /\ Busy(w) /\ calls[w].stage = "CLAIMED"
      /\ UNCHANGED <<uploaded, starting, stalls, batch, item, logged>>
      /\ status' = IF status = "QUEUED" THEN "RUNNING" ELSE status
  BY <1>0 DEF Load, routes, bounds, Busy, At, Typed
<1>2. todo \in SUBSET Items
  BY DEF ToEnroll, Of
<1>3. /\ c \in Calls /\ c.stage = "ENROLLING" /\ c.batch = calls[w].batch /\ c.todo = todo
      /\ c.seen = calls[w].seen
  BY <1>0, <1>2, CallType DEF Calls, Stages
<1> HIDE DEF c
<1>4. status' \in Statuses /\ item' \in [Items -> ItemStates] /\ logged' \in [Items -> Nat]
      /\ (status' = status \/ status' \notin Completed)
  BY <1>0, <1>1 DEF Typed, Statuses, Completed
<1>5. Answering
  BY <1>1, <1>4 DEF Answering
<1>6. \A i \in todo : i \in Of(c.batch) /\ item'[i] = "PENDING"
  BY <1>1, <1>3 DEF ToEnroll
<1> HIDE DEF todo
<1>7. ASSUME Orderly
      PROVE  /\ LoggedOnce' /\ AllAnswered'
             /\ Fits(batch[c.batch], c.stage)
             /\ c.seen.succeeded <= CountItems("SUCCEEDED") /\ c.seen.failed <= CountItems("FAILED")
  <2>1. LoggedOnce' /\ AllAnswered'
    BY <1>1, <1>4, <1>5, <1>7, AnswersKept
  <2>2. Fits(batch[c.batch], c.stage)
    BY <1>1, <1>3, <1>7 DEF Orderly, BatchesOwned, Fits
  <2> QED
    BY <1>3, <1>7, <2>1, <2>2 DEF Orderly, CountsStand
<1> QED
  BY <1>1, <1>3, <1>4, <1>5, <1>6, <1>7, GoOn

\* One contact is tried: it gets the answer st, and n more enrollments are logged.
LEMMA TryStep ==
  ASSUME ProcessInv, NEW w \in Workers, At(w, "ENROLLING"), NEW i \in calls[w].todo,
         NEW st \in {"SUCCEEDED", "FAILED"}, NEW n \in {0, 1},
         item' = [item EXCEPT ![i] = st],
         logged' = [logged EXCEPT ![i] = logged[i] + n],
         calls' = [calls EXCEPT ![w].todo = @ \ {i}],
         UNCHANGED <<status, uploaded, starting, stalls, batch>>
  PROVE  ProcessInv'
<1> DEFINE c == [calls[w] EXCEPT !.todo = calls[w].todo \ {i}]
<1>0. Typed
  BY DEF ProcessInv
<1>1. Busy(w) /\ calls' = [calls EXCEPT ![w] = c] /\ calls[w].stage = "ENROLLING" /\ i \in Items
  BY <1>0, CallType DEF Busy, At, Typed
<1>2. /\ c \in Calls /\ c.stage = "ENROLLING" /\ c.batch = calls[w].batch
      /\ c.todo = calls[w].todo \ {i} /\ c.seen = calls[w].seen
  BY <1>0, <1>1, CallType DEF Calls
<1> HIDE DEF c
<1>3. /\ status' \in Statuses /\ item' \in [Items -> ItemStates] /\ logged' \in [Items -> Nat]
      /\ item'[i] = st /\ logged'[i] = logged[i] + n
      /\ \A j \in Items : j # i => item'[j] = item[j] /\ logged'[j] = logged[j]
  BY <1>0, <1>1 DEF Typed, ItemStates
<1>4. ASSUME Orderly
      PROVE  /\ Answering /\ LoggedOnce' /\ AllAnswered'
             /\ \A j \in Items : item'[j] # item[j] => j \in Of(calls[w].batch)
             /\ Fits(batch[c.batch], c.stage)
             /\ \A j \in c.todo : j \in Of(c.batch) /\ item'[j] = "PENDING"
             /\ c.seen.succeeded <= CountItems("SUCCEEDED") /\ c.seen.failed <= CountItems("FAILED")
  <2>1. \A j \in calls[w].todo : j \in Of(calls[w].batch) /\ item[j] = "PENDING"
    BY <1>4 DEF Orderly, Untried
  <2>2. Answering
    BY <1>3, <2>1 DEF Answering
  <2>3. LoggedOnce'
    <3>1. logged[i] \in Nat /\ logged[i] = 0
      BY <1>0, <1>1, <1>4, <2>1 DEF Typed, Orderly, LoggedOnce
    <3>2. logged'[i] <= 1 /\ item'[i] # "PENDING"
      BY <1>3, <3>1
    <3> QED
      BY <1>3, <1>4, <3>2 DEF Orderly, LoggedOnce
  <2>4. AllAnswered'
    BY <1>4, <2>2, AnswersKept
  <2>5. Fits(batch[c.batch], c.stage)
    BY <1>1, <1>2, <1>4 DEF Orderly, BatchesOwned, Fits
  <2>6. \A j \in c.todo : j \in Of(c.batch) /\ item'[j] = "PENDING"
    BY <1>2, <1>3, <2>1 DEF Of
  <2> QED
    BY <1>2, <1>3, <1>4, <2>1, <2>2, <2>3, <2>4, <2>5, <2>6 DEF Orderly, CountsStand
<1>5. status' \in Statuses /\ item' \in [Items -> ItemStates] /\ logged' \in [Items -> Nat]
  BY <1>3
<1> QED
  BY <1>1, <1>2, <1>4, <1>5, GoOn

LEMMA EnrollStep ==
  ASSUME ProcessInv, NEW w \in Workers, NEW i \in Items, Enroll(w, i) \/ EnrollFails(w, i)
  PROVE  ProcessInv'
<1>1. /\ At(w, "ENROLLING") /\ i \in calls[w].todo /\ logged[i] \in Nat
      /\ calls' = [calls EXCEPT ![w].todo = @ \ {i}]
      /\ UNCHANGED <<status, uploaded, starting, stalls, batch>>
  BY DEF Enroll, EnrollFails, routes, bounds, ProcessInv, Typed
<1>2. logged[i] + 0 = logged[i]
  BY <1>1
<1>3. CASE Enroll(w, i)
  BY <1>1, <1>2, <1>3, TryStep DEF Enroll
<1>4. CASE EnrollFails(w, i)
  <2>1. PICK n \in {0, 1} : logged' = [logged EXCEPT ![i] = IF i \in gone THEN logged[i] ELSE logged[i] + n]
    BY <1>4 DEF EnrollFails
  <2>2. PICK m \in {0, 1} : logged' = [logged EXCEPT ![i] = logged[i] + m]
    BY <1>2, <2>1
  <2> QED
    BY <1>1, <1>4, <2>2, TryStep DEF EnrollFails
<1> QED
  BY <1>3, <1>4

\* A total is counted: by this the counter and the count agree for a moment.
LEMMA CountStep ==
  ASSUME ProcessInv, NEW w \in Workers, NEW f \in Fields, Count(w, f)
  PROVE  ProcessInv'
<1> DEFINE seen == [calls[w].seen EXCEPT ![f] = Counted[f]]
           uncounted == calls[w].uncounted \ {f}
           c == [calls[w] EXCEPT !.seen = seen, !.uncounted = uncounted]
<1>0. Typed
  BY DEF ProcessInv
<1>1. calls' = [calls EXCEPT ![w] = c] /\ Busy(w) /\ calls[w].stage = "COUNTING"
      /\ UNCHANGED <<status, uploaded, starting, stalls, batch, item, logged>>
  BY <1>0, CallType DEF Count, routes, bounds, Busy, At, Typed, Calls
<1>2. CountItems("SUCCEEDED") \in Nat /\ CountItems("FAILED") \in Nat
  BY CountsType DEF ItemStates
<1>3. Counted[f] \in Nat
  <2>1. {b \in Batches : batch[b].status \in Completed} \subseteq 1 .. NBatches
    BY DEF Batches
  <2>2. IsFiniteSet(1 .. NBatches)
    BY FS_Interval, ProcessAssumption
  <2>3. Cardinality({b \in Batches : batch[b].status \in Completed}) \in Nat
    BY <2>1, <2>2, FS_Subset, FS_CardinalityType
  <2> QED
    BY <1>2, <2>3 DEF Counted, Fields
<1>4. /\ seen \in Totals
      /\ seen.succeeded = IF f = "succeeded" THEN CountItems("SUCCEEDED") ELSE calls[w].seen.succeeded
      /\ seen.failed = IF f = "failed" THEN CountItems("FAILED") ELSE calls[w].seen.failed
  <2>1. calls[w].seen \in Totals
    BY <1>0, CallType
  <2> QED
    BY <1>3, <2>1 DEF Totals, Fields, Counted
<1>5. uncounted \in SUBSET Fields
  BY <1>0, CallType
<1> HIDE DEF seen, uncounted
<1>6. c \in Calls /\ c.stage = "COUNTING" /\ c.batch = calls[w].batch /\ c.seen = seen
  BY <1>0, <1>1, <1>4, <1>5, CallType DEF Calls
<1> HIDE DEF c
<1>7. status' \in Statuses /\ item' \in [Items -> ItemStates] /\ logged' \in [Items -> Nat]
  BY <1>0, <1>1 DEF Typed
<1>8. Answering
  BY <1>1, <1>7 DEF Answering
<1>9. ASSUME Orderly
      PROVE  /\ LoggedOnce' /\ AllAnswered'
             /\ Fits(batch[c.batch], c.stage)
             /\ c.seen.succeeded <= CountItems("SUCCEEDED") /\ c.seen.failed <= CountItems("FAILED")
  <2>1. LoggedOnce' /\ AllAnswered'
    BY <1>1, <1>8, <1>9, AnswersKept
  <2>2. Fits(batch[c.batch], c.stage)
    BY <1>1, <1>6, <1>9 DEF Orderly, BatchesOwned
  <2>3. calls[w].seen.succeeded <= CountItems("SUCCEEDED") /\ calls[w].seen.failed <= CountItems("FAILED")
    BY <1>9 DEF Orderly, CountsStand
  <2> QED
    BY <1>2, <1>4, <1>6, <2>1, <2>2, <2>3
<1> QED
  BY <1>1, <1>6, <1>7, <1>8, <1>9, GoOn

\* The batch b of instance w is completed: its row is closed and the totals are counted anew.
LEMMA CloseStep ==
  ASSUME ProcessInv, NEW w \in Workers, At(w, "ENROLLING") \/ At(w, "COUNTING"),
         NEW its \in [Items -> ItemStates], CloseBatch(w, calls[w].batch, its), item' = its,
         \A i \in Items : its[i] # item[i] => item[i] = "PENDING" /\ i \in Of(calls[w].batch),
         UNCHANGED <<status, uploaded, starting, stalls, logged>>
  PROVE  ProcessInv'
<1> DEFINE b == calls[w].batch
           row == [status |-> WithErrors(\E i \in Of(b) : its[i] = "FAILED"),
                   locked |-> FALSE, attempts |-> batch[b].attempts]
           c == [calls[w] EXCEPT !.stage = "COUNTING", !.seen = Zero, !.uncounted = Fields]
<1>0. Typed
  BY DEF ProcessInv
<1>1. /\ Busy(w) /\ b \in Batches /\ calls' = [calls EXCEPT ![w] = c]
      /\ batch' = [batch EXCEPT ![b] = row]
  BY <1>0, CallType DEF Busy, At, CloseBatch, Typed
<1>2. row \in BatchRows /\ row.status \in Completed
  BY <1>0, <1>1 DEF Typed, BatchRows, BatchStates, Completed, WithErrors
<1>3. /\ c \in Calls /\ c.stage = "COUNTING" /\ c.batch = b /\ c.seen = Zero
  BY <1>0, CallType, IdleType DEF Calls, Stages
<1> HIDE DEF b, row, c
<1>4. /\ status' \in Statuses /\ item' \in [Items -> ItemStates] /\ logged' \in [Items -> Nat]
      /\ batch' \in [Batches -> BatchRows] /\ batch'[b] = row
      /\ \A d \in Batches : d # b => batch'[d] = batch[d]
  BY <1>0, <1>1, <1>2 DEF Typed
<1>5. Answering /\ \A i \in Items : item'[i] # item[i] => Busy(w) /\ i \in Of(calls[w].batch)
  BY <1>1, <1>4 DEF Answering
<1>6. /\ c.seen.succeeded <= CountItems("SUCCEEDED") /\ c.seen.succeeded \in Nat
      /\ c.seen.failed <= CountItems("FAILED") /\ c.seen.failed \in Nat
  <2>1. CountItems("SUCCEEDED") \in Nat /\ CountItems("FAILED") \in Nat
    BY CountsType DEF ItemStates
  <2>2. c.seen.succeeded = 0 /\ c.seen.failed = 0
    BY <1>3, IdleType
  <2> QED
    BY <2>1, <2>2
<1>7. ASSUME Orderly PROVE Orderly'
  <2>1. \A v \in Workers : v # w /\ Busy(v) => calls[v].batch # b /\ calls[v].batch \in Batches
    BY <1>0, <1>1, <1>7, CallType DEF Orderly, BatchesOwned, b
  <2>2. \A v \in Workers : v # w /\ Busy(v) => batch'[calls[v].batch] = batch[calls[v].batch]
    BY <1>4, <2>1
  <2>3. Fits(batch'[c.batch], c.stage)
    BY <1>2, <1>3, <1>4 DEF Fits
  <2>4. \A v \in Workers : v # w /\ Busy(v) => calls[v].batch # c.batch
    BY <1>3, <2>1
  <2>5. BatchesOwned' /\ Untried' /\ CountsStand'
    <3>1. c.stage # "ENROLLING"
      BY <1>3
    <3> QED
      BY <1>0, <1>1, <1>5, <1>6, <1>7, <2>2, <2>3, <2>4, <3>1, CallStep
  <2>6. LoggedOnce' /\ AllAnswered'
    BY <1>5, <1>7, AnswersKept
  <2> QED
    BY <2>5, <2>6 DEF Orderly
<1>8. uploaded = NBatches
  BY <1>1 DEF ProcessInv, UploadComplete
<1> QED
  BY <1>1, <1>3, <1>4, <1>7, <1>8, CallInv

LEMMA EndBatchStep ==
  ASSUME ProcessInv, NEW w \in Workers, EndBatch(w)
  PROVE  ProcessInv'
<1>1. item \in [Items -> ItemStates]
  BY DEF ProcessInv, Typed
<1> QED
  BY <1>1, CloseStep DEF EndBatch, routes, bounds

\* What throws puts the batch back, which by then is nobody else's, or ends it.
LEMMA ThrowStep ==
  ASSUME ProcessInv, NEW w \in Workers, Throw(w)
  PROVE  ProcessInv'
<1> DEFINE b == calls[w].batch
           failed == [i \in Items |-> IF i \in Of(b) /\ item[i] = "PENDING" THEN "FAILED" ELSE item[i]]
<1>0. Typed /\ b \in Batches
  BY CallType DEF ProcessInv
<1>1. At(w, "ENROLLING") \/ At(w, "COUNTING")
  BY <1>0, CallType DEF Throw, At, Stages
<1>2. UNCHANGED <<status, uploaded, starting, stalls, logged>>
  BY DEF Throw, routes
<1>3. CASE calls[w].attempt >= MaxAttempts
  <2>1. failed \in [Items -> ItemStates]
    BY <1>0 DEF Typed, ItemStates
  <2>2. \A i \in Items : failed[i] # item[i] => item[i] = "PENDING" /\ i \in Of(b)
    OBVIOUS
  <2>3. item' = failed /\ CloseBatch(w, b, failed)
    <3>1. ~(calls[w].attempt < MaxAttempts)
      BY <1>0, <1>3, CallType, ProcessAssumption
    <3> QED
      BY <3>1 DEF Throw
  <2> HIDE DEF failed
  <2> QED
    BY <1>1, <1>2, <2>1, <2>2, <2>3, CloseStep
<1>4. CASE calls[w].attempt < MaxAttempts
  <2> DEFINE row == [batch[b] EXCEPT !.status = "PENDING", !.locked = FALSE]
  <2>1. row \in BatchRows
    BY <1>0 DEF Typed, BatchRows, BatchStates
  <2>2. /\ batch' = [batch EXCEPT ![b] = row] /\ calls' = [calls EXCEPT ![w] = Idle]
        /\ item' = item /\ Busy(w)
    BY <1>0, <1>1, <1>4 DEF Throw, Typed, Busy, At
  <2> HIDE DEF row
  <2>3. /\ status' \in Statuses /\ item' \in [Items -> ItemStates] /\ logged' \in [Items -> Nat]
        /\ batch' \in [Batches -> BatchRows]
        /\ \A d \in Batches : d # b => batch'[d] = batch[d]
    BY <1>0, <1>2, <2>1, <2>2 DEF Typed
  <2>4. Answering
    BY <2>2, <2>3 DEF Answering
  <2>5. ASSUME Orderly PROVE Orderly'
    <3>1. \A v \in Workers : v # w /\ Busy(v) => calls[v].batch # b /\ calls[v].batch \in Batches
      BY <1>0, <2>2, <2>5, CallType DEF Orderly, BatchesOwned
    <3>2. \A v \in Workers : v # w /\ Busy(v) => batch'[calls[v].batch] = batch[calls[v].batch]
      BY <2>3, <3>1
    <3>3. Fits(batch'[Idle.batch], Idle.stage) /\ Idle.stage = "IDLE"
      BY IdleType DEF Fits
    <3>4. /\ Idle.seen.succeeded <= CountItems("SUCCEEDED") /\ Idle.seen.succeeded \in Nat
          /\ Idle.seen.failed <= CountItems("FAILED") /\ Idle.seen.failed \in Nat
      <4>1. CountItems("SUCCEEDED") \in Nat /\ CountItems("FAILED") \in Nat
        BY CountsType DEF ItemStates
      <4>2. Idle.seen.succeeded = 0 /\ Idle.seen.failed = 0
        BY IdleType
      <4> QED
        BY <4>1, <4>2
    <3>5. \A i \in Items : item'[i] = item[i]
      BY <2>2
    <3>6. BatchesOwned' /\ Untried' /\ CountsStand'
      BY <1>0, <2>2, <2>4, <2>5, <3>2, <3>3, <3>4, <3>5, CallStep
    <3>7. LoggedOnce' /\ AllAnswered'
      BY <1>2, <2>4, <2>5, AnswersKept
    <3> QED
      BY <3>6, <3>7 DEF Orderly
  <2>6. uploaded = NBatches
    BY <2>2 DEF ProcessInv, UploadComplete
  <2> QED
    BY <1>2, <2>2, <2>3, <2>5, <2>6, CallInv, IdleType
<1> QED
  BY <1>0, <1>3, <1>4, CallType, ProcessAssumption

\* The totals are written, and the process completed if they answer for every contact.
LEMMA RefreshStep ==
  ASSUME ProcessInv, NEW w \in Workers, Refresh(w)
  PROVE  ProcessInv'
<1> DEFINE seen == calls[w].seen
           goal == NBatches * BatchSize
<1>0. Typed
  BY DEF ProcessInv
<1>1. /\ calls' = [calls EXCEPT ![w] = Idle] /\ Busy(w)
      /\ UNCHANGED <<uploaded, starting, stalls, batch, item, logged>>
      /\ status' = IF IsComplete(seen) THEN WithErrors(seen.failed > 0) ELSE status
  BY DEF Refresh, routes, bounds, Busy, At
<1>2. status' \in Statuses /\ item' \in [Items -> ItemStates] /\ logged' \in [Items -> Nat]
  BY <1>0, <1>1 DEF Typed, Statuses, WithErrors
<1>3. Answering
  BY <1>1, <1>2 DEF Answering
<1>4. Fits(batch[Idle.batch], Idle.stage)
  BY IdleType DEF Fits
<1>5. CountItems("SUCCEEDED") \in Nat /\ CountItems("FAILED") \in Nat
  BY CountsType DEF ItemStates
<1>6. uploaded = NBatches
  BY <1>1 DEF ProcessInv, UploadComplete
<1>7. seen.succeeded \in Nat /\ seen.failed \in Nat /\ goal \in Nat
  <2>1. seen \in Totals
    BY <1>0, CallType
  <2> QED
    BY <2>1, ProcessAssumption DEF Totals, Fields
<1>8. ASSUME Orderly
      PROVE  LoggedOnce' /\ AllAnswered'
  <2>1. LoggedOnce'
    BY <1>1, <1>3, <1>8, AnswersKept
  <2>2. seen.succeeded <= CountItems("SUCCEEDED") /\ seen.failed <= CountItems("FAILED")
    BY <1>8 DEF Orderly, CountsStand
  <2>3. ASSUME IsComplete(seen)
        PROVE  AllAnswered'
    <3>1. seen.succeeded + seen.failed >= goal
      BY <1>6, <2>3 DEF IsComplete
    <3>2. CountItems("SUCCEEDED") + CountItems("FAILED") >= goal
      <4> HIDE DEF seen, goal
      <4> QED
        BY <1>5, <1>7, <2>2, <3>1
    <3>3. \A i \in Items : item[i] # "PENDING"
      BY <1>0, <3>2, AllCounted
    <3>4. ASSUME status' = "COMPLETED"
          PROVE  \A i \in Items : item[i] = "SUCCEEDED"
      <4>1. ~(seen.failed > 0)
        BY <1>1, <2>3, <3>4 DEF WithErrors
      <4>2. CountItems("SUCCEEDED") >= goal
        <5> HIDE DEF seen, goal
        <5> QED
          BY <1>5, <1>7, <2>2, <3>1, <4>1
      <4> QED
        BY <1>0, <4>2, AllCounted
    <3> QED
      BY <1>1, <3>3, <3>4 DEF AllAnswered
  <2>4. ASSUME ~IsComplete(seen)
        PROVE  AllAnswered'
    BY <1>1, <1>3, <1>8, <2>4, AnswersKept
  <2> QED
    BY <2>1, <2>3, <2>4
<1>9. 0 <= CountItems("SUCCEEDED") /\ 0 <= CountItems("FAILED")
  BY <1>5
<1> QED
  BY <1>1, <1>2, <1>3, <1>4, <1>8, <1>9, IdleType, GoOn

-----------------------------------------------------------------------------
(* The steps beside them *)

LEMMA RouteStep ==
  ASSUME ProcessInv,
         Upload \/ StartRead \/ StartWrite \/ FailPreparing \/ \E i \in Deletable : DeleteContact(i)
  PROVE  ProcessInv'
<1>0. Typed /\ UploadComplete /\ NBatches \in Nat
  BY ProcessAssumption DEF ProcessInv
<1>1. UNCHANGED <<batch, item, logged, calls, stalls>>
  BY DEF Upload, StartRead, StartWrite, FailPreparing, DeleteContact, bounds
<1>2. CASE Upload
  <2>1. /\ uploaded < NBatches /\ uploaded' = uploaded + 1 /\ status' = status
        /\ starting' = starting /\ uploaded \in 0 .. NBatches
    BY <1>0, <1>2 DEF Upload, Typed
  <2>2. uploaded' \in 0 .. NBatches /\ uploaded # NBatches
    BY <1>0, <2>1
  <2>3. UploadComplete'
    BY <1>0, <1>1, <2>1, <2>2 DEF UploadComplete, Busy, At
  <2> QED
    BY <1>0, <1>1, <2>1, <2>2, <2>3, BesideStep DEF Typed
<1>3. CASE StartRead
  <2>1. /\ uploaded = NBatches /\ uploaded' = uploaded /\ status' = status
        /\ starting' = starting + 1
    BY <1>3 DEF StartRead
  <2>2. UploadComplete'
    BY <2>1 DEF UploadComplete
  <2> QED
    BY <1>0, <1>1, <2>1, <2>2, BesideStep DEF Typed
<1>4. CASE StartWrite
  <2>1. starting > 0 /\ uploaded' = uploaded /\ status' = "QUEUED" /\ starting' = starting - 1
    BY <1>4 DEF StartWrite
  <2>2. UploadComplete'
    BY <1>0, <2>1 DEF UploadComplete
  <2>3. status' \in Statuses /\ status' \notin Completed
    BY <2>1 DEF Statuses, Completed
  <2> QED
    BY <1>0, <1>1, <2>1, <2>2, <2>3, BesideStep DEF Typed
<1>5. CASE FailPreparing
  <2>1. status' = "FAILED" /\ uploaded' = uploaded /\ starting' = starting
    BY <1>5 DEF FailPreparing, routes
  <2>2. UploadComplete'
    BY <1>0, <1>1, <2>1 DEF UploadComplete, Busy, At
  <2>3. status' \in Statuses /\ status' \notin Completed
    BY <2>1 DEF Statuses, Completed
  <2> QED
    BY <1>0, <1>1, <2>1, <2>2, <2>3, BesideStep DEF Typed
<1>6. CASE \E i \in Deletable : DeleteContact(i)
  <2>1. UNCHANGED <<status, uploaded, starting>>
    BY <1>6 DEF DeleteContact, routes
  <2>2. UploadComplete'
    BY <1>0, <1>1, <2>1 DEF UploadComplete, Busy, At
  <2> QED
    BY <1>0, <1>1, <2>1, <2>2, BesideStep DEF Typed
<1> QED
  BY <1>2, <1>3, <1>4, <1>5, <1>6

\* A lock that has grown old has a stall to show for it, or a batch that nobody is at
\* work on; and such a batch is what the recovery finds.
LEMMA LockStep ==
  ASSUME ProcessInv, NEW b \in Batches, Stall(b) \/ Abandoned(b) \/ Recover(b)
  PROVE  ProcessInv'
<1>0. Typed /\ batch[b] \in BatchRows /\ stalls \in Nat
  BY DEF ProcessInv, Typed
<1>1. UNCHANGED <<status, uploaded, starting, item, logged, calls>>
  BY DEF Stall, Abandoned, Recover, routes
<1>2. CASE Stall(b)
  <2> DEFINE row == [batch[b] EXCEPT !.locked = FALSE]
  <2>1. row \in BatchRows
    BY <1>0 DEF BatchRows
  <2>2. batch' = [batch EXCEPT ![b] = row]
    BY <1>2 DEF Stall, Unlocked
  <2>3. stalls' \in Nat /\ stalls' # 0
    BY <1>0, <1>2 DEF Stall
  <2> HIDE DEF row
  <2> QED
    BY <1>1, <2>1, <2>2, <2>3, BatchStep
<1>3. CASE Abandoned(b)
  <2> DEFINE row == [batch[b] EXCEPT !.locked = FALSE]
  <2>1. row \in BatchRows
    BY <1>0 DEF BatchRows
  <2>2. batch' = [batch EXCEPT ![b] = row]
    BY <1>3 DEF Abandoned, Unlocked
  <2>3. stalls' = stalls /\ \A w \in Workers : Busy(w) => calls[w].batch # b
    BY <1>3 DEF Abandoned, bounds, Busy
  <2> HIDE DEF row
  <2> QED
    BY <1>0, <1>1, <2>1, <2>2, <2>3, BatchStep
<1>4. CASE Recover(b)
  <2> DEFINE row == [batch[b] EXCEPT !.status = "PENDING"]
  <2>1. row \in BatchRows
    BY <1>0 DEF BatchRows, BatchStates
  <2>2. batch' = [batch EXCEPT ![b] = row]
    BY <1>4 DEF Recover
  <2>3. batch[b].status = "PROCESSING" /\ ~batch[b].locked /\ stalls' = stalls
    BY <1>4 DEF Recover, bounds
  <2>4. ASSUME stalls = 0, NEW w \in Workers, Busy(w), calls[w].batch = b
        PROVE  FALSE
    <3>1. calls[w].stage \in {"CLAIMED", "ENROLLING", "COUNTING"}
      BY <1>0, <2>4, CallType DEF Busy, At, Stages
    <3>2. Fits(batch[b], calls[w].stage)
      BY <2>4 DEF ProcessInv, Orderly, BatchesOwned
    <3> QED
      BY <2>3, <3>1, <3>2 DEF Fits, Completed
  <2> HIDE DEF row
  <2> QED
    BY <1>0, <1>1, <2>1, <2>2, <2>3, <2>4, BatchStep
<1> QED
  BY <1>2, <1>3, <1>4

LEMMA InitInv == Init => ProcessInv
<1> SUFFICES ASSUME Init PROVE ProcessInv
  OBVIOUS
<1>1. Typed
  BY ProcessAssumption, IdleType DEF Init, Typed, Statuses, BatchRows, BatchStates, ItemStates
<1>2. \A w \in Workers : calls[w] = Idle /\ ~Busy(w)
  BY IdleType DEF Init, Busy, At
<1>3. UploadComplete
  BY <1>2 DEF Init, UploadComplete
<1>4. BatchesOwned
  BY <1>2, IdleType DEF BatchesOwned, Fits
<1>5. Untried
  BY <1>2, IdleType DEF Untried, At
<1>6. LoggedOnce /\ AllAnswered
  BY DEF Init, LoggedOnce, AllAnswered, Completed
<1>7. CountsStand
  <2>1. CountItems("SUCCEEDED") \in Nat /\ CountItems("FAILED") \in Nat
    BY CountsType DEF ItemStates
  <2> QED
    BY <1>2, <2>1, IdleType DEF CountsStand
<1> QED
  BY <1>1, <1>3, <1>4, <1>5, <1>6, <1>7 DEF ProcessInv, Orderly

LEMMA StepInv == ProcessInv /\ [Next]_vars => ProcessInv'
<1> SUFFICES ASSUME ProcessInv, [Next]_vars
             PROVE  ProcessInv'
  OBVIOUS
<1>1. ASSUME NEW w \in Workers, Claim(w) \/ Step(w) \/ Throw(w) \/ Crash(w)
      PROVE  ProcessInv'
  BY <1>1, ClaimStep, LoadStep, EnrollStep, CountStep, EndBatchStep, RefreshStep, ThrowStep,
     CrashStep DEF Step
<1>2. CASE UNCHANGED vars
  <2>1. UNCHANGED <<status, uploaded, starting, batch, item, logged, calls, stalls>>
    BY <1>2 DEF vars, routes, bounds
  <2>2. UploadComplete'
    BY <2>1 DEF ProcessInv, UploadComplete, Busy, At
  <2> QED
    BY <2>1, <2>2, BesideStep DEF ProcessInv, Typed
<1>3. CASE Next
  BY <1>1, <1>3, RouteStep, LockStep, EnrollStep DEF Next
<1> QED
  BY <1>2, <1>3

-----------------------------------------------------------------------------
(* The theorems on the bulk enrollment *)

\* As long as no instance outlives its lock, a contact is enrolled once, however often its
\* batch is taken up again after crashes and failing statements (processClaimedBatch loads
\* only the contacts that are PENDING).
THEOREM EnrolledOnceHolds == Spec => []EnrolledOnce
<1>1. ProcessInv => EnrolledOnce
  BY DEF ProcessInv, Orderly, LoggedOnce, EnrolledOnce
<1> QED
  BY <1>1, InitInv, StepInv, PTL DEF Spec

\* As long as no instance outlives its lock, a completed process has an answer for every
\* contact and is free of errors only if all are enrolled, although refreshProcessTotals
\* counts them one total after the other beside instances that are still enrolling.
THEOREM CompletedIsAnsweredHolds == Spec => []CompletedIsAnswered
<1>1. ProcessInv => CompletedIsAnswered
  BY DEF ProcessInv, Orderly, AllAnswered, CompletedIsAnswered
<1> QED
  BY <1>1, InitInv, StepInv, PTL DEF Spec

-----------------------------------------------------------------------------
(* The attempts of a batch *)

\* Every claim but the first of a batch has a fault or a stall to show for it: one that
\* has none yet is of an instance still at work, or of a batch that was completed.
Spent(b) == batch[b].attempts <= faults + stalls
Held(b) ==
  /\ batch[b].status = "PROCESSING" /\ batch[b].locked
  /\ \E w \in Workers : calls[w].stage \in {"CLAIMED", "ENROLLING"} /\ calls[w].batch = b
Closed(b) == batch[b].status \in Completed /\ ~batch[b].locked
AttemptsPaid ==
  \A b \in Batches : /\ batch[b].attempts <= 1 + faults + stalls
                     /\ Spent(b) \/ Held(b) \/ Closed(b)

\* What TypeOK says beside Typed.
Bounded ==
  /\ faults \in Nat /\ shown \in Totals /\ gone \subseteq Items
  /\ starting \in 0 .. MaxStarts

LEMMA BoundedStep ==
  ASSUME Typed, Bounded, [Next]_vars
  PROVE  Bounded'
<1>1. UNCHANGED faults \/ faults' = faults + 1
  BY Zenon DEF vars, bounds, Next, Upload, StartRead, StartWrite, FailPreparing, DeleteContact, Stall,
     Abandoned, Recover, Claim, Step, Load, Enroll, EndBatch, Count, Refresh, Throw, Crash, EnrollFails
<1>2. UNCHANGED shown \/ \E w \in Workers : shown' = calls[w].seen
  BY Zenon DEF vars, Next, Upload, StartRead, StartWrite, FailPreparing, DeleteContact, Stall,
     Abandoned, Recover, Claim, Step, Load, Enroll, EndBatch, Count, Refresh, Throw, Crash, EnrollFails
<1>3. UNCHANGED gone \/ \E i \in Deletable : gone' = gone \cup {i}
  BY Zenon DEF vars, Next, Upload, StartRead, StartWrite, FailPreparing, DeleteContact, Stall,
     Abandoned, Recover, Claim, Step, Load, Enroll, EndBatch, Count, Refresh, Throw, Crash, EnrollFails
<1>4. \/ UNCHANGED starting
      \/ starting < MaxStarts /\ starting' = starting + 1
      \/ starting > 0 /\ starting' = starting - 1
  BY Zenon DEF vars, routes, Next, Upload, StartRead, StartWrite, FailPreparing, DeleteContact, Stall,
     Abandoned, Recover, Claim, Step, Load, Enroll, EndBatch, Count, Refresh, Throw, Crash, EnrollFails
<1>5. Deletable \subseteq Items /\ MaxStarts \in Nat
  BY ProcessAssumption DEF Items, Batches
<1>6. shown' \in Totals
  BY <1>2, CallType DEF Bounded
<1>7. gone' \subseteq Items
  BY <1>3, <1>5 DEF Bounded
<1>8. starting' \in 0 .. MaxStarts
  BY <1>4, <1>5 DEF Bounded, Typed
<1>9. faults' \in Nat
  BY <1>1 DEF Bounded
<1> QED
  BY <1>6, <1>7, <1>8, <1>9 DEF Bounded

\* A fault or a stall pays for the claims of every batch.
LEMMA FaultPays ==
  ASSUME Typed, Bounded, AttemptsPaid, batch' \in [Batches -> BatchRows],
         \A b \in Batches : batch'[b].attempts = batch[b].attempts,
         \/ faults' = faults + 1 /\ stalls' = stalls
         \/ faults' = faults /\ stalls' = stalls + 1
  PROVE  AttemptsPaid'
<1> SUFFICES ASSUME NEW b \in Batches
             PROVE  /\ batch'[b].attempts <= 1 + faults' + stalls'
                    /\ batch'[b].attempts <= faults' + stalls'
  BY DEF AttemptsPaid, Spent
<1>1. batch[b].attempts \in Nat /\ faults \in Nat /\ stalls \in Nat
  BY DEF Typed, Bounded, BatchRows
<1>2. batch[b].attempts <= 1 + faults + stalls
  BY DEF AttemptsPaid
<1> QED
  BY <1>1, <1>2

\* An instance goes on, or its batch is spent, and the batches are left alone.
LEMMA HoldersStay ==
  ASSUME Typed, AttemptsPaid, UNCHANGED <<batch, faults, stalls>>, NEW w \in Workers,
         NEW c, calls' = [calls EXCEPT ![w] = c],
         calls[w].stage \in {"CLAIMED", "ENROLLING"}
           => c.stage \in {"CLAIMED", "ENROLLING"} /\ c.batch = calls[w].batch
  PROVE  AttemptsPaid'
<1> SUFFICES ASSUME NEW b \in Batches, Held(b)
             PROVE  Held(b)'
  BY DEF AttemptsPaid, Spent, Closed
<1>1. PICK v \in Workers : calls[v].stage \in {"CLAIMED", "ENROLLING"} /\ calls[v].batch = b
  BY DEF Held
<1>2. calls'[v].stage \in {"CLAIMED", "ENROLLING"} /\ calls'[v].batch = b
  BY <1>1 DEF Typed
<1> QED
  BY <1>2 DEF Held

LEMMA AttemptsStep ==
  ASSUME ProcessInv, Bounded, AttemptsPaid, [Next]_vars
  PROVE  AttemptsPaid'
<1>0. /\ Typed /\ batch \in [Batches -> BatchRows] /\ calls \in [Workers -> Calls]
      /\ batch' \in [Batches -> BatchRows]
  BY StepInv DEF ProcessInv, Typed
<1>1. ASSUME UNCHANGED <<batch, calls, faults, stalls>>
      PROVE  AttemptsPaid'
  BY <1>1 DEF AttemptsPaid, Spent, Held, Closed
<1>2. ASSUME NEW b \in Batches, Stall(b)
      PROVE  AttemptsPaid'
  BY <1>0, <1>2, FaultPays DEF Stall, Unlocked
<1>3. ASSUME NEW b \in Batches, Abandoned(b) \/ Recover(b)
      PROVE  AttemptsPaid'
  <2>1. Spent(b)
    <3>1. ~Closed(b) /\ ~Held(b)
      BY <1>3 DEF Abandoned, Recover, Closed, Held, Completed, At
    <3> QED
      BY <3>1 DEF AttemptsPaid
  <2>2. batch'[b].attempts = batch[b].attempts /\ UNCHANGED <<calls, faults, stalls>>
    BY <1>0, <1>3 DEF Abandoned, Recover, Unlocked, bounds, BatchRows
  <2>3. \A d \in Batches : d # b => batch'[d] = batch[d]
    BY <1>0, <1>3 DEF Abandoned, Recover, Unlocked
  <2> QED
    BY <2>1, <2>2, <2>3 DEF AttemptsPaid, Spent, Held, Closed
<1>4. ASSUME NEW w \in Workers, Claim(w)
      PROVE  AttemptsPaid'
  <2>0. PICK b \in Batches : b = Min(Pending) /\ batch[b].status = "PENDING"
    BY <1>0, <1>4, OldestPending DEF Claim, Pending
  <2> DEFINE row == [status |-> "PROCESSING", locked |-> TRUE, attempts |-> batch[b].attempts + 1]
             c == [Idle EXCEPT !.stage = "CLAIMED", !.batch = b, !.attempt = batch[b].attempts + 1]
  <2>1. batch[b].status = "PENDING" /\ batch[b].attempts \in Nat
    BY <1>0, <2>0 DEF BatchRows
  <2>2. /\ batch' = [batch EXCEPT ![b] = row] /\ calls' = [calls EXCEPT ![w] = c]
        /\ UNCHANGED <<faults, stalls>> /\ calls[w].stage = "IDLE"
    BY <1>4, <2>0 DEF Claim, bounds, At
  <2>3. /\ row.status = "PROCESSING" /\ row.locked /\ row.attempts = batch[b].attempts + 1
        /\ c.stage = "CLAIMED" /\ c.batch = b
    BY DEF Idle
  <2> HIDE DEF row, c
  <2>4. Spent(b)
    BY <2>1 DEF AttemptsPaid, Held, Closed, Completed
  <2>5. batch'[b] = row /\ calls'[w] = c /\ faults \in Nat /\ stalls \in Nat
    BY <1>0, <2>1, <2>2 DEF Typed, Bounded
  <2>6. batch'[b].attempts <= 1 + faults' + stalls' /\ Held(b)'
    <3>1. Held(b)'
      BY <2>3, <2>5 DEF Held
    <3>2. batch'[b].attempts <= 1 + faults' + stalls'
      BY <2>1, <2>2, <2>3, <2>4, <2>5 DEF Spent
    <3> QED
      BY <3>1, <3>2
  <2>7. ASSUME NEW d \in Batches, d # b
        PROVE  /\ batch'[d].attempts <= 1 + faults' + stalls'
               /\ Spent(d)' \/ Held(d)' \/ Closed(d)'
    <3>1. batch'[d] = batch[d]
      BY <1>0, <2>2, <2>7
    <3>2. \A v \in Workers : calls[v].stage \in {"CLAIMED", "ENROLLING"} => calls'[v] = calls[v]
      BY <1>0, <2>2
    <3>3. Held(d) => Held(d)'
      BY <3>1, <3>2 DEF Held
    <3> QED
      BY <2>2, <3>1, <3>3 DEF AttemptsPaid, Spent, Closed
  <2> QED
    BY <2>6, <2>7 DEF AttemptsPaid
<1>5. ASSUME NEW w \in Workers, Load(w)
      PROVE  AttemptsPaid'
  <2> DEFINE c == [calls[w] EXCEPT !.stage = "ENROLLING", !.todo = ToEnroll(calls[w].batch)]
  <2>1. calls' = [calls EXCEPT ![w] = c] /\ UNCHANGED <<batch, faults, stalls>>
    BY <1>0, <1>5 DEF Load, bounds
  <2>2. c.stage = "ENROLLING" /\ c.batch = calls[w].batch
    BY <1>0 DEF Calls
  <2> HIDE DEF c
  <2> QED
    BY <1>0, <2>1, <2>2, HoldersStay
<1>6. ASSUME NEW w \in Workers, NEW i \in Items, Enroll(w, i)
      PROVE  AttemptsPaid'
  <2> DEFINE c == [calls[w] EXCEPT !.todo = calls[w].todo \ {i}]
  <2>1. calls' = [calls EXCEPT ![w] = c] /\ UNCHANGED <<batch, faults, stalls>>
    BY <1>0, <1>6 DEF Enroll, bounds
  <2>2. c.stage = calls[w].stage /\ c.batch = calls[w].batch
    BY <1>0 DEF Calls
  <2> HIDE DEF c
  <2> QED
    BY <1>0, <2>1, <2>2, HoldersStay
<1>7. ASSUME NEW w \in Workers, NEW f \in Fields, Count(w, f)
      PROVE  AttemptsPaid'
  <2>1. PICK c : calls' = [calls EXCEPT ![w] = c]
    BY <1>7 DEF Count
  <2>2. UNCHANGED <<batch, faults, stalls>> /\ calls[w].stage = "COUNTING"
    BY <1>7 DEF Count, bounds, At
  <2> QED
    BY <1>0, <2>1, <2>2, HoldersStay
<1>8. ASSUME NEW w \in Workers, Refresh(w)
      PROVE  AttemptsPaid'
  <2>1. /\ calls' = [calls EXCEPT ![w] = Idle] /\ UNCHANGED <<batch, faults, stalls>>
        /\ calls[w].stage = "COUNTING"
    BY <1>8 DEF Refresh, bounds, At
  <2> QED
    BY <1>0, <2>1, HoldersStay
<1>9. ASSUME NEW w \in Workers, EndBatch(w)
      PROVE  AttemptsPaid'
  <2>0. PICK b \in Batches : b = calls[w].batch
    BY <1>0, CallType
  <2> DEFINE st == WithErrors(\E i \in Of(b) : item[i] = "FAILED")
  <2>1. st \in Completed /\ UNCHANGED <<faults, stalls>>
    BY <1>9 DEF EndBatch, WithErrors, Completed, bounds
  <2>2. batch' = [batch EXCEPT ![b] = [status |-> st, locked |-> FALSE, attempts |-> batch[b].attempts]]
    BY <1>9, <2>0 DEF EndBatch, CloseBatch
  <2>3. \A v \in Workers : calls[v].batch # b => calls'[v] = calls[v]
    BY <1>0, <1>9, <2>0 DEF EndBatch, CloseBatch
  <2> HIDE DEF st
  <2>4. batch'[b].attempts = batch[b].attempts /\ Closed(b)'
    BY <1>0, <2>1, <2>2 DEF Closed
  <2>5. ASSUME NEW d \in Batches, d # b
        PROVE  /\ batch'[d] = batch[d]
               /\ Held(d) => Held(d)'
    <3>1. batch'[d] = batch[d]
      BY <1>0, <2>2, <2>5
    <3> QED
      BY <2>3, <2>5, <3>1 DEF Held
  <2> QED
    BY <2>1, <2>4, <2>5 DEF AttemptsPaid, Spent, Closed
<1>10. ASSUME NEW w \in Workers, Throw(w) \/ Crash(w) \/ \E i \in Items : EnrollFails(w, i)
       PROVE  AttemptsPaid'
  <2>1. faults' = faults + 1 /\ stalls' = stalls
    BY <1>10 DEF Throw, Crash, EnrollFails
  <2>2. \A b \in Batches : batch'[b].attempts = batch[b].attempts
    <3>1. CASE Throw(w)
      <4> DEFINE b == calls[w].batch
      <4>1. b \in Batches /\ batch[b] \in BatchRows
        BY <1>0, CallType
      <4>2. PICK row : batch' = [batch EXCEPT ![b] = row] /\ row.attempts = batch[b].attempts
        BY <1>0, <3>1, <4>1 DEF Throw, CloseBatch, BatchRows
      <4> HIDE DEF b
      <4> QED
        BY <1>0, <4>1, <4>2
    <3>2. CASE Crash(w) \/ \E i \in Items : EnrollFails(w, i)
      BY <3>2 DEF Crash, EnrollFails
    <3> QED
      BY <1>10, <3>1, <3>2
  <2> QED
    BY <1>0, <2>1, <2>2, FaultPays
<1>11. CASE UNCHANGED vars
  BY <1>1, <1>11 DEF vars, bounds
<1>12. CASE Next
  BY <1>1, <1>2, <1>3, <1>4, <1>5, <1>6, <1>7, <1>8, <1>9, <1>10, <1>12
  DEF Next, Step, Upload, StartRead, StartWrite, FailPreparing, DeleteContact, bounds
<1> QED
  BY <1>11, <1>12

\* Every reachable state of a bulk enrollment has the declared types, and no batch is
\* claimed without cause more often than once: crashes, failing statements and instances
\* that outlive their lock account for all other attempts (failOrRetryBatch,
\* recoverInterruptedWork).
THEOREM ProcessTypeCorrect == Spec => []TypeOK
<1> DEFINE Inv == ProcessInv /\ Bounded /\ AttemptsPaid
<1>1. Init => Inv
  <2> SUFFICES ASSUME Init PROVE Inv
    OBVIOUS
  <2>1. Bounded
    BY ProcessAssumption, IdleType DEF Init, Bounded
  <2>2. AttemptsPaid
    BY DEF Init, AttemptsPaid, Spent
  <2> QED
    BY <2>1, <2>2, InitInv
<1>2. Inv /\ [Next]_vars => Inv'
  BY StepInv, BoundedStep, AttemptsStep DEF ProcessInv
<1>3. Inv => TypeOK
  <2> SUFFICES ASSUME Inv PROVE TypeOK
    OBVIOUS
  <2>1. starting \in 0 .. MaxStarts
    BY ProcessAssumption DEF ProcessInv, Typed, Bounded
  <2> QED
    BY <2>1 DEF ProcessInv, Typed, Bounded, AttemptsPaid, TypeOK
<1> HIDE DEF Inv
<1> QED
  BY <1>1, <1>2, <1>3, PTL DEF Spec

-----------------------------------------------------------------------------
(* The outbox *)

BusyEffect == [stage: {"CLAIMED", "ATTEMPTED", "THROWN"}, effect: Effects, attempt: Nat]

\* The types, without the bound on attempts of TypeOK.
EffectsTyped ==
  /\ rows \in [Effects -> Rows]
  /\ effectCalls \in [Executions -> {NoEffect} \cup BusyEffect]
  /\ done \subseteq Effects

\* An execution has its attempt from a claim that counted it; once it has tried to emit a
\* notification without an error, the notification is out.
CallsKnow ==
  \A x \in Executions :
     ~Doing(x, "IDLE") =>
        /\ effectCalls[x].attempt <= rows[effectCalls[x].effect].attempts
        /\ Doing(x, "ATTEMPTED") => effectCalls[x].effect \in Files \/ effectCalls[x].effect \in done

OutboxInv == EffectsTyped /\ CallsKnow /\ CompletedIsEmitted /\ GivenUpLast

LEMMA BusyCall ==
  ASSUME EffectsTyped, NEW x \in Executions, ~Doing(x, "IDLE")
  PROVE  /\ effectCalls[x] \in BusyEffect
         /\ effectCalls[x].effect \in Effects /\ effectCalls[x].attempt \in Nat
  BY DEF EffectsTyped, Doing, NoEffect, BusyEffect

LEMMA OutboxInit == EffectsInit => OutboxInv
<1> SUFFICES ASSUME EffectsInit PROVE OutboxInv
  OBVIOUS
<1>1. rows \in [Effects -> Rows]
  BY DEF EffectsInit, Rows, RowStates
<1>2. effectCalls \in [Executions -> {NoEffect} \cup BusyEffect] /\ done \subseteq Effects
  BY DEF EffectsInit
<1>3. CallsKnow
  BY DEF EffectsInit, CallsKnow, Doing, NoEffect
<1>4. CompletedIsEmitted /\ GivenUpLast
  BY DEF EffectsInit, CompletedIsEmitted, GivenUpLast
<1> QED
  BY <1>1, <1>2, <1>3, <1>4 DEF OutboxInv, EffectsTyped

\* An execution that goes on, ends or dies, and leaves the rows alone.
LEMMA CallMoves ==
  ASSUME OutboxInv, NEW x \in Executions, ~Doing(x, "IDLE"), NEW stage \in {"ATTEMPTED", "THROWN"},
         effectCalls' = [effectCalls EXCEPT ![x] = NoEffect] \/ Goes(x, stage),
         rows' = rows, done \subseteq done', done' \subseteq Effects,
         stage = "ATTEMPTED" => effectCalls[x].effect \in Files \cup done'
  PROVE  OutboxInv'
<1> DEFINE c == effectCalls[x]
<1>0. c \in BusyEffect /\ c.effect \in Effects /\ EffectsTyped
  BY BusyCall DEF OutboxInv
<1>1. \/ effectCalls' = [effectCalls EXCEPT ![x] = NoEffect]
      \/ effectCalls' = [effectCalls EXCEPT ![x] = [c EXCEPT !.stage = stage]]
  BY DEF Goes
<1>2. /\ [c EXCEPT !.stage = stage] \in BusyEffect
      /\ [c EXCEPT !.stage = stage].stage = stage
      /\ [c EXCEPT !.stage = stage].effect = c.effect
      /\ [c EXCEPT !.stage = stage].attempt = c.attempt
  BY <1>0 DEF BusyEffect
<1>3. EffectsTyped'
  BY <1>0, <1>1, <1>2 DEF EffectsTyped
<1>4. CallsKnow'
  <2> SUFFICES ASSUME NEW y \in Executions, effectCalls'[y].stage # "IDLE"
               PROVE  /\ effectCalls'[y].attempt <= rows'[effectCalls'[y].effect].attempts
                      /\ effectCalls'[y].stage = "ATTEMPTED" =>
                            effectCalls'[y].effect \in Files \/ effectCalls'[y].effect \in done'
    BY DEF CallsKnow, Doing
  <2>1. CASE y = x
    <3>1. effectCalls'[y] = [c EXCEPT !.stage = stage]
      BY <1>0, <1>1, <2>1 DEF EffectsTyped, NoEffect
    <3>2. c.attempt <= rows[c.effect].attempts
      BY DEF OutboxInv, CallsKnow
    <3> QED
      BY <1>2, <3>1, <3>2
  <2>2. CASE y # x
    <3>1. effectCalls'[y] = effectCalls[y]
      BY <1>0, <1>1, <2>2 DEF EffectsTyped
    <3> QED
      BY <3>1 DEF OutboxInv, CallsKnow, Doing
  <2> QED
    BY <2>1, <2>2
<1>5. CompletedIsEmitted' /\ GivenUpLast'
  BY DEF OutboxInv, CompletedIsEmitted, GivenUpLast
<1> QED
  BY <1>3, <1>4, <1>5 DEF OutboxInv

\* A row is rewritten with as many attempts, by an execution that ends with it or by none.
LEMMA RowWritten ==
  ASSUME OutboxInv, NEW e \in Effects, NEW r \in Rows, rows' = [rows EXCEPT ![e] = r],
         r.attempts = rows[e].attempts,
         r.status = "COMPLETED" => e \in Files \/ e \in done,
         r.status = "FAILED" => r.attempts >= MaxEffectAttempts,
         UNCHANGED done,
         effectCalls' = effectCalls \/ \E x \in Executions : effectCalls' = [effectCalls EXCEPT ![x] = NoEffect]
  PROVE  OutboxInv'
<1>0. EffectsTyped
  BY DEF OutboxInv
<1>1. EffectsTyped'
  BY <1>0 DEF EffectsTyped
<1>2. /\ \A d \in Effects : rows'[d].attempts = rows[d].attempts
      /\ \A d \in Effects : d # e => rows'[d] = rows[d]
      /\ rows'[e] = r
  BY <1>0 DEF EffectsTyped
<1>3. CallsKnow'
  <2> SUFFICES ASSUME NEW y \in Executions, effectCalls'[y].stage # "IDLE"
               PROVE  /\ effectCalls'[y].attempt <= rows'[effectCalls'[y].effect].attempts
                      /\ effectCalls'[y].stage = "ATTEMPTED" =>
                            effectCalls'[y].effect \in Files \/ effectCalls'[y].effect \in done'
    BY DEF CallsKnow, Doing
  <2>1. effectCalls'[y] = effectCalls[y]
    BY <1>0 DEF EffectsTyped, NoEffect
  <2>2. effectCalls[y].effect \in Effects
    BY <1>0, <2>1, BusyCall DEF Doing
  <2> QED
    BY <1>2, <2>1, <2>2 DEF OutboxInv, CallsKnow, Doing
<1>4. CompletedIsEmitted'
  BY <1>2 DEF OutboxInv, CompletedIsEmitted
<1>5. GivenUpLast'
  BY <1>2 DEF OutboxInv, GivenUpLast
<1> QED
  BY <1>1, <1>3, <1>4, <1>5 DEF OutboxInv

LEMMA OutboxClaim ==
  ASSUME OutboxInv, NEW x \in Executions, NEW e \in Effects, ClaimEffect(x, e)
  PROVE  OutboxInv'
<1> DEFINE n == rows[e].attempts + 1
           c == [stage |-> "CLAIMED", effect |-> e, attempt |-> n]
           r == [status |-> "PROCESSING", leased |-> TRUE, attempts |-> n]
<1>0. EffectsTyped /\ rows[e] \in Rows
  BY DEF OutboxInv, EffectsTyped
<1>1. rows[e].attempts \in Nat /\ n \in Nat /\ c \in BusyEffect /\ r \in Rows
  BY <1>0 DEF Rows, RowStates, BusyEffect
<1>2. /\ rows' = [rows EXCEPT ![e] = r] /\ effectCalls' = [effectCalls EXCEPT ![x] = c]
      /\ UNCHANGED done
  BY DEF ClaimEffect
<1>3. /\ c.stage = "CLAIMED" /\ c.effect = e /\ c.attempt = n
      /\ r.status = "PROCESSING" /\ r.attempts = n
  OBVIOUS
<1>4. n > rows[e].attempts
  BY <1>1
<1> HIDE DEF n, c, r
<1>5. EffectsTyped'
  BY <1>0, <1>1, <1>2 DEF EffectsTyped
<1>6. \A d \in Effects : /\ d # e => rows'[d] = rows[d]
                         /\ rows[d].attempts \in Nat /\ rows'[d].attempts \in Nat
                         /\ rows[d].attempts <= rows'[d].attempts
  BY <1>0, <1>1, <1>2, <1>3, <1>4 DEF EffectsTyped, Rows
<1>7. rows'[e] = r
  BY <1>0, <1>2 DEF EffectsTyped
<1>8. CallsKnow'
  <2> SUFFICES ASSUME NEW y \in Executions, effectCalls'[y].stage # "IDLE"
               PROVE  /\ effectCalls'[y].attempt <= rows'[effectCalls'[y].effect].attempts
                      /\ effectCalls'[y].stage = "ATTEMPTED" =>
                            effectCalls'[y].effect \in Files \/ effectCalls'[y].effect \in done'
    BY DEF CallsKnow, Doing
  <2>1. CASE y = x
    <3>1. effectCalls'[y] = c
      BY <1>0, <1>2, <2>1 DEF EffectsTyped
    <3> QED
      BY <1>1, <1>3, <1>7, <3>1
  <2>2. CASE y # x
    <3>1. effectCalls'[y] = effectCalls[y]
      BY <1>0, <1>2, <2>2 DEF EffectsTyped
    <3>2. effectCalls[y].effect \in Effects /\ effectCalls[y].attempt \in Nat
      BY <1>0, <3>1, BusyCall DEF Doing
    <3>3. effectCalls[y].attempt <= rows[effectCalls[y].effect].attempts
      BY <3>1 DEF OutboxInv, CallsKnow, Doing
    <3>4. effectCalls[y].attempt <= rows'[effectCalls[y].effect].attempts
      BY <1>6, <3>2, <3>3
    <3> QED
      BY <1>2, <3>1, <3>4 DEF OutboxInv, CallsKnow, Doing
  <2> QED
    BY <2>1, <2>2
<1>9. CompletedIsEmitted' /\ GivenUpLast'
  BY <1>2, <1>3, <1>6, <1>7 DEF OutboxInv, CompletedIsEmitted, GivenUpLast
<1> QED
  BY <1>5, <1>8, <1>9 DEF OutboxInv

LEMMA OutboxStep == OutboxInv /\ [EffectsNext]_effectVars => OutboxInv'
<1> SUFFICES ASSUME OutboxInv, [EffectsNext]_effectVars
             PROVE  OutboxInv'
  OBVIOUS
<1>0. EffectsTyped
  BY DEF OutboxInv
<1>1. ASSUME NEW x \in Executions, Perform(x) \/ PerformFails(x) \/ CompleteFails(x) \/ Die(x)
      PROVE  OutboxInv'
  <2>0. ~Doing(x, "IDLE") /\ effectCalls[x].effect \in Effects
    BY <1>0, <1>1, BusyCall DEF Perform, PerformFails, CompleteFails, Die, Doing
  <2>1. CASE Perform(x)
    BY <1>0, <2>0, <2>1, CallMoves DEF Perform, EffectsTyped
  <2>2. CASE PerformFails(x)
    BY <1>0, <2>0, <2>2, CallMoves DEF PerformFails, AfterFailure, EffectsTyped
  <2>3. CASE CompleteFails(x)
    BY <1>0, <2>0, <2>3, CallMoves DEF CompleteFails, EffectsTyped
  <2>4. CASE Die(x)
    <3>1. /\ effectCalls' = [effectCalls EXCEPT ![x] = NoEffect] /\ rows' = rows /\ done' = done
      BY <2>4 DEF Die
    <3> QED
      BY <1>0, <2>0, <3>1, CallMoves DEF EffectsTyped
  <2> QED
    BY <1>1, <2>1, <2>2, <2>3, <2>4
<1>2. ASSUME NEW x \in Executions, Complete(x)
      PROVE  OutboxInv'
  <2> DEFINE e == effectCalls[x].effect
             r == [status |-> "COMPLETED", leased |-> FALSE, attempts |-> rows[e].attempts]
  <2>0. Doing(x, "ATTEMPTED") /\ ~Doing(x, "IDLE") /\ e \in Effects
    BY <1>0, <1>2, BusyCall DEF Complete, Doing
  <2>1. r \in Rows
    BY <1>0, <2>0 DEF EffectsTyped, Rows, RowStates
  <2>2. rows' = [rows EXCEPT ![e] = r] /\ effectCalls' = [effectCalls EXCEPT ![x] = NoEffect] /\ UNCHANGED done
    BY <1>2 DEF Complete, Written
  <2>3. e \in Files \/ e \in done
    BY <2>0 DEF OutboxInv, CallsKnow
  <2>4. r.status = "COMPLETED" /\ r.attempts = rows[e].attempts
    OBVIOUS
  <2> HIDE DEF e, r
  <2> QED
    BY <2>0, <2>1, <2>2, <2>3, <2>4, RowWritten
<1>3. ASSUME NEW x \in Executions, Retry(x)
      PROVE  OutboxInv'
  <2> DEFINE e == effectCalls[x].effect
             s == IF IsLast(effectCalls[x].attempt) THEN "FAILED" ELSE "PENDING"
             r == [status |-> s, leased |-> FALSE, attempts |-> rows[e].attempts]
  <2>0. ~Doing(x, "IDLE") /\ e \in Effects /\ effectCalls[x].attempt \in Nat
    BY <1>0, <1>3, BusyCall DEF Retry, Doing
  <2>1. r \in Rows /\ r.attempts \in Nat
    BY <1>0, <2>0 DEF EffectsTyped, Rows, RowStates
  <2>2. rows' = [rows EXCEPT ![e] = r] /\ effectCalls' = [effectCalls EXCEPT ![x] = NoEffect] /\ UNCHANGED done
    BY <1>3 DEF Retry, Written
  <2>3. effectCalls[x].attempt <= rows[e].attempts
    BY <2>0 DEF OutboxInv, CallsKnow
  <2>4. r.status = "FAILED" => r.attempts >= MaxEffectAttempts
    BY <2>0, <2>1, <2>3, EffectsAssumption DEF IsLast
  <2>5. r.status # "COMPLETED" /\ r.attempts = rows[e].attempts
    OBVIOUS
  <2> HIDE DEF e, r
  <2> QED
    BY <2>0, <2>1, <2>2, <2>4, <2>5, RowWritten
<1>4. ASSUME NEW e \in Effects, Expire(e) \/ ExpireDead(e)
      PROVE  OutboxInv'
  <2> DEFINE r == [rows[e] EXCEPT !.leased = FALSE]
  <2>1. /\ r \in Rows /\ r.attempts = rows[e].attempts /\ r.status = rows[e].status
    BY <1>0 DEF EffectsTyped, Rows
  <2>2. rows' = [rows EXCEPT ![e] = r] /\ effectCalls' = effectCalls /\ UNCHANGED done
    BY <1>4 DEF Expire, ExpireDead
  <2>3. /\ r.status = "COMPLETED" => e \in Files \/ e \in done
        /\ r.status = "FAILED" => r.attempts >= MaxEffectAttempts
    BY <2>1 DEF OutboxInv, CompletedIsEmitted, GivenUpLast
  <2> HIDE DEF r
  <2> QED
    BY <2>1, <2>2, <2>3, RowWritten
<1>5. CASE UNCHANGED effectVars
  BY <1>5 DEF effectVars, OutboxInv, EffectsTyped, CallsKnow, Doing, CompletedIsEmitted, GivenUpLast
<1>6. CASE EffectsNext
  BY <1>1, <1>2, <1>3, <1>4, <1>6, OutboxClaim DEF EffectsNext, ProcessSideEffect
<1> QED
  BY <1>5, <1>6

\* A notification whose row is COMPLETED was emitted, whichever of the executions that
\* overlap on it wrote the row.
THEOREM CompletedIsEmittedHolds == EffectsSpec => []CompletedIsEmitted
<1>1. OutboxInv => CompletedIsEmitted
  BY DEF OutboxInv
<1> QED
  BY <1>1, OutboxInit, OutboxStep, PTL DEF EffectsSpec, effectVars

\* An effect is given up only after MaxEffectAttempts attempts were made for it, also when the
\* execution that gives it up is not the last that claimed it.
THEOREM GivenUpLastHolds == EffectsSpec => []GivenUpLast
<1>1. OutboxInv => GivenUpLast
  BY DEF OutboxInv
<1> QED
  BY <1>1, OutboxInit, OutboxStep, PTL DEF EffectsSpec, effectVars

\* The claims of an effect: every one but the first has a fault to show for it that no
\* thrown execution is still to be paid with.
Thrown == {x \in Executions : Doing(x, "THROWN")}
Unspent == effectFaults - Cardinality(Thrown)
EffectHeld(e) ==
  /\ rows[e].status = "PROCESSING" /\ rows[e].leased
  /\ \E x \in Executions : ~Doing(x, "IDLE") /\ effectCalls[x].effect = e
EffectEnded(e) == rows[e].status \in {"COMPLETED", "FAILED"} /\ ~rows[e].leased
EffectsPaid ==
  \A e \in Effects : /\ rows[e].attempts <= 1 + Unspent
                     /\ rows[e].attempts <= Unspent \/ EffectHeld(e) \/ EffectEnded(e)
FaultsCounted == IsFiniteSet(Thrown) /\ effectFaults \in 0 .. MaxEffectFaults

LEMMA UnspentType ==
  ASSUME FaultsCounted
  PROVE  Unspent \in Int /\ Cardinality(Thrown) \in Nat /\ effectFaults \in Nat /\ MaxEffectFaults \in Nat
<1>1. MaxEffectFaults \in Nat /\ effectFaults \in Nat
  BY EffectsAssumption DEF FaultsCounted
<1>2. Cardinality(Thrown) \in Nat
  BY FS_CardinalityType DEF FaultsCounted
<1> QED
  BY <1>1, <1>2 DEF Unspent

\* Execution x becomes c, with or without a fault.
LEMMA UnspentStep ==
  ASSUME EffectsTyped, FaultsCounted, NEW x \in Executions, NEW c,
         effectCalls' = [effectCalls EXCEPT ![x] = c],
         effectFaults' \in {effectFaults, effectFaults + 1}, effectFaults' <= MaxEffectFaults
  PROVE  /\ FaultsCounted' /\ Unspent' \in Int
         /\ c.stage # "THROWN" /\ x \notin Thrown /\ effectFaults' = effectFaults => Unspent' = Unspent
         /\ c.stage = "THROWN" /\ x \notin Thrown /\ effectFaults' # effectFaults => Unspent' = Unspent
         /\ c.stage # "THROWN" /\ (x \in Thrown \/ effectFaults' # effectFaults)
              => Unspent' >= Unspent + 1
<1>0. /\ Cardinality(Thrown) \in Nat /\ effectFaults \in Nat /\ IsFiniteSet(Thrown)
      /\ MaxEffectFaults \in Nat
  BY UnspentType DEF FaultsCounted
<1>1. Thrown' = IF c.stage = "THROWN" THEN Thrown \cup {x} ELSE Thrown \ {x}
  BY DEF Thrown, EffectsTyped, Doing
<1>2. /\ IsFiniteSet(Thrown \cup {x})
      /\ Cardinality(Thrown \cup {x}) = IF x \in Thrown THEN Cardinality(Thrown)
                                                        ELSE Cardinality(Thrown) + 1
  BY <1>0, FS_AddElement
<1>3. /\ IsFiniteSet(Thrown \ {x})
      /\ Cardinality(Thrown \ {x}) = IF x \in Thrown THEN Cardinality(Thrown) - 1
                                                     ELSE Cardinality(Thrown)
  BY <1>0, FS_RemoveElement
<1>4. FaultsCounted' /\ Unspent' = effectFaults' - Cardinality(Thrown')
  BY <1>0, <1>1, <1>2, <1>3 DEF FaultsCounted, Unspent
<1>5. c.stage # "THROWN" /\ x \in Thrown => Cardinality(Thrown') = Cardinality(Thrown) - 1
  BY <1>1, <1>3
<1>6. c.stage # "THROWN" /\ x \notin Thrown => Cardinality(Thrown') = Cardinality(Thrown)
  BY <1>1, <1>3
<1>7. c.stage = "THROWN" => Cardinality(Thrown') =
                               Cardinality(Thrown) + (IF x \in Thrown THEN 0 ELSE 1)
  BY <1>0, <1>1, <1>2
<1> DEFINE n == Cardinality(Thrown)
           m == Cardinality(Thrown')
<1>8. n \in Int /\ m \in Int /\ Unspent = effectFaults - n /\ Unspent' = effectFaults' - m
  BY <1>0, <1>4, <1>5, <1>6, <1>7 DEF Unspent
<1>9. effectFaults' \in Int /\ (effectFaults' # effectFaults => effectFaults' = effectFaults + 1)
  BY <1>0
<1>10. /\ c.stage # "THROWN" /\ x \in Thrown => m = n - 1
       /\ c.stage # "THROWN" /\ x \notin Thrown => m = n
       /\ c.stage = "THROWN" /\ x \notin Thrown => m = n + 1
  BY <1>5, <1>6, <1>7
<1> HIDE DEF n, m
<1>11. c.stage # "THROWN" /\ x \notin Thrown /\ effectFaults' = effectFaults => Unspent' = Unspent
  BY <1>8, <1>10
<1>12. c.stage = "THROWN" /\ x \notin Thrown /\ effectFaults' # effectFaults => Unspent' = Unspent
  BY <1>0, <1>8, <1>9, <1>10
<1>13. c.stage # "THROWN" /\ (x \in Thrown \/ effectFaults' # effectFaults) => Unspent' >= Unspent + 1
  <2>1. ASSUME c.stage # "THROWN", x \in Thrown
        PROVE  Unspent' >= Unspent + 1
    <3>1. m = n - 1 /\ (effectFaults' = effectFaults \/ effectFaults' = effectFaults + 1)
      BY <1>10, <2>1
    <3>2. effectFaults' = effectFaults => Unspent' = Unspent + 1
      BY <1>0, <1>8, <3>1
    <3>3. effectFaults' = effectFaults + 1 => Unspent' = Unspent + 2
      BY <1>0, <1>8, <3>1
    <3>4. Unspent \in Int
      BY <1>0, <1>8
    <3> QED
      BY <3>1, <3>2, <3>3, <3>4
  <2>2. ASSUME c.stage # "THROWN", x \notin Thrown, effectFaults' # effectFaults
        PROVE  Unspent' >= Unspent + 1
    <3>1. m = n /\ effectFaults' = effectFaults + 1
      BY <1>10, <2>2
    <3> QED
      BY <1>0, <1>8, <3>1
  <2> QED
    BY <2>1, <2>2
<1>14. Unspent' \in Int
  BY <1>8, <1>9
<1> QED
  BY <1>4, <1>11, <1>12, <1>13, <1>14

\* More is left to spend than before: every effect is paid for.
LEMMA MoreUnspent ==
  ASSUME EffectsTyped, FaultsCounted, EffectsPaid, Unspent' \in Int, Unspent' >= Unspent + 1,
         \A e \in Effects : rows'[e].attempts = rows[e].attempts
  PROVE  EffectsPaid'
<1> SUFFICES ASSUME NEW e \in Effects
             PROVE  rows'[e].attempts <= 1 + Unspent' /\ rows'[e].attempts <= Unspent'
  BY DEF EffectsPaid
<1>1. rows[e].attempts \in Nat /\ Unspent \in Int /\ rows[e].attempts <= 1 + Unspent
  BY UnspentType DEF EffectsTyped, Rows, EffectsPaid
<1> QED
  BY <1>1

LEMMA EffectsPaidStep ==
  ASSUME OutboxInv, FaultsCounted, EffectsPaid, [EffectsNext]_effectVars
  PROVE  FaultsCounted' /\ EffectsPaid'
<1>0. /\ EffectsTyped /\ rows \in [Effects -> Rows]
      /\ Unspent \in Int /\ effectFaults \in Nat /\ MaxEffectFaults \in Nat /\ effectFaults <= MaxEffectFaults
  BY UnspentType DEF OutboxInv, EffectsTyped, FaultsCounted
<1>1. ASSUME NEW x \in Executions, ~Doing(x, "IDLE"), NEW c, UNCHANGED rows,
             effectCalls' = [effectCalls EXCEPT ![x] = c], c.stage # "IDLE",
             c.effect = effectCalls[x].effect, effectFaults' \in {effectFaults, effectFaults + 1},
             effectFaults' <= MaxEffectFaults,
             c.stage = "THROWN" => effectFaults' = effectFaults + 1 /\ x \notin Thrown
      PROVE  FaultsCounted' /\ EffectsPaid'
  <2>1. FaultsCounted' /\ Unspent' \in Int /\ Unspent' >= Unspent
    <3>1. FaultsCounted' /\ Unspent' \in Int
      BY <1>0, <1>1, UnspentStep
    <3>2. Unspent' >= Unspent
      <4>1. effectFaults' = effectFaults + 1 => effectFaults' # effectFaults
        BY <1>0
      <4>2. Unspent' = Unspent \/ Unspent' >= Unspent + 1
        BY <1>0, <1>1, <4>1, UnspentStep
      <4> QED
        BY <1>0, <3>1, <4>2
    <3> QED
      BY <3>1, <3>2
  <2>2. ASSUME NEW e \in Effects
        PROVE  /\ rows'[e].attempts <= 1 + Unspent'
               /\ rows'[e].attempts <= Unspent' \/ EffectHeld(e)' \/ EffectEnded(e)'
    <3>1. rows'[e] = rows[e] /\ rows[e].attempts \in Nat
      BY <1>0, <1>1 DEF Rows
    <3>2. EffectHeld(e) => EffectHeld(e)'
      BY <1>0, <1>1, <3>1 DEF EffectHeld, Doing, EffectsTyped
    <3> QED
      BY <1>0, <2>1, <3>1, <3>2 DEF EffectsPaid, EffectEnded
  <2> QED
    BY <2>1, <2>2 DEF EffectsPaid
<1>2. ASSUME NEW x \in Executions,
             Perform(x) \/ PerformFails(x) \/ CompleteFails(x)
      PROVE  FaultsCounted' /\ EffectsPaid'
  <2>1. ~Doing(x, "IDLE") /\ x \notin Thrown /\ UNCHANGED rows
    BY <1>2 DEF Perform, PerformFails, CompleteFails, Doing, Thrown
  <2>2. effectCalls[x] \in BusyEffect
    BY <1>0, <2>1, BusyCall
  <2>3. PICK stage \in {"ATTEMPTED", "THROWN"} :
          /\ effectCalls' = [effectCalls EXCEPT ![x].stage = stage]
          /\ effectFaults' \in {effectFaults, effectFaults + 1} /\ effectFaults' <= MaxEffectFaults
          /\ stage = "THROWN" => effectFaults' = effectFaults + 1
    <3>1. CASE Perform(x)
      <4>1. effectCalls' = [effectCalls EXCEPT ![x].stage = "ATTEMPTED"] /\ effectFaults' = effectFaults
        BY <3>1 DEF Perform, Goes
      <4>2. effectFaults' <= MaxEffectFaults
        BY <1>0, <4>1
      <4> QED
        BY <4>1, <4>2
    <3>2. CASE PerformFails(x)
      <4> DEFINE stage == AfterFailure(effectCalls[x].effect)
      <4>1. stage \in {"ATTEMPTED", "THROWN"}
        BY DEF AfterFailure
      <4>2. effectCalls' = [effectCalls EXCEPT ![x].stage = stage]
        BY <3>2 DEF PerformFails, Goes
      <4>3. effectFaults' = effectFaults + 1 /\ effectFaults' <= MaxEffectFaults
        BY <1>0, <3>2 DEF PerformFails
      <4> HIDE DEF stage
      <4> QED
        BY <4>1, <4>2, <4>3
    <3>3. CASE CompleteFails(x)
      <4>1. effectCalls' = [effectCalls EXCEPT ![x].stage = "THROWN"]
        BY <3>3 DEF CompleteFails, Goes
      <4>2. effectFaults' = effectFaults + 1 /\ effectFaults' <= MaxEffectFaults
        BY <1>0, <3>3 DEF CompleteFails
      <4> QED
        BY <4>1, <4>2
    <3> QED
      BY <1>2, <3>1, <3>2, <3>3
  <2> DEFINE c == [effectCalls[x] EXCEPT !.stage = stage]
  <2>4. effectCalls' = [effectCalls EXCEPT ![x] = c]
    BY <1>0, <2>3 DEF EffectsTyped
  <2>5. c.stage = stage /\ c.effect = effectCalls[x].effect
    BY <2>2 DEF BusyEffect
  <2> HIDE DEF c
  <2>6. c.stage # "IDLE" /\ (c.stage = "THROWN" => effectFaults' = effectFaults + 1 /\ x \notin Thrown)
    BY <2>1, <2>3, <2>5
  <2> QED
    BY <1>1, <2>1, <2>3, <2>4, <2>5, <2>6
<1>3. ASSUME NEW x \in Executions, NEW e \in Effects, ClaimEffect(x, e)
      PROVE  FaultsCounted' /\ EffectsPaid'
  <2> DEFINE r == [status |-> "PROCESSING", leased |-> TRUE, attempts |-> rows[e].attempts + 1]
             c == [stage |-> "CLAIMED", effect |-> e, attempt |-> rows[e].attempts + 1]
  <2>1. /\ rows' = [rows EXCEPT ![e] = r] /\ effectCalls' = [effectCalls EXCEPT ![x] = c]
        /\ effectFaults' = effectFaults /\ Doing(x, "IDLE") /\ Due(e)
    BY <1>0, <1>3 DEF ClaimEffect
  <2>2. /\ r.status = "PROCESSING" /\ r.leased /\ r.attempts = rows[e].attempts + 1
        /\ c.stage = "CLAIMED" /\ c.effect = e
    OBVIOUS
  <2> HIDE DEF r, c
  <2>3. FaultsCounted' /\ Unspent' = Unspent
    <3>1. x \notin Thrown /\ effectFaults' <= MaxEffectFaults /\ c.stage # "THROWN"
      BY <1>0, <2>1, <2>2 DEF Thrown, Doing
    <3> QED
      BY <1>0, <2>1, <3>1, UnspentStep
  <2>4. rows[e].attempts \in Nat /\ rows[e].attempts <= Unspent
    BY <1>0, <2>1 DEF Rows, Due, EffectsPaid, EffectHeld, EffectEnded
  <2>5. rows'[e] = r /\ effectCalls'[x] = c
    BY <1>0, <2>1 DEF EffectsTyped
  <2>6. rows'[e].attempts <= 1 + Unspent' /\ EffectHeld(e)'
    <3>1. EffectHeld(e)'
      BY <2>2, <2>5 DEF EffectHeld, Doing
    <3>2. rows'[e].attempts <= 1 + Unspent'
      BY <1>0, <2>2, <2>3, <2>4, <2>5
    <3> QED
      BY <3>1, <3>2
  <2>7. ASSUME NEW d \in Effects, d # e
        PROVE  /\ rows'[d].attempts <= 1 + Unspent'
               /\ rows'[d].attempts <= Unspent' \/ EffectHeld(d)' \/ EffectEnded(d)'
    <3>1. rows'[d] = rows[d]
      BY <1>0, <2>1, <2>7
    <3>2. \A y \in Executions : effectCalls[y].stage # "IDLE" => effectCalls'[y] = effectCalls[y]
      BY <1>0, <2>1 DEF EffectsTyped, Doing
    <3>3. EffectHeld(d) => EffectHeld(d)'
      BY <3>1, <3>2 DEF EffectHeld, Doing
    <3> QED
      BY <2>3, <3>1, <3>3 DEF EffectsPaid, EffectEnded
  <2> QED
    BY <2>3, <2>6, <2>7 DEF EffectsPaid
<1>4. ASSUME NEW x \in Executions, Complete(x)
      PROVE  FaultsCounted' /\ EffectsPaid'
  <2>1. ~Doing(x, "IDLE") /\ x \notin Thrown
    BY <1>4 DEF Complete, Doing, Thrown
  <2>2. PICK e \in Effects : e = effectCalls[x].effect
    BY <1>0, <2>1, BusyCall
  <2>3. /\ rows' = [rows EXCEPT ![e] = [status |-> "COMPLETED", leased |-> FALSE,
                                        attempts |-> rows[e].attempts]]
        /\ effectCalls' = [effectCalls EXCEPT ![x] = NoEffect] /\ effectFaults' = effectFaults
    BY <1>0, <1>4, <2>2 DEF Complete, Written
  <2>4. FaultsCounted' /\ Unspent' = Unspent
    <3>1. effectFaults' <= MaxEffectFaults /\ NoEffect.stage # "THROWN"
      BY <1>0, <2>3 DEF NoEffect
    <3> QED
      BY <1>0, <2>1, <2>3, <3>1, UnspentStep
  <2>5. rows'[e].attempts = rows[e].attempts /\ EffectEnded(e)'
    BY <1>0, <2>3 DEF EffectEnded
  <2>6. ASSUME NEW d \in Effects, d # e
        PROVE  rows'[d] = rows[d] /\ (EffectHeld(d) => EffectHeld(d)')
    <3>1. rows'[d] = rows[d]
      BY <1>0, <2>3, <2>6
    <3>2. \A y \in Executions : y # x => effectCalls'[y] = effectCalls[y]
      BY <1>0, <2>3 DEF EffectsTyped
    <3> QED
      BY <2>2, <2>6, <3>1, <3>2 DEF EffectHeld, Doing
  <2> QED
    BY <2>4, <2>5, <2>6 DEF EffectsPaid, EffectEnded
<1>5. ASSUME NEW x \in Executions, Retry(x) \/ Die(x)
      PROVE  FaultsCounted' /\ EffectsPaid'
  <2>1. /\ effectCalls' = [effectCalls EXCEPT ![x] = NoEffect]
        /\ effectFaults' \in {effectFaults, effectFaults + 1} /\ effectFaults' <= MaxEffectFaults
        /\ effectFaults' = effectFaults => x \in Thrown
    <3>1. CASE Retry(x)
      <4>1. /\ effectCalls' = [effectCalls EXCEPT ![x] = NoEffect] /\ x \in Thrown
            /\ effectFaults' = effectFaults /\ effectFaults' <= MaxEffectFaults
        BY <1>0, <3>1 DEF Retry, Thrown
      <4> QED
        BY <4>1
    <3>2. CASE Die(x)
      <4>1. /\ effectCalls' = [effectCalls EXCEPT ![x] = NoEffect]
            /\ effectFaults' = effectFaults + 1 /\ effectFaults' <= MaxEffectFaults
        BY <1>0, <3>2 DEF Die
      <4> QED
        BY <1>0, <4>1
    <3> QED
      BY <1>5, <3>1, <3>2
  <2>2. FaultsCounted' /\ Unspent' \in Int /\ Unspent' >= Unspent + 1
    <3>1. NoEffect.stage # "THROWN"
      BY DEF NoEffect
    <3> QED
      BY <1>0, <2>1, <3>1, UnspentStep
  <2>3. \A e \in Effects : rows'[e].attempts = rows[e].attempts
    BY <1>0, <1>5 DEF Retry, Die, Written
  <2> QED
    BY <1>0, <2>2, <2>3, MoreUnspent
<1>6. ASSUME NEW e \in Effects, Expire(e)
      PROVE  FaultsCounted' /\ EffectsPaid'
  <2>1. effectFaults' = effectFaults + 1 /\ effectFaults' <= MaxEffectFaults /\ Thrown' = Thrown
    BY <1>0, <1>6 DEF Expire, Thrown, Doing
  <2>2. FaultsCounted' /\ Unspent' \in Int /\ Unspent' >= Unspent + 1
    <3>1. Unspent' = effectFaults' - Cardinality(Thrown')
      BY DEF Unspent
    <3> QED
      BY <1>0, <2>1, <3>1, UnspentType DEF FaultsCounted, Unspent
  <2>3. \A d \in Effects : rows'[d].attempts = rows[d].attempts
    BY <1>0, <1>6 DEF Expire, Rows
  <2> QED
    BY <1>0, <2>2, <2>3, MoreUnspent
<1>7. ASSUME NEW e \in Effects, ExpireDead(e)
      PROVE  FaultsCounted' /\ EffectsPaid'
  <2>1. UNCHANGED <<effectCalls, effectFaults>> /\ rows' = [rows EXCEPT ![e].leased = FALSE]
    BY <1>7 DEF ExpireDead
  <2>2. FaultsCounted' /\ Unspent' = Unspent
    BY <2>1 DEF FaultsCounted, Unspent, Thrown, Doing
  <2>3. rows[e].attempts <= Unspent
    BY <1>7 DEF ExpireDead, EffectsPaid, EffectHeld, EffectEnded
  <2>4. /\ rows'[e].attempts = rows[e].attempts /\ rows[e].attempts \in Nat
        /\ \A d \in Effects : d # e => rows'[d] = rows[d]
    BY <1>0, <2>1 DEF Rows
  <2> QED
    BY <1>0, <2>1, <2>2, <2>3, <2>4 DEF EffectsPaid, EffectHeld, EffectEnded, Doing
<1>8. CASE UNCHANGED effectVars
  BY <1>8 DEF effectVars, FaultsCounted, EffectsPaid, Unspent, Thrown, EffectHeld, EffectEnded, Doing
<1>9. CASE EffectsNext
  BY <1>2, <1>3, <1>4, <1>5, <1>6, <1>7, <1>9 DEF EffectsNext, ProcessSideEffect
<1> QED
  BY <1>8, <1>9

\* Every reachable state of the outbox has the declared types, and no row is claimed more
\* often than there were faults, and once: a late result that reopens a row answers for
\* the failure it reports.
THEOREM OutboxTypeCorrect == EffectsSpec => []EffectsTypeOK
<1> DEFINE Inv == OutboxInv /\ FaultsCounted /\ EffectsPaid
<1>1. EffectsInit => Inv
  <2> SUFFICES ASSUME EffectsInit PROVE Inv
    OBVIOUS
  <2>1. Thrown = {} /\ effectFaults = 0
    BY DEF EffectsInit, Thrown, Doing, NoEffect
  <2>2. Cardinality(Thrown) = 0 /\ FaultsCounted
    BY <2>1, FS_EmptySet, EffectsAssumption DEF FaultsCounted
  <2>3. EffectsPaid
    BY <2>1, <2>2 DEF EffectsInit, EffectsPaid, Unspent
  <2> QED
    BY <2>2, <2>3, OutboxInit
<1>2. Inv /\ [EffectsNext]_effectVars => Inv'
  BY OutboxStep, EffectsPaidStep
<1>3. Inv => EffectsTypeOK
  <2> SUFFICES ASSUME Inv PROVE EffectsTypeOK
    OBVIOUS
  <2>1. \A e \in Effects : rows[e].attempts <= effectFaults + 1
    <3> SUFFICES ASSUME NEW e \in Effects PROVE rows[e].attempts <= effectFaults + 1
      OBVIOUS
    <3>1. rows[e].attempts \in Nat /\ rows[e].attempts <= 1 + Unspent
      BY DEF OutboxInv, EffectsTyped, Rows, EffectsPaid
    <3> QED
      BY <3>1, UnspentType DEF Unspent
  <2> QED
    BY <2>1 DEF OutboxInv, EffectsTyped, FaultsCounted, EffectsTypeOK, EffectCalls, BusyEffect
<1> HIDE DEF Inv
<1> QED
  BY <1>1, <1>2, <1>3, PTL DEF EffectsSpec, effectVars
=============================================================================
