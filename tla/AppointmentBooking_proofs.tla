----------------------- MODULE AppointmentBooking_proofs -----------------------
(***************************************************************************)
(* Serializable transactions keep what staff book free of double bookings, *)
(* for any number of sessions, people and times and whatever automations   *)
(* book beside them.  The argument: what a transaction did not see when it *)
(* decided was written by an automation, or by a rival that decided on an  *)
(* overlapping place, so each read what the other wrote and the later      *)
(* commit is refused.                                                      *)
(*                                                                         *)
(* The events of an appointment tell its status: a session that changes a  *)
(* row has held it alone since it read the status.                         *)
(***************************************************************************)
EXTENDS AppointmentBooking, FiniteSetTheorems, TLAPS

Cells == Rows \cup {Absent, Removed}
Marks == [place : Places, decides : BOOLEAN, images : SUBSET Cells]

Jobs == [pc : {"idle", "select", "begin", "lock", "evaluate", "write"},
         op : {"none", "create", "patch", "status", "book", "restatus"},
         id : Appts \cup {0}, place : Places \cup {Absent} \cup [contact : Contacts], status : Statuses \cup {"KEEP"},
         snap : {<<>>} \cup [Appts -> Cells], was : Statuses \cup {"ABSENT"},
         rivals : SUBSET Marks, attempt : Nat]

Counted(row) == row.status = "SCHEDULED" /\ row.by = "STAFF"

\* What staff booked and was not in the snapshot comes from a rival that decided on it.
Explained(job, db) == \A i \in Appts :
    \/ db[i] = job.snap[i]
    \/ ~ Counted(db[i])
    \/ \E t \in job.rivals : db[i] \in t.images /\ t.decides /\ t.place = Place(db[i])

\* What is known of a job at each of its steps.
Shaped(job) ==
    /\ job \in Jobs
    /\ Serializable(job) => job.place \in Places
    /\ job.pc = "begin" => Serializable(job)
    /\ job.op \in {"create", "book"} => job.id = 0 /\ job.status = "SCHEDULED"
    /\ job.op \in {"patch", "status"} => job.id \in Appts
    /\ job.op = "status" => job.status \in Statuses \ {"SCHEDULED"}
    /\ job.op = "status" => job.pc # "evaluate"
    /\ job.op = "restatus" => job.status \in Statuses
    /\ job.pc = "select" => job.op = "restatus"
    /\ job.pc = "lock" => job.id \in Appts
    /\ job.pc \in {"evaluate", "write"} => NextStatus(job) \in Statuses /\ job.place \in Places
    /\ job.pc # "idle" => job.op # "none"

Sound(job, db) ==
    /\ Shaped(job)
    /\ Serializable(job) /\ InTransaction(job) => job.snap \in [Appts -> Cells] /\ Explained(job, db)
    /\ Serializable(job) /\ job.pc = "write" /\ Decides(job) => Available(job.snap, job.id, job.place)

\* Only automations book without a serializable transaction.
Fits(s, job) == job.op \in {"book", "restatus"} => s \notin Staff

Typed == /\ appts \in [Appts -> Cells]
         /\ jobs \in [Sessions -> Jobs]
         /\ \A s \in Sessions : Fits(s, jobs[s])
Races == Typed /\ \A s \in Sessions : Sound(jobs[s], appts)

-----------------------------------------------------------------------------
(* Places and counts *)

LEMMA OverlapSymmetric ==
  ASSUME NEW s \in Nat, NEW t \in Nat
  PROVE  /\ Overlap(s, t) <=> Overlap(t, s)
         /\ Overlap(s, t) => Near(t, s)
  BY BookingAssumption DEF Overlap, Near

LEMMA PlaceOfRow ==
  ASSUME NEW p \in Places, NEW st \in Statuses, NEW by \in Actors
  PROVE  /\ At(p, st, by) \in Rows /\ At(p, st, by).status = st /\ At(p, st, by).by = by
         /\ Place(At(p, st, by)) = p
         /\ At(p, st, by).assignee = p.assignee /\ At(p, st, by).contact = p.contact
         /\ At(p, st, by).start = p.start
  BY DEF Places, Rows, At, Place

LEMMA CellShape ==
  ASSUME NEW c \in Cells
  PROVE  /\ c.status \in Statuses <=> c \in Rows
         /\ c.status = "SCHEDULED" => c \in Rows
         /\ c \in Rows => /\ Place(c) \in Places /\ c.start \in Nat
                          /\ Place(c).start = c.start /\ Place(c).contact = c.contact
                          /\ Place(c).assignee = c.assignee
<1>1. c \in Rows => c.status \in Statuses
  BY DEF Rows
<1>2. c = Absent \/ c = Removed => c.status \notin Statuses /\ c.status # "SCHEDULED"
  BY BookingAssumption DEF Absent, Removed
<1>3. c \in Rows => /\ Place(c) \in Places /\ c.start \in Nat
                    /\ Place(c).start = c.start /\ Place(c).contact = c.contact
                    /\ Place(c).assignee = c.assignee
  <2> SUFFICES ASSUME c \in Rows PROVE c.assignee \in Assignees /\ c.contact \in Contacts
                                       /\ c.start \in Starts
    BY BookingAssumption DEF Place, Places
  <2> QED
    BY DEF Rows
<1>4. "SCHEDULED" \in Statuses
  BY BookingAssumption
<1>5. c \in Rows \/ c = Absent \/ c = Removed
  BY DEF Cells
<1>6. c.status \in Statuses <=> c \in Rows
  BY <1>1, <1>2, <1>5
<1>7. c.status = "SCHEDULED" => c \in Rows
  BY <1>2, <1>5
<1> QED
  BY <1>3, <1>6, <1>7

LEMMA AppointmentsFinite ==
  ASSUME NEW S \in SUBSET Appts
  PROVE  IsFiniteSet(S) /\ Cardinality(S) \in Nat
<1>1. MaxRequests \in Int /\ 1 \in Int
  BY BookingAssumption
<1>2. IsFiniteSet(Appts)
  BY <1>1, FS_Interval DEF Appts
<1>3. IsFiniteSet(S)
  BY <1>2, FS_Subset
<1> QED
  BY <1>3, FS_CardinalityType

\* One more appointment than those counted before stays within the limit.
LEMMA OneMoreFits ==
  ASSUME NEW limit \in Nat, NEW new, NEW S \in SUBSET Appts, NEW T \in SUBSET Appts,
         Cardinality(S) < limit, new \in Appts, T \subseteq S \cup {new}
  PROVE  Cardinality(T) <= limit
<1>1. IsFiniteSet(S) /\ Cardinality(S) \in Nat /\ Cardinality(T) \in Nat
  BY AppointmentsFinite
<1>2. IsFiniteSet(S \cup {new}) /\ Cardinality(S \cup {new}) <= Cardinality(S) + 1
  BY <1>1, FS_AddElement
<1>3. Cardinality(T) <= Cardinality(S \cup {new})
  BY <1>2, FS_Subset
<1>4. Cardinality(S \cup {new}) \in Nat
  BY <1>2, FS_CardinalityType
<1> QED
  BY <1>1, <1>2, <1>3, <1>4

-----------------------------------------------------------------------------
(* Steps that leave the appointments alone *)

LEMMA IdleSound ==
  ASSUME NEW db PROVE Sound(Idle, db) /\ Idle \in Jobs
  BY DEF Sound, Shaped, Idle, Jobs, Serializable, InTransaction, Absent

LEMMA JobMoves ==
  ASSUME Races, NEW s \in Sessions, NEW job, Sound(job, appts), Fits(s, job),
         jobs' = [jobs EXCEPT ![s] = job], appts' = appts
  PROVE  Races'
<1>1. job \in Jobs
  BY DEF Sound, Shaped
<1>2. Typed'
  BY <1>1 DEF Races, Typed, Fits
<1>3. \A o \in Sessions : Sound(jobs'[o], appts')
  BY DEF Races, Typed
<1> QED
  BY <1>2, <1>3 DEF Races

LEMMA JobTyped ==
  ASSUME Races, NEW s \in Sessions
  PROVE  jobs[s] \in Jobs /\ Sound(jobs[s], appts) /\ Shaped(jobs[s]) /\ Fits(s, jobs[s])
  BY DEF Races, Typed, Sound

LEMMA EndRaces ==
  ASSUME Races, NEW s \in Sessions, End(s), appts' = appts
  PROVE  Races'
<1>1. Fits(s, Idle)
  BY DEF Fits, Idle
<1> QED
  BY <1>1, JobMoves, IdleSound DEF End, Goto

LEMMA AskRaces ==
  ASSUME Races, NEW s \in Sessions,
         AskBooking(s) \/ AskChange(s) \/ AskStatus(s) \/ AskRestatus(s)
  PROVE  Races'
<1>1. ASSUME NEW job, Start(s, job), Shaped(job), Serializable(job) => job.pc = "begin", Fits(s, job)
      PROVE  Races'
  <2>1. Sound(job, appts)
    BY <1>1 DEF Sound, InTransaction
  <2> QED
    BY <1>1, <2>1, JobMoves DEF Start, Goto
<1>2. CASE AskBooking(s) /\ s \in Staff
  <2>1. PICK p \in Places : Start(s, [Idle EXCEPT !.op = "create", !.pc = "begin",
                                                  !.place = p, !.status = "SCHEDULED"])
    BY <1>2 DEF AskBooking
  <2> DEFINE job == [Idle EXCEPT !.op = "create", !.pc = "begin",
                                 !.place = p, !.status = "SCHEDULED"]
  <2>2. Shaped(job) /\ job.pc = "begin" /\ Fits(s, job)
    BY BookingAssumption DEF Shaped, Idle, Jobs, Serializable, Absent, Fits
  <2> QED
    BY <2>1, <2>2, <1>1
<1>3. CASE AskBooking(s) /\ s \notin Staff
  <2>1. PICK p \in Places : Start(s, [Idle EXCEPT !.op = "book", !.pc = "evaluate",
                                                  !.place = p, !.status = "SCHEDULED"])
    BY <1>3 DEF AskBooking
  <2> DEFINE job == [Idle EXCEPT !.op = "book", !.pc = "evaluate",
                                 !.place = p, !.status = "SCHEDULED"]
  <2>2. Shaped(job) /\ ~ Serializable(job) /\ Fits(s, job)
    BY <1>3, BookingAssumption DEF Shaped, Idle, Jobs, Serializable, NextStatus, Absent, Fits
  <2> QED
    BY <2>1, <2>2, <1>1
<1>4. CASE AskChange(s)
  <2>0. PICK i \in Appts :
          /\ Stored(appts, i)
          /\ \E p \in Given(appts[i]), st \in Statuses \cup {"KEEP"} :
               Start(s, [Idle EXCEPT !.op = "patch", !.pc = "begin", !.id = i, !.place = p,
                                     !.status = st])
    BY <1>4 DEF AskChange
  <2>1. PICK p \in Given(appts[i]), st \in Statuses \cup {"KEEP"} :
               Start(s, [Idle EXCEPT !.op = "patch", !.pc = "begin", !.id = i, !.place = p,
                                     !.status = st])
    BY <2>0
  <2> DEFINE job == [Idle EXCEPT !.op = "patch", !.pc = "begin", !.id = i, !.place = p,
                                 !.status = st]
  <2>2. Place(appts[i]) \in Places
    BY <2>0, CellShape DEF Races, Typed, Stored
  <2>3. p \in Places
    BY <2>2 DEF Given, Places
  <2>4. Shaped(job) /\ job.pc = "begin" /\ Fits(s, job)
    BY <2>3, BookingAssumption DEF Shaped, Idle, Jobs, Serializable, Absent, Appts, Fits
  <2> QED
    BY <2>1, <2>4, <1>1
<1>5. CASE AskStatus(s)
  <2>1. PICK i \in Appts, st \in Statuses \ {"SCHEDULED"} :
          Start(s, [Idle EXCEPT !.op = "status", !.pc = "lock", !.id = i, !.status = st])
    BY <1>5 DEF AskStatus
  <2> DEFINE job == [Idle EXCEPT !.op = "status", !.pc = "lock", !.id = i, !.status = st]
  <2>2. Shaped(job) /\ ~ Serializable(job) /\ Fits(s, job)
    BY BookingAssumption DEF Shaped, Idle, Jobs, Serializable, Absent, Appts, Fits
  <2> QED
    BY <2>1, <2>2, <1>1
<1>6. CASE AskRestatus(s)
  <2>1. PICK c \in Contacts, st \in Statuses, last \in {0, RetryLimit - 1} :
          Start(s, [Idle EXCEPT !.op = "restatus", !.pc = "select", !.status = st, !.attempt = last,
                                !.place = [contact |-> c]])
    BY <1>6 DEF AskRestatus
  <2> DEFINE job == [Idle EXCEPT !.op = "restatus", !.pc = "select", !.status = st, !.attempt = last,
                                 !.place = [contact |-> c]]
  <2>2. last \in Nat /\ [contact |-> c] \in [contact : Contacts]
    BY BookingAssumption
  <2>3. Shaped(job) /\ ~ Serializable(job) /\ Fits(s, job)
    BY <1>6, <2>2, BookingAssumption DEF Shaped, Idle, Jobs, Serializable, Absent, Fits, AskRestatus
  <2> QED
    BY <2>1, <2>3, <1>1
<1> QED
  BY <1>2, <1>3, <1>4, <1>5, <1>6

LEMMA SelectRaces ==
  ASSUME Races, NEW s \in Sessions, Select(s)
  PROVE  Races'
<1> DEFINE job == jobs[s]
<1>1. Shaped(job) /\ job \in Jobs /\ job.pc = "select" /\ Fits(s, job)
  BY JobTyped DEF Select
<1>2. CASE End(s)
  BY <1>2, EndRaces DEF Select
<1>3. ASSUME NEW i \in Appts, Goto(s, [job EXCEPT !.pc = "lock", !.id = i])
      PROVE  Races'
  <2> DEFINE new == [job EXCEPT !.pc = "lock", !.id = i]
  <2>1. /\ new \in Jobs /\ new.op = job.op /\ new.pc = "lock" /\ new.id = i
        /\ new.status = job.status
    BY <1>1 DEF Jobs
  <2> HIDE DEF new
  <2>2. Sound(new, appts) /\ Fits(s, new)
    BY <1>1, <2>1 DEF Sound, Shaped, Serializable, Fits
  <2> QED
    BY <1>3, <2>2, JobMoves DEF Select, Goto, new
<1> QED
  BY <1>2, <1>3 DEF Select

LEMMA BeginRaces ==
  ASSUME Races, NEW s \in Sessions, Begin(s)
  PROVE  Races'
<1> DEFINE job == jobs[s]
           new == [job EXCEPT !.pc = IF job.id = 0 THEN "evaluate" ELSE "lock",
                              !.snap = appts, !.rivals = {}]
<1>1. Shaped(job) /\ job.pc = "begin" /\ job \in Jobs /\ Fits(s, job)
  BY JobTyped DEF Begin
<1>2. appts \in [Appts -> Cells]
  BY DEF Races, Typed
<1>3. new \in Jobs
  BY <1>1, <1>2 DEF Jobs
<1>4. /\ new.op = job.op /\ new.id = job.id /\ new.place = job.place /\ new.status = job.status
      /\ new.was = job.was /\ new.snap = appts
      /\ new.pc = IF job.id = 0 THEN "evaluate" ELSE "lock"
  BY <1>1 DEF Jobs
<1>5. Shaped(new)
  BY <1>1, <1>3, <1>4, BookingAssumption DEF Shaped, Serializable, NextStatus, Appts
<1>6. Explained(new, appts)
  BY <1>4 DEF Explained
<1>7. Sound(new, appts) /\ Fits(s, new)
  BY <1>1, <1>2, <1>4, <1>5, <1>6 DEF Sound, Fits
<1> QED
  BY <1>7, JobMoves DEF Begin, Goto

LEMMA RefuseRaces ==
  ASSUME Races, NEW s \in Sessions, Refuse(s)
  PROVE  Races'
<1> DEFINE job == jobs[s]
           new == [job EXCEPT !.pc = "begin", !.snap = <<>>, !.rivals = {}, !.attempt = @ + 1]
<1>1. Shaped(job) /\ Serializable(job) /\ job \in Jobs /\ Fits(s, job)
  BY JobTyped DEF Refuse
<1>2. CASE End(s)
  BY <1>2, EndRaces DEF Refuse
<1>3. CASE Goto(s, new)
  <2>0. new \in Jobs
    <3>1. job.attempt + 1 \in Nat /\ {} \in SUBSET Marks
      BY <1>1 DEF Jobs
    <3> QED
      BY <1>1, <3>1 DEF Jobs
  <2>1. new \in Jobs /\ new.pc = "begin" /\ new.op = job.op /\ new.id = job.id
        /\ new.place = job.place /\ new.status = job.status
    BY <1>1, <2>0 DEF Jobs
  <2>2. Sound(new, appts) /\ Fits(s, new)
    <3> HIDE DEF new
    <3>1. Shaped(new)
      BY <1>1, <2>1 DEF Shaped, Serializable
    <3> QED
      BY <1>1, <2>1, <3>1 DEF Sound, InTransaction, Fits
  <2> QED
    BY <1>3, <2>2, JobMoves DEF Refuse, Goto
<1> QED
  BY <1>2, <1>3 DEF Refuse

LEMMA LockRowRaces ==
  ASSUME Races, NEW s \in Sessions, LockRow(s)
  PROVE  Races'
<1> DEFINE job == jobs[s]
           row == appts[job.id]
<1>1. Sound(job, appts) /\ Shaped(job) /\ job \in Jobs /\ job.pc = "lock" /\ Fits(s, job)
  BY JobTyped DEF LockRow
<1>2. CASE End(s)
  BY <1>2, EndRaces DEF LockRow
<1>3. CASE /\ Serializable(job) /\ row = job.snap[job.id] /\ Stored(appts, job.id)
           /\ Goto(s, [job EXCEPT !.pc = "evaluate", !.was = row.status])
  <2> DEFINE new == [job EXCEPT !.pc = "evaluate", !.was = row.status]
  <2>1. row.status \in Statuses
    BY <1>3 DEF Stored
  <2>2. new \in Jobs
    BY <1>1, <2>1 DEF Jobs
  <2>3. /\ new.op = job.op /\ new.id = job.id /\ new.place = job.place /\ new.status = job.status
        /\ new.was = row.status /\ new.snap = job.snap /\ new.rivals = job.rivals
        /\ new.pc = "evaluate"
    BY <1>1 DEF Jobs
  <2> HIDE DEF new
  <2>4. job.status \in Statuses \cup {"KEEP"}
    BY <1>1 DEF Jobs
  <2>5. Shaped(new)
    BY <1>1, <1>3, <2>1, <2>2, <2>3, <2>4 DEF Shaped, Serializable, NextStatus
  <2>6. Explained(new, appts) /\ new.snap \in [Appts -> Cells]
    BY <1>1, <1>3, <2>3 DEF Sound, Explained, InTransaction
  <2>7. Sound(new, appts) /\ Fits(s, new)
    BY <1>1, <2>3, <2>5, <2>6 DEF Sound, Fits
  <2> QED
    BY <1>3, <2>7, JobMoves DEF LockRow, Goto, new
<1>4. CASE /\ job.op = "status" /\ Stored(appts, job.id)
           /\ Goto(s, [job EXCEPT !.pc = "write", !.place = Place(row), !.was = row.status])
  <2> DEFINE new == [job EXCEPT !.pc = "write", !.place = Place(row), !.was = row.status]
  <2>1. row.status \in Statuses /\ Place(row) \in Places
    BY <1>1, <1>4, CellShape DEF Stored, Races, Typed, Shaped
  <2>2. new \in Jobs
    BY <1>1, <2>1 DEF Jobs
  <2>3. /\ new.op = job.op /\ new.id = job.id /\ new.place = Place(row) /\ new.status = job.status
        /\ new.pc = "write"
    BY <1>1 DEF Jobs
  <2> HIDE DEF new
  <2>4. Sound(new, appts) /\ Fits(s, new)
    BY <1>1, <1>4, <2>1, <2>2, <2>3, BookingAssumption
       DEF Sound, Shaped, Serializable, NextStatus, Fits
  <2> QED
    BY <1>4, <2>4, JobMoves DEF LockRow, Goto, new
<1>5. CASE /\ job.op = "restatus" /\ Stored(appts, job.id)
           /\ Goto(s, [job EXCEPT !.pc = "evaluate", !.place = Place(row), !.was = row.status])
  <2> DEFINE new == [job EXCEPT !.pc = "evaluate", !.place = Place(row), !.was = row.status]
  <2>1. row.status \in Statuses /\ Place(row) \in Places
    BY <1>1, <1>5, CellShape DEF Stored, Races, Typed, Shaped
  <2>2. new \in Jobs
    BY <1>1, <2>1 DEF Jobs
  <2>3. /\ new.op = job.op /\ new.id = job.id /\ new.place = Place(row) /\ new.status = job.status
        /\ new.pc = "evaluate" /\ job.status # "KEEP"
    BY <1>1, <1>5, BookingAssumption DEF Jobs, Shaped
  <2> HIDE DEF new
  <2>4. Sound(new, appts) /\ Fits(s, new)
    BY <1>1, <1>5, <2>1, <2>2, <2>3 DEF Sound, Shaped, Serializable, NextStatus, Fits
  <2> QED
    BY <1>5, <2>4, JobMoves DEF LockRow, Goto, new
<1>6. CASE /\ job.op = "restatus"
           /\ Goto(s, [job EXCEPT !.pc = "select", !.id = 0, !.attempt = @ + 1])
  <2> DEFINE new == [job EXCEPT !.pc = "select", !.id = 0, !.attempt = @ + 1]
  <2>1. job.attempt + 1 \in Nat
    BY <1>1 DEF Jobs
  <2>2. /\ new \in Jobs /\ new.op = job.op /\ new.pc = "select" /\ new.status = job.status
    BY <1>1, <2>1 DEF Jobs
  <2> HIDE DEF new
  <2>3. Sound(new, appts) /\ Fits(s, new)
    BY <1>1, <1>6, <2>2 DEF Sound, Shaped, Serializable, Fits
  <2> QED
    BY <1>6, <2>3, JobMoves DEF LockRow, Goto, new
<1> QED
  BY <1>2, <1>3, <1>4, <1>5, <1>6 DEF LockRow

LEMMA EvaluateRaces ==
  ASSUME Races, NEW s \in Sessions, Evaluate(s)
  PROVE  Races'
<1> DEFINE job == jobs[s]
           new == [job EXCEPT !.pc = "write"]
<1>1. Sound(job, appts) /\ Shaped(job) /\ job \in Jobs /\ job.pc = "evaluate" /\ Fits(s, job)
  BY JobTyped DEF Evaluate
<1>2. CASE End(s)
  BY <1>2, EndRaces DEF Evaluate
<1>3. CASE /\ Decides(job) => Available(View(job), job.id, job.place)
           /\ Goto(s, new)
  <2>1. /\ new \in Jobs /\ new.op = job.op /\ new.id = job.id /\ new.place = job.place
        /\ new.status = job.status /\ new.was = job.was /\ new.snap = job.snap
        /\ new.rivals = job.rivals /\ new.pc = "write"
    BY <1>1 DEF Jobs
  <2> HIDE DEF new
  <2>3. NextStatus(new) = NextStatus(job) /\ (Decides(new) <=> Decides(job))
        /\ (Serializable(new) <=> Serializable(job))
    BY <2>1 DEF NextStatus, Decides, Serializable
  <2>4. Serializable(job) => Explained(new, appts) /\ new.snap \in [Appts -> Cells]
    BY <1>1, <2>1 DEF Sound, Explained, InTransaction
  <2>5. Shaped(new)
    BY <1>1, <2>1, <2>3 DEF Shaped, Serializable
  <2>6. Serializable(new) /\ Decides(new) => Available(new.snap, new.id, new.place)
    BY <1>3, <2>1, <2>3 DEF View
  <2>7. Sound(new, appts) /\ Fits(s, new)
    BY <1>1, <2>1, <2>3, <2>4, <2>5, <2>6 DEF Sound, Fits
  <2> QED
    BY <1>3, <2>7, JobMoves DEF Evaluate, Goto, new
<1> QED
  BY <1>2, <1>3 DEF Evaluate

-----------------------------------------------------------------------------
(* Steps that change an appointment *)

\* An appointment that is not scheduled by staff needs no explanation.
LEMMA StillExplained ==
  ASSUME Races, NEW o \in Sessions, NEW i \in Appts, NEW cell \in Cells,
         ~ Counted(cell), appts' = [appts EXCEPT ![i] = cell]
  PROVE  Sound(jobs[o], appts')
<1>1. Sound(jobs[o], appts)
  BY JobTyped
<1>2. \A k \in Appts : appts'[k] = appts[k] \/ ~ Counted(appts'[k])
  BY DEF Races, Typed
<1>3. Explained(jobs[o], appts) => Explained(jobs[o], appts')
  BY <1>2 DEF Explained
<1> QED
  BY <1>1, <1>3 DEF Sound

LEMMA DeleteRaces ==
  ASSUME Races, NEW s \in Sessions, Delete(s)
  PROVE  Races'
<1>1. PICK i \in Appts : appts' = [appts EXCEPT ![i] = Removed] /\ jobs' = jobs
  BY DEF Delete
<1>2. Removed \in Cells /\ ~ Counted(Removed)
  BY DEF Cells, Removed, Counted
<1>3. \A o \in Sessions : Sound(jobs'[o], appts')
  BY <1>1, <1>2, StillExplained
<1>4. Typed'
  BY <1>1, <1>2 DEF Races, Typed
<1> QED
  BY <1>3, <1>4 DEF Races

\* A rival that goes on beside the commit of a serializable transaction learns of it.
LEMMA RivalExplained ==
  ASSUME Races, NEW o \in Sessions, NEW i \in Appts, NEW new \in Rows, NEW mark \in Marks,
         appts' = [appts EXCEPT ![i] = new], new \in mark.images,
         Counted(new) => mark.decides /\ mark.place = Place(new)
  PROVE  Sound([jobs[o] EXCEPT !.rivals = @ \cup {mark}], appts')
<1> DEFINE job == jobs[o]
           next == [job EXCEPT !.rivals = @ \cup {mark}]
<1>1. Sound(job, appts) /\ Shaped(job) /\ job \in Jobs
  BY JobTyped
<1>2. next \in Jobs
  BY <1>1 DEF Jobs
<1>3. /\ next.op = job.op /\ next.id = job.id /\ next.place = job.place /\ next.pc = job.pc
      /\ next.status = job.status /\ next.was = job.was /\ next.snap = job.snap
      /\ next.rivals = job.rivals \cup {mark}
  BY <1>1 DEF Jobs
<1> HIDE DEF next
<1>4. Shaped(next)
  BY <1>1, <1>2, <1>3 DEF Shaped, Serializable, NextStatus
<1>5. Explained(job, appts) => Explained(next, appts')
  <2> SUFFICES ASSUME Explained(job, appts), NEW k \in Appts,
                      appts'[k] # next.snap[k], Counted(appts'[k])
               PROVE  \E t \in next.rivals : appts'[k] \in t.images /\ t.decides
                                             /\ t.place = Place(appts'[k])
    BY DEF Explained
  <2>1. CASE k = i
    <3>1. appts'[k] = new
      BY <2>1 DEF Races, Typed
    <3> QED
      BY <1>3, <3>1
  <2>2. CASE k # i
    <3>1. appts'[k] = appts[k]
      BY <2>2 DEF Races, Typed
    <3> QED
      BY <1>3, <3>1 DEF Explained
  <2> QED
    BY <2>1, <2>2
<1>6. (Serializable(next) <=> Serializable(job)) /\ (Decides(next) <=> Decides(job))
      /\ (InTransaction(next) <=> InTransaction(job))
  BY <1>3 DEF Serializable, Decides, NextStatus, InTransaction
<1> QED
  BY <1>1, <1>3, <1>4, <1>5, <1>6 DEF Sound, next

\* What a commit writes, and what the others make of it.
LEMMA WriteShape ==
  ASSUME Races, NEW s \in Sessions, Write(s)
  PROVE  \E i \in Appts : LET job == jobs[s]  new == At(job.place, NextStatus(job), Actor(s)) IN
           /\ new \in Rows /\ new.status = NextStatus(job) /\ Place(new) = job.place
           /\ job.place \in Places /\ NextStatus(job) \in Statuses
           /\ job.id # 0 => i = job.id
           /\ job.id = 0 => appts[i] = Absent
           /\ Serializable(job) => ~ Dangerous(job, i, new)
           /\ ~ Serializable(job) => ~ Counted(new)
           /\ Fits(s, job)
           /\ appts' = [appts EXCEPT ![i] = new]
           /\ jobs' = [o \in Sessions |->
                 IF o = s THEN Idle
                 ELSE IF Serializable(job) /\ Serializable(jobs[o]) /\ InTransaction(jobs[o])
                      THEN [jobs[o] EXCEPT !.rivals = @ \cup {Mark(job, i, new)}]
                      ELSE jobs[o]]
<1> DEFINE job == jobs[s]
           new == At(job.place, NextStatus(job), Actor(s))
<1>1. Shaped(job) /\ job \in Jobs /\ job.pc = "write" /\ Fits(s, job)
  BY JobTyped DEF Write
<1>2. job.place \in Places /\ NextStatus(job) \in Statuses
  BY <1>1 DEF Shaped
<1>3. new \in Rows /\ new.status = NextStatus(job) /\ Place(new) = job.place
      /\ new.by = Actor(s)
  <2>1. Actor(s) \in Actors
    BY DEF Actor, Actors
  <2> QED
    BY <1>2, <2>1, PlaceOfRow
<1>4. ~ Serializable(job) => NextStatus(job) # "SCHEDULED" \/ s \notin Staff
  BY <1>1, BookingAssumption DEF Shaped, Jobs, Serializable, NextStatus, Fits
<1> HIDE DEF new
<1>5. ~ Serializable(job) => ~ Counted(new)
  BY <1>3, <1>4 DEF Counted, Actor
<1> QED
  BY <1>1, <1>2, <1>3, <1>5 DEF Write, new

LEMMA WriteRaces ==
  ASSUME Races, NEW s \in Sessions, Write(s)
  PROVE  Races'
<1> DEFINE job == jobs[s]
           new == At(job.place, NextStatus(job), Actor(s))
<1>1. PICK i \in Appts :
           /\ new \in Rows /\ new.status = NextStatus(job) /\ Place(new) = job.place
           /\ job.place \in Places
           /\ ~ Serializable(job) => ~ Counted(new)
           /\ Fits(s, job)
           /\ appts' = [appts EXCEPT ![i] = new]
           /\ jobs' = [o \in Sessions |->
                 IF o = s THEN Idle
                 ELSE IF Serializable(job) /\ Serializable(jobs[o]) /\ InTransaction(jobs[o])
                      THEN [jobs[o] EXCEPT !.rivals = @ \cup {Mark(job, i, new)}]
                      ELSE jobs[o]]
  BY WriteShape
<1> DEFINE mark == Mark(job, i, new)
<1> HIDE DEF new
<1>2. appts[i] \in Cells /\ new \in Cells /\ appts \in [Appts -> Cells]
  BY <1>1 DEF Races, Typed, Cells
<1>3. mark \in Marks /\ new \in mark.images /\ mark.place = job.place
      /\ (mark.decides <=> Decides(job))
  BY <1>1, <1>2 DEF Mark, Marks, Decides, Cells
<1>4. Counted(new) => mark.decides /\ mark.place = Place(new)
  BY <1>1, <1>3 DEF Decides, Counted
<1> HIDE DEF mark
<1>5. ASSUME NEW o \in Sessions PROVE Sound(jobs'[o], appts')
  <2>1. CASE o = s
    BY <1>1, <2>1, IdleSound
  <2>2. CASE o # s /\ jobs'[o] = [jobs[o] EXCEPT !.rivals = @ \cup {mark}]
    <3>1. /\ new \in Rows /\ appts' = [appts EXCEPT ![i] = new] /\ mark \in Marks
          /\ new \in mark.images
          /\ Counted(new) => mark.decides /\ mark.place = Place(new)
      BY <1>1, <1>3, <1>4
    <3>2. Sound([jobs[o] EXCEPT !.rivals = @ \cup {mark}], appts')
      BY <3>1, RivalExplained, Zenon
    <3> QED
      BY <2>2, <3>2
  <2>3. CASE /\ o # s /\ jobs'[o] = jobs[o]
             /\ ~ (Serializable(job) /\ Serializable(jobs[o]) /\ InTransaction(jobs[o]))
    <3>1. CASE ~ Counted(new)
      BY <1>1, <1>2, <2>3, <3>1, StillExplained
    <3>2. CASE Serializable(job)
      <4>1. Sound(jobs[o], appts)
        BY JobTyped
      <4> QED
        BY <2>3, <3>2, <4>1 DEF Sound, InTransaction
    <3> QED
      BY <1>1, <3>1, <3>2
  <2> QED
    BY <1>1, <2>1, <2>2, <2>3 DEF mark
<1>6. \A o \in Sessions : jobs'[o] \in Jobs
  BY <1>5 DEF Sound, Shaped
<1>7. \A o \in Sessions : Fits(o, jobs'[o])
  <2> SUFFICES ASSUME NEW o \in Sessions PROVE Fits(o, jobs'[o])
    OBVIOUS
  <2>1. Fits(o, jobs[o]) /\ jobs[o] \in Jobs
    BY JobTyped
  <2>2. [jobs[o] EXCEPT !.rivals = @ \cup {mark}].op = jobs[o].op
    BY <2>1 DEF Jobs
  <2>3. Idle.op = "none"
    BY DEF Idle
  <2>4. jobs'[o].op = jobs[o].op \/ jobs'[o].op = "none"
    BY <1>1, <2>2, <2>3 DEF mark
  <2> QED
    BY <2>1, <2>4 DEF Fits
<1>8. Typed'
  BY <1>1, <1>2, <1>6, <1>7 DEF Typed
<1> QED
  BY <1>5, <1>8 DEF Races

-----------------------------------------------------------------------------
(* What a commit that books a place found there *)

\* Two bookings that each watch the place of the other cannot both commit unseen.
LEMMA UnseenIsRefused ==
  ASSUME Races, NEW s \in Sessions, jobs[s].pc = "write", Serializable(jobs[s]), Decides(jobs[s]),
         NEW i \in Appts, NEW new \in Rows, ~ Dangerous(jobs[s], i, new),
         NEW j \in Appts, Counted(appts[j]),
         Watched(appts[j], jobs[s].place), Watched(new, Place(appts[j]))
  PROVE  appts[j] = jobs[s].snap[j]
<1> DEFINE job == jobs[s]
<1>1. Explained(job, appts)
  BY JobTyped DEF Sound, InTransaction
<1> SUFFICES ASSUME appts[j] # job.snap[j] PROVE FALSE
  OBVIOUS
<1>2. PICK t \in job.rivals : appts[j] \in t.images /\ t.decides /\ t.place = Place(appts[j])
  BY <1>1 DEF Explained
<1>3. appts[j].status \in Statuses
  BY BookingAssumption DEF Counted
<1>4. ReadBy(t.images, job.place, Decides(job))
  BY <1>2, <1>3 DEF ReadBy
<1>5. new.status \in Statuses
  BY DEF Rows
<1>6. ReadBy({appts[i], new}, t.place, t.decides)
  BY <1>2, <1>5 DEF ReadBy
<1> QED
  BY <1>4, <1>6 DEF Dangerous

\* Of what staff booked beside a new appointment, all was counted when it was decided.
Fitting(i, new) ==
    /\ \E S \in SUBSET Appts : /\ Cardinality(S) < MaxPerSlot
                               /\ \A j \in ByStaff \ {i} :
                                    /\ appts[j].assignee = new.assignee
                                    /\ Near(appts[j].start, new.start)
                                    /\ Near(new.start, appts[j].start)
                                    => j \in S
    /\ \E S \in SUBSET Appts : /\ Cardinality(S) < MaxPerDay
                               /\ \A j \in ByStaff \ {i} :
                                    /\ appts[j].assignee = new.assignee
                                    /\ Day(appts[j].start) = Day(new.start)
                                    => j \in S
    /\ \A j \in ByStaff \ {i} : appts[j].contact = new.contact
                                  => ~ Overlap(appts[j].start, new.start)

LEMMA StaffRow ==
  ASSUME Races, NEW j \in ByStaff
  PROVE  /\ j \in Appts /\ appts[j] \in Rows /\ appts[j].status = "SCHEDULED"
         /\ Counted(appts[j])
         /\ appts[j].start \in Nat /\ Place(appts[j]).start = appts[j].start
         /\ Place(appts[j]).contact = appts[j].contact
         /\ Place(appts[j]).assignee = appts[j].assignee
<1>1. j \in Appts /\ appts[j] \in Cells /\ appts[j].status = "SCHEDULED" /\ Counted(appts[j])
  BY DEF Races, Typed, ByStaff, Scheduled, Counted
<1> QED
  BY <1>1, CellShape

LEMMA WriteFits ==
  ASSUME Races, NEW s \in Sessions, Write(s)
  PROVE  \E i \in Appts, new \in Rows : /\ appts' = [appts EXCEPT ![i] = new]
                                        /\ Counted(new) => Fitting(i, new)
<1> DEFINE job == jobs[s]
           place == job.place
           new == At(job.place, NextStatus(job), Actor(s))
<1>1. PICK i \in Appts :
           /\ new \in Rows /\ new.status = NextStatus(job) /\ Place(new) = job.place
           /\ job.place \in Places /\ NextStatus(job) \in Statuses
           /\ job.id # 0 => i = job.id
           /\ Serializable(job) => ~ Dangerous(job, i, new)
           /\ ~ Serializable(job) => ~ Counted(new)
           /\ Fits(s, job)
           /\ appts' = [appts EXCEPT ![i] = new]
  BY WriteShape
<1>2. new.assignee = place.assignee /\ new.contact = place.contact /\ new.start = place.start
  <2>1. Actor(s) \in Actors
    BY DEF Actor, Actors
  <2> QED
    BY <1>1, <2>1, PlaceOfRow
<1> HIDE DEF new
<1>3. ASSUME Counted(new) PROVE Fitting(i, new)
  <2>1. Serializable(job) /\ Decides(job) /\ ~ Dangerous(job, i, new) /\ job.pc = "write"
    BY <1>1, <1>3 DEF Decides, Write, Counted
  <2>2. Available(job.snap, job.id, place) /\ job.snap \in [Appts -> Cells]
    BY <2>1, JobTyped DEF Sound, InTransaction
  <2>3. place.start \in Nat /\ new.start \in Nat
    BY <1>1, <1>2, BookingAssumption DEF Places
  <2> DEFINE others == {j \in Appts \ {job.id} : Stored(job.snap, j)}
             slot == {j \in others : InSlot(job.snap[j], place)}
             day == {j \in others : OnDay(job.snap[j], place)}
  <2>4. Cardinality(slot) < MaxPerSlot /\ Cardinality(day) < MaxPerDay
        /\ ~ \E j \in others : WithContact(job.snap[j], place)
    BY <2>2 DEF Available
  <2>5. ASSUME NEW j \in ByStaff \ {i}, appts[j] = job.snap[j] PROVE j \in others
    <3>1. j \in Appts /\ j # job.id
      <4>1. 0 \notin Appts
        BY DEF Appts
      <4> QED
        BY <1>1, <4>1, StaffRow
    <3>2. job.snap[j].status \in Statuses
      BY <2>5, StaffRow, BookingAssumption
    <3> QED
      BY <3>1, <3>2 DEF Stored
  <2>6. ASSUME NEW j \in ByStaff \ {i}, appts[j].assignee = new.assignee,
               Near(appts[j].start, new.start), Near(new.start, appts[j].start)
        PROVE  j \in slot
    <3>1. InSlot(appts[j], place) /\ InSlot(new, Place(appts[j]))
      <4>1. /\ appts[j].status = "SCHEDULED" /\ appts[j].start \in Nat
            /\ Place(appts[j]).start = appts[j].start
            /\ Place(appts[j]).assignee = appts[j].assignee
        BY StaffRow
      <4> QED
        BY <1>2, <1>3, <2>6, <4>1 DEF InSlot, Counted
    <3>2. Watched(appts[j], place) /\ Watched(new, Place(appts[j]))
      BY <3>1 DEF Watched
    <3>3. j \in Appts /\ Counted(appts[j])
      BY StaffRow
    <3>4. appts[j] = job.snap[j]
      BY <1>1, <2>1, <3>2, <3>3, UnseenIsRefused
    <3> QED
      BY <2>5, <3>1, <3>4
  <2>7. ASSUME NEW j \in ByStaff \ {i}, appts[j].assignee = new.assignee,
               Day(appts[j].start) = Day(new.start)
        PROVE  j \in day
    <3>1. OnDay(appts[j], place) /\ OnDay(new, Place(appts[j]))
      BY <1>2, <1>3, <2>7, StaffRow DEF OnDay, Counted
    <3>2. Watched(appts[j], place) /\ Watched(new, Place(appts[j]))
      BY <3>1 DEF Watched
    <3>3. j \in Appts /\ Counted(appts[j])
      BY StaffRow
    <3>4. appts[j] = job.snap[j]
      BY <1>1, <2>1, <3>2, <3>3, UnseenIsRefused
    <3> QED
      BY <2>5, <3>1, <3>4
  <2>8. ASSUME NEW j \in ByStaff \ {i}, appts[j].contact = new.contact,
               Overlap(appts[j].start, new.start)
        PROVE  FALSE
    <3>1. WithContact(appts[j], place) /\ WithContact(new, Place(appts[j]))
      <4>1. /\ appts[j].status = "SCHEDULED" /\ appts[j].start \in Nat
            /\ Place(appts[j]).start = appts[j].start
            /\ Place(appts[j]).contact = appts[j].contact
        BY StaffRow
      <4>2. Overlap(new.start, appts[j].start)
        BY <2>3, <2>8, <4>1, OverlapSymmetric
      <4> QED
        BY <1>2, <1>3, <2>8, <4>1, <4>2 DEF WithContact, Counted
    <3>2. Watched(appts[j], place) /\ Watched(new, Place(appts[j]))
      BY <3>1 DEF Watched
    <3>3. j \in Appts /\ Counted(appts[j])
      BY StaffRow
    <3>4. appts[j] = job.snap[j]
      BY <1>1, <2>1, <3>2, <3>3, UnseenIsRefused
    <3> QED
      BY <2>4, <2>5, <3>1, <3>4
  <2>9. slot \in SUBSET Appts /\ day \in SUBSET Appts
    OBVIOUS
  <2> HIDE DEF slot, day
  <2> QED
    BY <2>4, <2>6, <2>7, <2>8, <2>9 DEF Fitting
<1> QED
  BY <1>1, <1>3

-----------------------------------------------------------------------------
(* The invariants *)

\* A step leaves the appointments, removes one, or writes one that fits.
LEMMA StepShape ==
  ASSUME Races, [Next]_vars
  PROVE  \/ appts' = appts
         \/ \E i \in Appts : appts' = [appts EXCEPT ![i] = Removed]
         \/ \E i \in Appts, new \in Rows : /\ appts' = [appts EXCEPT ![i] = new]
                                           /\ Counted(new) => Fitting(i, new)
<1>1. CASE UNCHANGED vars
  BY <1>1 DEF vars
<1>2. ASSUME NEW s \in Sessions, Write(s)
      PROVE  \E i \in Appts, new \in Rows : /\ appts' = [appts EXCEPT ![i] = new]
                                            /\ Counted(new) => Fitting(i, new)
  BY <1>2, WriteFits
<1>3. ASSUME NEW s \in Sessions, Delete(s)
      PROVE  \E i \in Appts : appts' = [appts EXCEPT ![i] = Removed]
  BY <1>3 DEF Delete
<1>4. ASSUME NEW s \in Sessions,
             AskBooking(s) \/ AskChange(s) \/ AskStatus(s) \/ AskRestatus(s) \/ Select(s)
             \/ Begin(s) \/ Refuse(s) \/ LockRow(s) \/ Evaluate(s)
      PROVE  appts' = appts
  BY <1>4 DEF AskBooking, AskChange, AskStatus, AskRestatus, Start, Select, Begin, Refuse,
              LockRow, Evaluate
<1> QED
  BY <1>1, <1>2, <1>3, <1>4 DEF Next, Progress

LEMMA RacesStep ==
  ASSUME Races, [Next]_vars
  PROVE  Races'
<1>1. CASE UNCHANGED vars
  BY <1>1 DEF vars, Races, Typed
<1> QED
  BY <1>1, AskRaces, SelectRaces, BeginRaces, RefuseRaces, LockRowRaces, EvaluateRaces, WriteRaces,
     DeleteRaces DEF Next, Progress

LEMMA RacesInit == Init => Races
<1> SUFFICES ASSUME Init PROVE Races
  OBVIOUS
<1>1. Typed
  <2>1. \A s \in Sessions : Fits(s, Idle)
    BY DEF Fits, Idle
  <2> QED
    BY <2>1, IdleSound DEF Init, Typed, Cells
<1> QED
  BY <1>1, IdleSound DEF Init, Races

LEMMA NothingBooked == Init => ByStaff = {}
  BY DEF Init, ByStaff, Scheduled, Absent

\* The appointments that stay where they are.
LEMMA BookedAfter ==
  ASSUME Races, NEW i \in Appts, NEW cell \in Cells, appts' = [appts EXCEPT ![i] = cell]
  PROVE  /\ ByStaff' \subseteq ByStaff \cup {i}
         /\ \A j \in ByStaff' \ {i} : j \in ByStaff /\ appts'[j] = appts[j]
         /\ appts'[i] = cell
         /\ i \in ByStaff' => Counted(cell)
  BY DEF Races, Typed, ByStaff, Scheduled, Counted

LEMMA ContactFreeStep ==
  ASSUME Races, ContactFree, [Next]_vars
  PROVE  ContactFree'
<1>1. CASE appts' = appts
  BY <1>1 DEF ContactFree, ByStaff, Scheduled
<1>2. ASSUME NEW i \in Appts, appts' = [appts EXCEPT ![i] = Removed]
      PROVE  ContactFree'
  <2>1. Removed \in Cells /\ ~ Counted(Removed)
    BY DEF Cells, Removed, Counted
  <2>2. i \notin ByStaff' /\ \A j \in ByStaff' \ {i} : j \in ByStaff /\ appts'[j] = appts[j]
    BY <1>2, <2>1, BookedAfter, Zenon
  <2> QED
    BY <2>2 DEF ContactFree
<1>3. ASSUME NEW i \in Appts, NEW new \in Rows, appts' = [appts EXCEPT ![i] = new],
             Counted(new) => Fitting(i, new)
      PROVE  ContactFree'
  <2>1. new \in Cells /\ new.start \in Nat
    BY CellShape DEF Cells
  <2>2. \A j \in ByStaff : appts[j].start \in Nat
    BY StaffRow
  <2> SUFFICES ASSUME NEW j \in ByStaff', NEW k \in ByStaff', j # k,
                      appts'[j].contact = appts'[k].contact
               PROVE  ~ Overlap(appts'[j].start, appts'[k].start)
    BY DEF ContactFree
  <2>0. /\ \A m \in ByStaff' \ {i} : m \in ByStaff /\ appts'[m] = appts[m]
        /\ appts'[i] = new
        /\ i \in ByStaff' => Counted(new)
    BY <1>3, <2>1, BookedAfter, Zenon
  <2>3. CASE j # i /\ k # i
    BY <2>0, <2>3 DEF ContactFree
  <2>4. CASE j = i
    <3>1. Fitting(i, new) /\ k \in ByStaff \ {i} /\ appts'[k] = appts[k]
      BY <1>3, <2>0, <2>4
    <3>2. ~ Overlap(appts[k].start, new.start)
      BY <2>0, <2>4, <3>1 DEF Fitting
    <3> QED
      BY <2>0, <2>1, <2>2, <2>4, <3>1, <3>2, OverlapSymmetric
  <2>5. CASE k = i
    <3>1. Fitting(i, new) /\ j \in ByStaff \ {i} /\ appts'[j] = appts[j]
      BY <1>3, <2>0, <2>5
    <3> QED
      BY <2>0, <2>5, <3>1 DEF Fitting
  <2> QED
    BY <2>3, <2>4, <2>5
<1> QED
  BY <1>1, <1>2, <1>3, StepShape

\* Counting with one row changed: T are the appointments counted after the step.
LEMMA CountAfter ==
  ASSUME NEW limit \in Nat, NEW i \in Appts, NEW S \in SUBSET Appts, NEW T \in SUBSET Appts,
         NEW R \in SUBSET Appts,
         T \ {i} \subseteq R, Cardinality(R) <= limit,
         i \in T => Cardinality(S) < limit /\ T \ {i} \subseteq S
  PROVE  Cardinality(T) <= limit
<1>1. CASE i \in T
  <2>1. T \subseteq S \cup {i}
    BY <1>1
  <2> QED
    BY <1>1, <2>1, OneMoreFits
<1>2. CASE i \notin T
  <2>1. T \subseteq R
    BY <1>2
  <2>2. IsFiniteSet(R) /\ Cardinality(R) \in Nat /\ Cardinality(T) \in Nat
    BY AppointmentsFinite
  <2>3. Cardinality(T) <= Cardinality(R)
    BY <2>1, <2>2, FS_Subset
  <2> QED
    BY <2>2, <2>3
<1> QED
  BY <1>1, <1>2

Covering(a, t) == {i \in ByStaff : appts[i].assignee = a /\ appts[i].start <= t
                                   /\ t < appts[i].start + Duration}
OnSameDay(a, t) == {i \in ByStaff : appts[i].assignee = a /\ Day(appts[i].start) = Day(t)}

LEMMA SlotStep ==
  ASSUME Races, StaffNeverDoubleBook, [Next]_vars
  PROVE  StaffNeverDoubleBook'
<1> SUFFICES ASSUME NEW a \in Assignees, NEW t \in Starts
             PROVE  Cardinality(Covering(a, t)') <= MaxPerSlot
  BY DEF StaffNeverDoubleBook, AtOnce, Covering
<1>0. Cardinality(Covering(a, t)) <= MaxPerSlot /\ MaxPerSlot \in Nat /\ t \in Nat
      /\ Duration \in Nat
  BY BookingAssumption DEF StaffNeverDoubleBook, AtOnce, Covering
<1>1. CASE appts' = appts
  BY <1>0, <1>1 DEF Covering, ByStaff, Scheduled
<1>2. ASSUME NEW i \in Appts, NEW cell \in Cells, appts' = [appts EXCEPT ![i] = cell],
             Counted(cell) => Fitting(i, cell)
      PROVE  Cardinality(Covering(a, t)') <= MaxPerSlot
  <2>1. /\ \A m \in ByStaff' \ {i} : m \in ByStaff /\ appts'[m] = appts[m]
        /\ appts'[i] = cell
        /\ i \in ByStaff' => Counted(cell)
    BY <1>2, BookedAfter, Zenon
  <2>2. Covering(a, t)' \ {i} \subseteq Covering(a, t)
    BY <2>1 DEF Covering
  <2>3. Covering(a, t)' \in SUBSET Appts /\ Covering(a, t) \in SUBSET Appts
    BY DEF Covering, ByStaff, Scheduled
  <2>4. CASE i \in Covering(a, t)'
    <3>1. Counted(cell) /\ cell.status = "SCHEDULED" /\ cell.assignee = a /\ cell.start <= t
          /\ t < cell.start + Duration
      BY <2>1, <2>4 DEF Covering, Counted
    <3>2. cell.start \in Nat
      BY <3>1, CellShape
    <3>3. Fitting(i, cell)
      BY <1>2, <3>1
    <3>4. PICK S \in SUBSET Appts :
            /\ Cardinality(S) < MaxPerSlot
            /\ \A j \in ByStaff \ {i} : /\ appts[j].assignee = a
                                         /\ Near(appts[j].start, cell.start)
                                         /\ Near(cell.start, appts[j].start)
                                         => j \in S
      BY <3>1, <3>3 DEF Fitting
    <3>5. ASSUME NEW j \in Covering(a, t)' \ {i} PROVE j \in S
      <4>1. j \in ByStaff \ {i} /\ appts[j].assignee = a /\ appts[j].start <= t
            /\ t < appts[j].start + Duration
        BY <2>2 DEF Covering
      <4>2. appts[j].start \in Nat
        BY <4>1, StaffRow
      <4>3. Overlap(appts[j].start, cell.start)
        BY <1>0, <3>1, <3>2, <4>1, <4>2 DEF Overlap
      <4>4. Near(appts[j].start, cell.start) /\ Near(cell.start, appts[j].start)
        BY <3>2, <4>2, <4>3, OverlapSymmetric
      <4> QED
        BY <3>4, <4>1, <4>4
    <3>6. Covering(a, t)' \ {i} \subseteq S
      BY <3>5
    <3> QED
      BY <1>0, <2>2, <2>3, <3>4, <3>6, CountAfter
  <2>5. CASE i \notin Covering(a, t)'
    BY <1>0, <2>2, <2>3, <2>5, CountAfter
  <2> QED
    BY <2>4, <2>5
<1>3. Removed \in Cells /\ ~ Counted(Removed) /\ Rows \subseteq Cells
  BY DEF Cells, Removed, Counted
<1> QED
  BY <1>1, <1>2, <1>3, StepShape

LEMMA DayStep ==
  ASSUME Races, DayLimitKept, [Next]_vars
  PROVE  DayLimitKept'
<1> SUFFICES ASSUME NEW a \in Assignees, NEW t \in Starts
             PROVE  Cardinality(OnSameDay(a, t)') <= MaxPerDay
  BY DEF DayLimitKept, OnSameDay
<1>0. Cardinality(OnSameDay(a, t)) <= MaxPerDay /\ MaxPerDay \in Nat
  BY BookingAssumption DEF DayLimitKept, OnSameDay
<1>1. CASE appts' = appts
  BY <1>0, <1>1 DEF OnSameDay, ByStaff, Scheduled
<1>2. ASSUME NEW i \in Appts, NEW cell \in Cells, appts' = [appts EXCEPT ![i] = cell],
             Counted(cell) => Fitting(i, cell)
      PROVE  Cardinality(OnSameDay(a, t)') <= MaxPerDay
  <2>1. /\ \A m \in ByStaff' \ {i} : m \in ByStaff /\ appts'[m] = appts[m]
        /\ appts'[i] = cell
        /\ i \in ByStaff' => Counted(cell)
    BY <1>2, BookedAfter, Zenon
  <2>2. OnSameDay(a, t)' \ {i} \subseteq OnSameDay(a, t)
    BY <2>1 DEF OnSameDay
  <2>3. OnSameDay(a, t)' \in SUBSET Appts /\ OnSameDay(a, t) \in SUBSET Appts
    BY DEF OnSameDay, ByStaff, Scheduled
  <2>4. CASE i \in OnSameDay(a, t)'
    <3>1. Counted(cell) /\ cell.status = "SCHEDULED" /\ cell.assignee = a /\ Day(cell.start) = Day(t)
      BY <2>1, <2>4 DEF OnSameDay, Counted
    <3>2. Fitting(i, cell)
      BY <1>2, <3>1
    <3>3. PICK S \in SUBSET Appts :
            /\ Cardinality(S) < MaxPerDay
            /\ \A j \in ByStaff \ {i} : appts[j].assignee = a /\ Day(appts[j].start) = Day(t)
                                          => j \in S
      BY <3>1, <3>2 DEF Fitting
    <3>4. OnSameDay(a, t)' \ {i} \subseteq S
      BY <2>2, <3>3 DEF OnSameDay
    <3> QED
      BY <1>0, <2>2, <2>3, <3>3, <3>4, CountAfter
  <2>5. CASE i \notin OnSameDay(a, t)'
    BY <1>0, <2>2, <2>3, <2>5, CountAfter
  <2> QED
    BY <2>4, <2>5
<1>3. Removed \in Cells /\ ~ Counted(Removed) /\ Rows \subseteq Cells
  BY DEF Cells, Removed, Counted
<1> QED
  BY <1>1, <1>2, <1>3, StepShape

LEMMA BufferStep ==
  ASSUME Races, BufferKept, [Next]_vars
  PROVE  BufferKept'
<1> SUFFICES ASSUME MaxPerSlot = 1, NEW j \in ByStaff', NEW k \in ByStaff', j # k,
                    appts'[j].assignee = appts'[k].assignee, appts'[j].start <= appts'[k].start
             PROVE  appts'[j].start + Duration + Lesser <= appts'[k].start
  BY DEF BufferKept, Lesser
<1>0. Duration \in Nat /\ Pre \in Nat /\ Post \in Nat
  BY BookingAssumption
<1>1. CASE appts' = appts
  BY <1>1 DEF BufferKept, ByStaff, Scheduled
<1>2. ASSUME NEW i \in Appts, NEW cell \in Cells, appts' = [appts EXCEPT ![i] = cell],
             Counted(cell) => Fitting(i, cell)
      PROVE  appts'[j].start + Duration + Lesser <= appts'[k].start
  <2>1. /\ \A m \in ByStaff' \ {i} : m \in ByStaff /\ appts'[m] = appts[m]
        /\ appts'[i] = cell
        /\ i \in ByStaff' => Counted(cell)
    BY <1>2, BookedAfter, Zenon
  <2>2. CASE j # i /\ k # i
    BY <2>1, <2>2 DEF BufferKept
  \* Whatever is near the new appointment on both sides was counted, and the count was 0.
  <2>3. ASSUME i \in ByStaff', NEW m \in ByStaff \ {i}, appts[m].assignee = cell.assignee
        PROVE  /\ cell.start \in Nat /\ appts[m].start \in Nat
               /\ ~ (Near(appts[m].start, cell.start) /\ Near(cell.start, appts[m].start))
    <3>1. Counted(cell) /\ cell.status = "SCHEDULED"
      BY <2>1, <2>3 DEF Counted
    <3>2. cell.start \in Nat /\ appts[m].start \in Nat
      BY <3>1, CellShape, StaffRow
    <3>3. PICK S \in SUBSET Appts :
            /\ Cardinality(S) < MaxPerSlot
            /\ \A x \in ByStaff \ {i} : /\ appts[x].assignee = cell.assignee
                                         /\ Near(appts[x].start, cell.start)
                                         /\ Near(cell.start, appts[x].start)
                                         => x \in S
      BY <1>2, <3>1 DEF Fitting
    <3>4. S = {}
      <4>1. IsFiniteSet(S) /\ Cardinality(S) \in Nat
        BY AppointmentsFinite
      <4>2. Cardinality(S) = 0
        BY <3>3, <4>1
      <4> QED
        BY <4>1, <4>2, FS_EmptySet
    <3> QED
      BY <2>3, <3>2, <3>3, <3>4
  <2>4. CASE j = i
    <3>1. k \in ByStaff \ {i} /\ appts'[k] = appts[k] /\ appts[k].assignee = cell.assignee
          /\ cell.start <= appts[k].start
      BY <2>1, <2>4
    <3>2. /\ cell.start \in Nat /\ appts[k].start \in Nat
          /\ ~ (Near(appts[k].start, cell.start) /\ Near(cell.start, appts[k].start))
      BY <2>3, <2>4, <3>1
    <3> QED
      BY <1>0, <2>1, <2>4, <3>1, <3>2 DEF Near, Lesser
  <2>5. CASE k = i
    <3>1. j \in ByStaff \ {i} /\ appts'[j] = appts[j] /\ appts[j].assignee = cell.assignee
          /\ appts[j].start <= cell.start
      BY <2>1, <2>5
    <3>2. /\ cell.start \in Nat /\ appts[j].start \in Nat
          /\ ~ (Near(appts[j].start, cell.start) /\ Near(cell.start, appts[j].start))
      BY <2>3, <2>5, <3>1
    <3> QED
      BY <1>0, <2>1, <2>5, <3>1, <3>2 DEF Near, Lesser
  <2> QED
    BY <2>2, <2>4, <2>5
<1>3. Removed \in Cells /\ ~ Counted(Removed) /\ Rows \subseteq Cells
  BY DEF Cells, Removed, Counted
<1> QED
  BY <1>1, <1>2, <1>3, StepShape

LEMMA EmptyCalendar ==
  Init => StaffNeverDoubleBook /\ DayLimitKept /\ ContactFree /\ BufferKept
<1> SUFFICES ASSUME Init
             PROVE  StaffNeverDoubleBook /\ DayLimitKept /\ ContactFree /\ BufferKept
  OBVIOUS
<1>1. ByStaff = {}
  BY NothingBooked
<1>2. Cardinality({}) = 0 /\ MaxPerSlot \in Nat /\ MaxPerDay \in Nat
  BY FS_EmptySet, BookingAssumption
<1>3. \A a \in Assignees, t \in Starts : Covering(a, t) = {} /\ OnSameDay(a, t) = {}
  BY <1>1 DEF Covering, OnSameDay
<1>4. StaffNeverDoubleBook
  BY <1>2, <1>3 DEF StaffNeverDoubleBook, AtOnce, Covering
<1>5. DayLimitKept
  <2>1. \A a \in Assignees, t \in Starts : Cardinality(OnSameDay(a, t)) <= MaxPerDay
    <3> HIDE DEF OnSameDay
    <3> QED
      BY <1>2, <1>3
  <2> QED
    BY <2>1 DEF DayLimitKept, OnSameDay
<1> QED
  BY <1>1, <1>4, <1>5 DEF ContactFree, BufferKept

\* Every reachable state of the calendar has its types, and each session holds what its
\* request and the step it is at say: one that decides has a place and the snapshot or
\* the row to decide on.
THEOREM TypeCorrect == Spec => []Typed
<1>1. Races => Typed
  BY DEF Races
<1> QED
  BY <1>1, RacesInit, RacesStep, PTL DEF Spec

\* However many requests race, staff book no time of an assignee more often than
\* maximumBookingsPerSlot allows (createAppointmentAtomically, updateAppointmentAtomically),
\* whatever automations book beside them.
THEOREM StaffNeverDoubleBookHolds == Spec => []StaffNeverDoubleBook
<1>1. Init => Races /\ StaffNeverDoubleBook
  BY RacesInit, EmptyCalendar
<1>2. Races /\ StaffNeverDoubleBook /\ [Next]_vars => (Races /\ StaffNeverDoubleBook)'
  BY RacesStep, SlotStep
<1> QED
  BY <1>1, <1>2, PTL DEF Spec

\* The same of maximumBookingsPerDay.
THEOREM DayLimitHolds == Spec => []DayLimitKept
<1>1. Init => Races /\ DayLimitKept
  BY RacesInit, EmptyCalendar
<1>2. Races /\ DayLimitKept /\ [Next]_vars => (Races /\ DayLimitKept)'
  BY RacesStep, DayStep
<1> QED
  BY <1>1, <1>2, PTL DEF Spec

\* And no contact is booked twice at the same time.
THEOREM ContactFreeHolds == Spec => []ContactFree
<1>1. Init => Races /\ ContactFree
  BY RacesInit, EmptyCalendar
<1>2. Races /\ ContactFree /\ [Next]_vars => (Races /\ ContactFree)'
  BY RacesStep, ContactFreeStep
<1> QED
  BY <1>1, <1>2, PTL DEF Spec

\* With one booking per slot, the lesser of the tenant's two buffers stays free between them.
THEOREM BufferHolds == Spec => []BufferKept
<1>1. Init => Races /\ BufferKept
  BY RacesInit, EmptyCalendar
<1>2. Races /\ BufferKept /\ [Next]_vars => (Races /\ BufferKept)'
  BY RacesStep, BufferStep
<1> QED
  BY <1>1, <1>2, PTL DEF Spec

-----------------------------------------------------------------------------
(* The events of an appointment *)

\* A session that holds a row holds it alone and knows its status; one that creates its
\* row counts it as absent.
OwnRow == \A s \in Sessions :
    /\ jobs[s].id = 0 /\ jobs[s].pc # "select" => jobs[s].was = "ABSENT"
    /\ \A i \in Appts : HoldsRow(jobs[s], i) =>
         Stored(appts, i) /\ jobs[s].was = appts[i].status /\ LockFree(s, i)

Changes == Seq((Statuses \cup {"ABSENT"}) \X Statuses)

\* The events t of an appointment with the row cell.
Tells(t, cell) ==
    /\ t \in Changes
    /\ cell.status \in Statuses => t # <<>> /\ t[Len(t)][2] = cell.status
    /\ cell.status \notin Statuses => t = <<>>
    /\ \A k \in 1 .. Len(t) : t[k][1] # t[k][2] /\ (k > 1 => t[k][1] = t[k - 1][2])
Told == trail \in [Appts -> Changes] /\ \A i \in Appts : Tells(trail[i], appts[i])

LEMMA EmptyTells == ASSUME NEW cell, cell.status \notin Statuses PROVE Tells(<<>>, cell)
  BY DEF Tells, Changes

\* One more event that starts from the status the row had.
LEMMA AppendTells ==
  ASSUME NEW t, NEW old, NEW new, Tells(t, old), new.status \in Statuses,
         NEW was \in Statuses \cup {"ABSENT"}, was # new.status,
         was = IF old.status \in Statuses THEN old.status ELSE "ABSENT"
  PROVE  Tells(Append(t, <<was, new.status>>), new)
<1> DEFINE event == <<was, new.status>>
           longer == Append(t, event)
<1>1. t \in Changes /\ event \in (Statuses \cup {"ABSENT"}) \X Statuses /\ Len(t) \in Nat
  BY DEF Tells, Changes
<1>2. /\ longer \in Changes /\ Len(longer) = Len(t) + 1 /\ longer[Len(t) + 1] = event
      /\ \A k \in 1 .. Len(t) : longer[k] = t[k]
  BY <1>1 DEF Changes
<1>3. longer # <<>> /\ longer[Len(longer)][2] = new.status
  <2>1. longer[Len(longer)] = event /\ event[2] = new.status
    BY <1>2
  <2> HIDE DEF longer
  <2>2. Len(longer) # 0
    BY <1>1, <1>2
  <2> QED
    BY <2>1, <2>2
<1>4. ASSUME NEW k \in 1 .. Len(longer)
      PROVE  longer[k][1] # longer[k][2] /\ (k > 1 => longer[k][1] = longer[k - 1][2])
  <2>1. CASE k \in 1 .. Len(t)
    <3>1. longer[k] = t[k] /\ (k > 1 => longer[k - 1] = t[k - 1])
      BY <1>1, <1>2, <2>1
    <3> QED
      BY <2>1, <3>1 DEF Tells
  <2>2. CASE k = Len(t) + 1
    <3>1. longer[k] = event /\ event[1] = was /\ event[2] = new.status
      BY <1>2, <2>2
    <3>2. k > 1 => t # <<>> /\ longer[k - 1] = t[Len(t)]
      BY <1>1, <1>2, <2>2
    <3>3. k > 1 => was = t[Len(t)][2]
      BY <3>2 DEF Tells
    <3> QED
      BY <3>1, <3>2, <3>3
  <2> QED
    BY <1>1, <1>2, <2>1, <2>2
<1> QED
  BY <1>2, <1>3, <1>4 DEF Tells

\* Who decides on the steps of one session: what it holds afterwards it holds alone.
LEMMA OwnRowMoves ==
  ASSUME Races, OwnRow, NEW s \in Sessions, NEW job, appts' = appts,
         jobs' = [jobs EXCEPT ![s] = job],
         job.id = 0 /\ job.pc # "select" => job.was = "ABSENT",
         \A i \in Appts : HoldsRow(job, i) =>
            Stored(appts, i) /\ job.was = appts[i].status /\ LockFree(s, i)
  PROVE  OwnRow'
<1>1. jobs'[s] = job /\ \A o \in Sessions \ {s} : jobs'[o] = jobs[o]
  BY DEF Races, Typed
<1>2. ASSUME NEW i \in Appts, HoldsRow(job, i)
      PROVE  LockFree(s, i)'
  BY <1>1, <1>2 DEF LockFree
<1>3. ASSUME NEW o \in Sessions \ {s}, NEW i \in Appts, HoldsRow(jobs[o], i)
      PROVE  LockFree(o, i)'
  <2>1. LockFree(o, i)
    BY <1>3 DEF OwnRow
  <2>2. ~ HoldsRow(job, i)
    BY <1>3 DEF LockFree
  <2> QED
    BY <1>1, <2>1, <2>2 DEF LockFree
<1>4. ASSUME NEW o \in Sessions
      PROVE  /\ jobs'[o].id = 0 /\ jobs'[o].pc # "select" => jobs'[o].was = "ABSENT"
             /\ \A i \in Appts : HoldsRow(jobs'[o], i) =>
                  Stored(appts', i) /\ jobs'[o].was = appts'[i].status /\ LockFree(o, i)'
  <2>1. CASE o = s
    BY <1>1, <1>2, <2>1
  <2>2. CASE o # s
    <3>1. jobs'[o] = jobs[o] /\ o \in Sessions \ {s}
      BY <1>1, <2>2
    <3> QED
      BY <1>3, <3>1 DEF OwnRow
  <2> QED
    BY <2>1, <2>2
<1> QED
  BY <1>4 DEF OwnRow

LEMMA AskKeepsRows ==
  ASSUME Races, OwnRow, NEW s \in Sessions,
         AskBooking(s) \/ AskChange(s) \/ AskStatus(s) \/ AskRestatus(s)
  PROVE  OwnRow'
<1>1. ASSUME NEW job, Start(s, job), job.was = "ABSENT",
             job.pc \in {"evaluate", "write"} => job.id = 0
      PROVE  OwnRow'
  <2>1. \A i \in Appts : ~ HoldsRow(job, i)
    BY <1>1, BookingAssumption DEF HoldsRow, Appts
  <2> QED
    BY <1>1, <2>1, OwnRowMoves DEF Start, Goto
<1>3. CASE AskBooking(s)
  <2>1. PICK p \in Places :
          Start(s, [Idle EXCEPT !.op = IF s \in Staff THEN "create" ELSE "book",
                                !.pc = IF s \in Staff THEN "begin" ELSE "evaluate",
                                !.place = p, !.status = "SCHEDULED"])
    BY <1>3 DEF AskBooking
  <2> DEFINE job == [Idle EXCEPT !.op = IF s \in Staff THEN "create" ELSE "book",
                                !.pc = IF s \in Staff THEN "begin" ELSE "evaluate",
                                !.place = p, !.status = "SCHEDULED"]
  <2>2. job.was = "ABSENT" /\ job.id = 0
    BY DEF Idle
  <2> HIDE DEF job
  <2> QED
    BY <2>1, <2>2, <1>1 DEF job
<1>4. CASE AskChange(s)
  <2>1. PICK i \in Appts : \E p \in Given(appts[i]), st \in Statuses \cup {"KEEP"} :
          Start(s, [Idle EXCEPT !.op = "patch", !.pc = "begin", !.id = i, !.place = p,
                                !.status = st])
    BY <1>4 DEF AskChange
  <2>2. PICK p \in Given(appts[i]), st \in Statuses \cup {"KEEP"} :
          Start(s, [Idle EXCEPT !.op = "patch", !.pc = "begin", !.id = i, !.place = p,
                                !.status = st])
    BY <2>1
  <2> DEFINE job == [Idle EXCEPT !.op = "patch", !.pc = "begin", !.id = i, !.place = p,
                                 !.status = st]
  <2>3. job.was = "ABSENT" /\ job.pc = "begin"
    BY DEF Idle
  <2> HIDE DEF job
  <2> QED
    BY <2>2, <2>3, <1>1 DEF job
<1>5. CASE AskStatus(s)
  <2>1. PICK i \in Appts, st \in Statuses \ {"SCHEDULED"} :
          Start(s, [Idle EXCEPT !.op = "status", !.pc = "lock", !.id = i, !.status = st])
    BY <1>5 DEF AskStatus
  <2> DEFINE job == [Idle EXCEPT !.op = "status", !.pc = "lock", !.id = i, !.status = st]
  <2>2. job.was = "ABSENT" /\ job.pc = "lock"
    BY DEF Idle
  <2> HIDE DEF job
  <2> QED
    BY <2>1, <2>2, <1>1 DEF job
<1>6. CASE AskRestatus(s)
  <2>1. PICK c \in Contacts, st \in Statuses, last \in {0, RetryLimit - 1} :
          Start(s, [Idle EXCEPT !.op = "restatus", !.pc = "select", !.status = st,
                                !.attempt = last, !.place = [contact |-> c]])
    BY <1>6 DEF AskRestatus
  <2> DEFINE job == [Idle EXCEPT !.op = "restatus", !.pc = "select", !.status = st,
                                 !.attempt = last, !.place = [contact |-> c]]
  <2>2. job.was = "ABSENT" /\ job.pc = "select"
    BY DEF Idle
  <2> HIDE DEF job
  <2> QED
    BY <2>1, <2>2, <1>1 DEF job
<1> QED
  BY <1>3, <1>4, <1>5, <1>6

LEMMA EndKeepsRows ==
  ASSUME Races, OwnRow, NEW s \in Sessions, End(s), appts' = appts
  PROVE  OwnRow'
<1>1. Idle.was = "ABSENT" /\ \A i \in Appts : ~ HoldsRow(Idle, i)
  BY DEF Idle, HoldsRow
<1> QED
  BY <1>1, OwnRowMoves DEF End, Goto

\* A job that goes back to where it holds nothing, and keeps what it knew of its row.
LEMMA LetGoKeepsRows ==
  ASSUME Races, OwnRow, NEW s \in Sessions, NEW job, appts' = appts,
         Goto(s, job), job.was = jobs[s].was,
         job.id = 0 /\ job.pc # "select" => jobs[s].was = "ABSENT",
         \A i \in Appts : ~ HoldsRow(job, i)
  PROVE  OwnRow'
  BY OwnRowMoves DEF Goto

LEMMA SelectKeepsRows ==
  ASSUME Races, OwnRow, NEW s \in Sessions, Select(s)
  PROVE  OwnRow'
<1>1. jobs[s] \in Jobs
  BY JobTyped
<1>2. CASE End(s)
  BY <1>2, EndKeepsRows DEF Select
<1>3. ASSUME NEW i \in Appts, Goto(s, [jobs[s] EXCEPT !.pc = "lock", !.id = i])
      PROVE  OwnRow'
  <2> DEFINE new == [jobs[s] EXCEPT !.pc = "lock", !.id = i]
  <2>1. new.pc = "lock" /\ new.id = i /\ new.was = jobs[s].was /\ i # 0
    BY <1>1, BookingAssumption DEF Jobs, Appts
  <2> HIDE DEF new
  <2>2. \A j \in Appts : ~ HoldsRow(new, j)
    BY <2>1 DEF HoldsRow
  <2> QED
    BY <1>3, <2>1, <2>2, LetGoKeepsRows DEF Select, new
<1> QED
  BY <1>2, <1>3 DEF Select

LEMMA BeginKeepsRows ==
  ASSUME Races, OwnRow, NEW s \in Sessions, Begin(s)
  PROVE  OwnRow'
<1> DEFINE job == jobs[s]
           new == [job EXCEPT !.pc = IF job.id = 0 THEN "evaluate" ELSE "lock",
                              !.snap = appts, !.rivals = {}]
<1>1. job \in Jobs
  BY JobTyped
<1>2. /\ new.pc = IF job.id = 0 THEN "evaluate" ELSE "lock"
      /\ new.id = job.id /\ new.was = job.was
  BY <1>1 DEF Jobs
<1> HIDE DEF new
<1>3. \A i \in Appts : ~ HoldsRow(new, i)
  BY <1>2, BookingAssumption DEF HoldsRow, Appts
<1>4. job.id = 0 => job.was = "ABSENT"
  BY DEF OwnRow, Begin
<1> QED
  BY <1>2, <1>3, <1>4, LetGoKeepsRows DEF Begin, new

LEMMA RefuseKeepsRows ==
  ASSUME Races, OwnRow, NEW s \in Sessions, Refuse(s)
  PROVE  OwnRow'
<1> DEFINE job == jobs[s]
           new == [job EXCEPT !.pc = "begin", !.snap = <<>>, !.rivals = {}, !.attempt = @ + 1]
<1>1. job \in Jobs
  BY JobTyped
<1>2. CASE End(s)
  BY <1>2, EndKeepsRows DEF Refuse
<1>3. CASE Goto(s, new)
  <2>1. new.pc = "begin" /\ new.id = job.id /\ new.was = job.was
    BY <1>1 DEF Jobs
  <2> HIDE DEF new
  <2>2. \A i \in Appts : ~ HoldsRow(new, i)
    BY <2>1 DEF HoldsRow
  <2>3. job.id = 0 => job.was = "ABSENT"
    BY DEF OwnRow, Refuse, InTransaction
  <2> QED
    BY <1>3, <2>1, <2>2, <2>3, LetGoKeepsRows DEF Refuse
<1> QED
  BY <1>2, <1>3 DEF Refuse

LEMMA LockRowKeepsRows ==
  ASSUME Races, OwnRow, NEW s \in Sessions, LockRow(s)
  PROVE  OwnRow'
<1> DEFINE job == jobs[s]
           row == appts[job.id]
<1>1. job \in Jobs /\ job.pc = "lock" /\ job.id \in Appts /\ LockFree(s, job.id)
      /\ appts' = appts
  BY JobTyped DEF LockRow, Shaped
<1>2. CASE End(s)
  BY <1>1, <1>2, EndKeepsRows
<1>3. ASSUME NEW new, Goto(s, new), Stored(appts, job.id), new.id = job.id, new.was = row.status
      PROVE  OwnRow'
  <2>1. new.id # 0
    BY <1>1, <1>3, BookingAssumption DEF Appts
  <2>2. \A i \in Appts : HoldsRow(new, i) =>
           Stored(appts, i) /\ new.was = appts[i].status /\ LockFree(s, i)
    BY <1>1, <1>3 DEF HoldsRow
  <2> QED
    BY <1>1, <1>3, <2>1, <2>2, OwnRowMoves DEF Goto
<1>4. ASSUME Stored(appts, job.id), Goto(s, [job EXCEPT !.pc = "evaluate", !.was = row.status])
      PROVE  OwnRow'
  <2> DEFINE new == [job EXCEPT !.pc = "evaluate", !.was = row.status]
  <2>1. new.id = job.id /\ new.was = row.status
    BY <1>1 DEF Jobs
  <2> HIDE DEF new
  <2> QED
    BY <1>3, <1>4, <2>1 DEF new
<1>5. ASSUME Stored(appts, job.id), NEW pc \in {"evaluate", "write"},
             Goto(s, [job EXCEPT !.pc = pc, !.place = Place(row), !.was = row.status])
      PROVE  OwnRow'
  <2> DEFINE new == [job EXCEPT !.pc = pc, !.place = Place(row), !.was = row.status]
  <2>1. new.id = job.id /\ new.was = row.status
    BY <1>1 DEF Jobs
  <2> HIDE DEF new
  <2> QED
    BY <1>3, <1>5, <2>1 DEF new
<1>6. CASE Goto(s, [job EXCEPT !.pc = "select", !.id = 0, !.attempt = @ + 1])
  <2> DEFINE new == [job EXCEPT !.pc = "select", !.id = 0, !.attempt = @ + 1]
  <2>1. new.pc = "select" /\ new.was = job.was
    BY <1>1 DEF Jobs
  <2> HIDE DEF new
  <2>2. \A i \in Appts : ~ HoldsRow(new, i)
    BY <2>1 DEF HoldsRow
  <2> QED
    BY <1>1, <1>6, <2>1, <2>2, LetGoKeepsRows DEF new
<1> QED
  BY <1>2, <1>4, <1>5, <1>6 DEF LockRow

LEMMA EvaluateKeepsRows ==
  ASSUME Races, OwnRow, NEW s \in Sessions, Evaluate(s)
  PROVE  OwnRow'
<1> DEFINE job == jobs[s]
           new == [job EXCEPT !.pc = "write"]
<1>1. job \in Jobs /\ job.pc = "evaluate"
  BY JobTyped DEF Evaluate
<1>2. CASE End(s)
  BY <1>2, EndKeepsRows DEF Evaluate
<1>3. CASE Goto(s, new)
  <2>1. new.id = job.id /\ new.was = job.was /\ new.pc = "write"
    BY <1>1 DEF Jobs
  <2> HIDE DEF new
  <2>2. \A i \in Appts : HoldsRow(new, i) => HoldsRow(job, i)
    BY <1>1, <2>1 DEF HoldsRow
  <2>3. \A i \in Appts : HoldsRow(new, i) =>
           Stored(appts, i) /\ new.was = appts[i].status /\ LockFree(s, i)
    BY <2>1, <2>2 DEF OwnRow
  <2>4. new.id = 0 => new.was = "ABSENT"
    BY <1>1, <2>1 DEF OwnRow
  <2> QED
    BY <1>3, <2>3, <2>4, OwnRowMoves DEF Evaluate, Goto
<1> QED
  BY <1>2, <1>3 DEF Evaluate

LEMMA DeleteKeepsRows ==
  ASSUME Races, OwnRow, NEW s \in Sessions, Delete(s)
  PROVE  OwnRow'
<1>1. PICK i \in Appts : /\ LockFree(s, i) /\ jobs[s].pc = "idle"
                          /\ appts' = [appts EXCEPT ![i] = Removed] /\ jobs' = jobs
  BY DEF Delete
<1>2. \A o \in Sessions : ~ HoldsRow(jobs[o], i)
  BY <1>1 DEF LockFree, HoldsRow
<1>3. \A j \in Appts \ {i} : appts'[j] = appts[j]
  BY <1>1 DEF Races, Typed
<1>4. ASSUME NEW o \in Sessions, NEW j \in Appts, HoldsRow(jobs[o], j)
      PROVE  Stored(appts', j) /\ jobs[o].was = appts'[j].status /\ LockFree(o, j)'
  <2>1. j \in Appts \ {i}
    BY <1>2, <1>4
  <2> QED
    BY <1>1, <1>3, <1>4, <2>1 DEF OwnRow, Stored, LockFree
<1> QED
  BY <1>1, <1>4 DEF OwnRow

\* What Write does, as far as the rows and their events are concerned.
LEMMA WriteTrail ==
  ASSUME Races, OwnRow, NEW s \in Sessions, Write(s)
  PROVE  \E i \in Appts : \E new \in Rows :
           /\ jobs[s].was = IF Stored(appts, i) THEN appts[i].status ELSE "ABSENT"
           /\ jobs[s].was \in Statuses \cup {"ABSENT"}
           /\ \A o \in Sessions \ {s} : ~ HoldsRow(jobs[o], i)
           /\ appts' = [appts EXCEPT ![i] = new]
           /\ trail' = Record(i, jobs[s].was, new.status)
           /\ jobs'[s] = Idle
           /\ \A o \in Sessions \ {s} : /\ jobs'[o].id = jobs[o].id /\ jobs'[o].pc = jobs[o].pc
                                        /\ jobs'[o].was = jobs[o].was
<1> DEFINE job == jobs[s]
           new == At(job.place, NextStatus(job), Actor(s))
<1>1. Shaped(job) /\ job \in Jobs /\ job.pc = "write"
  BY JobTyped DEF Write
<1>2. job.place \in Places /\ NextStatus(job) \in Statuses /\ Actor(s) \in Actors
  BY <1>1 DEF Shaped, Actor, Actors
<1>3. new \in Rows
  BY <1>2, PlaceOfRow
<1>4. PICK i \in Appts :
         /\ IF job.id = 0 THEN appts[i] = Absent ELSE i = job.id
         /\ appts' = [appts EXCEPT ![i] = new]
         /\ trail' = Record(i, job.was, new.status)
         /\ jobs' = [o \in Sessions |->
               IF o = s THEN Idle
               ELSE IF Serializable(job) /\ Serializable(jobs[o]) /\ InTransaction(jobs[o])
                    THEN [jobs[o] EXCEPT !.rivals = @ \cup {Mark(job, i, new)}]
                    ELSE jobs[o]]
  BY DEF Write
<1> HIDE DEF new
<1>5. /\ job.was = IF Stored(appts, i) THEN appts[i].status ELSE "ABSENT"
      /\ \A o \in Sessions \ {s} : ~ HoldsRow(jobs[o], i)
  <2>1. CASE job.id = 0
    <3>1. job.was = "ABSENT" /\ ~ Stored(appts, i)
      BY <1>1, <1>4, <2>1, BookingAssumption DEF OwnRow, Stored, Absent
    <3>2. \A o \in Sessions : ~ HoldsRow(jobs[o], i)
      BY <3>1 DEF OwnRow
    <3> QED
      BY <3>1, <3>2
  <2>2. CASE job.id # 0
    <3>1. HoldsRow(job, i)
      BY <1>1, <1>4, <2>2 DEF HoldsRow
    <3>2. Stored(appts, i) /\ job.was = appts[i].status /\ LockFree(s, i)
      BY <3>1 DEF OwnRow
    <3> QED
      BY <3>2 DEF LockFree
  <2> QED
    BY <2>1, <2>2
<1>6. job.was \in Statuses \cup {"ABSENT"}
  BY <1>1 DEF Jobs
<1>7. jobs'[s] = Idle
  BY <1>4
<1>8. ASSUME NEW o \in Sessions \ {s}
      PROVE  jobs'[o].id = jobs[o].id /\ jobs'[o].pc = jobs[o].pc /\ jobs'[o].was = jobs[o].was
  <2>1. jobs[o] \in Jobs
    BY JobTyped
  <2>2. \/ jobs'[o] = jobs[o]
        \/ jobs'[o] = [jobs[o] EXCEPT !.rivals = @ \cup {Mark(job, i, new)}]
    BY <1>4
  <2> QED
    BY <2>1, <2>2 DEF Jobs
<1> QED
  BY <1>3, <1>4, <1>5, <1>6, <1>7, <1>8

LEMMA WriteKeepsRows ==
  ASSUME Races, OwnRow, NEW s \in Sessions, Write(s)
  PROVE  OwnRow'
<1>1. PICK i \in Appts, new \in Rows :
         /\ \A o \in Sessions \ {s} : ~ HoldsRow(jobs[o], i)
         /\ appts' = [appts EXCEPT ![i] = new]
         /\ jobs'[s] = Idle
         /\ \A o \in Sessions \ {s} : /\ jobs'[o].id = jobs[o].id /\ jobs'[o].pc = jobs[o].pc
                                      /\ jobs'[o].was = jobs[o].was
  BY WriteTrail, Zenon
<1>2. \A j \in Appts \ {i} : appts'[j] = appts[j]
  BY <1>1 DEF Races, Typed
<1>3. /\ jobs'[s].was = "ABSENT" /\ \A j \in Appts : ~ HoldsRow(jobs'[s], j)
      /\ \A o \in Sessions \ {s}, j \in Appts : HoldsRow(jobs'[o], j) <=> HoldsRow(jobs[o], j)
  BY <1>1 DEF Idle, HoldsRow
<1>4. ASSUME NEW o \in Sessions, NEW j \in Appts, HoldsRow(jobs'[o], j)
      PROVE  Stored(appts', j) /\ jobs'[o].was = appts'[j].status /\ LockFree(o, j)'
  <2>1. o \in Sessions \ {s} /\ HoldsRow(jobs[o], j)
    BY <1>3, <1>4
  <2>2. j \in Appts \ {i}
    BY <1>1, <2>1
  <2>3. Stored(appts, j) /\ jobs[o].was = appts[j].status /\ LockFree(o, j)
    BY <2>1 DEF OwnRow
  <2>4. LockFree(o, j)'
    BY <1>3, <2>3 DEF LockFree
  <2> QED
    BY <1>1, <1>2, <2>1, <2>2, <2>3, <2>4 DEF Stored
<1>5. ASSUME NEW o \in Sessions
      PROVE  jobs'[o].id = 0 /\ jobs'[o].pc # "select" => jobs'[o].was = "ABSENT"
  BY <1>1, <1>3 DEF OwnRow
<1> QED
  BY <1>4, <1>5 DEF OwnRow

LEMMA OwnRowStep ==
  ASSUME Races, OwnRow, [Next]_vars
  PROVE  OwnRow'
<1>1. CASE UNCHANGED vars
  BY <1>1 DEF vars, OwnRow, HoldsRow, LockFree, Stored
<1> QED
  BY <1>1, AskKeepsRows, SelectKeepsRows, BeginKeepsRows, RefuseKeepsRows, LockRowKeepsRows,
     EvaluateKeepsRows, WriteKeepsRows, DeleteKeepsRows DEF Next, Progress

LEMMA ToldStep ==
  ASSUME Races, OwnRow, Told, [Next]_vars
  PROVE  Told'
<1>1. CASE appts' = appts /\ trail' = trail
  BY <1>1 DEF Told
<1>2. ASSUME NEW i \in Appts, NEW cell, NEW t,
             appts' = [appts EXCEPT ![i] = cell], trail' = [trail EXCEPT ![i] = t], Tells(t, cell)
      PROVE  Told'
  <2>1. trail' \in [Appts -> Changes] /\ trail'[i] = t /\ appts'[i] = cell
        /\ \A j \in Appts \ {i} : trail'[j] = trail[j] /\ appts'[j] = appts[j]
    BY <1>2 DEF Told, Tells, Races, Typed
  <2>2. \A j \in Appts : Tells(trail'[j], appts'[j])
    BY <1>2, <2>1 DEF Told
  <2> QED
    BY <2>1, <2>2 DEF Told
<1>3. ASSUME NEW s \in Sessions, Delete(s)
      PROVE  Told'
  <2>1. Tells(<<>>, Removed)
    BY EmptyTells, BookingAssumption DEF Removed
  <2> QED
    BY <1>2, <1>3, <2>1 DEF Delete
<1>4. ASSUME NEW s \in Sessions, Write(s)
      PROVE  Told'
  <2>1. PICK i \in Appts, new \in Rows :
           /\ jobs[s].was = IF Stored(appts, i) THEN appts[i].status ELSE "ABSENT"
           /\ jobs[s].was \in Statuses \cup {"ABSENT"}
           /\ appts' = [appts EXCEPT ![i] = new]
           /\ trail' = Record(i, jobs[s].was, new.status)
    BY <1>4, WriteTrail, Zenon
  <2>2. new.status \in Statuses /\ Tells(trail[i], appts[i])
    BY DEF Rows, Told
  <2>3. CASE jobs[s].was = new.status
    <3>1. appts[i].status = new.status /\ trail' = trail
      BY <2>1, <2>2, <2>3, BookingAssumption DEF Record, Stored
    <3>2. Tells(trail[i], new)
      BY <2>2, <3>1 DEF Tells
    <3>3. trail' = [trail EXCEPT ![i] = trail[i]]
      BY <3>1 DEF Told
    <3> QED
      BY <1>2, <2>1, <3>2, <3>3
  <2>4. CASE jobs[s].was # new.status
    <3>1. trail' = [trail EXCEPT ![i] = Append(trail[i], <<jobs[s].was, new.status>>)]
      BY <2>1, <2>4 DEF Record
    <3>2. jobs[s].was = IF appts[i].status \in Statuses THEN appts[i].status ELSE "ABSENT"
      BY <2>1 DEF Stored
    <3>3. Tells(Append(trail[i], <<jobs[s].was, new.status>>), new)
      BY <2>1, <2>2, <2>4, <3>2, AppendTells
    <3> QED
      BY <1>2, <2>1, <3>1, <3>3
  <2> QED
    BY <2>3, <2>4
<1>5. ASSUME NEW s \in Sessions,
             AskBooking(s) \/ AskChange(s) \/ AskStatus(s) \/ AskRestatus(s) \/ Select(s)
             \/ Begin(s) \/ Refuse(s) \/ LockRow(s) \/ Evaluate(s)
      PROVE  appts' = appts /\ trail' = trail
  BY <1>5 DEF AskBooking, AskChange, AskStatus, AskRestatus, Start, Select, Begin, Refuse,
              LockRow, Evaluate
<1>6. CASE UNCHANGED vars
  BY <1>1, <1>6 DEF vars
<1> QED
  BY <1>1, <1>3, <1>4, <1>5, <1>6 DEF Next, Progress

\* The events of an appointment (recordAppointmentStatusChange and the audit log) are a chain
\* that ends at its status, however many changes race for the row: the status a change starts
\* from is read under the lock of the row.
THEOREM EventsTellStatusHolds == Spec => []EventsTellStatus
<1>1. Init => Races /\ OwnRow /\ Told
  <2> SUFFICES ASSUME Init PROVE OwnRow /\ Told
    BY RacesInit
  <2>1. OwnRow
    BY DEF Init, OwnRow, Idle, HoldsRow
  <2>2. Tells(<<>>, Absent)
    BY EmptyTells, BookingAssumption DEF Absent
  <2> QED
    BY <2>1, <2>2 DEF Init, Told, Tells
<1>2. Races /\ OwnRow /\ Told /\ [Next]_vars => (Races /\ OwnRow /\ Told)'
  BY RacesStep, OwnRowStep, ToldStep
<1>3. Told => EventsTellStatus
  BY DEF Told, Tells, EventsTellStatus, Stored
<1> QED
  BY <1>1, <1>2, <1>3, PTL DEF Spec
=============================================================================
