-------------------------- MODULE AppointmentBooking --------------------------
(***************************************************************************)
(* Bookings that race for the same calendar (lib/appointment-booking.ts,   *)
(* routes/appointments.routes.ts and the appointment actions of            *)
(* lib/opportunity-automations.ts).  Staff create and change appointments  *)
(* in SERIALIZABLE transactions that are repeated when the database        *)
(* refuses them; automations book inside the transaction of their segment, *)
(* and status changes of staff run, in READ COMMITTED.  The advisory locks *)
(* of acquireBookingLocks are not modelled: the statement that should take *)
(* them puts the call in a common table expression that nothing reads,     *)
(* which PostgreSQL does not evaluate.                                     *)
(*                                                                         *)
(* Times are whole units; the booking rules of the tenant are constants    *)
(* and every hour is open.                                                 *)
(* The database's detection of serialization failures is reduced to the    *)
(* case it must detect, two concurrent serializable transactions that each *)
(* read what the other wrote; it may refuse any transaction besides.       *)
(***************************************************************************)
EXTENDS Integers, FiniteSets, Sequences

CONSTANTS
    Staff,        \* sessions of the API
    Bots,         \* executions of automations
    Assignees, Contacts, Starts,
    Duration,     \* calendarMeetingDurationMinutes
    DayLength,    \* units of a local day
    Pre, Post,    \* calendarPreBufferMinutes, calendarPostBufferMinutes
    MaxPerSlot, MaxPerDay,
    Statuses,     \* AppointmentStatus
    RetryLimit,   \* BOOKING_TRANSACTION_RETRY_LIMIT, and maxAttempts of NEXT_UPCOMING
    MaxRequests   \* bound: requests of all sessions

ASSUME BookingAssumption ==
    /\ Staff \cap Bots = {}
    /\ Starts \subseteq Nat
    /\ {Duration, DayLength, MaxPerSlot, MaxPerDay, RetryLimit, MaxRequests} \subseteq Nat \ {0}
    /\ {Pre, Post} \subseteq Nat
    /\ "SCHEDULED" \in Statuses
    /\ Statuses \cap {"ABSENT", "REMOVED", "KEEP"} = {}

VARIABLES
    appts,     \* the committed Appointment rows
    trail,     \* AppointmentAuditLog and the queued events of each: <<previous, next>> statuses
    jobs,      \* what each session is doing
    requests   \* bound: requests started

vars == <<appts, trail, jobs, requests>>

Sessions == Staff \cup Bots
Appts == 1 .. MaxRequests
Absent == [status |-> "ABSENT"]
Removed == [status |-> "REMOVED"]
Places == [assignee : Assignees, contact : Contacts, start : Starts]
\* by is history: who wrote the row last.
Actors == {"STAFF", "AUTOMATION"}
Actor(s) == IF s \in Staff THEN "STAFF" ELSE "AUTOMATION"
Rows == [assignee : Assignees, contact : Contacts, start : Starts, status : Statuses, by : Actors]
Place(row) == [assignee |-> row.assignee, contact |-> row.contact, start |-> row.start]
At(place, status, by) == [assignee |-> place.assignee, contact |-> place.contact,
                          start |-> place.start, status |-> status, by |-> by]
Stored(db, i) == db[i].status \in Statuses

-----------------------------------------------------------------------------
(* evaluateAvailability *)

Day(t) == t \div DayLength
Overlap(s, t) == s < t + Duration /\ s + Duration > t
\* Mutant of Near: the buffers are left out.
NearUnbuffered(t, s) == Overlap(t, s)
\* an appointment that starts at t, with the buffers around it, meets a new one at s
Near(t, s) == t - Pre < s + Duration /\ t + Duration + Post > s

\* The rows a decision about place depends on, as the reads of the database find them.
InSlot(row, place) == row.status = "SCHEDULED" /\ row.assignee = place.assignee
                      /\ Near(row.start, place.start)
OnDay(row, place) == row.status = "SCHEDULED" /\ row.assignee = place.assignee
                     /\ Day(row.start) = Day(place.start)
WithContact(row, place) == row.status = "SCHEDULED" /\ row.contact = place.contact
                           /\ Overlap(row.start, place.start)
Watched(row, place) == InSlot(row, place) \/ OnDay(row, place) \/ WithContact(row, place)

\* Mutant of Available: the count of the day is compared with <=.
AvailableOneMore(db, id, place) ==
    LET others == {i \in Appts \ {id} : Stored(db, i)} IN
    /\ Day(place.start) = Day(place.start + Duration)
    /\ Cardinality({i \in others : OnDay(db[i], place)}) <= MaxPerDay
    /\ Cardinality({i \in others : InSlot(db[i], place)}) < MaxPerSlot
    /\ ~ \E i \in others : WithContact(db[i], place)
Available(db, id, place) ==
    LET others == {i \in Appts \ {id} : Stored(db, i)} IN
    /\ Day(place.start) = Day(place.start + Duration)
    /\ Cardinality({i \in others : OnDay(db[i], place)}) < MaxPerDay
    /\ Cardinality({i \in others : InSlot(db[i], place)}) < MaxPerSlot
    /\ ~ \E i \in others : WithContact(db[i], place)

-----------------------------------------------------------------------------
(* Sessions *)

\* op      create, patch, status, delete of staff; book, restatus of automations
\* id      the row, 0 before it is known; place, status: what the request wants it to be
\* snap    the snapshot of a serializable transaction; was: the status the row was read with
\* rivals  the serializable transactions committed since: what they decided on and wrote
Idle == [pc |-> "idle", op |-> "none", id |-> 0, place |-> Absent, status |-> "KEEP",
         snap |-> <<>>, was |-> "ABSENT", rivals |-> {}, attempt |-> 0]

Serializable(job) == job.op \in {"create", "patch"}
\* changeAppointmentStatusInTransaction and createAppointmentInTransaction see what is committed
View(job) == IF Serializable(job) THEN job.snap ELSE appts

InTransaction(job) == job.pc \in {"lock", "evaluate", "write"}
HoldsRow(job, i) == job.id = i /\ job.pc \in {"evaluate", "write"}
\* Mutant of LockFree: the row is read without FOR UPDATE.
LockFreeAlways(s, i) == TRUE
LockFree(s, i) == \A o \in Sessions \ {s} : ~ HoldsRow(jobs[o], i)

Goto(s, job) == jobs' = [jobs EXCEPT ![s] = job]
End(s) == Goto(s, Idle)

Init ==
    /\ appts = [i \in Appts |-> Absent]
    /\ trail = [i \in Appts |-> <<>>]
    /\ jobs = [s \in Sessions |-> Idle]
    /\ requests = 0

Start(s, job) ==
    /\ jobs[s].pc = "idle"
    /\ requests < MaxRequests
    /\ requests' = requests + 1
    /\ Goto(s, job)
    /\ UNCHANGED <<appts, trail>>

\* POST, and CREATE_APPOINTMENT of an automation
AskBooking(s) == \E p \in Places :
    Start(s, [Idle EXCEPT !.op = IF s \in Staff THEN "create" ELSE "book",
                          !.pc = IF s \in Staff THEN "begin" ELSE "evaluate",
                          !.place = p, !.status = "SCHEDULED"])

\* The field a PATCH gives; the rest is taken from the row it reads before its transaction.
\* Of the requests that give several of them at once only those that change one are modelled.
Given(row) ==
    {[Place(row) EXCEPT !.assignee = a] : a \in Assignees}
    \cup {[Place(row) EXCEPT !.contact = c] : c \in Contacts}
    \cup {[Place(row) EXCEPT !.start = t] : t \in Starts}

\* PATCH reads the row; anything but a lone status other than SCHEDULED goes on to
\* updateAppointmentAtomically.
AskChange(s) == s \in Staff /\ \E i \in Appts :
    /\ Stored(appts, i)
    /\ \E p \in Given(appts[i]), st \in Statuses \cup {"KEEP"} :
         Start(s, [Idle EXCEPT !.op = "patch", !.pc = "begin", !.id = i, !.place = p, !.status = st])

AskStatus(s) == s \in Staff /\ \E i \in Appts, st \in Statuses \ {"SCHEDULED"} :
    /\ Stored(appts, i)
    /\ Start(s, [Idle EXCEPT !.op = "status", !.pc = "lock", !.id = i, !.status = st])

\* DELETE: deleteMany, which waits for the row.
Delete(s) == s \in Staff /\ \E i \in Appts :
    /\ Stored(appts, i)
    /\ LockFree(s, i)
    /\ requests < MaxRequests
    /\ jobs[s].pc = "idle"
    /\ requests' = requests + 1
    /\ appts' = [appts EXCEPT ![i] = Removed]
    /\ trail' = [trail EXCEPT ![i] = <<>>]
    /\ UNCHANGED jobs

\* UPDATE_APPOINTMENT_STATUS: the triggering appointment, which is tried once, or the next
\* one of the contact, which is looked up again when it is gone after the lock.
AskRestatus(s) == s \in Bots /\ \E c \in Contacts, st \in Statuses, last \in {0, RetryLimit - 1} :
    Start(s, [Idle EXCEPT !.op = "restatus", !.pc = "select", !.status = st, !.attempt = last,
                          !.place = [contact |-> c]])

Select(s) ==
    LET job == jobs[s]
        mine == {i \in Appts : Stored(appts, i) /\ appts[i].contact = job.place.contact} IN
    /\ job.pc = "select"
    /\ IF mine = {} THEN End(s)
       ELSE \E i \in mine : Goto(s, [job EXCEPT !.pc = "lock", !.id = i])
    /\ UNCHANGED <<appts, trail, requests>>

\* The first statement of a serializable transaction takes its snapshot.
Begin(s) ==
    LET job == jobs[s] IN
    /\ job.pc = "begin"
    /\ Goto(s, [job EXCEPT !.pc = IF job.id = 0 THEN "evaluate" ELSE "lock",
                           !.snap = appts, !.rivals = {}])
    /\ UNCHANGED <<appts, trail, requests>>

\* The database refuses the transaction: it is repeated, the last time it is an error.
Refuse(s) ==
    LET job == jobs[s] IN
    /\ Serializable(job) /\ InTransaction(job)
    /\ IF job.attempt < RetryLimit - 1
       THEN Goto(s, [job EXCEPT !.pc = "begin", !.snap = <<>>, !.rivals = {},
                                !.attempt = @ + 1])
       ELSE End(s)
    /\ UNCHANGED <<appts, trail, requests>>

\* SELECT ... FOR UPDATE and findFirst: a serializable transaction must find the row as its
\* snapshot has it (or be refused), the others take it as it is; one that is gone ends the request.
LockRow(s) ==
    LET job == jobs[s]  row == appts[job.id] IN
    /\ job.pc = "lock"
    /\ LockFree(s, job.id)
    /\ \/ /\ Serializable(job)
          /\ row = job.snap[job.id]
          /\ IF Stored(appts, job.id) THEN Goto(s, [job EXCEPT !.pc = "evaluate", !.was = row.status])
             ELSE End(s)
       \/ /\ job.op = "status"
          /\ IF Stored(appts, job.id) THEN Goto(s, [job EXCEPT !.pc = "write", !.place = Place(row), !.was = row.status])
             ELSE End(s)
       \/ /\ job.op = "restatus"
          /\ \/ /\ Stored(appts, job.id) /\ row.contact = job.place.contact
                /\ IF row.status = job.status THEN End(s)
                   ELSE Goto(s, [job EXCEPT !.pc = "evaluate", !.place = Place(row), !.was = row.status])
             \/ /\ ~ (Stored(appts, job.id) /\ row.contact = job.place.contact)
                /\ IF job.attempt < RetryLimit - 1
                   THEN Goto(s, [job EXCEPT !.pc = "select", !.id = 0, !.attempt = @ + 1])
                   ELSE End(s)
    /\ UNCHANGED <<appts, trail, requests>>

\* the status the row gets: params.status ?? existing.status
NextStatus(job) == IF job.status = "KEEP" THEN job.was ELSE job.status
\* Mutant of Decides: only a change to SCHEDULED is checked, not a move.
DecidesOnStatus(job) == job.status = "SCHEDULED"
Decides(job) == NextStatus(job) = "SCHEDULED"

Evaluate(s) ==
    LET job == jobs[s] IN
    /\ job.pc = "evaluate"
    /\ IF Decides(job) /\ ~ Available(View(job), job.id, job.place)
       THEN End(s)
       ELSE Goto(s, [job EXCEPT !.pc = "write"])
    /\ UNCHANGED <<appts, trail, requests>>

-----------------------------------------------------------------------------
(* Commit *)

\* What a serializable transaction read and wrote, as the others see it.
Mark(job, id, new) == [place |-> job.place, decides |-> Decides(job),
                       images |-> {appts[id], new}]
ReadBy(images, place, decides) ==
    decides /\ \E row \in images : row.status \in Statuses /\ Watched(row, place)
\* Mutant of Dangerous: the transactions are REPEATABLE READ.
DangerousNever(job, id, new) == FALSE
Dangerous(job, id, new) == \E t \in job.rivals :
    /\ ReadBy(t.images, job.place, Decides(job))
    /\ ReadBy({appts[id], new}, t.place, t.decides)

Record(i, previous, next) ==
    IF previous = next THEN trail ELSE [trail EXCEPT ![i] = Append(@, <<previous, next>>)]

\* create or update, the audit entries and the event of a status change, and the commit
Write(s) ==
    LET job == jobs[s] IN
    /\ job.pc = "write"
    /\ \E i \in Appts :
         LET new == At(job.place, NextStatus(job), Actor(s)) IN
         /\ IF job.id = 0
            THEN appts[i] = Absent /\ \A j \in 1 .. i - 1 : appts[j] # Absent
            ELSE i = job.id
         /\ Serializable(job) => ~ Dangerous(job, i, new)
         /\ appts' = [appts EXCEPT ![i] = new]
         /\ trail' = Record(i, job.was, new.status)
         /\ jobs' = [o \in Sessions |->
               IF o = s THEN Idle
               ELSE IF Serializable(job) /\ Serializable(jobs[o]) /\ InTransaction(jobs[o])
                    THEN [jobs[o] EXCEPT !.rivals = @ \cup {Mark(job, i, new)}]
                    ELSE jobs[o]]
    /\ UNCHANGED requests

-----------------------------------------------------------------------------
Progress(s) == Select(s) \/ Begin(s) \/ Refuse(s) \/ LockRow(s) \/ Evaluate(s) \/ Write(s)
Next == \E s \in Sessions :
    \/ AskBooking(s) \/ AskChange(s) \/ AskStatus(s) \/ AskRestatus(s) \/ Delete(s)
    \/ Progress(s)

Spec == Init /\ [][Next]_vars

-----------------------------------------------------------------------------
(* Properties *)

\* Only SCHEDULED appointments take a place: the queries of the code count no others, so the
\* properties speak of no others either.
Scheduled == {i \in Appts : appts[i].status = "SCHEDULED"}
\* the appointments that stand as staff decided them
ByStaff == {i \in Scheduled : appts[i].by = "STAFF"}

AtOnce(S, a, t) == {i \in S : appts[i].assignee = a /\ appts[i].start <= t
                              /\ t < appts[i].start + Duration}

\* No moment of an assignee's day is booked more often than the tenant allows
\* (maximumBookingsPerSlot): "atomic booking transaction prevents race-condition double
\* booking".
NoDoubleBooking == \A a \in Assignees, t \in Starts :
    Cardinality(AtOnce(Scheduled, a, t)) <= MaxPerSlot

\* What staff book keeps that limit among itself, whatever requests race for it and whatever
\* automations book beside them; an appointment that is not SCHEDULED is in nobody's way.
StaffNeverDoubleBook == \A a \in Assignees, t \in Starts :
    Cardinality(AtOnce(ByStaff, a, t)) <= MaxPerSlot

\* Staff never give an assignee more SCHEDULED appointments on a day than
\* maximumBookingsPerDay; a day is 24 hours, as in nextDayStart.
DayLimitKept == \A a \in Assignees, t \in Starts :
    Cardinality({i \in ByStaff : appts[i].assignee = a
                                 /\ Day(appts[i].start) = Day(t)}) <= MaxPerDay

\* Staff never give a contact two SCHEDULED appointments at the same time, even with two
\* assignees.
ContactFree == \A i, j \in ByStaff :
    i # j /\ appts[i].contact = appts[j].contact => ~ Overlap(appts[i].start, appts[j].start)

Lesser == IF Pre < Post THEN Pre ELSE Post
\* With one booking per slot, the appointments staff give an assignee are kept apart by the
\* lesser of the two buffers: a booking looks at the buffers of what is there, not at its own.
BufferKept == MaxPerSlot = 1 => \A i, j \in ByStaff :
    i # j /\ appts[i].assignee = appts[j].assignee /\ appts[i].start <= appts[j].start
        => appts[i].start + Duration + Lesser <= appts[j].start

\* The events of an appointment are a chain: each one starts from the status the one before it
\* left, none is a change to the same status, and the last one is what the row says.
EventsTellStatus == \A i \in Appts :
    LET t == trail[i] IN
    /\ Stored(appts, i) => t # <<>> /\ t[Len(t)][2] = appts[i].status
    /\ \A k \in 1 .. Len(t) : t[k][1] # t[k][2]
                              /\ (k > 1 => t[k][1] = t[k - 1][2])
=============================================================================
