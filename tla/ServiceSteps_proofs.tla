------------------------- MODULE ServiceSteps_proofs -------------------------
(***************************************************************************)
(* What ServiceSteps guarantees for any number of steps, entries and       *)
(* completion workflows: one invariant carries the types, the links        *)
(* between the entries, what an entry waits for, and how the status of the *)
(* enrollment follows the newest entry.                                    *)
(***************************************************************************)
EXTENDS ServiceSteps, FiniteSetTheorems, WellFoundedInduction, TLAPS

-----------------------------------------------------------------------------
(* The inductive invariant *)

\* Superseded work is neither active nor held, and only completed work is held.
Rested(e) ==
  /\ e.superseded => e.state # "ACTIVE" /\ ~Held(e)
  /\ Held(e) => e.state = "COMPLETED"

\* What OnlyPastWaitStrands says of one entry.
WaitsForSomeRun(e) ==
  Awaiting(e) /\ ~Lapsed(e) =>
    /\ ~SomeStopped(e)
    /\ \E a \in DOMAIN e.runs : e.runs[a] \in Unfinished

\* A completed entry whose workflows all succeeded.
Done(e) == e.state = "COMPLETED" /\ \A a \in DOMAIN e.runs : e.runs[a] = "SUCCEEDED"

\* The entry made for the completion of entry i, and for no other.
Follows(es, j) ==
  LET i == es[j].after
  IN  i # 0 =>
        /\ i < j
        /\ es[j].step = es[i].step + 1
        /\ Done(es[i])
        /\ \A k \in DOMAIN es : es[k].after = i => k = j

EntriesInv == \A i \in DOMAIN entries : Rested(entries[i]) /\ WaitsForSomeRun(entries[i])
LinksInv == \A j \in DOMAIN entries : Follows(entries, j)

\* The same as StatusMatchesWork, entry by entry.
WorkInv ==
  /\ \A i \in DOMAIN entries :
        Unsettled(entries[i]) <=> status = "IN_PROGRESS" /\ i = Len(entries)
  /\ status \in {"PENDING_PAYMENT", "COMPLETED"} =>
        LastStepFinished(entries) /\ status = Settled(paid)

StepsInv == TypeOK /\ EntriesInv /\ LinksInv /\ WorkInv

\* ObsoleteIsInert of one step.
Inert ==
  /\ \A i \in DOMAIN entries :
        /\ i \in DOMAIN entries'
        /\ entries[i].superseded =>
             /\ entries'[i].superseded
             /\ entries'[i].state = entries[i].state
             /\ entries'[i].progress = entries[i].progress
  /\ status = "CANCELED" => status' = "CANCELED" /\ Len(entries') = Len(entries)

-----------------------------------------------------------------------------
(* Entries *)

LEMMA RunsType ==
  ASSUME NEW r
  PROVE  r \in UNION {[S -> RunStates] : S \in SUBSET Automations}
           <=> DOMAIN r \subseteq Automations /\ r \in [DOMAIN r -> RunStates]
  OBVIOUS

LEMMA NewEntryType ==
  ASSUME StepsAssumption, NEW step \in 1 .. MaxSteps, NEW after \in 0 .. MaxEntries
  PROVE  /\ NewEntry(step, after) \in Entries
         /\ Unsettled(NewEntry(step, after))
         /\ Rested(NewEntry(step, after))
         /\ WaitsForSomeRun(NewEntry(step, after))
         /\ NewEntry(step, after).step = step
         /\ NewEntry(step, after).after = after
<1>1. [a \in {} |-> "QUEUED"] \in UNION {[S -> RunStates] : S \in SUBSET Automations}
  BY RunsType
<1>2. NewEntry(step, after) \in Entries
  BY <1>1, StepsAssumption DEF NewEntry, Entries, EntryStates, Progressions
<1>3. QED
  BY <1>2 DEF NewEntry, Unsettled, Rested, WaitsForSomeRun, Awaiting, Held

\* Writing one entry leaves the others alone.
LEMMA WriteEntry ==
  ASSUME TypeOK, NEW i \in DOMAIN entries, NEW e \in Entries, e.step = entries[i].step
  PROVE  LET es == [entries EXCEPT ![i] = e]
         IN  /\ es \in Seq(Entries)
             /\ DOMAIN es = DOMAIN entries
             /\ Len(es) = Len(entries)
             /\ es[i] = e
             /\ \A j \in DOMAIN entries : j # i => es[j] = entries[j]
             /\ \A j \in DOMAIN entries : es[j].step \in Steps
  BY DEF TypeOK

LEMMA AddEntry ==
  ASSUME NEW es \in Seq(Entries), NEW e \in Entries
  PROVE  /\ Append(es, e) \in Seq(Entries)
         /\ Len(Append(es, e)) = Len(es) + 1
         /\ DOMAIN Append(es, e) = DOMAIN es \cup {Len(es) + 1}
         /\ Append(es, e)[Len(es) + 1] = e
         /\ \A j \in DOMAIN es : Append(es, e)[j] = es[j]
         /\ DOMAIN es = 1 .. Len(es)
  OBVIOUS

LEMMA Indices ==
  ASSUME TypeOK
  PROVE  /\ DOMAIN entries = 1 .. Len(entries)
         /\ Len(entries) \in Nat
         /\ Len(entries) \in DOMAIN entries
         /\ \A i \in DOMAIN entries : i \in Nat /\ entries[i] \in Entries
  BY DEF TypeOK

\* The links survive a step that keeps what is done, and adds at most an entry that
\* follows the newest one or none.
Keeps(d, e) == e.step = d.step /\ e.after = d.after /\ (Done(d) => Done(e))

LEMMA LinksKept ==
  ASSUME TypeOK, LinksInv, TypeOK',
         DOMAIN entries \subseteq DOMAIN entries',
         \A i \in DOMAIN entries : Keeps(entries[i], entries'[i]),
         \A j \in DOMAIN entries' \ DOMAIN entries :
            /\ j = Len(entries) + 1
            /\ \/ entries'[j].after = 0
               \/ /\ entries'[j].after = Len(entries)
                  /\ entries'[j].step = entries'[Len(entries)].step + 1
                  /\ Done(entries'[Len(entries)])
  PROVE  LinksInv'
<1> SUFFICES ASSUME NEW j \in DOMAIN entries', entries'[j].after # 0
             PROVE  LET i == entries'[j].after
                    IN  /\ i < j
                        /\ entries'[j].step = entries'[i].step + 1
                        /\ Done(entries'[i])
                        /\ \A k \in DOMAIN entries' : entries'[k].after = i => k = j
  BY DEF LinksInv, Follows
<1>0. /\ DOMAIN entries = 1 .. Len(entries) /\ Len(entries) \in DOMAIN entries
      /\ Len(entries) \in Nat
      /\ DOMAIN entries' \subseteq Nat
      /\ \A i \in DOMAIN entries : entries[i].after \in Nat
      /\ \A i \in DOMAIN entries' : entries'[i].after \in Nat
  <2>1. \A e \in Entries : e.after \in Nat
    BY DEF Entries
  <2>2. entries' \in Seq(Entries)
    BY DEF TypeOK
  <2>3. DOMAIN entries' \subseteq Nat /\ \A i \in DOMAIN entries' : entries'[i] \in Entries
    BY <2>2
  <2>4. QED
    BY Indices, <2>1, <2>3
<1>1. \A i \in DOMAIN entries : entries[i].after = entries'[i].after /\ entries[i].step = entries'[i].step
  BY DEF Keeps
<1>2. \A i \in DOMAIN entries : entries'[i].after # 0 =>
         /\ entries'[i].after < i
         /\ entries'[i].after \in DOMAIN entries
         /\ entries'[i].step = entries'[entries'[i].after].step + 1
         /\ Done(entries'[entries'[i].after])
         /\ \A k \in DOMAIN entries : entries'[k].after = entries'[i].after => k = i
  <2> SUFFICES ASSUME NEW i \in DOMAIN entries, entries'[i].after # 0
               PROVE  /\ entries'[i].after < i
                      /\ entries'[i].after \in DOMAIN entries
                      /\ entries'[i].step = entries'[entries'[i].after].step + 1
                      /\ Done(entries'[entries'[i].after])
                      /\ \A k \in DOMAIN entries : entries'[k].after = entries'[i].after => k = i
    OBVIOUS
  <2>1. /\ entries[i].after < i
        /\ entries[i].step = entries[entries[i].after].step + 1
        /\ Done(entries[entries[i].after])
        /\ \A k \in DOMAIN entries : entries[k].after = entries[i].after => k = i
    BY <1>1 DEF LinksInv, Follows
  <2>2. entries[i].after \in DOMAIN entries
    BY <1>0, <1>1, <2>1
  <2>3. QED
    BY <1>1, <2>1, <2>2 DEF Keeps
<1>3. CASE j \in DOMAIN entries
  <2>1. \A k \in DOMAIN entries' \ DOMAIN entries : entries'[k].after # entries'[j].after
    BY <1>0, <1>2, <1>3
  <2>2. QED
    BY <1>2, <1>3, <2>1
<1>4. CASE j \notin DOMAIN entries
  <2>1. /\ j = Len(entries) + 1
        /\ entries'[j].after = Len(entries)
        /\ entries'[j].step = entries'[Len(entries)].step + 1
        /\ Done(entries'[Len(entries)])
    BY <1>4
  <2>2. \A k \in DOMAIN entries : entries'[k].after # Len(entries)
    BY <1>0, <1>2
  <2>3. QED
    BY <1>0, <2>1, <2>2
<1>5. QED
  BY <1>3, <1>4

-----------------------------------------------------------------------------
(* Steps that write one entry *)

\* An entry is written without a change of what the status depends on.
LEMMA OneWritten ==
  ASSUME StepsInv, NEW i \in DOMAIN entries, NEW e \in Entries,
         entries' = [entries EXCEPT ![i] = e], UNCHANGED <<status, paid, steps>>,
         Keeps(entries[i], e), Rested(e), WaitsForSomeRun(e),
         Unsettled(e) <=> Unsettled(entries[i]),
         Unsettled(entries[i]) \/ (entries[i].progress = "FINISHED" => e.progress = "FINISHED"),
         entries[i].superseded =>
           e.superseded /\ e.state = entries[i].state /\ e.progress = entries[i].progress
  PROVE  StepsInv' /\ Inert
<1>0. /\ entries' \in Seq(Entries)
      /\ DOMAIN entries' = DOMAIN entries
      /\ Len(entries') = Len(entries)
      /\ entries'[i] = e
      /\ \A j \in DOMAIN entries : j # i => entries'[j] = entries[j]
      /\ \A j \in DOMAIN entries : entries'[j].step \in Steps
  BY WriteEntry DEF StepsInv, Keeps
<1>1. TypeOK'
  BY <1>0 DEF StepsInv, TypeOK, Steps
<1>2. EntriesInv'
  BY <1>0 DEF StepsInv, EntriesInv
<1>3. \A j \in DOMAIN entries : Keeps(entries[j], entries'[j])
  BY <1>0 DEF Keeps
<1>4. LinksInv'
  BY <1>0, <1>1, <1>3, LinksKept DEF StepsInv
<1>5. \/ Unsettled(entries[i])
      \/ \A j \in DOMAIN entries :
            /\ entries'[j].step = entries[j].step
            /\ entries[j].progress = "FINISHED" => entries'[j].progress = "FINISHED"
  BY <1>0 DEF Keeps
<1>6. Unsettled(entries[i]) \/ (LastStepFinished(entries) => LastStepFinished(entries)')
  BY <1>0, <1>5 DEF LastStepFinished
<1>7. WorkInv'
  <2>1. \A j \in DOMAIN entries' : Unsettled(entries'[j]) <=> Unsettled(entries[j])
    BY <1>0
  <2>2. QED
    BY <1>0, <1>6, <2>1 DEF StepsInv, WorkInv, Settled
<1>8. Inert
  BY <1>0 DEF Inert
<1>9. QED
  BY <1>1, <1>2, <1>4, <1>7, <1>8 DEF StepsInv

-----------------------------------------------------------------------------
(* Steps of a run *)

\* The entry with a run written, and the entry paused after it.
WithRun(d, a, how) == [d EXCEPT !.runs[a] = how]
Pausing(e) ==
  IF e.state = "COMPLETED" /\ e.progress = "WAITING_AUTOMATION"
  THEN [e EXCEPT !.progress = "PAUSED"]
  ELSE e

LEMMA WritesRun ==
  ASSUME NEW d \in Entries, NEW a \in DOMAIN d.runs, NEW how \in RunStates
  PROVE  LET e == WithRun(d, a, how)
         IN  /\ e \in Entries
             /\ DOMAIN e.runs = DOMAIN d.runs
             /\ e.runs[a] = how
             /\ \A b \in DOMAIN d.runs : b # a => e.runs[b] = d.runs[b]
             /\ e.step = d.step /\ e.after = d.after /\ e.superseded = d.superseded
             /\ e.state = d.state /\ e.progress = d.progress
<1>1. d.runs \in UNION {[S -> RunStates] : S \in SUBSET Automations}
  BY DEF Entries
<1>2. DOMAIN d.runs \subseteq Automations /\ d.runs \in [DOMAIN d.runs -> RunStates]
  BY <1>1, RunsType
<1> DEFINE r == [d.runs EXCEPT ![a] = how]
<1>3. /\ DOMAIN r = DOMAIN d.runs /\ r \in [DOMAIN d.runs -> RunStates] /\ r[a] = how
      /\ \A b \in DOMAIN d.runs : b # a => r[b] = d.runs[b]
  BY <1>2
<1>4. r \in UNION {[S -> RunStates] : S \in SUBSET Automations}
  BY <1>2, <1>3
<1>5. WithRun(d, a, how) = [d EXCEPT !.runs = r]
  BY DEF WithRun
<1> HIDE DEF r
<1>6. /\ [d EXCEPT !.runs = r] \in Entries
      /\ [d EXCEPT !.runs = r].runs = r
      /\ [d EXCEPT !.runs = r].step = d.step /\ [d EXCEPT !.runs = r].after = d.after
      /\ [d EXCEPT !.runs = r].superseded = d.superseded
      /\ [d EXCEPT !.runs = r].state = d.state /\ [d EXCEPT !.runs = r].progress = d.progress
  BY <1>4 DEF Entries
<1>7. QED
  BY <1>3, <1>5, <1>6

LEMMA PausesEntry ==
  ASSUME NEW e \in Entries
  PROVE  /\ Pausing(e) \in Entries
         /\ Pausing(e).step = e.step /\ Pausing(e).after = e.after /\ Pausing(e).runs = e.runs
         /\ Pausing(e).superseded = e.superseded /\ Pausing(e).state = e.state
         /\ Held(Pausing(e)) <=> Held(e)
         /\ ~Awaiting(Pausing(e))
         /\ e.progress # "WAITING_AUTOMATION" => Pausing(e) = e
  BY DEF Pausing, Entries, Held, Awaiting, Progressions

LEMMA EndsIsWrite ==
  ASSUME TypeOK, NEW i \in DOMAIN entries, NEW a, NEW how
  PROVE  /\ Ends(i, a, how) = [entries EXCEPT ![i] = WithRun(entries[i], a, how)]
         /\ \A e \in Entries : Paused([entries EXCEPT ![i] = e], i) = [entries EXCEPT ![i] = Pausing(e)]
<1>0. entries \in Seq(Entries)
  BY DEF TypeOK
<1>1. Ends(i, a, how) = [entries EXCEPT ![i] = WithRun(entries[i], a, how)]
  BY <1>0 DEF Ends, WithRun
<1>2. ASSUME NEW e \in Entries
      PROVE  Paused([entries EXCEPT ![i] = e], i) = [entries EXCEPT ![i] = Pausing(e)]
  BY <1>0 DEF Paused, Pausing
<1>3. QED
  BY <1>1, <1>2

LEMMA UnfinishedIsOpen ==
  /\ Unfinished \subseteq RunStates /\ Stopped \subseteq RunStates
  /\ \A s \in Unfinished : s \notin Stopped /\ s # "SUCCEEDED" /\ s # "LAPSED"
  /\ "SUCCEEDED" \notin Stopped
  /\ \A s \in RunStates : s \in Unfinished \/ s \in Stopped \/ s = "SUCCEEDED"
  BY DEF Unfinished, Stopped, RunStates

\* A run moves between the states in which it is not finished.
LEMMA RunGoesOn ==
  ASSUME StepsInv, NEW i \in DOMAIN entries, NEW a \in DOMAIN entries[i].runs,
         entries[i].runs[a] \in Unfinished, NEW how \in Unfinished,
         entries' = Ends(i, a, how), UNCHANGED <<status, paid, steps>>
  PROVE  StepsInv' /\ Inert
<1> DEFINE d == entries[i]
           e == WithRun(d, a, how)
<1>0. d \in Entries /\ how \in RunStates /\ TypeOK
  BY Indices, UnfinishedIsOpen DEF StepsInv
<1>1. entries' = [entries EXCEPT ![i] = e]
  BY <1>0, EndsIsWrite
<1>2. /\ e \in Entries /\ DOMAIN e.runs = DOMAIN d.runs /\ e.runs[a] = how
      /\ \A b \in DOMAIN d.runs : b # a => e.runs[b] = d.runs[b]
      /\ e.step = d.step /\ e.after = d.after /\ e.superseded = d.superseded
      /\ e.state = d.state /\ e.progress = d.progress
  BY <1>0, WritesRun
<1> HIDE DEF e
<1>3. Keeps(d, e)
  BY <1>2, UnfinishedIsOpen DEF Keeps, Done
<1>4. Rested(d) /\ WaitsForSomeRun(d)
  BY DEF StepsInv, EntriesInv
<1>5. Rested(e) /\ (Unsettled(e) <=> Unsettled(d))
  BY <1>2, <1>4 DEF Rested, Held, Unsettled
<1>6. WaitsForSomeRun(e)
  <2> SUFFICES ASSUME Awaiting(e), ~Lapsed(e)
               PROVE  ~SomeStopped(e) /\ \E b \in DOMAIN e.runs : e.runs[b] \in Unfinished
    BY DEF WaitsForSomeRun
  <2>1. Awaiting(d) /\ ~Lapsed(d)
    BY <1>2, UnfinishedIsOpen DEF Awaiting, Lapsed
  <2>2. ~SomeStopped(d)
    BY <1>4, <2>1 DEF WaitsForSomeRun
  <2>3. QED
    BY <1>2, <2>2, UnfinishedIsOpen DEF SomeStopped
<1>7. QED
  BY <1>1, <1>2, <1>3, <1>5, <1>6, OneWritten

\* A run stops, and its entry is paused.
LEMMA RunStops ==
  ASSUME StepsInv, NEW i \in DOMAIN entries, NEW a \in DOMAIN entries[i].runs,
         entries[i].runs[a] \in Unfinished, NEW how \in Stopped,
         SettleStop(Ends(i, a, how), i), UNCHANGED <<paid, steps>>
  PROVE  StepsInv' /\ Inert
<1> DEFINE d == entries[i]
           w == WithRun(d, a, how)
           e == Pausing(w)
<1>0. d \in Entries /\ how \in RunStates /\ TypeOK
  BY Indices, UnfinishedIsOpen DEF StepsInv
<1>2. /\ w \in Entries /\ DOMAIN w.runs = DOMAIN d.runs /\ w.runs[a] = how
      /\ w.step = d.step /\ w.after = d.after /\ w.superseded = d.superseded
      /\ w.state = d.state /\ w.progress = d.progress
  BY <1>0, WritesRun
<1>a. Ends(i, a, how) = [entries EXCEPT ![i] = w]
  BY <1>0, EndsIsWrite
<1>b. Paused([entries EXCEPT ![i] = w], i) = [entries EXCEPT ![i] = e]
  BY <1>0, <1>2, EndsIsWrite
<1>1. entries' = [entries EXCEPT ![i] = e] /\ UNCHANGED status
  BY <1>a, <1>b, Zenon DEF SettleStop
<1> HIDE DEF w
<1>3. /\ e \in Entries /\ e.step = d.step /\ e.after = d.after /\ e.runs = w.runs
      /\ e.superseded = d.superseded /\ e.state = d.state
      /\ (Held(e) <=> Held(d)) /\ ~Awaiting(e)
      /\ d.progress # "WAITING_AUTOMATION" => e.progress = d.progress
  BY <1>2, PausesEntry DEF Held
<1> HIDE DEF e
<1>4. Keeps(d, e)
  BY <1>2, <1>3, UnfinishedIsOpen DEF Keeps, Done
<1>5. Rested(d)
  BY DEF StepsInv, EntriesInv
<1>6. /\ Rested(e) /\ WaitsForSomeRun(e)
      /\ Unsettled(e) <=> Unsettled(d)
      /\ d.superseded => e.superseded /\ e.state = d.state /\ e.progress = d.progress
      /\ d.progress = "FINISHED" => e.progress = "FINISHED"
  BY <1>3, <1>5 DEF Rested, Unsettled, WaitsForSomeRun, Held
<1>7. QED
  BY <1>1, <1>3, <1>4, <1>6, OneWritten

\* A run ends at a past Wait, and nothing else is written.
LEMMA RunLapses ==
  ASSUME StepsInv, NEW i \in DOMAIN entries, NEW a \in DOMAIN entries[i].runs,
         ExitAtPastWait(i, a)
  PROVE  StepsInv' /\ Inert
<1> DEFINE d == entries[i]
           e == WithRun(d, a, "LAPSED")
<1>0. d \in Entries /\ "LAPSED" \in RunStates /\ TypeOK /\ d.runs[a] # "SUCCEEDED"
  BY Indices DEF StepsInv, RunStates, ExitAtPastWait, Executes
<1>1. entries' = [entries EXCEPT ![i] = e] /\ UNCHANGED <<status, paid, steps>>
  BY <1>0, EndsIsWrite DEF ExitAtPastWait
<1>2. /\ e \in Entries /\ DOMAIN e.runs = DOMAIN d.runs /\ e.runs[a] = "LAPSED"
      /\ e.step = d.step /\ e.after = d.after /\ e.superseded = d.superseded
      /\ e.state = d.state /\ e.progress = d.progress
  BY <1>0, WritesRun
<1> HIDE DEF e
<1>3. Keeps(d, e) /\ Rested(d)
  BY <1>0, <1>2 DEF Keeps, Done, StepsInv, EntriesInv
<1>4. Lapsed(e)
  BY <1>2 DEF Lapsed
<1>5. Rested(e) /\ WaitsForSomeRun(e) /\ (Unsettled(e) <=> Unsettled(d))
  BY <1>2, <1>3, <1>4 DEF Rested, Held, Unsettled, WaitsForSomeRun
<1>6. QED
  BY <1>1, <1>2, <1>3, <1>5, OneWritten

-----------------------------------------------------------------------------
(* Advancement *)

\* Only the newest entry is unsettled, and only while the enrollment is in progress.
LEMMA UnsettledIsNewest ==
  ASSUME StepsInv, NEW i \in DOMAIN entries, Unsettled(entries[i])
  PROVE  /\ status = "IN_PROGRESS" /\ i = Len(entries)
         /\ \A j \in DOMAIN entries : j # i => entries[j].state # "ACTIVE"
<1>1. status = "IN_PROGRESS" /\ i = Len(entries)
  BY DEF StepsInv, WorkInv
<1>2. \A j \in DOMAIN entries : j # i => ~Unsettled(entries[j])
  BY <1>1 DEF StepsInv, WorkInv
<1>3. QED
  BY <1>1, <1>2 DEF StepsInv, EntriesInv, Rested, Unsettled

\* The completed entry e of an advancement that goes to the next step or finishes.
LEMMA EntryReleased ==
  ASSUME NEW e \in Entries, Awaiting(e), NEW to \in {"ADVANCED", "FINISHED"}
  PROVE  LET f == [e EXCEPT !.progress = to]
         IN  /\ f \in Entries /\ f.progress = to
             /\ f.step = e.step /\ f.after = e.after /\ f.runs = e.runs /\ f.state = e.state
             /\ ~f.superseded /\ ~Unsettled(f) /\ Rested(f) /\ WaitsForSomeRun(f)
  BY DEF Entries, Progressions, Awaiting, Unsettled, Rested, WaitsForSomeRun, Held

LEMMA Advances ==
  ASSUME StepsAssumption, StepsInv,
         NEW i \in DOMAIN entries, NEW e \in Entries,
         e.step = entries[i].step, e.after = entries[i].after,
         Unsettled(entries[i]), Awaiting(e), Done(e),
         Advance([entries EXCEPT ![i] = e], i), UNCHANGED <<paid, steps>>
  PROVE  StepsInv' /\ Inert
<1> DEFINE es == [entries EXCEPT ![i] = e]
           to == Released(es, i)
           f == [e EXCEPT !.progress = to]
           done == [entries EXCEPT ![i] = f]
<1>0. /\ TypeOK /\ i = Len(entries) /\ status = "IN_PROGRESS"
      /\ DOMAIN entries = 1 .. Len(entries) /\ Len(entries) \in Nat \ {0}
      /\ \A j \in DOMAIN entries : j # i => entries[j].state # "ACTIVE"
  BY UnsettledIsNewest, Indices DEF StepsInv
<1>1. /\ es \in Seq(Entries) /\ DOMAIN es = DOMAIN entries /\ es[i] = e
      /\ \A j \in DOMAIN entries : j # i => es[j] = entries[j]
  BY <1>0, WriteEntry
<1>2. to = (IF e.step < steps THEN "ADVANCED" ELSE "FINISHED")
  <2> HIDE DEF es
  <2>1. ~Overtaken(es, i)
    BY <1>0, <1>1 DEF Overtaken, Over
  <2>2. QED
    BY <1>1, <2>1 DEF Released
<1>3. to \in {"ADVANCED", "FINISHED"}
  BY <1>2
<1>4. [es EXCEPT ![i].progress = to] = done
  <2> HIDE DEF to
  <2>1. entries \in Seq(Entries)
    BY <1>0 DEF TypeOK
  <2>2. QED
    BY <2>1
<1>5. /\ to = "ADVANCED" => MayEnter(es, status)
      /\ entries' = IF to = "ADVANCED" THEN Entered(done, e.step + 1, i) ELSE done
      /\ status' = IF to = "FINISHED" THEN Reconciled(done, status, paid) ELSE status
  <2> HIDE DEF es, done
  <2>1. Awaiting(es[i]) /\ es[i].step = e.step
    BY <1>1
  <2>2. QED
    BY <1>4, <2>1 DEF Advance, es, done
<1> HIDE DEF to
<1>6. /\ f \in Entries /\ f.progress = to
      /\ f.step = e.step /\ f.after = e.after /\ f.runs = e.runs /\ f.state = e.state
      /\ ~f.superseded /\ ~Unsettled(f) /\ Rested(f) /\ WaitsForSomeRun(f)
  BY <1>3, EntryReleased
<1> HIDE DEF f, es
<1>7. /\ done \in Seq(Entries) /\ Len(done) = Len(entries)
      /\ DOMAIN done = DOMAIN entries /\ done[i] = f
      /\ \A j \in DOMAIN entries : j # i => done[j] = entries[j]
      /\ \A j \in DOMAIN entries : done[j].step \in Steps
  BY <1>0, <1>6, WriteEntry
<1> HIDE DEF done
<1>8. /\ \A j \in DOMAIN entries : Keeps(entries[j], done[j])
      /\ \A j \in DOMAIN entries : ~Unsettled(done[j]) /\ Rested(done[j]) /\ WaitsForSomeRun(done[j])
      /\ Done(done[i])
      /\ \A j \in DOMAIN entries : entries[j].superseded => done[j] = entries[j]
  <2>1. Done(f) /\ Keeps(entries[i], f) /\ ~entries[i].superseded
    BY <1>6 DEF Keeps, Done, Unsettled
  <2>2. \A j \in DOMAIN entries : j # i =>
           ~Unsettled(entries[j]) /\ Rested(entries[j]) /\ WaitsForSomeRun(entries[j])
    BY <1>0 DEF StepsInv, WorkInv, EntriesInv
  <2>3. QED
    BY <1>6, <1>7, <2>1, <2>2 DEF Keeps
<1>9. CASE to = "ADVANCED"
  <2> DEFINE n == NewEntry(e.step + 1, i)
  <2>1. e.step + 1 \in Steps /\ e.step + 1 \in 1 .. MaxSteps /\ i \in 0 .. MaxEntries /\ i # 0
    <3>1. e.step \in Nat /\ e.step < steps /\ steps \in 1 .. MaxSteps /\ e.step \in Steps
      BY <1>0, <1>2, <1>9, StepsAssumption DEF TypeOK, Entries, Steps
    <3>2. QED
      BY <1>0, <3>1, StepsAssumption DEF TypeOK, Steps
  <2>2. \A j \in DOMAIN done : done[j].after # i
    <3>1. \A j \in DOMAIN entries : entries[j].after # 0 => entries[j].after < j
      BY DEF StepsInv, LinksInv, Follows
    <3>2. \A j \in DOMAIN entries : done[j].after = entries[j].after
      BY <1>8 DEF Keeps
    <3>3. QED
      BY <1>0, <1>7, <2>1, <3>1, <3>2
  <2>3. entries' = Append(done, n) /\ status' = status /\ Len(entries) < MaxEntries
    BY <1>1, <1>5, <1>7, <1>9, <2>1, <2>2 DEF Entered, MayEnter
  <2>4. n \in Entries /\ Unsettled(n) /\ Rested(n) /\ WaitsForSomeRun(n) /\ n.step = e.step + 1 /\ n.after = i
    BY <2>1, NewEntryType
  <2> HIDE DEF n
  <2>5. /\ entries' \in Seq(Entries) /\ Len(entries') = Len(entries) + 1
        /\ DOMAIN entries' = DOMAIN entries \cup {Len(entries) + 1}
        /\ entries'[Len(entries) + 1] = n
        /\ \A j \in DOMAIN entries : entries'[j] = done[j]
    BY <1>7, <2>3, <2>4, AddEntry
  <2>6. TypeOK'
    BY <1>0, <1>7, <2>1, <2>3, <2>4, <2>5 DEF TypeOK, Steps
  <2>7. EntriesInv'
    BY <1>8, <2>4, <2>5 DEF EntriesInv
  <2>8. LinksInv'
    <3>1. entries'[i] = done[i] /\ done[i].step = e.step
      BY <1>6, <1>7, <2>5
    <3>2. QED
      BY <1>0, <1>8, <2>4, <2>5, <2>6, <3>1, LinksKept DEF StepsInv
  <2>9. WorkInv'
    BY <1>0, <1>8, <2>3, <2>4, <2>5 DEF WorkInv
  <2>10. Inert
    BY <1>0, <1>8, <2>5 DEF Inert
  <2>11. QED
    BY <2>6, <2>7, <2>8, <2>9, <2>10 DEF StepsInv
<1>10. CASE to = "FINISHED"
  <2>1. entries' = done
    BY <1>5, <1>10
  <2>2. e.step = steps
    BY <1>0, <1>2, <1>10 DEF TypeOK, Steps
  <2>3. LastStepFinished(done)
    BY <1>0, <1>6, <1>7, <1>10, <2>2 DEF LastStepFinished
  <2>4. status' = Settled(paid)
    BY <1>0, <1>5, <1>7, <1>8, <1>10, <2>3 DEF Reconciled
  <2>5. TypeOK'
    BY <1>0, <1>7, <2>1, <2>4 DEF TypeOK, Steps, Settled, Statuses
  <2>6. EntriesInv'
    BY <1>7, <1>8, <2>1 DEF EntriesInv
  <2>7. LinksInv'
    BY <1>7, <1>8, <2>1, <2>5, LinksKept DEF StepsInv
  <2>8. LastStepFinished(entries)'
    BY <2>1, <2>3 DEF LastStepFinished
  <2>9. WorkInv'
    BY <1>7, <1>8, <2>1, <2>4, <2>8 DEF WorkInv, Settled
  <2>10. Inert
    BY <1>0, <1>7, <1>8, <2>1 DEF Inert
  <2>11. QED
    BY <2>5, <2>6, <2>7, <2>9, <2>10 DEF StepsInv
<1>11. QED
  BY <1>3, <1>9, <1>10

\* The step of an active entry is completed, with or without workflows to wait for.
LEMMA Completes ==
  ASSUME StepsAssumption, StepsInv, NEW i \in DOMAIN entries, NEW S \in SUBSET Automations,
         Complete(i, S)
  PROVE  StepsInv' /\ Inert
<1> DEFINE d == entries[i]
           r == [a \in S |-> "QUEUED"]
           e == [d EXCEPT !.state = "COMPLETED", !.progress = "WAITING_AUTOMATION", !.runs = r]
<1>0. /\ entries \in Seq(Entries) /\ d \in Entries
      /\ d.state = "ACTIVE" /\ ~Over(status) /\ UNCHANGED <<paid, steps>>
  BY Indices DEF StepsInv, TypeOK, Complete
<1>1. r \in UNION {[T -> RunStates] : T \in SUBSET Automations}
  BY RunsType DEF RunStates
<1>2. [entries EXCEPT ![i].state = "COMPLETED", ![i].progress = "WAITING_AUTOMATION", ![i].runs = r]
        = [entries EXCEPT ![i] = e]
  <2> HIDE DEF r
  <2>1. QED
    BY <1>0
<1>3. IF S = {} THEN Advance([entries EXCEPT ![i] = e], i)
                ELSE entries' = [entries EXCEPT ![i] = e] /\ UNCHANGED status
  <2> HIDE DEF e
  <2>1. QED
    BY <1>2 DEF Complete
<1>4. ~d.superseded /\ Unsettled(d)
  BY <1>0 DEF StepsInv, EntriesInv, Rested, Unsettled
<1>5. /\ e \in Entries /\ e.step = d.step /\ e.after = d.after /\ e.runs = r /\ e.state = "COMPLETED"
      /\ ~e.superseded /\ e.progress = "WAITING_AUTOMATION" /\ Awaiting(e) /\ Unsettled(e) /\ Rested(e)
  <2> HIDE DEF r
  <2>1. QED
    BY <1>0, <1>1, <1>4 DEF Entries, EntryStates, Progressions, Awaiting, Unsettled, Rested, Held
<1> HIDE DEF e
<1>6. CASE S = {}
  BY <1>0, <1>3, <1>4, <1>5, <1>6, Advances DEF Done
<1>7. CASE S # {}
  <2>1. WaitsForSomeRun(e)
    BY <1>5, <1>7 DEF WaitsForSomeRun, SomeStopped, Stopped, Unfinished
  <2>2. Keeps(d, e)
    BY <1>0, <1>5 DEF Keeps, Done
  <2>3. QED
    BY <1>0, <1>3, <1>4, <1>5, <1>7, <2>1, <2>2, OneWritten
<1>8. QED
  BY <1>6, <1>7

\* A run succeeds: the last one releases the entry, a late one may pause it.
LEMMA Succeeds ==
  ASSUME StepsAssumption, StepsInv, NEW i \in DOMAIN entries, NEW a \in DOMAIN entries[i].runs,
         Succeed(i, a)
  PROVE  StepsInv' /\ Inert
<1> DEFINE d == entries[i]
           w == WithRun(d, a, "SUCCEEDED")
           es == [entries EXCEPT ![i] = w]
<1>0. /\ d \in Entries /\ "SUCCEEDED" \in RunStates /\ TypeOK
      /\ UNCHANGED <<paid, steps>> /\ SettleSuccess(Ends(i, a, "SUCCEEDED"), i)
      /\ d.runs[a] \in Unfinished
  BY Indices DEF StepsInv, RunStates, Succeed, Executes, Unfinished
<1>1. /\ w \in Entries /\ DOMAIN w.runs = DOMAIN d.runs /\ w.runs[a] = "SUCCEEDED"
      /\ \A b \in DOMAIN d.runs : b # a => w.runs[b] = d.runs[b]
      /\ w.step = d.step /\ w.after = d.after /\ w.superseded = d.superseded
      /\ w.state = d.state /\ w.progress = d.progress
  BY <1>0, WritesRun
<1>2. Ends(i, a, "SUCCEEDED") = es
  BY <1>0, EndsIsWrite
<1>3. es[i] = w /\ Paused(es, i) = [entries EXCEPT ![i] = Pausing(w)]
  BY <1>0, <1>1, WriteEntry, EndsIsWrite
<1> HIDE DEF es
<1>4. IF AllSucceeded(w)
      THEN Advance(es, i)
      ELSE entries' = (IF SomeStopped(w) THEN [entries EXCEPT ![i] = Pausing(w)] ELSE es) /\ UNCHANGED status
  BY <1>0, <1>2, <1>3 DEF SettleSuccess
<1> HIDE DEF w
<1>5. /\ Keeps(d, w) /\ Rested(d) /\ WaitsForSomeRun(d) /\ Rested(w)
      /\ (Unsettled(w) <=> Unsettled(d)) /\ (Awaiting(w) <=> Awaiting(d))
  BY <1>0, <1>1, UnfinishedIsOpen DEF Keeps, Done, StepsInv, EntriesInv, Rested, Unsettled, Held, Awaiting
<1>6. CASE AllSucceeded(w) /\ Awaiting(w)
  <2>1. Done(w) /\ Unsettled(d)
    BY <1>5, <1>6 DEF Done, AllSucceeded, Awaiting, Unsettled, Held
  <2>2. QED
    BY <1>0, <1>1, <1>4, <1>6, <2>1, Advances DEF es
<1>7. CASE AllSucceeded(w) /\ ~Awaiting(w)
  <2>1. entries' = es /\ UNCHANGED status
    BY <1>3, <1>4, <1>7 DEF Advance
  <2>2. WaitsForSomeRun(w)
    BY <1>7 DEF WaitsForSomeRun
  <2>3. QED
    BY <1>0, <1>1, <1>5, <2>1, <2>2, OneWritten DEF es
<1>8. CASE ~AllSucceeded(w) /\ SomeStopped(w)
  <2> DEFINE e == Pausing(w)
  <2>1. entries' = [entries EXCEPT ![i] = e] /\ UNCHANGED status
    BY <1>4, <1>8
  <2>2. /\ e \in Entries /\ e.step = d.step /\ e.after = d.after /\ e.runs = w.runs
        /\ e.superseded = d.superseded /\ e.state = d.state
        /\ (Held(e) <=> Held(d)) /\ ~Awaiting(e)
        /\ d.progress # "WAITING_AUTOMATION" => e.progress = d.progress
    BY <1>1, PausesEntry DEF Held
  <2> HIDE DEF e
  <2>3. /\ Keeps(d, e) /\ Rested(e) /\ WaitsForSomeRun(e)
        /\ Unsettled(e) <=> Unsettled(d)
        /\ d.superseded => e.superseded /\ e.state = d.state /\ e.progress = d.progress
        /\ d.progress = "FINISHED" => e.progress = "FINISHED"
    BY <1>5, <2>2 DEF Keeps, Done, Rested, Unsettled, WaitsForSomeRun, Held
  <2>4. QED
    BY <1>0, <2>1, <2>2, <2>3, OneWritten
<1>9. CASE ~AllSucceeded(w) /\ ~SomeStopped(w)
  <2>1. entries' = es /\ UNCHANGED status
    BY <1>4, <1>9
  <2>2. \A b \in DOMAIN w.runs : w.runs[b] \in RunStates
    <3>1. w.runs \in UNION {[S -> RunStates] : S \in SUBSET Automations}
      BY <1>1 DEF Entries
    <3>2. QED
      BY <3>1
  <2>3. \E b \in DOMAIN w.runs : w.runs[b] \in Unfinished
    BY <1>1, <1>9, <2>2, UnfinishedIsOpen DEF AllSucceeded, SomeStopped
  <2>4. WaitsForSomeRun(w)
    BY <1>9, <2>3 DEF WaitsForSomeRun
  <2>5. QED
    BY <1>0, <1>1, <1>5, <2>1, <2>4, OneWritten DEF es
<1>10. QED
  BY <1>6, <1>7, <1>8, <1>9

-----------------------------------------------------------------------------
(* Moves and cancellations *)

LEMMA StopsRuns ==
  ASSUME NEW e \in Entries, NEW keep
  PROVE  /\ StoppedRuns(e, keep) \in UNION {[S -> RunStates] : S \in SUBSET Automations}
         /\ DOMAIN StoppedRuns(e, keep) = DOMAIN e.runs
         /\ \A a \in DOMAIN e.runs \ keep :
               e.runs[a] = "SUCCEEDED" => StoppedRuns(e, keep)[a] = "SUCCEEDED"
<1>1. DOMAIN e.runs \subseteq Automations /\ e.runs \in [DOMAIN e.runs -> RunStates]
  <2>1. e.runs \in UNION {[S -> RunStates] : S \in SUBSET Automations}
    BY DEF Entries
  <2>2. QED
    BY <2>1, RunsType
<1>2. \A a \in DOMAIN e.runs : e.runs[a] \in RunStates
  BY <1>1
<1>3. DOMAIN StoppedRuns(e, keep) = DOMAIN e.runs
  BY DEF StoppedRuns
<1>4. ASSUME NEW a \in DOMAIN e.runs
      PROVE  StoppedRuns(e, keep)[a] \in RunStates
  <2>1. CASE a \in keep
    BY <2>1 DEF StoppedRuns, RunStates
  <2>2. CASE a \notin keep /\ e.runs[a] = "QUEUED"
    BY <2>2 DEF StoppedRuns, RunStates
  <2>3. CASE a \notin keep /\ e.runs[a] \in {"WAITING", "CLAIMED", "LEAVING"}
    BY <2>3 DEF StoppedRuns, RunStates
  <2>4. CASE a \notin keep /\ e.runs[a] \notin {"QUEUED", "WAITING", "CLAIMED", "LEAVING"}
    BY <1>2, <2>4 DEF StoppedRuns
  <2>5. QED
    BY <2>1, <2>2, <2>3, <2>4
<1>5. \A a \in DOMAIN e.runs \ keep :
         e.runs[a] = "SUCCEEDED" => StoppedRuns(e, keep)[a] = "SUCCEEDED"
  BY DEF StoppedRuns
<1>6. StoppedRuns(e, keep) \in [DOMAIN e.runs -> RunStates]
  BY <1>3, <1>4 DEF StoppedRuns
<1>7. QED
  BY <1>1, <1>3, <1>5, <1>6

\* Every entry of a step that leaves or cancels all work: superseded, settled, its
\* step and key kept, and what was done still done.
LeftFrom(d, e) ==
  /\ e \in Entries /\ e.superseded /\ e.state # "ACTIVE" /\ ~Held(e)
  /\ Keeps(d, e)
  /\ d.superseded => e.state = d.state /\ e.progress = d.progress

\* The entry j of a move from i, as MoveTo writes it.
Moved(i, to, mover, j) ==
  LET e == entries[j]
      active == entries[i].state = "ACTIVE"
  IN  [e EXCEPT
         !.superseded = TRUE,
         !.runs = StoppedRuns(e, Keep(j, i, mover)),
         !.state = IF j = i /\ active
                   THEN (IF to > entries[i].step THEN "SKIPPED" ELSE "CANCELED")
                   ELSE @,
         !.progress = CASE j = i /\ to > steps -> "FINISHED"
                        [] Held(e) \/ (j = i /\ active /\ to <= steps) -> "SUPERSEDED"
                        [] OTHER -> @]

\* The workflow that moves the enrollment is itself running.
MoverRuns(i, mover) ==
  \A a \in DOMAIN entries[i].runs \cap mover : entries[i].runs[a] # "SUCCEEDED"

LEMMA StopKeepsDone ==
  ASSUME TypeOK, NEW i \in DOMAIN entries, NEW j \in DOMAIN entries, NEW mover, MoverRuns(i, mover),
         \A a \in DOMAIN entries[j].runs : entries[j].runs[a] = "SUCCEEDED"
  PROVE  \A a \in DOMAIN StoppedRuns(entries[j], Keep(j, i, mover)) :
            StoppedRuns(entries[j], Keep(j, i, mover))[a] = "SUCCEEDED"
<1>1. \A a \in DOMAIN entries[j].runs : a \notin Keep(j, i, mover)
  BY DEF Keep, MoverRuns
<1>2. entries[j] \in Entries
  BY Indices
<1>3. QED
  BY <1>1, <1>2, StopsRuns

LEMMA MovesEntry ==
  ASSUME StepsInv, NEW i \in DOMAIN entries, NEW j \in DOMAIN entries, NEW to \in Nat, NEW mover,
         MoverRuns(i, mover), to > steps => entries[i].state = "ACTIVE",
         \A k \in DOMAIN entries : k # i => entries[k].state # "ACTIVE"
  PROVE  /\ LeftFrom(entries[j], Moved(i, to, mover, j))
         /\ to > steps /\ j = i => Moved(i, to, mover, j).progress = "FINISHED"
<1> DEFINE d == entries[j]
           e == Moved(i, to, mover, j)
           r == StoppedRuns(d, Keep(j, i, mover))
<1>0. d \in Entries /\ entries[i] \in Entries /\ Rested(d) /\ TypeOK
  BY Indices DEF StepsInv, EntriesInv
<1>1. r \in UNION {[S -> RunStates] : S \in SUBSET Automations}
  BY <1>0, StopsRuns
<1>2. (\A a \in DOMAIN d.runs : d.runs[a] = "SUCCEEDED") => \A a \in DOMAIN r : r[a] = "SUCCEEDED"
  BY <1>0, StopKeepsDone
<1> HIDE DEF r
<1>3. /\ e \in Entries /\ e.superseded /\ e.step = d.step /\ e.after = d.after /\ e.runs = r
      /\ e.state = IF j = i /\ entries[i].state = "ACTIVE"
                   THEN (IF to > entries[i].step THEN "SKIPPED" ELSE "CANCELED") ELSE d.state
      /\ e.progress = CASE j = i /\ to > steps -> "FINISHED"
                        [] Held(d) \/ (j = i /\ entries[i].state = "ACTIVE" /\ to <= steps) -> "SUPERSEDED"
                        [] OTHER -> d.progress
  BY <1>0, <1>1 DEF Moved, Entries, EntryStates, Progressions, r
<1> HIDE DEF e
<1>4. /\ e.state # "ACTIVE" /\ ~Held(e)
      /\ d.state = "COMPLETED" => e.state = "COMPLETED"
  <2>1. e.state # "ACTIVE" /\ (d.state = "COMPLETED" => e.state = "COMPLETED")
    BY <1>3
  <2>2. CASE j = i /\ to > steps
    BY <1>3, <2>2 DEF Held
  <2>3. CASE ~(j = i /\ to > steps) /\ (Held(d) \/ (j = i /\ entries[i].state = "ACTIVE" /\ to <= steps))
    BY <1>3, <2>3 DEF Held
  <2>4. CASE ~(j = i /\ to > steps) /\ ~(Held(d) \/ (j = i /\ entries[i].state = "ACTIVE" /\ to <= steps))
    BY <1>3, <2>4 DEF Held
  <2>5. QED
    BY <2>1, <2>2, <2>3, <2>4
<1>5. d.superseded => e.state = d.state /\ e.progress = d.progress
  BY <1>0, <1>3, <1>4 DEF Rested, Unsettled
<1>6. Keeps(d, e)
  BY <1>2, <1>3, <1>4 DEF Keeps, Done
<1>7. LeftFrom(d, e)
  BY <1>3, <1>4, <1>5, <1>6 DEF LeftFrom, e
<1>8. to > steps /\ j = i => e.progress = "FINISHED"
  <2>1. to > steps /\ j = i => ~Held(d)
    BY <1>0 DEF Rested
  <2>2. entries[i].step \in Nat /\ steps \in Nat
    BY <1>0 DEF TypeOK, Steps
  <2>3. QED
    BY <1>3, <2>1, <2>2
<1>9. QED
  BY <1>7, <1>8 DEF e

\* A step after which every entry there was is left, with the status that follows.
LEMMA AllLeft ==
  ASSUME StepsInv, NEW es \in Seq(Entries), DOMAIN es = DOMAIN entries, Len(es) = Len(entries),
         \A j \in DOMAIN entries : LeftFrom(entries[j], es[j])
  PROVE  /\ \A j \in DOMAIN entries : Rested(es[j]) /\ WaitsForSomeRun(es[j]) /\ ~Unsettled(es[j])
         /\ \A j \in DOMAIN entries : Keeps(entries[j], es[j]) /\ es[j].step \in Steps
         /\ \A j \in DOMAIN entries : entries[j].superseded =>
               es[j].superseded /\ es[j].state = entries[j].state /\ es[j].progress = entries[j].progress
<1>1. \A j \in DOMAIN entries : Keeps(entries[j], es[j])
  BY DEF LeftFrom
<1>2. \A j \in DOMAIN entries : es[j].step \in Steps
  BY <1>1 DEF Keeps, StepsInv, TypeOK
<1>3. QED
  BY <1>1, <1>2 DEF LeftFrom, Rested, WaitsForSomeRun, Unsettled, Awaiting

\* They stay, the enrollment is over or awaits payment.
LEMMA AllLeftStep ==
  ASSUME StepsInv, entries' \in Seq(Entries), DOMAIN entries' = DOMAIN entries,
         Len(entries') = Len(entries), UNCHANGED <<paid, steps>>,
         \A j \in DOMAIN entries : LeftFrom(entries[j], entries'[j]),
         ~Over(status),
         \/ status' = "CANCELED"
         \/ status' = Settled(paid) /\ LastStepFinished(entries')
  PROVE  StepsInv' /\ Inert
<1>1. /\ \A j \in DOMAIN entries : Rested(entries'[j]) /\ WaitsForSomeRun(entries'[j]) /\ ~Unsettled(entries'[j])
      /\ \A j \in DOMAIN entries : Keeps(entries[j], entries'[j]) /\ entries'[j].step \in Steps
      /\ \A j \in DOMAIN entries : entries[j].superseded =>
            entries'[j].superseded /\ entries'[j].state = entries[j].state /\ entries'[j].progress = entries[j].progress
  BY AllLeft
<1>2. TypeOK'
  BY <1>1 DEF StepsInv, TypeOK, Steps, Settled, Statuses
<1>3. EntriesInv'
  BY <1>1 DEF EntriesInv
<1>4. LinksInv'
  BY <1>1, <1>2, LinksKept DEF StepsInv
<1>5. LastStepFinished(entries') => LastStepFinished(entries)'
  BY DEF LastStepFinished
<1>6. WorkInv'
  BY <1>1, <1>5 DEF WorkInv, Settled
<1>7. Inert
  BY <1>1 DEF Inert, Over
<1>8. QED
  BY <1>2, <1>3, <1>4, <1>6, <1>7 DEF StepsInv

\* A move starts from the active entry if there is one.
LEMMA CurrentIsActive ==
  ASSUME StepsInv
  PROVE  \A j \in DOMAIN entries : j # Current => entries[j].state # "ACTIVE"
<1> SUFFICES ASSUME NEW j \in DOMAIN entries, entries[j].state = "ACTIVE"
             PROVE  j = Current
  OBVIOUS
<1> DEFINE active == {i \in DOMAIN entries : ~entries[i].superseded /\ entries[i].state = "ACTIVE"}
<1>1. active = {Len(entries)} /\ j = Len(entries) /\ Len(entries) \in Nat
  <2>1. ~entries[j].superseded
    BY DEF StepsInv, EntriesInv, Rested
  <2>2. \A i \in active : Unsettled(entries[i])
    BY DEF Unsettled
  <2>3. j \in active
    BY <2>1
  <2>4. \A i \in active : i = Len(entries)
    BY <2>2 DEF StepsInv, WorkInv
  <2>5. QED
    BY <2>3, <2>4, Indices DEF StepsInv
<1>2. Max(active) = Len(entries)
  BY <1>1 DEF Max
<1>3. Current = Max(active)
  BY <1>1 DEF Current
<1>4. QED
  BY <1>1, <1>2, <1>3

LEMMA Moves ==
  ASSUME StepsAssumption, StepsInv, NEW i \in DOMAIN entries, NEW to \in 1 .. steps + 1, NEW mover,
         MoverRuns(i, mover), to > steps => entries[i].state = "ACTIVE" /\ entries[i].step = steps,
         MoveTo(i, to, mover)
  PROVE  StepsInv' /\ Inert
<1> DEFINE left == [j \in DOMAIN entries |-> Moved(i, to, mover, j)]
<1>0. /\ TypeOK /\ entries \in Seq(Entries) /\ steps \in 1 .. MaxSteps /\ to \in Nat
      /\ DOMAIN entries = 1 .. Len(entries) /\ Len(entries) \in Nat \ {0}
  BY Indices DEF StepsInv, TypeOK
<1>1. /\ ~Over(status)
      /\ i = Current
      /\ IF to <= steps
         THEN /\ MayEnter(left, "IN_PROGRESS")
              /\ entries' = Entered(left, to, 0)
              /\ status' = "IN_PROGRESS"
         ELSE /\ entries' = left
              /\ status' = Settled(paid)
      /\ UNCHANGED <<paid, steps>>
  BY Zenon DEF MoveTo, Moved
<1>2. \A k \in DOMAIN entries : k # i => entries[k].state # "ACTIVE"
  BY <1>1, CurrentIsActive
<1>3. \A j \in DOMAIN entries : /\ LeftFrom(entries[j], Moved(i, to, mover, j))
                                /\ to > steps /\ j = i => Moved(i, to, mover, j).progress = "FINISHED"
  BY <1>0, <1>2, MovesEntry
<1>4. /\ left \in Seq(Entries) /\ DOMAIN left = DOMAIN entries /\ Len(left) = Len(entries)
      /\ \A j \in DOMAIN entries : LeftFrom(entries[j], left[j])
  <2>1. left \in [1 .. Len(entries) -> Entries]
    BY <1>0, <1>3 DEF LeftFrom
  <2>2. QED
    BY <1>0, <1>3, <2>1
<1>5. to > steps => left[i].progress = "FINISHED"
  BY <1>3
<1> HIDE DEF left
<1>6. CASE to > steps
  <2>1. entries' = left /\ status' = Settled(paid) /\ UNCHANGED <<paid, steps>>
    BY <1>0, <1>1, <1>6
  <2>2. i = Len(entries)
    <3>1. Unsettled(entries[i])
      BY <1>6 DEF StepsInv, EntriesInv, Rested, Unsettled
    <3>2. QED
      BY <3>1, UnsettledIsNewest
  <2>3. left[i].step = steps
    BY <1>4, <1>6 DEF LeftFrom, Keeps
  <2>4. LastStepFinished(left)
    BY <1>0, <1>4, <1>5, <1>6, <2>2, <2>3 DEF LastStepFinished
  <2>5. QED
    BY <1>1, <1>4, <2>1, <2>4, AllLeftStep
<1>7. CASE to <= steps
  <2> DEFINE n == NewEntry(to, 0)
  <2>1. /\ entries' = Append(left, n) /\ status' = "IN_PROGRESS" /\ UNCHANGED <<paid, steps>>
        /\ Len(entries) < MaxEntries
    BY <1>1, <1>4, <1>7 DEF MayEnter, Entered
  <2>2. n \in Entries /\ Unsettled(n) /\ Rested(n) /\ WaitsForSomeRun(n) /\ n.step = to /\ n.after = 0
    BY <1>0, <1>7, NewEntryType, StepsAssumption
  <2> HIDE DEF n
  <2>3. /\ entries' \in Seq(Entries) /\ Len(entries') = Len(entries) + 1
        /\ DOMAIN entries' = DOMAIN entries \cup {Len(entries) + 1}
        /\ entries'[Len(entries) + 1] = n
        /\ \A j \in DOMAIN entries : entries'[j] = left[j]
    BY <1>4, <2>1, <2>2, AddEntry
  <2>4. /\ \A j \in DOMAIN entries : Rested(left[j]) /\ WaitsForSomeRun(left[j]) /\ ~Unsettled(left[j])
        /\ \A j \in DOMAIN entries : Keeps(entries[j], left[j]) /\ left[j].step \in Steps
        /\ \A j \in DOMAIN entries : entries[j].superseded =>
              left[j].superseded /\ left[j].state = entries[j].state /\ left[j].progress = entries[j].progress
    BY <1>4, AllLeft
  <2>5. TypeOK'
    BY <1>0, <1>7, <2>1, <2>2, <2>3, <2>4 DEF TypeOK, Steps, Statuses
  <2>6. EntriesInv'
    BY <2>2, <2>3, <2>4 DEF EntriesInv
  <2>7. LinksInv'
    BY <1>0, <2>2, <2>3, <2>4, <2>5, LinksKept DEF StepsInv
  <2>8. WorkInv'
    BY <1>0, <2>1, <2>2, <2>3, <2>4 DEF WorkInv
  <2>9. Inert
    BY <1>0, <1>1, <2>3, <2>4 DEF Inert, Over
  <2>10. QED
    BY <2>5, <2>6, <2>7, <2>8, <2>9 DEF StepsInv
<1>8. QED
  BY <1>0, <1>6, <1>7

\* The entry j of a cancellation, as CancelAll writes it.
Canceled(i, mover, j) ==
  LET e == entries[j]
  IN  [e EXCEPT !.superseded = TRUE,
                !.progress = IF e.superseded THEN @ ELSE "SUPERSEDED",
                !.state = IF @ = "ACTIVE" THEN "CANCELED" ELSE @,
                !.runs = StoppedRuns(e, Keep(j, i, mover))]

LEMMA Cancels ==
  ASSUME StepsInv, NEW i, NEW mover, CancelAll(i, mover),
         \A j \in DOMAIN entries : \A a \in DOMAIN entries[j].runs \cap Keep(j, i, mover) :
            entries[j].runs[a] # "SUCCEEDED"
  PROVE  StepsInv' /\ Inert
<1>0. /\ TypeOK /\ entries \in Seq(Entries) /\ DOMAIN entries = 1 .. Len(entries) /\ Len(entries) \in Nat
  BY Indices DEF StepsInv, TypeOK
<1>1. /\ ~Over(status) /\ status' = "CANCELED" /\ UNCHANGED <<paid, steps>>
      /\ entries' = [j \in DOMAIN entries |-> Canceled(i, mover, j)]
  BY Zenon DEF CancelAll, Canceled
<1>2. ASSUME NEW j \in DOMAIN entries
      PROVE  LeftFrom(entries[j], Canceled(i, mover, j))
  <2> DEFINE d == entries[j]
             e == Canceled(i, mover, j)
             r == StoppedRuns(d, Keep(j, i, mover))
  <2>0. d \in Entries /\ Rested(d)
    BY <1>0, Indices DEF StepsInv, EntriesInv
  <2>1. /\ r \in UNION {[S -> RunStates] : S \in SUBSET Automations}
        /\ (\A a \in DOMAIN d.runs : d.runs[a] = "SUCCEEDED") => \A a \in DOMAIN r : r[a] = "SUCCEEDED"
    BY <2>0, StopsRuns
  <2> HIDE DEF r
  <2>2. /\ e \in Entries /\ e.superseded /\ e.step = d.step /\ e.after = d.after /\ e.runs = r
        /\ e.state = IF d.state = "ACTIVE" THEN "CANCELED" ELSE d.state
        /\ e.progress = IF d.superseded THEN d.progress ELSE "SUPERSEDED"
    BY <2>0, <2>1 DEF Canceled, Entries, EntryStates, Progressions, r
  <2> HIDE DEF e
  <2>3. e.state # "ACTIVE" /\ ~Held(e) /\ (d.superseded => e.state = d.state /\ e.progress = d.progress)
    BY <2>0, <2>2 DEF Rested, Held
  <2>4. Keeps(d, e)
    BY <2>1, <2>2 DEF Keeps, Done
  <2>5. QED
    BY <2>2, <2>3, <2>4 DEF LeftFrom, e
<1>3. /\ entries' \in Seq(Entries) /\ DOMAIN entries' = DOMAIN entries /\ Len(entries') = Len(entries)
      /\ \A j \in DOMAIN entries : LeftFrom(entries[j], entries'[j])
  <2>1. entries' \in [1 .. Len(entries) -> Entries]
    BY <1>0, <1>1, <1>2 DEF LeftFrom
  <2>2. QED
    BY <1>0, <1>1, <1>2, <2>1
<1>4. QED
  BY <1>1, <1>3, AllLeftStep

-----------------------------------------------------------------------------
(* Payments and reviewed configurations *)

LEMMA Pays == ASSUME StepsInv, Pay PROVE StepsInv' /\ Inert
<1>0. /\ TypeOK /\ entries' = entries /\ steps' = steps /\ paid' = ~paid
      /\ status' = Reconciled(entries, status, ~paid)
      /\ DOMAIN entries = 1 .. Len(entries) /\ Len(entries) \in DOMAIN entries
  BY Indices DEF StepsInv, Pay
<1>1. status' = IF status \in {"PENDING_PAYMENT", "COMPLETED"} THEN Settled(~paid) ELSE status
  <2>1. CASE status = "IN_PROGRESS"
    BY <1>0, <2>1 DEF StepsInv, WorkInv, Reconciled
  <2>2. CASE status \in {"PENDING_PAYMENT", "COMPLETED"}
    BY <1>0, <2>2 DEF StepsInv, WorkInv, Reconciled
  <2>3. CASE status = "CANCELED"
    BY <1>0, <2>3 DEF Reconciled
  <2>4. QED
    BY <1>0, <2>1, <2>2, <2>3 DEF TypeOK, Statuses
<1>2. TypeOK'
  <2>1. paid' \in BOOLEAN /\ status' \in Statuses
    BY <1>0, <1>1 DEF TypeOK, Settled, Statuses
  <2>2. QED
    BY <1>0, <2>1 DEF TypeOK, Steps
<1>3. EntriesInv' /\ LinksInv'
  BY <1>0 DEF StepsInv, EntriesInv, LinksInv, Follows
<1>4. LastStepFinished(entries) => LastStepFinished(entries)'
  BY <1>0 DEF LastStepFinished
<1>5. status' \in {"PENDING_PAYMENT", "COMPLETED"} =>
         status \in {"PENDING_PAYMENT", "COMPLETED"} /\ status' = Settled(paid')
  BY <1>0, <1>1 DEF Settled
<1>7. WorkInv'
  <2>1. status' = "IN_PROGRESS" <=> status = "IN_PROGRESS"
    BY <1>1 DEF Settled
  <2>2. QED
    BY <1>0, <1>4, <1>5, <2>1 DEF StepsInv, WorkInv, Settled
<1>8. Inert
  BY <1>0, <1>1 DEF Inert
<1>9. QED
  BY <1>2, <1>3, <1>7, <1>8 DEF StepsInv

\* The largest of some steps: there is one, since they are bounded.
LEMMA MaxOfSteps ==
  ASSUME NEW m \in Nat, NEW S \in SUBSET (0 .. m), S # {}
  PROVE  Max(S) \in S /\ \A s \in S : s <= Max(S)
<1> DEFINE R == OpToRel(<, Nat)
           T == {m - s : s \in S}
<1>1. T \subseteq Nat /\ T # {}
  <2>1. \A s \in S : m - s \in Nat
    OBVIOUS
  <2>2. PICK s \in S : TRUE
    OBVIOUS
  <2>3. m - s \in T
    BY <2>2
  <2>4. QED
    BY <2>1, <2>3
<1>2. \E x \in T : \A y \in T : ~(<<y, x>> \in R)
  <2> HIDE DEF R, T
  <2>1. IsWellFoundedOn(R, Nat)
    BY NatLessThanWellFounded DEF R
  <2>2. QED
    BY <1>1, <2>1, WFMin
<1>3. PICK x \in T : \A y \in T : ~(y < x)
  BY <1>1, <1>2 DEF OpToRel
<1>4. PICK s \in S : x = m - s
  OBVIOUS
<1>5. \A r \in S : s >= r
  <2> SUFFICES ASSUME NEW r \in S PROVE s >= r
    OBVIOUS
  <2>1. m - r \in T
    OBVIOUS
  <2>2. ~(m - r < m - s)
    BY <1>3, <1>4, <2>1
  <2>3. QED
    BY <2>2
<1>6. Max(S) \in S /\ \A r \in S : Max(S) >= r
  BY <1>5, Zenon DEF Max
<1>7. QED
  BY <1>6

LEMMA Reconfigures ==
  ASSUME StepsAssumption, StepsInv, NEW n \in 1 .. MaxSteps, ApplyConfiguration(n)
  PROVE  StepsInv' /\ Inert
<1> DEFINE S == {entries[i].step : i \in DOMAIN entries}
<1>0. /\ TypeOK /\ steps' = n /\ n # steps /\ UNCHANGED <<status, paid, entries>>
      /\ status \in {"IN_PROGRESS", "PENDING_PAYMENT"}
      /\ n >= Max(S)
      /\ status = "PENDING_PAYMENT" => n = Max(S)
      /\ DOMAIN entries = 1 .. Len(entries) /\ Len(entries) \in DOMAIN entries
  BY Indices DEF StepsInv, ApplyConfiguration, MayReconfigure
<1>1. Max(S) \in S /\ \A s \in S : s <= Max(S)
  <2>1. steps \in Nat /\ S \in SUBSET (0 .. steps) /\ S # {}
    BY <1>0, StepsAssumption DEF TypeOK, Steps
  <2> HIDE DEF S
  <2>2. QED
    BY <2>1, MaxOfSteps
<1>2. \A i \in DOMAIN entries : entries[i].step <= Max(S) /\ entries[i].step \in Steps
  BY <1>0, <1>1 DEF TypeOK
<1>3. status = "IN_PROGRESS"
  <2> SUFFICES ASSUME status = "PENDING_PAYMENT" PROVE FALSE
    BY <1>0
  <2>1. PICK k \in DOMAIN entries : entries[k].step = steps
    BY DEF StepsInv, WorkInv, LastStepFinished
  <2>2. steps <= Max(S)
    BY <1>2, <2>1
  <2>3. PICK j \in DOMAIN entries : entries[j].step = Max(S)
    BY <1>1
  <2>4. Max(S) <= steps
    BY <1>2, <2>3 DEF Steps
  <2>5. Max(S) \in Nat /\ steps \in Nat
    BY <1>0, <1>2, <2>3 DEF TypeOK, Steps
  <2>6. QED
    BY <1>0, <2>2, <2>4, <2>5
<1>4. TypeOK'
  <2>1. \A i \in DOMAIN entries : entries[i].step \in 1 .. n
    <3>1. PICK j \in DOMAIN entries : entries[j].step = Max(S)
      BY <1>1
    <3>2. Max(S) \in Nat
      BY <1>2, <3>1 DEF Steps
    <3> HIDE DEF S
    <3>3. QED
      BY <1>0, <1>2, <3>2 DEF Steps
  <2>2. QED
    BY <1>0, <2>1 DEF TypeOK, Steps
<1>5. EntriesInv' /\ LinksInv'
  BY <1>0 DEF StepsInv, EntriesInv, LinksInv, Follows
<1>6. WorkInv'
  BY <1>0, <1>3 DEF StepsInv, WorkInv
<1>7. Inert
  BY <1>0 DEF Inert
<1>8. QED
  BY <1>4, <1>5, <1>6, <1>7 DEF StepsInv

-----------------------------------------------------------------------------
(* Every step *)

LEMMA StepsInitially == StepsAssumption /\ Init => StepsInv
<1> SUFFICES ASSUME StepsAssumption, Init PROVE StepsInv
  OBVIOUS
<1> DEFINE n == NewEntry(1, 0)
<1>1. n \in Entries /\ Unsettled(n) /\ Rested(n) /\ WaitsForSomeRun(n) /\ n.step = 1 /\ n.after = 0
  BY NewEntryType, StepsAssumption
<1>2. entries = <<n>> /\ status = "IN_PROGRESS" /\ paid \in BOOLEAN /\ steps \in 1 .. MaxSteps
  BY DEF Init
<1> HIDE DEF n
<1>3. DOMAIN entries = {1} /\ Len(entries) = 1 /\ entries \in Seq(Entries) /\ entries[1] = n
  BY <1>1, <1>2
<1>4. TypeOK
  BY <1>1, <1>2, <1>3, StepsAssumption DEF TypeOK, Steps, Statuses
<1>5. EntriesInv /\ LinksInv /\ WorkInv
  BY <1>1, <1>2, <1>3 DEF EntriesInv, LinksInv, Follows, WorkInv
<1>6. QED
  BY <1>4, <1>5 DEF StepsInv

LEMMA WorkerKeeps ==
  ASSUME StepsAssumption, StepsInv, NEW i \in DOMAIN entries, NEW a \in DOMAIN entries[i].runs,
         WorkerStep(i, a)
  PROVE  StepsInv' /\ Inert
<1>1. CASE Claim(i, a)
  BY <1>1, RunGoesOn DEF Claim, Ends, Unfinished
<1>2. CASE Requeue(i, a)
  BY <1>2, RunGoesOn DEF Requeue, Ends, Unfinished
<1>3. CASE Park(i, a)
  <2>1. entries[i].runs[a] \in Unfinished /\ "WAITING" \in Unfinished
    BY <1>3 DEF Park, Executes, Unfinished
  <2>2. QED
    BY <1>3, <2>1, RunGoesOn DEF Park
<1>4. CASE Succeed(i, a)
  BY <1>4, Succeeds
<1>5. CASE Fail(i, a)
  <2>1. entries[i].runs[a] \in Unfinished /\ "FAILED" \in Stopped
    BY <1>5 DEF Fail, Executes, Unfinished, Stopped
  <2>2. QED
    BY <1>5, <2>1, RunStops DEF Fail
<1>6. CASE Leave(i, a)
  <2>1. entries[i].runs[a] \in Unfinished /\ "EXITED" \in Stopped
    BY <1>6 DEF Leave, Executes, Unfinished, Stopped
  <2>2. QED
    BY <1>6, <2>1, RunStops DEF Leave
<1>7. CASE ExitAtPastWait(i, a)
  BY <1>7, RunLapses
<1>8. CASE RunCancels(i, a)
  <2>1. CancelAll(i, {a}) /\ entries[i].runs[a] # "SUCCEEDED"
    BY <1>8 DEF RunCancels, MayAct, Executes
  <2>2. \A j \in DOMAIN entries : \A b \in DOMAIN entries[j].runs \cap Keep(j, i, {a}) :
           entries[j].runs[b] # "SUCCEEDED"
    BY <2>1 DEF Keep
  <2>3. QED
    BY <2>1, <2>2, Cancels
<1>9. ASSUME NEW to \in Steps, RunMoves(i, a, to) PROVE StepsInv' /\ Inert
  <2>1. MoveTo(i, to, {a}) /\ MoverRuns(i, {a})
    BY <1>9 DEF RunMoves, MayAct, Executes, MoverRuns
  <2>2. to \in 1 .. steps + 1 /\ ~(to > steps)
    BY DEF StepsInv, TypeOK, Steps
  <2>3. QED
    BY <2>1, <2>2, Moves
<1>10. QED
  BY <1>1, <1>2, <1>3, <1>4, <1>5, <1>6, <1>7, <1>8, <1>9 DEF WorkerStep

LEMMA EntryRequestKeeps ==
  ASSUME StepsAssumption, StepsInv, NEW i \in DOMAIN entries
  PROVE  /\ \A to \in Steps : Move(i, to) => StepsInv' /\ Inert
         /\ Skip(i) => StepsInv' /\ Inert
         /\ \A a \in DOMAIN entries[i].runs : RemoveFrom(i, a) \/ ChangeWait(i, a) => StepsInv' /\ Inert
<1>1. ASSUME NEW to \in Steps, Move(i, to) PROVE StepsInv' /\ Inert
  <2>1. MoveTo(i, to, {}) /\ MoverRuns(i, {})
    BY <1>1 DEF Move, MoverRuns
  <2>2. to \in 1 .. steps + 1 /\ ~(to > steps)
    BY DEF StepsInv, TypeOK, Steps
  <2>3. QED
    BY <2>1, <2>2, Moves
<1>2. ASSUME Skip(i) PROVE StepsInv' /\ Inert
  <2> DEFINE to == entries[i].step + 1
  <2>1. MoveTo(i, to, {}) /\ MoverRuns(i, {}) /\ entries[i].state = "ACTIVE"
    BY <1>2 DEF Skip, MoverRuns
  <2>2. to \in 1 .. steps + 1 /\ (to > steps => entries[i].step = steps)
    BY DEF StepsInv, TypeOK, Steps
  <2>3. QED
    BY <2>1, <2>2, Moves
<1>3. ASSUME NEW a \in DOMAIN entries[i].runs, RemoveFrom(i, a) PROVE StepsInv' /\ Inert
  <2>1. CASE entries[i].runs[a] = "QUEUED" /\ SettleStop(Ends(i, a, "CANCELED"), i)
    <3>1. entries[i].runs[a] \in Unfinished /\ "CANCELED" \in Stopped /\ UNCHANGED <<paid, steps>>
      BY <1>3, <2>1 DEF RemoveFrom, Unfinished, Stopped
    <3>2. QED
      BY <2>1, <3>1, RunStops
  <2>2. CASE entries[i].runs[a] = "WAITING" /\ SettleStop(Ends(i, a, "EXITED"), i)
    <3>1. entries[i].runs[a] \in Unfinished /\ "EXITED" \in Stopped /\ UNCHANGED <<paid, steps>>
      BY <1>3, <2>2 DEF RemoveFrom, Unfinished, Stopped
    <3>2. QED
      BY <2>2, <3>1, RunStops
  <2>3. CASE entries[i].runs[a] = "CLAIMED" /\ entries' = Ends(i, a, "LEAVING") /\ UNCHANGED status
    <3>1. entries[i].runs[a] \in Unfinished /\ "LEAVING" \in Unfinished /\ UNCHANGED <<paid, steps>>
      BY <1>3, <2>3 DEF RemoveFrom, Unfinished
    <3>2. QED
      BY <2>3, <3>1, RunGoesOn
  <2>4. QED
    BY <1>3, <2>1, <2>2, <2>3, Zenon DEF RemoveFrom, Ends
<1>4. ASSUME NEW a \in DOMAIN entries[i].runs, ChangeWait(i, a) PROVE StepsInv' /\ Inert
  <2>1. entries[i].runs[a] \in Unfinished /\ "WAITING" \in Unfinished
    BY <1>4 DEF ChangeWait, Unfinished
  <2>2. entries' = Ends(i, a, "WAITING") /\ UNCHANGED <<status, paid, steps>>
    BY <1>4, Zenon DEF ChangeWait, Ends
  <2>3. QED
    BY <2>1, <2>2, RunGoesOn
<1>5. QED
  BY <1>1, <1>2, <1>3, <1>4

LEMMA NextKeeps == StepsAssumption /\ StepsInv /\ [Next]_vars => StepsInv' /\ [Inert]_vars
<1> SUFFICES ASSUME StepsAssumption, StepsInv, [Next]_vars PROVE StepsInv' /\ [Inert]_vars
  OBVIOUS
<1>1. CASE StaffStep
  <2>1. CASE Cancel
    <3>1. CancelAll(0, {})
      BY <2>1 DEF Cancel
    <3>2. \A j \in DOMAIN entries : \A a \in DOMAIN entries[j].runs \cap Keep(j, 0, {}) :
             entries[j].runs[a] # "SUCCEEDED"
      BY DEF Keep
    <3>3. QED
      BY <3>1, <3>2, Cancels
  <2>2. CASE Pay
    BY <2>2, Pays
  <2>3. ASSUME NEW n \in 1 .. MaxSteps, ApplyConfiguration(n) PROVE StepsInv' /\ [Inert]_vars
    BY <2>3, Reconfigures
  <2>4. ASSUME NEW i \in DOMAIN entries,
               \/ \E S \in SUBSET Automations : Complete(i, S)
               \/ \E to \in Steps : Move(i, to)
               \/ Skip(i)
               \/ \E a \in DOMAIN entries[i].runs : RemoveFrom(i, a) \/ ChangeWait(i, a)
        PROVE  StepsInv' /\ [Inert]_vars
    BY <2>4, Completes, EntryRequestKeeps
  <2>5. QED
    BY <1>1, <2>1, <2>2, <2>3, <2>4 DEF StaffStep
<1>2. CASE \E i \in DOMAIN entries : \E a \in DOMAIN entries[i].runs : WorkerStep(i, a)
  BY <1>2, WorkerKeeps
<1>3. CASE UNCHANGED vars
  <2>1. StepsInv'
    BY <1>3 DEF vars, StepsInv, TypeOK, Steps, EntriesInv, LinksInv, Follows, WorkInv, LastStepFinished, Settled
  <2>2. QED
    BY <1>3, <2>1
<1>4. QED
  BY <1>1, <1>2, <1>3 DEF Next

LEMMA StepsInvariant == Spec => []StepsInv /\ [][Inert]_vars
<1>1. Init => StepsInv
  BY StepsInitially, StepsAssumption
<1>2. StepsInv /\ [Next]_vars => StepsInv' /\ [Inert]_vars
  BY NextKeeps, StepsAssumption
<1>3. QED
  BY <1>1, <1>2, PTL DEF Spec

-----------------------------------------------------------------------------
(* What follows *)

\* Every row has a value of its type in every reachable state, and the step of every
\* entry stays saved with the enrollment through every reviewed change.
THEOREM TypeCorrect == Spec => []TypeOK
  BY StepsInvariant, PTL DEF StepsInv

\* A completion advances exactly once, to the following step, and only when every
\* completion workflow of the entry has succeeded (advanceTx, entry keys).
THEOREM AdvancedOnceHolds == Spec => []AdvancedOnce
<1>1. StepsInv => AdvancedOnce
  BY DEF StepsInv, LinksInv, Follows, Done, AdvancedOnce
<1>2. QED
  BY <1>1, StepsInvariant, PTL

\* The status follows the newest entry and the payments: in progress exactly while that
\* entry is unsettled, otherwise settled by the payments (reconcileServiceStepEnrollmentTx).
THEOREM StatusMatchesWorkHolds == Spec => []StatusMatchesWork
<1>1. StepsInv => StatusMatchesWork
  <2> SUFFICES ASSUME StepsInv PROVE StatusMatchesWork
    OBVIOUS
  <2> DEFINE open == {i \in DOMAIN entries : Unsettled(entries[i])}
  <2>1. Len(entries) \in DOMAIN entries /\ status \in Statuses
    BY Indices DEF StepsInv, TypeOK
  <2>2. open = IF status = "IN_PROGRESS" THEN {Len(entries)} ELSE {}
    BY <2>1 DEF StepsInv, WorkInv
  <2>3. status \in {"PENDING_PAYMENT", "COMPLETED"} => LastStepFinished(entries) /\ status = Settled(paid)
    BY DEF StepsInv, WorkInv
  <2> HIDE DEF open
  <2>4. (CASE status = "CANCELED" -> open = {}
           [] status = "IN_PROGRESS" -> open = {Len(entries)}
           [] OTHER -> open = {} /\ LastStepFinished(entries) /\ status = Settled(paid))
    BY <2>1, <2>2, <2>3 DEF Statuses
  <2>5. QED
    BY <2>4 DEF StatusMatchesWork, open
<1>2. QED
  BY <1>1, StepsInvariant, PTL

\* An entry that waits for its completion workflows has one left to wait for and none
\* that has stopped, unless one ended at a fixed-date Wait (settleServiceStepCompletionEventTx).
THEOREM OnlyPastWaitStrandsHolds == Spec => []OnlyPastWaitStrands
<1>1. StepsInv => OnlyPastWaitStrands
  BY DEF StepsInv, EntriesInv, WaitsForSomeRun, OnlyPastWaitStrands
<1>2. QED
  BY <1>1, StepsInvariant, PTL

\* No step writes the state or progress of a superseded entry, makes an entry for a
\* canceled enrollment, or loses one (supersedeStepWorkTx, the guards of advanceTx).
THEOREM ObsoleteIsInertHolds == Spec => ObsoleteIsInert
  BY StepsInvariant, PTL DEF Inert, ObsoleteIsInert
=============================================================================
