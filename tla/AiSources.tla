------------------------------ MODULE AiSources ------------------------------
(***************************************************************************)
(* The knowledge sources of a skill: uploads, links and their changes      *)
(* (lib/ai-sources.ts), the worker that extracts their text and removes    *)
(* their files (lib/ai-source-worker.ts), and the trigger that remembers   *)
(* the file of a deleted row (the migration 20261027120000).               *)
(*                                                                         *)
(* The text of a source is what it was extracted from: the url of a link,  *)
(* or the one content of a file, whose checksum is compared.               *)
(* Time is abstracted to flags.  Only the order of the delays is kept: a   *)
(* call of the storage ends (30 s) before the grace of a cleanup (60 s)    *)
(* and before an upload counts as abandoned (120 s).  A lease that expires *)
(* while its worker goes on is a fault, and faults are counted.            *)
(***************************************************************************)
EXTENDS Integers, FiniteSets

CONSTANTS
    Workers,      \* backend instances
    Requests,     \* requestId of a created source
    KindOf,       \* [Requests -> {"FILE", "LINK"}]
    Urls,         \* the urls a link may have
    Limit,        \* AI_SOURCE_LIMIT
    MaxAttempts,  \* claims of a source before it fails
    MaxRows,      \* bound: sources created
    MaxUploads,   \* bound: uploads of a file
    MaxEdits,     \* bound: changes by staff
    MaxFaults     \* bound: crashes, stalls, calls and transactions that fail

ASSUME SourcesAssumption ==
    /\ KindOf \in [Requests -> {"FILE", "LINK"}]
    /\ {Limit, MaxAttempts} \subseteq Nat \ {0}
    /\ {MaxRows, MaxUploads, MaxEdits, MaxFaults} \subseteq Nat
    /\ Urls \cap {"FILE", "NONE"} = {}

VARIABLES
    source,   \* the ServiceAiSource rows
    chunks,   \* what the AiSourceChunk rows of each source were extracted from
    objects,  \* the files in the storage, by source
    cleanup,  \* the AiSourceStorageCleanup rows, by source
    uploads,  \* the upload requests in progress
    works,    \* what each instance is doing
    started,  \* bound: uploads so far
    edits,    \* bound: changes by staff so far
    faults    \* bound: faults so far

bounds == <<started, edits, faults>>
vars == <<source, chunks, objects, cleanup, uploads, works, bounds>>

Ids == 1 .. MaxRows
Statuses == {"UPLOADING", "QUEUED", "PROCESSING", "READY", "FAILED", "OCR_REQUIRED", "DELETING"}
Contents == Urls \cup {"FILE"}
\* token 0 is a null leaseToken, live an unexpired lease; claims is history.
Rows == [req : Requests, url : Contents, status : Statuses, revision : Nat, uploaded : BOOLEAN,
         deleted : BOOLEAN, token : Nat, live : BOOLEAN, attempts : Nat, claims : Nat]
Unused == [status |-> "UNUSED"]
Gone == [status |-> "GONE"]
Jobs == [due : BOOLEAN, token : Nat, live : BOOLEAN, claims : Nat]
NoJob == [claims |-> 0]

Exists(i) == source[i].status \in Statuses
IsFile(i) == KindOf[source[i].req] = "FILE"
HasJob(i) == cleanup[i] # NoJob
Removes == {"removing", "removed", "kept"}
Extracts == {"claimed", "extract", "commit", "error", "permanent", "ocr"}
Works == [pc : {"idle"} \cup Removes \cup Extracts, id : Ids \cup {0}, token : Nat,
          revision : Nat, attempt : Nat, content : Contents \cup {"NONE"}]
Calls == [id : Ids, revision : Nat, stage : {"storing", "stored", "failed"}]
Idle == [pc |-> "idle", id |-> 0, token |-> 0, revision |-> 0, attempt |-> 0, content |-> "NONE"]

Init ==
    /\ source = [i \in Ids |-> Unused]
    /\ chunks = [i \in Ids |-> "NONE"]
    /\ objects = {}
    /\ cleanup = [i \in Ids |-> NoJob]
    /\ uploads = {}
    /\ works = [w \in Workers |-> Idle]
    /\ started = 0 /\ edits = 0 /\ faults = 0

Fault == faults < MaxFaults /\ faults' = faults + 1
Change == edits < MaxEdits /\ edits' = edits + 1

-----------------------------------------------------------------------------
(* Requests of staff.  Each starts with the lock of the service hierarchy. *)

OfRequest(r) == {i \in Ids : Exists(i) /\ source[i].req = r}
WithinLimit == Cardinality({i \in Ids : Exists(i) /\ ~ source[i].deleted}) < Limit
IsNext(i) == source[i] = Unused /\ \A j \in 1 .. i - 1 : source[j] # Unused

NewRow(r, url, status) ==
    [req |-> r, url |-> url, status |-> status, revision |-> 1, uploaded |-> FALSE,
     deleted |-> FALSE, token |-> 0, live |-> FALSE, attempts |-> 0, claims |-> 0]

\* createAiLink; a request that is repeated finds its row.
CreateLink(r, url) ==
    /\ KindOf[r] = "LINK" /\ OfRequest(r) = {} /\ WithinLimit
    /\ \E i \in Ids : /\ IsNext(i)
                      /\ source' = [source EXCEPT ![i] = NewRow(r, url, "QUEUED")]
    /\ UNCHANGED <<chunks, objects, cleanup, uploads, works, bounds>>

\* uploadAiFile, its first transaction: a new row, or one whose upload did not finish.
BeginUpload(r) ==
    /\ KindOf[r] = "FILE" /\ started < MaxUploads
    /\ started' = started + 1
    /\ \E i \in Ids :
         /\ \/ /\ OfRequest(r) = {} /\ WithinLimit /\ IsNext(i)
               /\ source' = [source EXCEPT ![i] = NewRow(r, "FILE", "UPLOADING")]
            \/ /\ i \in OfRequest(r)
               /\ ~ source[i].deleted /\ ~ source[i].uploaded /\ source[i].status # "UPLOADING"
               /\ source' = [source EXCEPT ![i].status = "UPLOADING", ![i].revision = @ + 1]
         /\ uploads' = uploads \cup {[id |-> i, revision |-> source'[i].revision, stage |-> "storing"]}
    /\ UNCHANGED <<chunks, objects, cleanup, works, edits, faults>>

Storing(i) == \E u \in uploads : u.id = i /\ u.stage = "storing"
UploadGoes(u, stage) == uploads' = (uploads \ {u}) \cup {[u EXCEPT !.stage = stage]}

\* Mutant of Store: an error of the storage is not noticed.
StoreUnchecked(u) ==
    /\ u.stage = "storing"
    /\ objects' \in {objects, objects \cup {u.id}}
    /\ UploadGoes(u, "stored")
    /\ UNCHANGED <<source, chunks, cleanup, works, bounds>>

\* storage.upload; one that fails may have stored the file all the same.
Store(u) ==
    /\ u.stage = "storing"
    /\ \/ /\ objects' = objects \cup {u.id}
          /\ UploadGoes(u, "stored")
       \/ /\ objects' \in {objects, objects \cup {u.id}}
          /\ UploadGoes(u, "failed")
    /\ UNCHANGED <<source, chunks, cleanup, works, bounds>>

\* Mutant of UploadIsCurrent: the row is found by its id.
UploadOfRow(u) == Exists(u.id)
UploadIsCurrent(u) == Exists(u.id) /\ ~ source[u.id].deleted /\ source[u.id].status = "UPLOADING"
                      /\ source[u.id].revision = u.revision

FinishUpload(u) ==
    /\ u.stage = "stored"
    /\ IF UploadIsCurrent(u)
       THEN /\ source' = [source EXCEPT ![u.id].uploaded = TRUE, ![u.id].status = "QUEUED"]
            /\ uploads' = uploads \ {u}
       ELSE UploadGoes(u, "failed") /\ UNCHANGED source
    /\ UNCHANGED <<chunks, objects, cleanup, works, bounds>>

\* uploadAiFile, catch
FailUpload(u) ==
    /\ u.stage = "failed"
    /\ source' = IF Exists(u.id) /\ source[u.id].status = "UPLOADING" /\ source[u.id].revision = u.revision
                 THEN [source EXCEPT ![u.id].status = "FAILED"] ELSE source
    /\ uploads' = uploads \ {u}
    /\ UNCHANGED <<chunks, objects, cleanup, works, bounds>>

\* The instance that handles the request dies; what it sent may still be stored.
LoseUpload(u) ==
    /\ Fault
    /\ uploads' = uploads \ {u}
    /\ objects' \in {objects} \cup (IF u.stage = "storing" THEN {objects \cup {u.id}} ELSE {})
    /\ UNCHANGED <<source, chunks, cleanup, works, started, edits>>

Restarted(row) == [row EXCEPT !.revision = @ + 1, !.status = "QUEUED", !.attempts = 0,
                              !.token = 0, !.live = FALSE]

Restarts(row, url) == url # row.url \/ row.status = "PROCESSING"

\* mutateAiSource, which names the revision that staff saw.
Edit(i, url) ==
    LET row == source[i] IN
    /\ Exists(i) /\ ~ row.deleted /\ row.status # "UPLOADING"
    /\ IF IsFile(i) THEN url = row.url ELSE url \in Urls
    /\ Change
    /\ IF Restarts(row, url)
       THEN /\ source' = [source EXCEPT ![i] = [Restarted(row) EXCEPT !.url = url]]
            /\ chunks' = [chunks EXCEPT ![i] = "NONE"]
       ELSE source' = [source EXCEPT ![i].revision = @ + 1] /\ UNCHANGED chunks
    /\ UNCHANGED <<objects, cleanup, uploads, works, started, faults>>

TryAgain(i) ==
    LET row == source[i] IN
    /\ Exists(i) /\ ~ row.deleted /\ row.status \in {"FAILED", "OCR_REQUIRED"}
    /\ IsFile(i) => row.uploaded
    /\ Change
    /\ source' = [source EXCEPT ![i] = Restarted(row)]
    /\ chunks' = [chunks EXCEPT ![i] = "NONE"]
    /\ UNCHANGED <<objects, cleanup, uploads, works, started, faults>>

Remove(i) ==
    LET row == source[i] IN
    /\ Exists(i) /\ ~ row.deleted
    /\ Change
    /\ source' = [source EXCEPT ![i] = [row EXCEPT !.revision = @ + 1, !.status = "DELETING",
                     !.deleted = TRUE, !.attempts = 0, !.token = 0, !.live = FALSE]]
    /\ chunks' = [chunks EXCEPT ![i] = "NONE"]
    /\ UNCHANGED <<objects, cleanup, uploads, works, started, faults>>

-----------------------------------------------------------------------------
(* Deleted rows *)

\* Mutant of DueAtOnce: an upload that may still be running gets no grace.
DueWithoutGrace(i) == TRUE
DueAtOnce(i) == source[i].uploaded

\* DELETE of the row: the chunks cascade, the trigger remembers the file.
DeleteRow(i) ==
    /\ source' = [source EXCEPT ![i] = Gone]
    /\ chunks' = [chunks EXCEPT ![i] = "NONE"]
    /\ cleanup' = IF IsFile(i)
                  THEN [cleanup EXCEPT ![i] = [due |-> DueAtOnce(i), token |-> 0, live |-> FALSE, claims |-> 0]]
                  ELSE cleanup
    /\ UNCHANGED <<objects, uploads, works, started, faults>>

\* The worker deletes what staff removed; a deleted service or tenant takes its sources along.
Purge(i) == Exists(i) /\ source[i].status = "DELETING" /\ source[i].deleted
            /\ DeleteRow(i) /\ UNCHANGED edits
Cascade(i) == Exists(i) /\ Change /\ DeleteRow(i)

\* The grace is over: no upload of the file can still be running.
EndGrace(i) ==
    /\ HasJob(i) /\ ~ cleanup[i].due /\ ~ Storing(i)
    /\ cleanup' = [cleanup EXCEPT ![i].due = TRUE]
    /\ UNCHANGED <<source, chunks, objects, uploads, works, bounds>>

-----------------------------------------------------------------------------
(* A pass of the worker, runAiSourceWorkerOnce *)

Goto(w, work) == works' = [works EXCEPT ![w] = work]

\* An upload that nobody is storing any more has failed.
AbandonUpload(i) ==
    /\ Exists(i) /\ source[i].status = "UPLOADING" /\ ~ Storing(i)
    /\ source' = [source EXCEPT ![i].status = "FAILED"]
    /\ UNCHANGED <<chunks, objects, cleanup, uploads, works, bounds>>

GiveUp(i) ==
    /\ Exists(i) /\ source[i].status = "PROCESSING" /\ ~ source[i].live
    /\ source[i].attempts >= MaxAttempts
    /\ source' = [source EXCEPT ![i].status = "FAILED", ![i].token = 0]
    /\ UNCHANGED <<chunks, objects, cleanup, uploads, works, bounds>>

ClaimCleanup(w) ==
    /\ works[w].pc = "idle"
    /\ \E i \in Ids :
         /\ HasJob(i) /\ cleanup[i].due /\ ~ cleanup[i].live
         /\ LET token == cleanup[i].claims + 1 IN
            /\ cleanup' = [cleanup EXCEPT ![i] = [due |-> TRUE, token |-> token, live |-> TRUE, claims |-> token]]
            /\ Goto(w, [Idle EXCEPT !.pc = "removing", !.id = i, !.token = token])
    /\ UNCHANGED <<source, chunks, objects, uploads, bounds>>

\* storage.remove; one that fails may have removed the file all the same.
RemoveObject(w) ==
    LET work == works[w] IN
    /\ work.pc = "removing"
    /\ \/ /\ objects' = objects \ {work.id}
          /\ Goto(w, [work EXCEPT !.pc = "removed"])
          /\ UNCHANGED faults
       \/ /\ Fault
          /\ objects' \in {objects, objects \ {work.id}}
          /\ Goto(w, [work EXCEPT !.pc = "kept"])
    /\ UNCHANGED <<source, chunks, cleanup, uploads, started, edits>>

\* The cleanup is over, or its catch makes it available again; either names the token.
EndCleanup(w) ==
    LET work == works[w] IN
    /\ work.pc \in {"removed", "kept"}
    /\ cleanup' = IF HasJob(work.id) /\ cleanup[work.id].token = work.token
                  THEN [cleanup EXCEPT ![work.id] =
                          IF work.pc = "removed" THEN NoJob ELSE [@ EXCEPT !.token = 0, !.live = FALSE]]
                  ELSE cleanup
    /\ Goto(w, Idle)
    /\ UNCHANGED <<source, chunks, objects, uploads, bounds>>

\* Mutant of Claimable: a source whose worker died is not claimed again.
ClaimableQueued(row) == ~ row.deleted /\ row.attempts < MaxAttempts /\ row.status = "QUEUED"
Claimable(row) ==
    /\ ~ row.deleted /\ row.attempts < MaxAttempts
    /\ row.status = "QUEUED" \/ (row.status = "PROCESSING" /\ ~ row.live)

ClaimSource(w) ==
    /\ works[w].pc = "idle"
    /\ \E i \in Ids :
         /\ Exists(i) /\ Claimable(source[i])
         /\ LET token == source[i].claims + 1 IN
            /\ source' = [source EXCEPT ![i].status = "PROCESSING", ![i].token = token, ![i].live = TRUE,
                                        ![i].attempts = @ + 1, ![i].claims = token]
            /\ Goto(w, [Idle EXCEPT !.pc = "claimed", !.id = i, !.token = token])
    /\ UNCHANGED <<chunks, objects, cleanup, uploads, bounds>>

Holds(work) == LET row == source[work.id] IN
    Exists(work.id) /\ row.token = work.token /\ row.status = "PROCESSING" /\ ~ row.deleted

\* findFirst
Load(w) ==
    LET work == works[w]  row == source[work.id] IN
    /\ work.pc = "claimed"
    /\ IF Holds(work)
       THEN Goto(w, [work EXCEPT !.pc = "extract", !.revision = row.revision,
                                 !.attempt = row.attempts, !.content = row.url])
       ELSE Goto(w, Idle)
    /\ UNCHANGED <<source, chunks, objects, cleanup, uploads, bounds>>

\* Mutant of IsCurrent: neither the token nor the revision is compared.
IsProcessing(work) == LET row == source[work.id] IN
    Exists(work.id) /\ row.status = "PROCESSING" /\ ~ row.deleted
IsCurrent(work) == Holds(work) /\ source[work.id].revision = work.revision

\* The file is downloaded, or the page fetched, and its text extracted.  A file that is not
\* there, and every unknown error, may be tried again; others are final, one asks for OCR.
Extract(w) ==
    LET work == works[w] IN
    /\ work.pc = "extract"
    /\ \/ /\ work.content = "FILE" => work.id \in objects
          /\ IF work.content = "FILE" /\ ~ IsCurrent(work)
             THEN Goto(w, Idle)
             ELSE Goto(w, [work EXCEPT !.pc = "commit"])
       \/ \E pc \in {"error", "permanent", "ocr"} : Goto(w, [work EXCEPT !.pc = pc])
    /\ UNCHANGED <<source, chunks, objects, cleanup, uploads, bounds>>

\* The chunks are replaced and the source is READY, in one transaction.
Commit(w) ==
    LET work == works[w] IN
    /\ work.pc = "commit"
    /\ IF IsCurrent(work)
       THEN /\ source' = [source EXCEPT ![work.id].status = "READY", ![work.id].token = 0, ![work.id].live = FALSE]
            /\ chunks' = [chunks EXCEPT ![work.id] = work.content]
       ELSE UNCHANGED <<source, chunks>>
    /\ Goto(w, Idle)
    /\ UNCHANGED <<objects, cleanup, uploads, bounds>>

CommitFails(w) ==
    /\ works[w].pc = "commit"
    /\ Fault
    /\ Goto(w, [works[w] EXCEPT !.pc = "error"])
    /\ UNCHANGED <<source, chunks, objects, cleanup, uploads, started, edits>>

StatusAfter(work) ==
    CASE work.pc = "ocr" -> "OCR_REQUIRED"
      [] work.pc = "error" /\ work.attempt < MaxAttempts -> "QUEUED"
      [] OTHER -> "FAILED"

\* catch
EndInError(w) ==
    LET work == works[w] IN
    /\ work.pc \in {"error", "permanent", "ocr"}
    /\ source' = IF IsCurrent(work)
                 THEN [source EXCEPT ![work.id].status = StatusAfter(work), ![work.id].token = 0,
                                     ![work.id].live = FALSE]
                 ELSE source
    /\ Goto(w, Idle)
    /\ UNCHANGED <<chunks, objects, cleanup, uploads, bounds>>

-----------------------------------------------------------------------------
(* Leases and crashes *)

Working(i, token, pcs) == \E w \in Workers : works[w].id = i /\ works[w].token = token /\ works[w].pc \in pcs

\* A worker that is alive renews the lease of its source, unless it is kept from doing so.
ExpireSource(i) ==
    /\ Exists(i) /\ source[i].live
    /\ IF Working(i, source[i].token, Extracts) THEN Fault ELSE UNCHANGED faults
    /\ source' = [source EXCEPT ![i].live = FALSE]
    /\ UNCHANGED <<chunks, objects, cleanup, uploads, works, started, edits>>

\* The lease of a cleanup is not renewed: its 60 seconds are longer than the call that removes
\* an object may take, so a worker at it has to be held up to lose it.
ExpireCleanup(i) ==
    /\ HasJob(i) /\ cleanup[i].live
    /\ IF Working(i, cleanup[i].token, Removes) THEN Fault ELSE UNCHANGED faults
    /\ cleanup' = [cleanup EXCEPT ![i].live = FALSE]
    /\ UNCHANGED <<source, chunks, objects, uploads, works, started, edits>>

Crash(w) ==
    /\ works[w].pc # "idle"
    /\ Fault
    /\ Goto(w, Idle)
    /\ UNCHANGED <<source, chunks, objects, cleanup, uploads, started, edits>>

-----------------------------------------------------------------------------
Step(w) == RemoveObject(w) \/ EndCleanup(w) \/ Load(w) \/ Extract(w) \/ Commit(w) \/ EndInError(w)
UploadStep(u) == Store(u) \/ FinishUpload(u) \/ FailUpload(u)
Sweep(i) == Purge(i) \/ AbandonUpload(i) \/ GiveUp(i)

Next ==
    \/ \E r \in Requests : BeginUpload(r) \/ \E url \in Urls : CreateLink(r, url)
    \/ \E u \in uploads : UploadStep(u) \/ LoseUpload(u)
    \/ \E i \in Ids : \/ TryAgain(i) \/ Remove(i) \/ \E url \in Contents : Edit(i, url)
                      \/ Cascade(i) \/ EndGrace(i) \/ Sweep(i) \/ ExpireSource(i) \/ ExpireCleanup(i)
    \/ \E w \in Workers : Step(w) \/ ClaimCleanup(w) \/ ClaimSource(w) \/ CommitFails(w) \/ Crash(w)

Spec == Init /\ [][Next]_vars

\* Every instance polls every three seconds, a request and a pass that have not crashed go on,
\* and time passes.
Fairness ==
    /\ \A i \in Ids : /\ WF_vars(\E u \in uploads : u.id = i /\ UploadStep(u))
                      /\ WF_vars(Sweep(i)) /\ WF_vars(EndGrace(i))
                      /\ WF_vars(ExpireSource(i)) /\ WF_vars(ExpireCleanup(i))
    /\ WF_vars(\E w \in Workers : ClaimCleanup(w)) /\ WF_vars(\E w \in Workers : ClaimSource(w))
    /\ \A w \in Workers : WF_vars(Step(w))

FairSpec == Spec /\ Fairness

-----------------------------------------------------------------------------
(* Properties *)

\* Every row, cleanup, upload and pass has its shape.
TypeOK ==
    /\ source \in [Ids -> Rows \cup {Unused, Gone}]
    /\ chunks \in [Ids -> Contents \cup {"NONE"}]
    /\ cleanup \in [Ids -> Jobs \cup {NoJob}]
    /\ works \in [Workers -> Works]
    /\ uploads \subseteq Calls

\* What retrieval finds (the chunks of READY sources) was extracted from what the source is
\* now: neither a worker that was overtaken nor one that was overhauled by an edit leaves the
\* text of an older url, and a source that is not READY has none.
ReadyIsCurrent == \A i \in Ids :
    chunks[i] = IF source[i].status = "READY" THEN source[i].url ELSE "NONE"

\* A source whose upload is recorded has its file until its row is deleted, and no file is
\* read before.
OriginalKept == \A i \in Ids : Exists(i) =>
    /\ source[i].uploaded => i \in objects
    /\ IsFile(i) /\ source[i].status = "READY" => source[i].uploaded

\* A removed source never comes back: no upload, worker or request gives its row another
\* status, and a deleted row is never written again.
RemovedStaysRemoved == [][\A i \in Ids :
    /\ Exists(i) /\ source[i].deleted => source'[i] \in {source[i], Gone}
    /\ source[i] = Gone => source'[i] = Gone]_vars

\* Every upload and every extraction ends, whatever fails, dies or stalls on the way.
Unsettled(i) == source[i].status \in {"UPLOADING", "QUEUED", "PROCESSING", "DELETING"}
SourcesSettle == \A i \in Ids : Unsettled(i) ~> ~ Unsettled(i)

\* The file of a deleted source does not stay in the storage, even if it is still being
\* uploaded when the source is deleted.
FilesRemoved == <>[](\A i \in Ids : source[i] = Gone => i \notin objects)
=============================================================================
