-------------------------- MODULE AiSources_proofs --------------------------
(***************************************************************************)
(* Retrieval finds only text of what a source is now, a recorded upload    *)
(* has its file, and a removed source stays removed, for any number of     *)
(* instances, requests, edits and faults.  The inductive invariant says    *)
(* what a worker knows of the row it claimed: as long as the row is        *)
(* PROCESSING under the worker's token, it still has the url that was      *)
(* read, because every change that could alter it takes the token away and *)
(* no later claim uses a token again.                                      *)
(***************************************************************************)
EXTENDS AiSources, TLAPS

\* A row, its chunks and its file.
RowOK(i) ==
    /\ chunks[i] = IF source[i].status = "READY" THEN source[i].url ELSE "NONE"
    /\ HasJob(i) => source[i] = Gone
    /\ Exists(i) =>
         /\ source[i].deleted => source[i].status = "DELETING" /\ ~ source[i].live
         /\ source[i].uploaded => i \in objects
         /\ IsFile(i) /\ source[i].status \in {"QUEUED", "PROCESSING", "READY", "OCR_REQUIRED"}
              => source[i].uploaded

\* A worker and the row it works on.
WorkOK(w) == LET work == works[w]  row == source[work.id] IN
    work.pc # "idle" =>
      /\ work.id \in Ids /\ row # Unused
      /\ work.pc \in Removes => row = Gone
      /\ work.pc \in Extracts /\ row \in Rows => work.token <= row.claims
      /\ work.pc \in {"extract", "commit"} /\ row \in Rows
           => (row.status = "PROCESSING" /\ row.token = work.token => work.content = row.url)

\* An upload and its row.
CallOK(u) == /\ source[u.id] # Unused
             /\ u.stage = "stored" /\ source[u.id] \in Rows => u.id \in objects

IInv == /\ TypeOK
        /\ \A i \in Ids : RowOK(i)
        /\ \A w \in Workers : WorkOK(w)
        /\ \A u \in uploads : CallOK(u)

\* How a row may change without a worker or an upload noticing.
Moves(old, new) ==
    \/ new = old
    \/ old \in Rows /\ new = Gone
    \/ old = Unused /\ new \in Rows
    \/ /\ old \in Rows /\ new \in Rows /\ ~ old.deleted
       /\ new.claims >= old.claims
       /\ new.status = "PROCESSING" =>
            \/ old.status = "PROCESSING" /\ new.token = old.token /\ new.url = old.url
            \/ new.token > old.claims

-----------------------------------------------------------------------------
(* Rows *)

LEMMA RowShape ==
  /\ Unused \notin Rows /\ Gone \notin Rows /\ Unused # Gone
  /\ Unused.status \notin Statuses /\ Gone.status \notin Statuses
  /\ \A row \in Rows : row.status \in Statuses
  BY DEF Rows, Unused, Gone, Statuses

LEMMA ExistsIsRow ==
  ASSUME TypeOK, NEW i \in Ids
  PROVE  Exists(i) <=> source[i] \in Rows
<1>1. source[i] \in Rows \/ source[i] = Unused \/ source[i] = Gone
  BY DEF TypeOK
<1> QED
  BY <1>1, RowShape DEF Exists

\* What a step does to the rows, to their chunks and to the files.
RowStep ==
    /\ source' \in [Ids -> Rows \cup {Unused, Gone}]
    /\ chunks' \in [Ids -> Contents \cup {"NONE"}]
    /\ cleanup' \in [Ids -> Jobs \cup {NoJob}]
    /\ \A i \in Ids : RowOK(i)'
    /\ \A i \in Ids : Moves(source[i], source'[i])
    /\ \A i \in Ids : i \in objects => i \in objects' \/ source'[i] = Gone

\* A row is created or written.
LEMMA RowWritten ==
  ASSUME IInv, NEW i \in Ids, NEW new \in Rows, source' = [source EXCEPT ![i] = new],
         source[i] # Gone, Moves(source[i], new),
         NEW text \in Contents \cup {"NONE"}, chunks' = [chunks EXCEPT ![i] = text],
         text = IF new.status = "READY" THEN new.url ELSE "NONE",
         UNCHANGED <<cleanup, objects>>,
         new.deleted => new.status = "DELETING" /\ ~ new.live, new.uploaded => i \in objects,
         KindOf[new.req] = "FILE" /\ new.status \in {"QUEUED", "PROCESSING", "READY", "OCR_REQUIRED"}
           => new.uploaded
  PROVE  RowStep
<1>1. TypeOK /\ \A j \in Ids : RowOK(j)
  BY DEF IInv
<1>2. /\ source' \in [Ids -> Rows \cup {Unused, Gone}]
      /\ chunks' \in [Ids -> Contents \cup {"NONE"}]
      /\ cleanup' \in [Ids -> Jobs \cup {NoJob}]
  BY <1>1 DEF TypeOK
<1>3. source'[i] = new /\ chunks'[i] = text /\ cleanup'[i] = cleanup[i]
  BY <1>1 DEF TypeOK
<1>4. ASSUME NEW j \in Ids, j # i
      PROVE  source'[j] = source[j] /\ chunks'[j] = chunks[j] /\ cleanup'[j] = cleanup[j]
  BY <1>1, <1>4 DEF TypeOK
<1>5. ~ HasJob(i)'
  BY <1>1, <1>3 DEF RowOK, HasJob
<1>6. RowOK(i)'
  BY <1>3, <1>5 DEF RowOK, Exists, IsFile
<1>7. ASSUME NEW j \in Ids, j # i PROVE RowOK(j)'
  BY <1>1, <1>4, <1>7 DEF RowOK, Exists, IsFile, HasJob
<1>8. \A j \in Ids : Moves(source[j], source'[j])
  BY <1>3, <1>4 DEF Moves
<1> QED
  BY <1>2, <1>6, <1>7, <1>8 DEF RowStep

\* The rows stay as they are; a file may come, or go with its row.
LEMMA RowsStay ==
  ASSUME IInv, UNCHANGED <<source, chunks>>, cleanup' \in [Ids -> Jobs \cup {NoJob}],
         \A i \in Ids : HasJob(i)' => HasJob(i),
         \A i \in Ids : i \in objects => i \in objects' \/ source[i] = Gone
  PROVE  RowStep
<1>1. TypeOK /\ \A j \in Ids : RowOK(j)
  BY DEF IInv
<1>2. ASSUME NEW i \in Ids PROVE RowOK(i)'
  BY <1>1, <1>2, RowShape DEF RowOK, Exists, IsFile
<1> QED
  BY <1>1, <1>2 DEF RowStep, TypeOK, Moves

-----------------------------------------------------------------------------
(* Workers and uploads *)

\* A worker that does nothing itself.
LEMMA WorkerKept ==
  ASSUME IInv, RowStep, NEW w \in Workers, works'[w] = works[w]
  PROVE  WorkOK(w)'
<1> DEFINE work == works[w]
<1> SUFFICES ASSUME work.pc # "idle"
    PROVE  /\ work.id \in Ids /\ source'[work.id] # Unused
           /\ work.pc \in Removes => source'[work.id] = Gone
           /\ work.pc \in Extracts /\ source'[work.id] \in Rows
                => work.token <= source'[work.id].claims
           /\ work.pc \in {"extract", "commit"} /\ source'[work.id] \in Rows
                => (source'[work.id].status = "PROCESSING" /\ source'[work.id].token = work.token
                    => work.content = source'[work.id].url)
  BY DEF WorkOK
<1>1. WorkOK(w) /\ work \in Works
  BY DEF IInv, TypeOK
<1>2. work.id \in Ids /\ source[work.id] # Unused /\ work.token \in Nat
  BY <1>1 DEF WorkOK, Works
<1>3. Moves(source[work.id], source'[work.id])
  BY <1>2 DEF RowStep
<1>4. source[work.id] \in Rows => source[work.id].claims \in Nat
  BY DEF Rows
<1>5. source'[work.id] \in Rows => source'[work.id].claims \in Nat /\ source'[work.id].token \in Nat
  BY DEF Rows
<1>6. "extract" \in Extracts /\ "commit" \in Extracts
  BY DEF Extracts
<1> QED
  BY <1>1, <1>2, <1>3, <1>4, <1>5, <1>6, RowShape DEF WorkOK, Moves

\* An upload that does nothing itself.
LEMMA CallKept ==
  ASSUME IInv, RowStep, NEW u \in uploads
  PROVE  CallOK(u)'
<1>1. CallOK(u) /\ u.id \in Ids
  BY DEF IInv, TypeOK, Calls
<1>2. Moves(source[u.id], source'[u.id])
  BY <1>1 DEF RowStep
<1>3. u.id \in objects => u.id \in objects' \/ source'[u.id] = Gone
  BY <1>1 DEF RowStep
<1> QED
  BY <1>1, <1>2, <1>3, RowShape DEF CallOK, Moves

LEMMA RowsMove ==
  ASSUME IInv, RowStep, UNCHANGED <<works, uploads>>
  PROVE  RowStep /\ IInv'
<1>1. TypeOK'
  BY DEF IInv, TypeOK, RowStep
<1>2. ASSUME NEW w \in Workers PROVE WorkOK(w)'
  BY WorkerKept
<1>3. ASSUME NEW u \in uploads PROVE CallOK(u)'
  BY CallKept
<1> QED
  BY <1>1, <1>2, <1>3 DEF IInv, RowStep

LEMMA WorkerMoves ==
  ASSUME IInv, RowStep, NEW w \in Workers, NEW work \in Works, Goto(w, work), uploads' = uploads,
         WorkOK(w)'
  PROVE  RowStep /\ IInv'
<1>1. TypeOK'
  BY DEF IInv, TypeOK, RowStep, Goto
<1>2. ASSUME NEW v \in Workers PROVE WorkOK(v)'
  <2>1. CASE v = w
    BY <2>1
  <2>2. CASE v # w
    <3>1. works'[v] = works[v]
      BY <2>2 DEF IInv, TypeOK, Goto
    <3> QED
      BY <3>1, WorkerKept
  <2> QED
    BY <2>1, <2>2
<1>3. ASSUME NEW u \in uploads PROVE CallOK(u)'
  BY CallKept
<1> QED
  BY <1>1, <1>2, <1>3 DEF IInv, RowStep

LEMMA WorkerEnds ==
  ASSUME IInv, RowStep, NEW w \in Workers, Goto(w, Idle), uploads' = uploads
  PROVE  RowStep /\ IInv'
<1>1. Idle \in Works
  BY DEF Idle, Works
<1>2. works'[w] = Idle
  BY DEF IInv, TypeOK, Goto
<1>3. WorkOK(w)'
  BY <1>2 DEF WorkOK, Idle
<1> QED
  BY <1>1, <1>3, WorkerMoves

LEMMA UploadsMove ==
  ASSUME IInv, RowStep, works' = works, uploads' \subseteq Calls,
         \A u \in uploads' : u \in uploads \/ CallOK(u)'
  PROVE  RowStep /\ IInv'
<1>1. TypeOK'
  BY DEF IInv, TypeOK, RowStep
<1>2. ASSUME NEW w \in Workers PROVE WorkOK(w)'
  BY WorkerKept
<1>3. ASSUME NEW u \in uploads' PROVE CallOK(u)'
  BY CallKept
<1> QED
  BY <1>1, <1>2, <1>3 DEF IInv, RowStep

-----------------------------------------------------------------------------
(* Requests *)

\* Of a row that is there, what its shape and the invariant say.
LEMMA RowKnown ==
  ASSUME IInv, NEW i \in Ids, Exists(i)
  PROVE  /\ source[i] \in Rows /\ source[i].status \in Statuses
         /\ chunks[i] = IF source[i].status = "READY" THEN source[i].url ELSE "NONE"
         /\ source[i].deleted => source[i].status = "DELETING" /\ ~ source[i].live
         /\ source[i].uploaded => i \in objects
         /\ KindOf[source[i].req] = "FILE" /\ source[i].status \in {"QUEUED", "PROCESSING", "READY", "OCR_REQUIRED"}
              => source[i].uploaded
         /\ chunks[i] \in Contents \cup {"NONE"} /\ chunks = [chunks EXCEPT ![i] = chunks[i]]
         /\ source[i] # Gone /\ source[i] # Unused
<1>1. TypeOK /\ RowOK(i)
  BY DEF IInv
<1>2. source[i] \in Rows
  BY <1>1, ExistsIsRow
<1>3. chunks[i] \in Contents \cup {"NONE"} /\ chunks = [chunks EXCEPT ![i] = chunks[i]]
  BY <1>1 DEF TypeOK
<1> QED
  BY <1>1, <1>2, <1>3, RowShape DEF RowOK, Exists, IsFile

LEMMA NewRowShape ==
  ASSUME NEW r \in Requests, NEW url \in Contents, NEW status \in Statuses
  PROVE  NewRow(r, url, status) \in Rows
  BY DEF NewRow, Rows

\* A new row that is not READY.
LEMMA RowCreated ==
  ASSUME IInv, NEW r \in Requests, NEW url \in Contents, NEW status \in Statuses,
         status \notin {"PROCESSING", "READY"}, KindOf[r] = "FILE" => status = "UPLOADING",
         NEW i \in Ids, IsNext(i), source' = [source EXCEPT ![i] = NewRow(r, url, status)],
         UNCHANGED <<chunks, cleanup, objects>>
  PROVE  RowStep
<1> DEFINE new == NewRow(r, url, status)
<1>1. new \in Rows
  BY NewRowShape
<1>2. source[i] = Unused /\ source[i] # Gone
  BY RowShape DEF IsNext
<1>3. chunks[i] = "NONE" /\ chunks' = [chunks EXCEPT ![i] = "NONE"]
  BY <1>2, RowShape DEF IInv, TypeOK, RowOK, Unused
<1>4. Moves(source[i], new)
  BY <1>1, <1>2 DEF Moves
<1>5. /\ new.status = status /\ new.deleted = FALSE /\ new.uploaded = FALSE /\ new.req = r
  BY DEF NewRow
<1> HIDE DEF new
<1> QED
  BY <1>1, <1>2, <1>3, <1>4, <1>5, RowWritten DEF new

LEMMA CreateLinkOK ==
  ASSUME IInv, NEW r \in Requests, NEW url \in Urls, CreateLink(r, url)
  PROVE  RowStep /\ IInv'
<1>1. PICK i \in Ids : IsNext(i) /\ source' = [source EXCEPT ![i] = NewRow(r, url, "QUEUED")]
  BY DEF CreateLink
<1>2. RowStep
  BY <1>1, RowCreated DEF CreateLink, Contents, Statuses
<1> QED
  BY <1>2, RowsMove DEF CreateLink

\* A row whose status changes to one without text, and little else.
LEMMA RowRewritten ==
  ASSUME IInv, NEW i \in Ids, Exists(i), ~ source[i].deleted,
         NEW new \in Rows, source' = [source EXCEPT ![i] = new],
         new.req = source[i].req, new.claims >= source[i].claims, new.status # "READY",
         new.status = "PROCESSING" =>
             \/ source[i].status = "PROCESSING" /\ new.token = source[i].token /\ new.url = source[i].url
             \/ new.token > source[i].claims,
         source[i].status = "READY" => chunks' = [chunks EXCEPT ![i] = "NONE"],
         chunks' = chunks \/ chunks' = [chunks EXCEPT ![i] = "NONE"],
         UNCHANGED <<cleanup, objects>>,
         new.deleted => new.status = "DELETING" /\ ~ new.live, new.uploaded => i \in objects,
         KindOf[new.req] = "FILE" /\ new.status \in {"QUEUED", "PROCESSING", "OCR_REQUIRED"}
           => new.uploaded
  PROVE  RowStep
<1>1. Moves(source[i], new)
  BY RowKnown DEF Moves
<1>2. chunks' = [chunks EXCEPT ![i] = "NONE"]
  BY RowKnown
<1> QED
  BY <1>1, <1>2, RowKnown, RowWritten

\* A file whose upload did not finish is uploaded again.
LEMMA UploadAgain ==
  ASSUME IInv, NEW i \in Ids, Exists(i), ~ source[i].deleted, ~ source[i].uploaded, IsFile(i),
         source' = [source EXCEPT ![i].status = "UPLOADING", ![i].revision = @ + 1],
         UNCHANGED <<chunks, cleanup, objects>>
  PROVE  RowStep /\ source'[i] \in Rows
<1> DEFINE new == [source[i] EXCEPT !.status = "UPLOADING", !.revision = @ + 1]
<1>1. source' = [source EXCEPT ![i] = new] /\ source'[i] = new
  BY DEF IInv, TypeOK
<1>2. source[i] \in Rows
  BY RowKnown
<1>3. source[i].revision + 1 \in Nat /\ source[i].claims \in Nat /\ "UPLOADING" \in Statuses
  BY <1>2 DEF Rows, Statuses
<1>4. new \in Rows
  BY <1>2, <1>3 DEF Rows
<1>5. /\ new.req = source[i].req /\ new.claims >= source[i].claims
      /\ new.status = "UPLOADING" /\ ~ new.deleted /\ ~ new.uploaded
  BY <1>2, <1>3 DEF Rows
<1>6. source[i].status # "READY"
  BY RowKnown DEF IsFile
<1> HIDE DEF new
<1>7. RowStep
  BY <1>1, <1>5, <1>6, <1>4, RowRewritten
<1> QED
  BY <1>1, <1>7, <1>4

LEMMA BeginUploadOK ==
  ASSUME IInv, NEW r \in Requests, BeginUpload(r)
  PROVE  RowStep /\ IInv'
<1>1. PICK i \in Ids :
         /\ \/ /\ IsNext(i)
               /\ source' = [source EXCEPT ![i] = NewRow(r, "FILE", "UPLOADING")]
            \/ /\ Exists(i) /\ source[i].req = r /\ ~ source[i].deleted /\ ~ source[i].uploaded
               /\ source' = [source EXCEPT ![i].status = "UPLOADING", ![i].revision = @ + 1]
         /\ uploads' = uploads \cup {[id |-> i, revision |-> source'[i].revision, stage |-> "storing"]}
  BY DEF BeginUpload, OfRequest
<1>2. KindOf[r] = "FILE" /\ UNCHANGED <<chunks, cleanup, objects, works>>
  BY DEF BeginUpload
<1>3. ASSUME IsNext(i), source' = [source EXCEPT ![i] = NewRow(r, "FILE", "UPLOADING")]
      PROVE  RowStep /\ source'[i] \in Rows
  <2>1. "FILE" \in Contents /\ "UPLOADING" \in Statuses
    BY DEF Contents, Statuses
  <2>2. RowStep
    BY <1>2, <1>3, <2>1, RowCreated
  <2>3. source'[i] = NewRow(r, "FILE", "UPLOADING")
    BY <1>3 DEF IInv, TypeOK
  <2> QED
    BY <2>1, <2>2, <2>3, NewRowShape
<1>4. ASSUME Exists(i), source[i].req = r, ~ source[i].deleted, ~ source[i].uploaded,
             source' = [source EXCEPT ![i].status = "UPLOADING", ![i].revision = @ + 1]
      PROVE  RowStep /\ source'[i] \in Rows
  <2>1. IsFile(i)
    BY <1>2, <1>4 DEF IsFile
  <2> QED
    BY <1>2, <1>4, <2>1, UploadAgain
<1>5. RowStep /\ source'[i] \in Rows
  BY <1>1, <1>3, <1>4
<1>6. [id |-> i, revision |-> source'[i].revision, stage |-> "storing"] \in Calls
  BY <1>5 DEF Calls, Rows
<1>7. uploads' \subseteq Calls
  BY <1>1, <1>6 DEF IInv, TypeOK
<1>8. \A u \in uploads' : u \in uploads \/ CallOK(u)'
  BY <1>1, <1>5, RowShape DEF CallOK
<1> QED
  BY <1>2, <1>5, <1>7, <1>8, UploadsMove

LEMMA UploadCalls ==
  ASSUME IInv, NEW u \in uploads, NEW stage \in {"stored", "failed"}
  PROVE  /\ (uploads \ {u}) \cup {[u EXCEPT !.stage = stage]} \subseteq Calls
         /\ [u EXCEPT !.stage = stage].id = u.id /\ [u EXCEPT !.stage = stage].stage = stage
         /\ u.id \in Ids /\ source[u.id] # Unused
<1>1. uploads \subseteq Calls /\ CallOK(u)
  BY DEF IInv, TypeOK
<1>2. u \in Calls
  BY <1>1
<1>3. [u EXCEPT !.stage = stage] \in Calls
  BY <1>2 DEF Calls
<1> QED
  BY <1>1, <1>2, <1>3 DEF Calls, CallOK

LEMMA StoreOK ==
  ASSUME IInv, NEW u \in uploads, Store(u)
  PROVE  RowStep /\ IInv'
<1>1. UNCHANGED <<source, chunks, cleanup, works>> /\ objects' \in {objects, objects \cup {u.id}}
  BY DEF Store
<1>2. RowStep
  BY <1>1, RowsStay DEF IInv, TypeOK, HasJob
<1>3. PICK stage \in {"stored", "failed"} :
        UploadGoes(u, stage) /\ (stage = "stored" => objects' = objects \cup {u.id})
  BY DEF Store
<1>4. uploads' \subseteq Calls
  BY <1>3, UploadCalls DEF UploadGoes
<1>5. \A v \in uploads' : v \in uploads \/ CallOK(v)'
  BY <1>1, <1>3, UploadCalls DEF UploadGoes, CallOK
<1> QED
  BY <1>1, <1>2, <1>4, <1>5, UploadsMove

LEMMA FinishUploadOK ==
  ASSUME IInv, NEW u \in uploads, FinishUpload(u)
  PROVE  RowStep /\ IInv'
<1>1. UNCHANGED <<chunks, objects, cleanup, works>> /\ u.stage = "stored"
  BY DEF FinishUpload
<1>2. ASSUME ~ UploadIsCurrent(u) PROVE RowStep /\ IInv'
  <2>1. UploadGoes(u, "failed") /\ UNCHANGED source
    BY <1>2 DEF FinishUpload
  <2>2. RowStep
    BY <1>1, <2>1, RowsStay DEF IInv, TypeOK, HasJob
  <2>3. uploads' \subseteq Calls
    BY <2>1, UploadCalls DEF UploadGoes
  <2>4. ASSUME NEW v \in uploads', v \notin uploads PROVE CallOK(v)'
    <3>1. v = [u EXCEPT !.stage = "failed"]
      BY <2>1, <2>4 DEF UploadGoes
    <3>2. v.id = u.id /\ v.stage = "failed" /\ source[u.id] # Unused
      BY <3>1, UploadCalls
    <3> QED
      BY <2>1, <3>2 DEF CallOK
  <2> QED
    BY <1>1, <2>2, <2>3, <2>4, UploadsMove
<1>3. ASSUME UploadIsCurrent(u) PROVE RowStep /\ IInv'
  <2> DEFINE i == u.id
  <2> DEFINE new == [source[i] EXCEPT !.uploaded = TRUE, !.status = "QUEUED"]
  <2>1. i \in Ids /\ Exists(i) /\ source[i].status = "UPLOADING" /\ ~ source[i].deleted
    BY <1>3, UploadCalls DEF UploadIsCurrent
  <2>2. source[i] \in Rows /\ source[i].claims \in Nat
    BY <2>1, RowKnown DEF Rows
  <2>3. source' = [source EXCEPT ![i] = new] /\ uploads' = uploads \ {u}
    BY <1>3 DEF IInv, TypeOK, FinishUpload
  <2>4. new \in Rows
    BY <2>2 DEF Rows, Statuses
  <2>5. /\ new.req = source[i].req /\ new.claims = source[i].claims
        /\ new.status = "QUEUED" /\ ~ new.deleted /\ new.uploaded
    BY <2>1, <2>2 DEF Rows
  <2>6. i \in objects
    BY <1>1, <2>2 DEF IInv, CallOK
  <2>7. source[i].status # "READY" /\ new.claims >= source[i].claims
    BY <2>1, <2>2, <2>5
  <2>8. new.deleted => new.status = "DELETING" /\ ~ new.live
    BY <2>5
  <2>9. new.status \notin {"PROCESSING", "READY"} /\ new.req = source[i].req /\ new.uploaded
    BY <2>5
  <2> HIDE DEF i, new
  <2>10. RowStep
    BY <1>1, <2>1, <2>3, <2>4, <2>6, <2>7, <2>8, <2>9, RowRewritten
  <2>11. uploads' \subseteq Calls
    BY <2>3 DEF IInv, TypeOK
  <2> QED
    BY <1>1, <2>3, <2>10, <2>11, UploadsMove
<1> QED
  BY <1>2, <1>3

\* A row that fails.
LEMMA RowFails ==
  ASSUME IInv, NEW i \in Ids, Exists(i), source[i].status \in {"UPLOADING", "PROCESSING"},
         NEW token \in Nat,
         source' = [source EXCEPT ![i] = [source[i] EXCEPT !.status = "FAILED", !.token = token]],
         UNCHANGED <<chunks, cleanup, objects>>
  PROVE  RowStep
<1> DEFINE new == [source[i] EXCEPT !.status = "FAILED", !.token = token]
<1>1. source[i] \in Rows /\ source[i].claims \in Nat
  BY RowKnown DEF Rows
<1>2. new \in Rows
  BY <1>1 DEF Rows, Statuses
<1>3. ~ source[i].deleted /\ (source[i].uploaded => i \in objects)
  BY RowKnown
<1>4. /\ new.req = source[i].req /\ new.claims = source[i].claims
      /\ new.status = "FAILED" /\ ~ new.deleted /\ (new.uploaded => i \in objects)
  BY <1>1, <1>3 DEF Rows
<1>5. source' = [source EXCEPT ![i] = new]
  OBVIOUS
<1> HIDE DEF new
<1>6. source[i].status # "READY" /\ new.claims >= source[i].claims
  BY <1>1, <1>4
<1>7. new.deleted => new.status = "DELETING" /\ ~ new.live
  BY <1>4
<1>8. new.status \notin {"QUEUED", "PROCESSING", "READY", "OCR_REQUIRED"}
  BY <1>4
<1>9. chunks' = chunks /\ cleanup' = cleanup /\ objects' = objects
  OBVIOUS
<1>10. new.req = source[i].req /\ (new.uploaded => i \in objects)
  BY <1>4
<1> QED
  BY <1>2, <1>3, <1>5, <1>6, <1>7, <1>8, <1>9, <1>10, RowRewritten

LEMMA FailUploadOK ==
  ASSUME IInv, NEW u \in uploads, FailUpload(u)
  PROVE  RowStep /\ IInv'
<1>1. UNCHANGED <<chunks, objects, cleanup, works>> /\ uploads' = uploads \ {u} /\ u.id \in Ids
  BY UploadCalls DEF FailUpload
<1>2. ASSUME UNCHANGED source PROVE RowStep
  BY <1>1, <1>2, RowsStay DEF IInv, TypeOK, HasJob
<1>3. ASSUME Exists(u.id), source[u.id].status = "UPLOADING",
             source' = [source EXCEPT ![u.id].status = "FAILED"]
      PROVE  RowStep
  <2>1. source[u.id] \in Rows
    BY <1>1, <1>3, RowKnown
  <2>2. source[u.id].token \in Nat
    BY <2>1 DEF Rows
  <2>3. [source[u.id] EXCEPT !.status = "FAILED"]
          = [source[u.id] EXCEPT !.status = "FAILED", !.token = source[u.id].token]
    BY <2>1 DEF Rows
  <2> QED
    BY <1>1, <1>3, <2>2, <2>3, RowFails
<1>4. RowStep
  BY <1>2, <1>3 DEF FailUpload
<1>5. uploads' \subseteq Calls
  BY <1>1 DEF IInv, TypeOK
<1> QED
  BY <1>1, <1>4, <1>5, UploadsMove

LEMMA LoseUploadOK ==
  ASSUME IInv, NEW u \in uploads, LoseUpload(u)
  PROVE  RowStep /\ IInv'
<1>1. UNCHANGED <<source, chunks, cleanup, works>> /\ uploads' = uploads \ {u}
  BY DEF LoseUpload
<1>2. objects \subseteq objects'
  BY DEF LoseUpload
<1>3. RowStep
  BY <1>1, <1>2, RowsStay DEF IInv, TypeOK, HasJob
<1>4. uploads' \subseteq Calls
  BY <1>1 DEF IInv, TypeOK
<1> QED
  BY <1>1, <1>3, <1>4, UploadsMove

\* Extraction starts anew; only the url of a link may differ.
LEMMA RowRestarts ==
  ASSUME IInv, NEW i \in Ids, Exists(i), ~ source[i].deleted, IsFile(i) => source[i].uploaded,
         NEW url \in Contents, source' = [source EXCEPT ![i] = [Restarted(source[i]) EXCEPT !.url = url]],
         chunks' = [chunks EXCEPT ![i] = "NONE"], UNCHANGED <<cleanup, objects>>
  PROVE  RowStep
<1> DEFINE new == [Restarted(source[i]) EXCEPT !.url = url]
<1>1. source[i] \in Rows /\ (source[i].uploaded => i \in objects)
  BY RowKnown
<1>2. source[i].revision + 1 \in Nat /\ source[i].claims \in Nat /\ "QUEUED" \in Statuses
  BY <1>1 DEF Rows, Statuses
<1>3. new \in Rows
  BY <1>1, <1>2 DEF Rows, Restarted
<1>4. /\ new.req = source[i].req /\ new.claims >= source[i].claims /\ new.status = "QUEUED"
      /\ ~ new.deleted /\ (new.uploaded => i \in objects)
  BY <1>1, <1>2 DEF Rows, Restarted
<1>5. KindOf[new.req] = "FILE" => new.uploaded
  BY <1>1 DEF Rows, Restarted, IsFile
<1>6. source' = [source EXCEPT ![i] = new]
  OBVIOUS
<1> HIDE DEF new
<1>7. /\ new.status \notin {"PROCESSING", "READY"} /\ (new.deleted => new.status = "DELETING" /\ ~ new.live)
      /\ new.uploaded => i \in objects
  BY <1>4
<1> QED
  BY <1>3, <1>4, <1>5, <1>6, <1>7, RowRewritten

LEMMA EditOK ==
  ASSUME IInv, NEW i \in Ids, NEW url \in Contents, Edit(i, url)
  PROVE  RowStep /\ IInv'
<1>1. /\ Exists(i) /\ ~ source[i].deleted /\ source[i].status # "UPLOADING"
      /\ UNCHANGED <<objects, cleanup, uploads, works>>
  BY DEF Edit
<1>2. source[i] \in Rows
  BY <1>1, RowKnown
<1>3. ASSUME Restarts(source[i], url) PROVE RowStep
  <2>1. /\ source' = [source EXCEPT ![i] = [Restarted(source[i]) EXCEPT !.url = url]]
        /\ chunks' = [chunks EXCEPT ![i] = "NONE"]
    BY <1>3 DEF Edit
  <2>2. IsFile(i) => source[i].status = "PROCESSING"
    BY <1>3 DEF Edit, Restarts
  <2>3. IsFile(i) => source[i].uploaded
    BY <1>1, <2>2, RowKnown DEF IsFile
  <2> QED
    BY <1>1, <2>1, <2>3, RowRestarts
<1>4. ASSUME ~ Restarts(source[i], url) PROVE RowStep
  <2> DEFINE new == [source[i] EXCEPT !.revision = @ + 1]
  <2>1. source' = [source EXCEPT ![i] = new] /\ chunks' = chunks
    BY <1>4 DEF Edit
  <2>2. source[i].revision + 1 \in Nat /\ source[i].claims \in Nat
    BY <1>2 DEF Rows
  <2>3. new \in Rows
    BY <1>2, <2>2 DEF Rows
  <2>4. /\ new.req = source[i].req /\ new.claims = source[i].claims /\ new.url = source[i].url
        /\ new.status = source[i].status /\ new.token = source[i].token
    BY <1>2 DEF Rows
  <2>5. ~ new.deleted /\ (new.uploaded => source[i].uploaded) /\ (source[i].uploaded => new.uploaded)
    BY <1>1, <1>2 DEF Rows
  <2>6. chunks' = [chunks EXCEPT ![i] = chunks[i]] /\ source[i] # Gone
        /\ chunks[i] \in Contents \cup {"NONE"} /\ (source[i].uploaded => i \in objects)
        /\ chunks[i] = IF source[i].status = "READY" THEN source[i].url ELSE "NONE"
    BY <1>1, <2>1, RowKnown
  <2>7. KindOf[source[i].req] = "FILE" /\ source[i].status \in {"QUEUED", "PROCESSING", "READY", "OCR_REQUIRED"}
          => source[i].uploaded
    BY <1>1, RowKnown
  <2> HIDE DEF new
  <2>8. Moves(source[i], new)
    BY <1>1, <1>2, <2>2, <2>3, <2>4 DEF Moves
  <2>9. new.deleted => new.status = "DELETING" /\ ~ new.live
    BY <2>5
  <2>10. new.uploaded => i \in objects
    BY <2>5, <2>6
  <2>11. KindOf[new.req] = "FILE" /\ new.status \in {"QUEUED", "PROCESSING", "READY", "OCR_REQUIRED"}
          => new.uploaded
    BY <2>4, <2>5, <2>7
  <2>12. chunks[i] = IF new.status = "READY" THEN new.url ELSE "NONE"
    BY <2>4, <2>6
  <2> QED
    BY <1>1, <2>1, <2>3, <2>6, <2>8, <2>9, <2>10, <2>11, <2>12, RowWritten
<1> QED
  BY <1>1, <1>3, <1>4, RowsMove

LEMMA TryAgainOK ==
  ASSUME IInv, NEW i \in Ids, TryAgain(i)
  PROVE  RowStep /\ IInv'
<1>1. /\ Exists(i) /\ ~ source[i].deleted /\ (IsFile(i) => source[i].uploaded)
      /\ source' = [source EXCEPT ![i] = Restarted(source[i])]
      /\ chunks' = [chunks EXCEPT ![i] = "NONE"]
      /\ UNCHANGED <<objects, cleanup, uploads, works>>
  BY DEF TryAgain
<1>2. source[i] \in Rows
  BY <1>1, RowKnown
<1>3. source[i].url \in Contents
  BY <1>2 DEF Rows
<1>4. Restarted(source[i]) = [Restarted(source[i]) EXCEPT !.url = source[i].url]
  BY <1>2 DEF Rows, Restarted
<1> QED
  BY <1>1, <1>3, <1>4, RowRestarts, RowsMove

LEMMA RemoveOK ==
  ASSUME IInv, NEW i \in Ids, Remove(i)
  PROVE  RowStep /\ IInv'
<1> DEFINE new == [source[i] EXCEPT !.revision = @ + 1, !.status = "DELETING", !.deleted = TRUE,
                                    !.attempts = 0, !.token = 0, !.live = FALSE]
<1>1. /\ Exists(i) /\ ~ source[i].deleted /\ source' = [source EXCEPT ![i] = new]
      /\ chunks' = [chunks EXCEPT ![i] = "NONE"]
      /\ UNCHANGED <<objects, cleanup, uploads, works>>
  BY DEF Remove
<1>2. source[i] \in Rows /\ (source[i].uploaded => i \in objects)
  BY <1>1, RowKnown
<1>3. source[i].revision + 1 \in Nat /\ source[i].claims \in Nat /\ "DELETING" \in Statuses
  BY <1>2 DEF Rows, Statuses
<1>4. new \in Rows
  BY <1>2, <1>3 DEF Rows
<1>5. /\ new.req = source[i].req /\ new.claims >= source[i].claims /\ new.status = "DELETING"
      /\ ~ new.live
      /\ new.uploaded => i \in objects
  BY <1>2, <1>3 DEF Rows
<1> HIDE DEF new
<1>6. RowStep
  BY <1>1, <1>4, <1>5, RowRewritten
<1> QED
  BY <1>1, <1>6, RowsMove

-----------------------------------------------------------------------------
(* Deleted rows and their files *)

LEMMA DeleteRowOK ==
  ASSUME IInv, NEW i \in Ids, Exists(i), DeleteRow(i)
  PROVE  RowStep /\ IInv'
<1>1. /\ source' = [source EXCEPT ![i] = Gone] /\ chunks' = [chunks EXCEPT ![i] = "NONE"]
      /\ UNCHANGED <<objects, uploads, works>>
  BY DEF DeleteRow
<1>2. TypeOK /\ \A j \in Ids : RowOK(j)
  BY DEF IInv
<1>3. cleanup' \in [Ids -> Jobs \cup {NoJob}]
      /\ \A j \in Ids : j # i => cleanup'[j] = cleanup[j]
  <2>1. CASE IsFile(i)
    <3> DEFINE job == [due |-> DueAtOnce(i), token |-> 0, live |-> FALSE, claims |-> 0]
    <3>1. source[i] \in Rows
      BY RowKnown
    <3>2. DueAtOnce(i) \in BOOLEAN
      BY <3>1 DEF DueAtOnce, Rows
    <3>3. job \in Jobs
      BY <3>2 DEF Jobs
    <3>4. cleanup' = [cleanup EXCEPT ![i] = job]
      BY <2>1 DEF DeleteRow
    <3> HIDE DEF job
    <3> QED
      BY <1>2, <3>3, <3>4 DEF TypeOK
  <2>2. CASE ~ IsFile(i)
    BY <1>2, <2>2 DEF DeleteRow, TypeOK
  <2> QED
    BY <2>1, <2>2
<1>4. /\ source' \in [Ids -> Rows \cup {Unused, Gone}]
      /\ chunks' \in [Ids -> Contents \cup {"NONE"}]
  BY <1>1, <1>2 DEF TypeOK
<1>5. source'[i] = Gone /\ chunks'[i] = "NONE"
  BY <1>1, <1>2 DEF TypeOK
<1>6. RowOK(i)'
  BY <1>5, RowShape DEF RowOK, Exists, Statuses
<1>7. ASSUME NEW j \in Ids, j # i PROVE source'[j] = source[j] /\ RowOK(j)'
  <2>1. source'[j] = source[j] /\ chunks'[j] = chunks[j] /\ cleanup'[j] = cleanup[j]
    BY <1>1, <1>2, <1>3, <1>7 DEF TypeOK
  <2> QED
    BY <1>1, <1>2, <2>1 DEF RowOK, Exists, IsFile, HasJob
<1>8. source[i] \in Rows
  BY RowKnown
<1>9. \A j \in Ids : Moves(source[j], source'[j])
  BY <1>5, <1>7, <1>8 DEF Moves
<1>10. RowStep
  BY <1>1, <1>3, <1>4, <1>6, <1>7, <1>9 DEF RowStep
<1> QED
  BY <1>1, <1>10, RowsMove

LEMMA EndGraceOK ==
  ASSUME IInv, NEW i \in Ids, EndGrace(i)
  PROVE  RowStep /\ IInv'
<1>1. /\ HasJob(i) /\ cleanup' = [cleanup EXCEPT ![i].due = TRUE]
      /\ UNCHANGED <<source, chunks, objects, uploads, works>>
  BY DEF EndGrace
<1>2. cleanup \in [Ids -> Jobs \cup {NoJob}] /\ cleanup[i] \in Jobs
  BY <1>1 DEF IInv, TypeOK, HasJob
<1>3. [cleanup[i] EXCEPT !.due = TRUE] \in Jobs
  BY <1>2 DEF Jobs
<1>4. cleanup' \in [Ids -> Jobs \cup {NoJob}]
  BY <1>1, <1>2, <1>3
<1>5. \A j \in Ids : HasJob(j)' => HasJob(j)
  BY <1>1, <1>2 DEF HasJob
<1>6. RowStep
  BY <1>1, <1>4, <1>5, RowsStay
<1> QED
  BY <1>1, <1>6, RowsMove

LEMMA ExpireCleanupOK ==
  ASSUME IInv, NEW i \in Ids, ExpireCleanup(i)
  PROVE  RowStep /\ IInv'
<1>1. /\ HasJob(i) /\ cleanup' = [cleanup EXCEPT ![i].live = FALSE]
      /\ UNCHANGED <<source, chunks, objects, uploads, works>>
  BY DEF ExpireCleanup
<1>2. cleanup \in [Ids -> Jobs \cup {NoJob}] /\ cleanup[i] \in Jobs
  BY <1>1 DEF IInv, TypeOK, HasJob
<1>3. [cleanup[i] EXCEPT !.live = FALSE] \in Jobs
  BY <1>2 DEF Jobs
<1>4. cleanup' \in [Ids -> Jobs \cup {NoJob}]
  BY <1>1, <1>2, <1>3
<1>5. \A j \in Ids : HasJob(j)' => HasJob(j)
  BY <1>1, <1>2 DEF HasJob
<1>6. RowStep
  BY <1>1, <1>4, <1>5, RowsStay
<1> QED
  BY <1>1, <1>6, RowsMove

LEMMA ClaimCleanupOK ==
  ASSUME IInv, NEW w \in Workers, ClaimCleanup(w)
  PROVE  RowStep /\ IInv'
<1>1. PICK i \in Ids : LET token == cleanup[i].claims + 1 IN
        /\ HasJob(i)
        /\ cleanup' = [cleanup EXCEPT ![i] = [due |-> TRUE, token |-> token, live |-> TRUE, claims |-> token]]
        /\ Goto(w, [Idle EXCEPT !.pc = "removing", !.id = i, !.token = token])
  BY DEF ClaimCleanup
<1>2. UNCHANGED <<source, chunks, objects, uploads>>
  BY DEF ClaimCleanup
<1> DEFINE token == cleanup[i].claims + 1
           job == [due |-> TRUE, token |-> token, live |-> TRUE, claims |-> token]
           work == [Idle EXCEPT !.pc = "removing", !.id = i, !.token = token]
<1>3. cleanup \in [Ids -> Jobs \cup {NoJob}] /\ cleanup[i] \in Jobs /\ source[i] = Gone
  BY <1>1 DEF IInv, TypeOK, HasJob, RowOK
<1>4. token \in Nat /\ job \in Jobs
  BY <1>3 DEF Jobs
<1>5. work \in Works /\ work.pc = "removing" /\ work.id = i
  BY <1>4 DEF Works, Idle, Removes
<1> HIDE DEF token, job, work
<1>6. cleanup' = [cleanup EXCEPT ![i] = job] /\ Goto(w, work)
  BY <1>1 DEF token, job, work
<1>7. cleanup' \in [Ids -> Jobs \cup {NoJob}] /\ \A j \in Ids : HasJob(j)' => HasJob(j)
  BY <1>1, <1>3, <1>4, <1>6 DEF HasJob
<1>8. RowStep
  BY <1>2, <1>7, RowsStay
<1>9. works'[w] = work
  BY <1>6 DEF IInv, TypeOK, Goto
<1>10. WorkOK(w)'
  BY <1>2, <1>3, <1>5, <1>9, RowShape DEF WorkOK, Removes, Extracts
<1> QED
  BY <1>2, <1>5, <1>6, <1>8, <1>10, WorkerMoves

\* What a worker that removes a file knows.
LEMMA RemoverKnown ==
  ASSUME IInv, NEW w \in Workers, works[w].pc \in Removes
  PROVE  works[w] \in Works /\ works[w].id \in Ids /\ source[works[w].id] = Gone
  BY DEF IInv, TypeOK, WorkOK, Removes

LEMMA RemoveObjectOK ==
  ASSUME IInv, NEW w \in Workers, RemoveObject(w)
  PROVE  RowStep /\ IInv'
<1>1. works[w].pc \in Removes /\ UNCHANGED <<source, chunks, cleanup, uploads>>
  BY DEF RemoveObject, Removes
<1>2. works[w] \in Works /\ works[w].id \in Ids /\ source[works[w].id] = Gone
  BY <1>1, RemoverKnown
<1>3. objects \ {works[w].id} \subseteq objects'
  BY DEF RemoveObject
<1>4. RowStep
  BY <1>1, <1>2, <1>3, RowsStay DEF IInv, TypeOK, HasJob
<1>5. PICK pc \in {"removed", "kept"} : Goto(w, [works[w] EXCEPT !.pc = pc])
  BY DEF RemoveObject
<1> DEFINE work == [works[w] EXCEPT !.pc = pc]
<1>6. work \in Works /\ work.id = works[w].id /\ work.pc = pc
  BY <1>2 DEF Works, Removes
<1> HIDE DEF work
<1>7. Goto(w, work)
  BY <1>5 DEF work
<1>8. works'[w] = work
  BY <1>7 DEF IInv, TypeOK, Goto
<1>9. WorkOK(w)'
  BY <1>1, <1>2, <1>6, <1>8, RowShape DEF WorkOK, Removes, Extracts
<1> QED
  BY <1>1, <1>4, <1>6, <1>7, <1>9, WorkerMoves

LEMMA EndCleanupOK ==
  ASSUME IInv, NEW w \in Workers, EndCleanup(w)
  PROVE  RowStep /\ IInv'
<1>1. works[w].pc \in Removes /\ UNCHANGED <<source, chunks, objects, uploads>> /\ Goto(w, Idle)
  BY DEF EndCleanup, Removes
<1> DEFINE i == works[w].id
<1>2. i \in Ids
  BY <1>1, RemoverKnown
<1>3. cleanup \in [Ids -> Jobs \cup {NoJob}]
  BY DEF IInv, TypeOK
<1>4. cleanup' \in [Ids -> Jobs \cup {NoJob}] /\ \A j \in Ids : HasJob(j)' => HasJob(j)
  <2>1. ASSUME cleanup' = cleanup PROVE <1>4!1 /\ <1>4!2
    BY <1>3, <2>1 DEF HasJob
  <2>2. ASSUME HasJob(i), cleanup' = [cleanup EXCEPT ![i] = NoJob] PROVE <1>4!1 /\ <1>4!2
    BY <1>2, <1>3, <2>2 DEF HasJob
  <2>3. ASSUME HasJob(i), cleanup' = [cleanup EXCEPT ![i] = [cleanup[i] EXCEPT !.token = 0, !.live = FALSE]]
        PROVE  <1>4!1 /\ <1>4!2
    <3>1. cleanup[i] \in Jobs
      BY <1>2, <1>3, <2>3 DEF HasJob
    <3>2. [cleanup[i] EXCEPT !.token = 0, !.live = FALSE] \in Jobs
      BY <3>1 DEF Jobs
    <3> QED
      BY <1>2, <1>3, <2>3, <3>2 DEF HasJob
  <2> QED
    BY <2>1, <2>2, <2>3 DEF EndCleanup
<1>5. RowStep
  BY <1>1, <1>4, RowsStay
<1> QED
  BY <1>1, <1>5, WorkerEnds

LEMMA AbandonUploadOK ==
  ASSUME IInv, NEW i \in Ids, AbandonUpload(i)
  PROVE  RowStep /\ IInv'
<1>1. /\ Exists(i) /\ source[i].status = "UPLOADING" /\ source' = [source EXCEPT ![i].status = "FAILED"]
      /\ UNCHANGED <<chunks, objects, cleanup, uploads, works>>
  BY DEF AbandonUpload
<1>2. source[i] \in Rows
  BY <1>1, RowKnown
<1>3. source[i].token \in Nat
  BY <1>2 DEF Rows
<1>4. [source[i] EXCEPT !.status = "FAILED"]
        = [source[i] EXCEPT !.status = "FAILED", !.token = source[i].token]
  BY <1>2 DEF Rows
<1> QED
  BY <1>1, <1>3, <1>4, RowFails, RowsMove

LEMMA GiveUpOK ==
  ASSUME IInv, NEW i \in Ids, GiveUp(i)
  PROVE  RowStep /\ IInv'
<1>1. /\ Exists(i) /\ source[i].status = "PROCESSING"
      /\ source' = [source EXCEPT ![i] = [source[i] EXCEPT !.status = "FAILED", !.token = 0]]
      /\ UNCHANGED <<chunks, objects, cleanup, uploads, works>>
  BY DEF GiveUp
<1> QED
  BY <1>1, RowFails, RowsMove

-----------------------------------------------------------------------------
(* Extraction *)

\* Only the lease of a row and what belongs to it change.
LEMMA RowLeased ==
  ASSUME IInv, NEW i \in Ids, Exists(i), ~ source[i].deleted,
         NEW new \in Rows, source' = [source EXCEPT ![i] = new],
         new.req = source[i].req, new.url = source[i].url, new.status = source[i].status,
         new.token = source[i].token, new.claims = source[i].claims,
         new.uploaded <=> source[i].uploaded, ~ new.deleted,
         UNCHANGED <<chunks, cleanup, objects>>
  PROVE  RowStep
<1>1. source[i] \in Rows /\ source[i].claims \in Nat
  BY RowKnown DEF Rows
<1>2. Moves(source[i], new)
  BY <1>1 DEF Moves
<1>3. /\ chunks[i] \in Contents \cup {"NONE"} /\ chunks' = [chunks EXCEPT ![i] = chunks[i]]
      /\ chunks[i] = IF new.status = "READY" THEN new.url ELSE "NONE"
      /\ source[i] # Gone
  BY RowKnown
<1>4. new.deleted => new.status = "DELETING" /\ ~ new.live
  OBVIOUS
<1>5. new.uploaded => i \in objects
  BY RowKnown
<1>6. KindOf[new.req] = "FILE" /\ new.status \in {"QUEUED", "PROCESSING", "READY", "OCR_REQUIRED"}
        => new.uploaded
  BY RowKnown
<1> QED
  BY <1>2, <1>3, <1>4, <1>5, <1>6, RowWritten

LEMMA ExpireSourceOK ==
  ASSUME IInv, NEW i \in Ids, ExpireSource(i)
  PROVE  RowStep /\ IInv'
<1> DEFINE new == [source[i] EXCEPT !.live = FALSE]
<1>1. /\ Exists(i) /\ source[i].live /\ source' = [source EXCEPT ![i] = new]
      /\ UNCHANGED <<chunks, objects, cleanup, uploads, works>>
  BY DEF ExpireSource
<1>2. source[i] \in Rows /\ ~ source[i].deleted
  BY <1>1, RowKnown
<1>3. new \in Rows
  BY <1>2 DEF Rows
<1>4. /\ new.req = source[i].req /\ new.url = source[i].url /\ new.status = source[i].status
      /\ new.token = source[i].token /\ new.claims = source[i].claims
  BY <1>2 DEF Rows
<1>5. (new.uploaded <=> source[i].uploaded) /\ ~ new.deleted
  BY <1>2 DEF Rows
<1> HIDE DEF new
<1>6. RowStep
  BY <1>1, <1>2, <1>3, <1>4, <1>5, RowLeased
<1> QED
  BY <1>1, <1>6, RowsMove

LEMMA ClaimSourceOK ==
  ASSUME IInv, NEW w \in Workers, ClaimSource(w)
  PROVE  RowStep /\ IInv'
<1>1. PICK i \in Ids : LET token == source[i].claims + 1 IN
        /\ Exists(i) /\ Claimable(source[i])
        /\ source' = [source EXCEPT ![i].status = "PROCESSING", ![i].token = token, ![i].live = TRUE,
                                    ![i].attempts = @ + 1, ![i].claims = token]
        /\ Goto(w, [Idle EXCEPT !.pc = "claimed", !.id = i, !.token = token])
  BY DEF ClaimSource
<1>2. UNCHANGED <<chunks, objects, cleanup, uploads>>
  BY DEF ClaimSource
<1> DEFINE token == source[i].claims + 1
           new == [source[i] EXCEPT !.status = "PROCESSING", !.token = token, !.live = TRUE,
                                    !.attempts = @ + 1, !.claims = token]
           work == [Idle EXCEPT !.pc = "claimed", !.id = i, !.token = token]
<1>3. source' = [source EXCEPT ![i] = new] /\ Goto(w, work)
  BY <1>1 DEF IInv, TypeOK
<1>4. source[i] \in Rows /\ ~ source[i].deleted /\ source[i].status \in {"QUEUED", "PROCESSING"}
  BY <1>1, RowKnown DEF Claimable
<1>5. token \in Nat /\ source[i].attempts + 1 \in Nat /\ "PROCESSING" \in Statuses
      /\ token > source[i].claims
  BY <1>4 DEF Rows, Statuses
<1>6. new \in Rows
  BY <1>4, <1>5 DEF Rows
<1>7. /\ new.req = source[i].req /\ new.claims = token /\ new.token = token
      /\ new.status = "PROCESSING" /\ ~ new.deleted
      /\ source[i].uploaded => new.uploaded
      /\ new.uploaded => source[i].uploaded
  BY <1>4, <1>5 DEF Rows
<1>8. /\ source[i].uploaded => i \in objects
      /\ KindOf[source[i].req] = "FILE" => source[i].uploaded
  BY <1>1, <1>4, RowKnown
<1>9. work \in Works /\ work.pc = "claimed" /\ work.id = i /\ work.token = token
  BY <1>5 DEF Works, Idle, Extracts, Contents
<1> HIDE DEF token, new, work
<1>10. new.claims >= source[i].claims /\ source[i].status # "READY"
  BY <1>4, <1>5, <1>7 DEF Rows
<1>11. (new.deleted => new.status = "DELETING" /\ ~ new.live) /\ new.status # "READY"
  BY <1>7
<1>12. RowStep
  BY <1>1, <1>2, <1>3, <1>4, <1>5, <1>6, <1>7, <1>8, <1>10, <1>11, RowRewritten
<1>13. works'[w] = work /\ source'[i] = new
  BY <1>3 DEF IInv, TypeOK, Goto
<1>14. WorkOK(w)'
  BY <1>5, <1>6, <1>7, <1>9, <1>13, RowShape DEF WorkOK, Removes
<1> QED
  BY <1>2, <1>3, <1>9, <1>12, <1>14, WorkerMoves

\* What a worker that extracts a source knows.
LEMMA ExtractorKnown ==
  ASSUME IInv, NEW w \in Workers, works[w].pc \in Extracts
  PROVE  /\ WorkOK(w) /\ works[w] \in Works /\ works[w].id \in Ids /\ source[works[w].id] # Unused
  BY DEF IInv, TypeOK, WorkOK, Extracts

LEMMA LoadOK ==
  ASSUME IInv, NEW w \in Workers, Load(w)
  PROVE  RowStep /\ IInv'
<1> DEFINE i == works[w].id
<1>1. works[w].pc = "claimed" /\ UNCHANGED <<source, chunks, objects, cleanup, uploads>>
  BY DEF Load
<1>2. RowStep
  BY <1>1, RowsStay DEF IInv, TypeOK, HasJob
<1>3. ASSUME ~ Holds(works[w]) PROVE RowStep /\ IInv'
  BY <1>1, <1>2, <1>3, WorkerEnds DEF Load
<1>4. ASSUME Holds(works[w]) PROVE RowStep /\ IInv'
  <2> DEFINE work == [works[w] EXCEPT !.pc = "extract", !.revision = source[i].revision,
                                      !.attempt = source[i].attempts, !.content = source[i].url]
  <2>1. Goto(w, work)
    BY <1>4 DEF Load
  <2>2. /\ WorkOK(w) /\ works[w] \in Works /\ i \in Ids /\ Exists(i)
    BY <1>1, <1>4, ExtractorKnown DEF Extracts, Holds
  <2>3. source[i] \in Rows
    BY <2>2, RowKnown
  <2>4. source[i].revision \in Nat /\ source[i].attempts \in Nat /\ source[i].url \in Contents
    BY <2>3 DEF Rows
  <2>5. /\ work \in Works /\ work.pc = "extract" /\ work.id = i /\ work.token = works[w].token
        /\ work.content = source[i].url
    BY <2>2, <2>4 DEF Works, Extracts
  <2>6. works[w].token <= source[i].claims
    BY <1>1, <2>2, <2>3 DEF WorkOK, Extracts
  <2> HIDE DEF work
  <2>7. works'[w] = work
    BY <2>1 DEF IInv, TypeOK, Goto
  <2>8. WorkOK(w)'
    BY <1>1, <2>2, <2>3, <2>5, <2>6, <2>7, RowShape DEF WorkOK, Removes
  <2> QED
    BY <1>1, <1>2, <2>1, <2>5, <2>8, WorkerMoves
<1> QED
  BY <1>3, <1>4

\* A worker that goes on from extracting.
LEMMA GoesOn ==
  ASSUME IInv, NEW w \in Workers, works[w].pc \in {"extract", "commit"},
         NEW pc \in {"commit", "error", "permanent", "ocr"}, Goto(w, [works[w] EXCEPT !.pc = pc]),
         UNCHANGED <<source, chunks, objects, cleanup, uploads>>
  PROVE  RowStep /\ IInv'
<1> DEFINE work == [works[w] EXCEPT !.pc = pc]
<1>1. WorkOK(w) /\ works[w] \in Works /\ works[w].id \in Ids /\ source[works[w].id] # Unused
  BY ExtractorKnown DEF Extracts
<1>2. /\ work \in Works /\ work.pc = pc /\ work.id = works[w].id /\ work.token = works[w].token
      /\ work.content = works[w].content
  BY <1>1 DEF Works, Extracts
<1> HIDE DEF work
<1>3. Goto(w, work)
  BY DEF work
<1>4. works'[w] = work
  BY <1>3 DEF IInv, TypeOK, Goto
<1>5. WorkOK(w)'
  BY <1>1, <1>2, <1>4 DEF WorkOK, Removes, Extracts
<1>6. RowStep
  BY RowsStay DEF IInv, TypeOK, HasJob
<1> QED
  BY <1>2, <1>3, <1>5, <1>6, WorkerMoves

LEMMA ExtractOK ==
  ASSUME IInv, NEW w \in Workers, Extract(w)
  PROVE  RowStep /\ IInv'
<1>1. works[w].pc = "extract" /\ UNCHANGED <<source, chunks, objects, cleanup, uploads>>
  BY DEF Extract
<1>2. ASSUME Goto(w, Idle) PROVE RowStep /\ IInv'
  <2>1. RowStep
    BY <1>1, RowsStay DEF IInv, TypeOK, HasJob
  <2> QED
    BY <1>1, <1>2, <2>1, WorkerEnds
<1>3. ASSUME NEW pc \in {"commit", "error", "permanent", "ocr"}, Goto(w, [works[w] EXCEPT !.pc = pc])
      PROVE  RowStep /\ IInv'
  BY <1>1, <1>3, GoesOn
<1> QED
  BY <1>2, <1>3 DEF Extract

LEMMA CommitFailsOK ==
  ASSUME IInv, NEW w \in Workers, CommitFails(w)
  PROVE  RowStep /\ IInv'
  BY GoesOn DEF CommitFails

\* The worker that commits has the url the row still has.
LEMMA CommitOK ==
  ASSUME IInv, NEW w \in Workers, Commit(w)
  PROVE  RowStep /\ IInv'
<1> DEFINE i == works[w].id
<1>1. /\ works[w].pc = "commit" /\ UNCHANGED <<objects, cleanup, uploads>> /\ Goto(w, Idle)
  BY DEF Commit
<1>2. ASSUME ~ IsCurrent(works[w]) PROVE RowStep
  <2>1. UNCHANGED <<source, chunks>>
    BY <1>2 DEF Commit
  <2> QED
    BY <1>1, <2>1, RowsStay DEF IInv, TypeOK, HasJob
<1>3. ASSUME IsCurrent(works[w]) PROVE RowStep
  <2> DEFINE new == [source[i] EXCEPT !.status = "READY", !.token = 0, !.live = FALSE]
  <2>1. source' = [source EXCEPT ![i] = new] /\ chunks' = [chunks EXCEPT ![i] = works[w].content]
    BY <1>3 DEF Commit
  <2>2. /\ WorkOK(w) /\ i \in Ids /\ Exists(i) /\ source[i].status = "PROCESSING"
        /\ source[i].token = works[w].token /\ ~ source[i].deleted
    BY <1>1, <1>3, ExtractorKnown DEF Extracts, IsCurrent, Holds
  <2>3. /\ source[i] \in Rows /\ (source[i].uploaded => i \in objects) /\ source[i] # Gone
        /\ KindOf[source[i].req] = "FILE" => source[i].uploaded
    BY <2>2, RowKnown
  <2>4. source[i].claims \in Nat /\ source[i].url \in Contents /\ "READY" \in Statuses
    BY <2>3 DEF Rows, Statuses
  <2>5. works[w].content = source[i].url
    BY <1>1, <2>2, <2>3 DEF WorkOK
  <2>6. new \in Rows
    BY <2>3, <2>4 DEF Rows
  <2>7. /\ new.req = source[i].req /\ new.claims = source[i].claims /\ new.url = source[i].url
        /\ new.status = "READY" /\ ~ new.deleted
        /\ source[i].uploaded => new.uploaded
        /\ new.uploaded => source[i].uploaded
    BY <2>2, <2>3 DEF Rows
  <2> HIDE DEF new
  <2>8. Moves(source[i], new)
    BY <2>2, <2>3, <2>4, <2>6, <2>7 DEF Moves
  <2>9. new.deleted => new.status = "DELETING" /\ ~ new.live
    BY <2>7
  <2> QED
    BY <1>1, <2>1, <2>2, <2>3, <2>4, <2>5, <2>6, <2>7, <2>8, <2>9, RowWritten
<1>4. RowStep
  BY <1>2, <1>3
<1> QED
  BY <1>1, <1>4, WorkerEnds

LEMMA EndInErrorOK ==
  ASSUME IInv, NEW w \in Workers, EndInError(w)
  PROVE  RowStep /\ IInv'
<1> DEFINE i == works[w].id
           status == StatusAfter(works[w])
<1>1. /\ works[w].pc \in {"error", "permanent", "ocr"} /\ Goto(w, Idle)
      /\ UNCHANGED <<chunks, objects, cleanup, uploads>>
  BY DEF EndInError
<1>2. ASSUME ~ IsCurrent(works[w]) PROVE RowStep
  <2>1. UNCHANGED source
    BY <1>2 DEF EndInError
  <2> QED
    BY <1>1, <2>1, RowsStay DEF IInv, TypeOK, HasJob
<1>3. ASSUME IsCurrent(works[w]) PROVE RowStep
  <2> DEFINE new == [source[i] EXCEPT !.status = status, !.token = 0, !.live = FALSE]
  <2>1. source' = [source EXCEPT ![i] = new]
    BY <1>3 DEF EndInError
  <2>2. /\ i \in Ids /\ Exists(i) /\ source[i].status = "PROCESSING" /\ ~ source[i].deleted
    BY <1>1, <1>3, ExtractorKnown DEF Extracts, IsCurrent, Holds
  <2>3. /\ source[i] \in Rows /\ (source[i].uploaded => i \in objects)
        /\ KindOf[source[i].req] = "FILE" => source[i].uploaded
    BY <2>2, RowKnown
  <2>4. source[i].claims \in Nat
    BY <2>3 DEF Rows
  <2>5. status \in {"OCR_REQUIRED", "QUEUED", "FAILED"}
    BY DEF StatusAfter
  <2> HIDE DEF status
  <2>6. status \in Statuses
    BY <2>5 DEF Statuses
  <2>7. new \in Rows
    BY <2>3, <2>6 DEF Rows
  <2>8. /\ new.req = source[i].req /\ new.claims >= source[i].claims
        /\ new.status = status /\ ~ new.deleted
        /\ source[i].uploaded => new.uploaded
        /\ new.uploaded => source[i].uploaded
    BY <2>2, <2>3, <2>4 DEF Rows
  <2> HIDE DEF new
  <2>9. (new.deleted => new.status = "DELETING" /\ ~ new.live) /\ new.status \notin {"PROCESSING", "READY"}
    BY <2>5, <2>8
  <2>10. (new.uploaded => i \in objects) /\ (KindOf[new.req] = "FILE" => new.uploaded)
    BY <2>3, <2>8
  <2> QED
    BY <1>1, <2>1, <2>2, <2>7, <2>8, <2>9, <2>10, RowRewritten
<1>4. RowStep
  BY <1>2, <1>3
<1> QED
  BY <1>1, <1>4, WorkerEnds

LEMMA CrashOK ==
  ASSUME IInv, NEW w \in Workers, Crash(w)
  PROVE  RowStep /\ IInv'
<1>1. Goto(w, Idle) /\ UNCHANGED <<source, chunks, objects, cleanup, uploads>>
  BY DEF Crash
<1>2. RowStep
  BY <1>1, RowsStay DEF IInv, TypeOK, HasJob
<1> QED
  BY <1>1, <1>2, WorkerEnds

-----------------------------------------------------------------------------
(* The invariant and the theorems *)

LEMMA InitOK == Init => IInv
<1> SUFFICES ASSUME Init PROVE IInv
  OBVIOUS
<1>1. Idle \in Works /\ Idle.pc = "idle"
  BY DEF Idle, Works
<1>2. TypeOK
  BY <1>1 DEF Init, TypeOK
<1>3. \A i \in Ids : RowOK(i)
  BY RowShape DEF Init, RowOK, HasJob, Exists, Unused, Statuses
<1>4. \A w \in Workers : WorkOK(w)
  BY <1>1 DEF Init, WorkOK
<1> QED
  BY <1>2, <1>3, <1>4 DEF Init, IInv

LEMMA StepOK == IInv /\ [Next]_vars => RowStep /\ IInv'
<1> SUFFICES ASSUME IInv, [Next]_vars PROVE RowStep /\ IInv'
  OBVIOUS
<1>1. CASE UNCHANGED vars
  BY <1>1 DEF vars, IInv, TypeOK, RowOK, WorkOK, CallOK, Exists, IsFile, HasJob, RowStep, Moves
<1>2. ASSUME NEW r \in Requests, BeginUpload(r) \/ \E url \in Urls : CreateLink(r, url) PROVE RowStep /\ IInv'
  BY <1>2, BeginUploadOK, CreateLinkOK
<1>3. ASSUME NEW u \in uploads, UploadStep(u) \/ LoseUpload(u) PROVE RowStep /\ IInv'
  BY <1>3, StoreOK, FinishUploadOK, FailUploadOK, LoseUploadOK DEF UploadStep
<1>4. ASSUME NEW i \in Ids, TryAgain(i) \/ Remove(i) \/ \E url \in Contents : Edit(i, url) PROVE RowStep /\ IInv'
  BY <1>4, TryAgainOK, RemoveOK, EditOK
<1>5. ASSUME NEW i \in Ids, Cascade(i) \/ EndGrace(i) \/ Sweep(i) PROVE RowStep /\ IInv'
  BY <1>5, DeleteRowOK, EndGraceOK, AbandonUploadOK, GiveUpOK DEF Cascade, Sweep, Purge
<1>6. ASSUME NEW i \in Ids, ExpireSource(i) \/ ExpireCleanup(i) PROVE RowStep /\ IInv'
  BY <1>6, ExpireSourceOK, ExpireCleanupOK
<1>7. ASSUME NEW w \in Workers, Step(w) PROVE RowStep /\ IInv'
  BY <1>7, RemoveObjectOK, EndCleanupOK, LoadOK, ExtractOK, CommitOK, EndInErrorOK DEF Step
<1>8. ASSUME NEW w \in Workers, ClaimCleanup(w) \/ ClaimSource(w) \/ CommitFails(w) \/ Crash(w) PROVE RowStep /\ IInv'
  BY <1>8, ClaimCleanupOK, ClaimSourceOK, CommitFailsOK, CrashOK
<1> QED
  BY <1>1, <1>2, <1>3, <1>4, <1>5, <1>6, <1>7, <1>8 DEF Next

\* Every row, cleanup, upload and pass has its shape.
THEOREM TypeCorrect == Spec => []TypeOK
<1>1. IInv => TypeOK
  BY DEF IInv
<1> QED
  BY <1>1, InitOK, StepOK, PTL DEF Spec

\* The text of a source that retrieval finds was extracted from what the source is now, in
\* every order of the steps of its workers, uploads and edits (ai-source-worker.ts:173-206).
THEOREM ReadyIsCurrentHolds == Spec => []ReadyIsCurrent
<1>1. IInv => ReadyIsCurrent
  BY DEF IInv, RowOK, ReadyIsCurrent
<1> QED
  BY <1>1, InitOK, StepOK, PTL DEF Spec

\* A source whose upload is recorded has its file, and no file is read before it is recorded
\* (ai-sources.ts:213-235).
THEOREM OriginalKeptHolds == Spec => []OriginalKept
<1>1. IInv => OriginalKept
  BY DEF IInv, RowOK, OriginalKept
<1> QED
  BY <1>1, InitOK, StepOK, PTL DEF Spec

\* A removed source is never written again, and a deleted row never returns
\* (ai-sources.ts:316-355, ai-source-worker.ts:27-29).
THEOREM RemovedStaysRemovedHolds == Spec => RemovedStaysRemoved
<1> DEFINE Inert(i) ==
      /\ Exists(i) /\ source[i].deleted => source'[i] \in {source[i], Gone}
      /\ source[i] = Gone => source'[i] = Gone
<1>1. IInv /\ [Next]_vars => [\A i \in Ids : Inert(i)]_vars
  <2> SUFFICES ASSUME IInv, [Next]_vars, NEW i \in Ids PROVE Inert(i)
    OBVIOUS
  <2>1. Moves(source[i], source'[i])
    BY StepOK DEF RowStep
  <2>2. Exists(i) <=> source[i] \in Rows
    BY ExistsIsRow DEF IInv
  <2> QED
    BY <2>1, <2>2, RowShape DEF Moves
<1> QED
  BY <1>1, InitOK, StepOK, PTL DEF Spec, RemovedStaysRemoved
=============================================================================
