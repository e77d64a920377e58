----------------------------- MODULE Ingestion -----------------------------
(***************************************************************************)
(* Human-in-the-loop document ingestion: IngestionEngine                   *)
(* (voice_agent/kb/ingestion/engine.py) behind the review routes           *)
(* (kb/review.py), over the SQLite store (store.py) and the Qdrant         *)
(* collection (ingestion/qdrant.py).                                       *)
(*                                                                         *)
(* An upload runs as a background task and ends by writing a batch of      *)
(* pending chunks; a resume request applies the reviewer's decisions and   *)
(* indexes what is kept. Tasks interleave at every await: each store call  *)
(* runs in a thread and commits on its own, each call to Qdrant or to the  *)
(* model server may fail before or after it took effect. A crash ends all  *)
(* tasks; the store and Qdrant survive it.                                 *)
(*                                                                         *)
(* A batch is named by its upload. Texts are reduced to the original chunk *)
(* and the reviewer's edit, and all batches go to one collection.          *)
(***************************************************************************)
EXTENDS Naturals

CONSTANTS
  Uploads,    \* POST /upload calls, and the batches they write
  Resumes,    \* POST /{batch_id}/resume calls
  Chunks,     \* the chunks of a batch
  Decisions   \* what the reviewer may say of a chunk

ASSUME DecisionsKnown ==
  Decisions \subseteq {"none", "approve", "reject", "edit", "shortEdit", "other"}

VARIABLES
  upload,      \* where each _run_ingest task is, or how it ended
  pending,     \* pending_review_chunks: the batches awaiting review
  req,         \* where each resume request is, or how it was answered
  batch,       \* the batch a request resumes
  decision,    \* the decisions it carries
  collection,  \* the Qdrant collection exists
  indexes,     \* its payload indexes
  points,      \* the text indexed for each chunk, or "absent"
  audit,       \* rows of audit_log
  taken,       \* requests that removed their batch from review (history)
  upserted     \* requests whose points reached Qdrant (history)

storeVars == <<pending, audit>>
qdrantVars == <<collection, indexes, points>>
callVars == <<batch, decision>>
historyVars == <<taken, upserted>>
vars == <<upload, req, callVars, storeVars, qdrantVars, historyVars>>

IndexFields == {"document_type", "categories"}
Texts == {"absent", "original", "edited"}

IngestRunning == {"extract", "auditPdf", "summarize", "auditLlm", "write"}
IngestEnded == {"badRequest", "pending", "failed", "raised", "lost"}

\* Calls of a finalize that leave the process.
HttpSteps == {"exists", "create", "indexType", "indexCategories", "embed", "upsert"}
ResumeRunning == {"read", "delete", "auditRejected", "auditSuccess"} \cup HttpSteps
ResumeEnded == {"badRequest", "notFound", "rejected", "ingested", "failed", "raised", "lost"}

Init ==
  /\ upload = [u \in Uploads |-> "idle"]
  /\ pending = {}
  /\ req = [r \in Resumes |-> "idle"]
  /\ batch \in [Resumes -> Uploads]
  /\ decision \in [Resumes -> [Chunks -> Decisions]]
  /\ collection \in BOOLEAN
  /\ indexes = IF collection THEN IndexFields ELSE {}
  /\ points = [u \in Uploads |-> [c \in Chunks |-> "absent"]]
  /\ audit = {}
  /\ taken = {}
  /\ upserted = {}

-----------------------------------------------------------------------------
(* apply_decisions: a chunk without a decision, or with an unknown one, is *)
(* approved; an edit that is too short is a rejection.                     *)

Kept(r) == {c \in Chunks : decision[r][c] \notin {"reject", "shortEdit"}}

KeptText(r, c) == IF decision[r][c] = "edit" THEN "edited" ELSE "original"

-----------------------------------------------------------------------------
(* Phase one: upload, _run_ingest.                                         *)

IngestGoto(u, to) == upload' = [upload EXCEPT ![u] = to]

\* Variant, not in Next: every row comes with a success row.
AddRowTwice(kind, who) == audit' = audit \cup {<<kind, who>>, <<"success", who>>}

AddRow(kind, who) == audit' = audit \cup {<<kind, who>>}

\* The route answers 202 and starts the task, or refuses an empty file.
Upload(u) ==
  /\ upload[u] = "idle"
  /\ \E to \in {"extract", "badRequest"} : IngestGoto(u, to)
  /\ UNCHANGED <<req, callVars, storeVars, qdrantVars, historyVars>>

\* extract_pdf_text and clean_pdf_text, in a thread.
Extract(u) ==
  /\ upload[u] = "extract"
  /\ \E to \in {"summarize", "auditPdf"} : IngestGoto(u, to)
  /\ UNCHANGED <<req, callVars, storeVars, qdrantVars, historyVars>>

AuditPdfFailed(u) ==
  /\ upload[u] = "auditPdf"
  /\ AddRow("pdfFailed", u)
  /\ IngestGoto(u, "failed")
  /\ UNCHANGED <<req, callVars, pending, qdrantVars, historyVars>>

\* The summary call, then chunk_text and complete_metadata, which raise when
\* cleaning has left no text: nothing catches that.
Summarize(u) ==
  /\ upload[u] = "summarize"
  /\ \E to \in {"write", "auditLlm", "raised"} : IngestGoto(u, to)
  /\ UNCHANGED <<req, callVars, storeVars, qdrantVars, historyVars>>

AuditLlmError(u) ==
  /\ upload[u] = "auditLlm"
  /\ AddRow("llmError", u)
  /\ IngestGoto(u, "failed")
  /\ UNCHANGED <<req, callVars, pending, qdrantVars, historyVars>>

\* write_pending_batch: the batch becomes visible to reviewers.
WritePendingBatch(u) ==
  /\ upload[u] = "write"
  /\ pending' = pending \cup {u}
  /\ IngestGoto(u, "pending")
  /\ UNCHANGED <<req, callVars, audit, qdrantVars, historyVars>>

Ingest(u) ==
  \/ Extract(u) \/ AuditPdfFailed(u) \/ Summarize(u) \/ AuditLlmError(u)
  \/ WritePendingBatch(u)

-----------------------------------------------------------------------------
(* Phase two: resume.                                                      *)

Goto(r, to) == req' = [req EXCEPT ![r] = to]

\* A body without a decisions array is refused.
Resume(r) ==
  /\ req[r] = "idle"
  /\ \E to \in {"read", "badRequest"} : Goto(r, to)
  /\ UNCHANGED <<upload, callVars, storeVars, qdrantVars, historyVars>>

\* get_batch_chunks: 404 unless the batch is pending.
GetBatchChunks(r) ==
  /\ req[r] = "read"
  /\ Goto(r, IF batch[r] \in pending THEN "delete" ELSE "notFound")
  /\ UNCHANGED <<upload, callVars, storeVars, qdrantVars, historyVars>>

\* Variant, not in Next: leave the rows until the finalize has succeeded.
DeleteBatchLater(r) ==
  /\ req[r] = "delete"
  /\ taken' = taken \cup {r}
  /\ Goto(r, IF Kept(r) = {} THEN "auditRejected" ELSE "exists")
  /\ UNCHANGED <<upload, callVars, storeVars, qdrantVars, upserted>>

\* delete_batch, whatever becomes of the rest.
DeleteBatch(r) ==
  /\ req[r] = "delete"
  /\ pending' = pending \ {batch[r]}
  /\ taken' = taken \cup {r}
  /\ Goto(r, IF Kept(r) = {} THEN "auditRejected" ELSE "exists")
  /\ UNCHANGED <<upload, callVars, audit, qdrantVars, upserted>>

AuditAllRejected(r) ==
  /\ req[r] = "auditRejected"
  /\ AddRow("allRejected", r)
  /\ Goto(r, "rejected")
  /\ UNCHANGED <<upload, callVars, pending, qdrantVars, historyVars>>

\* ensure_collection: look, create, then one index after the other.
CheckCollection(r) ==
  /\ req[r] = "exists"
  /\ Goto(r, IF collection THEN "embed" ELSE "create")
  /\ UNCHANGED <<upload, callVars, storeVars, qdrantVars, historyVars>>

\* Qdrant refuses to create a collection that exists by now.
CreateCollection(r) ==
  /\ req[r] = "create"
  /\ collection' = TRUE
  /\ \E to \in {"indexType", "failed"} : Goto(r, IF collection THEN "failed" ELSE to)
  /\ UNCHANGED <<upload, callVars, storeVars, indexes, points, historyVars>>

CreateIndex(r) ==
  /\ \/ /\ req[r] = "indexType"
        /\ indexes' = indexes \cup {"document_type"}
        /\ \E to \in {"indexCategories", "failed"} : Goto(r, to)
     \/ /\ req[r] = "indexCategories"
        /\ indexes' = indexes \cup {"categories"}
        /\ \E to \in {"embed", "failed"} : Goto(r, to)
  /\ UNCHANGED <<upload, callVars, storeVars, collection, points, historyVars>>

\* embed_texts and build_points, which raises on a wrong number of embeddings.
EmbedTexts(r) ==
  /\ req[r] = "embed"
  /\ \E to \in {"upsert", "raised"} : Goto(r, to)
  /\ UNCHANGED <<upload, callVars, storeVars, qdrantVars, historyVars>>

\* Variant, not in Next: send every chunk of the batch.
UpsertPointsAll(r) ==
  /\ req[r] = "upsert"
  /\ points' = [points EXCEPT ![batch[r]] = [c \in Chunks |-> KeptText(r, c)]]
  /\ upserted' = upserted \cup {r}
  /\ \E to \in {"auditSuccess", "failed"} : Goto(r, to)
  /\ UNCHANGED <<upload, callVars, storeVars, collection, indexes, taken>>

\* Variant, not in Next: go on without looking at the response.
UpsertPointsUnchecked(r) ==
  /\ req[r] = "upsert"
  /\ Goto(r, "auditSuccess")
  /\ \/ /\ points' = [points EXCEPT ![batch[r]] =
                        [c \in Chunks |-> IF c \in Kept(r) THEN KeptText(r, c) ELSE @[c]]]
        /\ upserted' = upserted \cup {r}
     \/ UNCHANGED <<points, upserted>>
  /\ UNCHANGED <<upload, callVars, storeVars, collection, indexes, taken>>

\* upsert_points: a point replaces the one with its id.
UpsertPoints(r) ==
  /\ req[r] = "upsert"
  /\ points' = [points EXCEPT ![batch[r]] =
                  [c \in Chunks |-> IF c \in Kept(r) THEN KeptText(r, c) ELSE @[c]]]
  /\ upserted' = upserted \cup {r}
  /\ \E to \in {"auditSuccess", "failed"} : Goto(r, to)
  /\ UNCHANGED <<upload, callVars, storeVars, collection, indexes, taken>>

\* A call that took no effect: unreachable, refused or timed out. The route
\* answers 502.
HttpFails(r) ==
  /\ req[r] \in HttpSteps
  /\ Goto(r, "failed")
  /\ UNCHANGED <<upload, callVars, storeVars, qdrantVars, historyVars>>

AuditSuccess(r) ==
  /\ req[r] = "auditSuccess"
  /\ AddRow("success", r)
  /\ Goto(r, "ingested")
  /\ UNCHANGED <<upload, callVars, pending, qdrantVars, historyVars>>

Finalize(r) ==
  \/ GetBatchChunks(r) \/ DeleteBatch(r) \/ AuditAllRejected(r)
  \/ CheckCollection(r) \/ CreateCollection(r) \/ CreateIndex(r)
  \/ EmbedTexts(r) \/ UpsertPoints(r) \/ HttpFails(r) \/ AuditSuccess(r)

-----------------------------------------------------------------------------
\* Variant, not in Next: a store that does not survive the process.
CrashForgets ==
  /\ upload' = [u \in Uploads |-> IF upload[u] \in IngestRunning THEN "lost" ELSE upload[u]]
  /\ req' = [r \in Resumes |-> IF req[r] \in ResumeRunning THEN "lost" ELSE req[r]]
  /\ pending' = {}
  /\ UNCHANGED <<callVars, audit, qdrantVars, historyVars>>

\* The process dies and is restarted.
Crash ==
  /\ \/ \E u \in Uploads : upload[u] \in IngestRunning
     \/ \E r \in Resumes : req[r] \in ResumeRunning
  /\ upload' = [u \in Uploads |-> IF upload[u] \in IngestRunning THEN "lost" ELSE upload[u]]
  /\ req' = [r \in Resumes |-> IF req[r] \in ResumeRunning THEN "lost" ELSE req[r]]
  /\ UNCHANGED <<callVars, storeVars, qdrantVars, historyVars>>

Next ==
  \/ \E u \in Uploads : Upload(u) \/ Ingest(u)
  \/ \E r \in Resumes : Resume(r) \/ Finalize(r)
  \/ Crash

Spec == Init /\ [][Next]_vars

-----------------------------------------------------------------------------
(* Safety.                                                                 *)

Rows == ({"pdfFailed", "llmError"} \X Uploads) \cup ({"allRejected", "success"} \X Resumes)

\* Every variable has its type: task stages, store rows, collection and history.
TypeOK ==
  /\ upload \in [Uploads -> {"idle"} \cup IngestRunning \cup IngestEnded]
  /\ pending \subseteq Uploads
  /\ req \in [Resumes -> {"idle"} \cup ResumeRunning \cup ResumeEnded]
  /\ batch \in [Resumes -> Uploads]
  /\ decision \in [Resumes -> [Chunks -> Decisions]]
  /\ collection \in BOOLEAN
  /\ indexes \subseteq IndexFields
  /\ points \in [Uploads -> [Chunks -> Texts]]
  /\ audit \subseteq Rows
  /\ taken \subseteq Resumes
  /\ upserted \subseteq Resumes

\* A batch that reached the review queue stays there, across restarts, until a
\* resume request takes it out: nothing else loses it.
BatchAccounted ==
  \A u \in Uploads :
    upload[u] = "pending" => u \in pending \/ \E r \in taken : batch[r] = u

\* A batch that a request has started to finalize is never offered for review
\* again, however the finalize ends (engine.py:197-199: no zombie batch).
NoZombieBatch == \A r \in taken : batch[r] \notin pending

\* A batch is finalized by one request: a second one finds it unknown (resume,
\* engine.py:186-188, the one-shot semantics of a resume URL).
ResumedOnce == \A q, r \in taken : batch[q] = batch[r] => q = r

\* Whatever is indexed was kept by a reviewer, with the text the reviewer
\* approved: a rejected chunk, a too short edit or a batch nobody reviewed never
\* reaches the collection the helmsman answers from.
IndexedWasReviewed ==
  \A u \in Uploads : \A c \in Chunks :
    points[u][c] # "absent" =>
      \E r \in upserted : batch[r] = u /\ c \in Kept(r) /\ points[u][c] = KeptText(r, c)

\* The audit log tells the truth about an ingestion: behind a success row, every
\* chunk the reviewer kept is in the index; behind an all-rejected row the
\* request indexed nothing.
AuditIsTrue ==
  \A r \in Resumes :
    /\ <<"success", r>> \in audit =>
         r \in upserted /\ \A c \in Kept(r) : points[batch[r]][c] # "absent"
    /\ <<"allRejected", r>> \in audit => r \notin upserted

-----------------------------------------------------------------------------
(* The inductive invariant behind the safety properties.                   *)

\* A batch is offered for review only by the task that wrote it, once.
PendingWasWritten == \A u \in pending : upload[u] = "pending"

\* A request goes on to finalize only a batch that was written.
TakenWasWritten ==
  \A r \in Resumes : r \in taken \/ req[r] = "delete" => upload[batch[r]] = "pending"

\* How far a request got, and what it has done by then.
RequestStage ==
  \A r \in Resumes :
    /\ req[r] \in {"auditSuccess", "ingested"} => r \in upserted
    /\ req[r] \in {"auditRejected", "rejected"} => Kept(r) = {}
    /\ r \in upserted => Kept(r) # {}
    /\ req[r] \in HttpSteps => Kept(r) # {}

\* What a request has upserted stays indexed.
UpsertedIsIndexed ==
  \A r \in upserted : \A c \in Kept(r) : points[batch[r]][c] # "absent"

\* Audit rows are written by requests that got there.
RowsWereEarned ==
  \A r \in Resumes :
    /\ <<"success", r>> \in audit => r \in upserted
    /\ <<"allRejected", r>> \in audit => Kept(r) = {}

IInv ==
  /\ TypeOK
  /\ BatchAccounted
  /\ NoZombieBatch
  /\ IndexedWasReviewed
  /\ PendingWasWritten
  /\ TakenWasWritten
  /\ RequestStage
  /\ UpsertedIsIndexed
  /\ RowsWereEarned
=============================================================================
