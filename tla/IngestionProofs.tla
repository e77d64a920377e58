-------------------------- MODULE IngestionProofs --------------------------
(***************************************************************************)
(* Proofs about Ingestion, for every set of uploads, requests and chunks.  *)
(*                                                                         *)
(* IInv is the inductive invariant. BatchAccounted needs that only written *)
(* batches are offered for review (PendingWasWritten), NoZombieBatch that  *)
(* a taken batch was written before and is never written again             *)
(* (TakenWasWritten), and AuditIsTrue that a request reaches its audit row *)
(* only through its upsert (RequestStage), whose points no other request   *)
(* removes (UpsertedIsIndexed).                                            *)
(***************************************************************************)
EXTENDS Ingestion, TLAPS

USE DecisionsKnown
USE DEF IndexFields, Texts, Rows, IngestRunning, IngestEnded, HttpSteps, ResumeRunning, ResumeEnded,
        storeVars, qdrantVars, callVars, historyVars

\* The reading of a decision does not depend on the rest of the state.
LEMMA KeptStable ==
  ASSUME decision' = decision
  PROVE  /\ \A r \in Resumes : Kept(r)' = Kept(r)
         /\ \A r \in Resumes, c \in Chunks : KeptText(r, c)' = KeptText(r, c)
BY DEF Kept, KeptText

\* An upload's steps: they write audit rows of their own and, last, the batch.
LEMMA UploadStep ==
  ASSUME IInv, NEW u \in Uploads, Upload(u) \/ Ingest(u)
  PROVE  IInv'
<1> USE DEF IngestGoto, AddRow, IInv
<1>0. UNCHANGED <<req, callVars, qdrantVars, historyVars>>
  BY DEF Upload, Ingest, Extract, AuditPdfFailed, Summarize, AuditLlmError, WritePendingBatch
<1>1. TypeOK'
  <2>1. upload' \in [Uploads -> {"idle"} \cup IngestRunning \cup IngestEnded]
    BY ZenonT(60) DEF Upload, Ingest, Extract, AuditPdfFailed, Summarize, AuditLlmError,
           WritePendingBatch, TypeOK
  <2>2. pending' \subseteq Uploads /\ audit' \subseteq Rows
    BY DEF Upload, Ingest, Extract, AuditPdfFailed, Summarize, AuditLlmError,
           WritePendingBatch, TypeOK
  <2>3. collection' \in BOOLEAN
    BY <1>0 DEF TypeOK
  <2> QED
    BY <1>0, <2>1, <2>2, <2>3 DEF TypeOK
<1>2. BatchAccounted' /\ NoZombieBatch' /\ PendingWasWritten' /\ TakenWasWritten'
  BY DEF Upload, Ingest, Extract, AuditPdfFailed, Summarize, AuditLlmError,
         WritePendingBatch, TypeOK, BatchAccounted, NoZombieBatch, PendingWasWritten,
         TakenWasWritten
<1>3. IndexedWasReviewed' /\ UpsertedIsIndexed'
  BY <1>0, KeptStable DEF IndexedWasReviewed, UpsertedIsIndexed, TypeOK
<1>4. RequestStage'
  BY <1>0, KeptStable DEF RequestStage, TypeOK
<1>5. RowsWereEarned'
  <2>1. \A r \in Resumes, kind \in {"success", "allRejected"} :
          <<kind, r>> \in audit' => <<kind, r>> \in audit
    BY DEF Upload, Ingest, Extract, AuditPdfFailed, Summarize, AuditLlmError,
           WritePendingBatch
  <2> QED
    BY <1>0, <2>1, KeptStable DEF RowsWereEarned
<1> QED
  BY <1>1, <1>2, <1>3, <1>4, <1>5

\* The upsert: what it writes was kept, and what others wrote stays.
LEMMA UpsertStep ==
  ASSUME IInv, NEW r \in Resumes, UpsertPoints(r)
  PROVE  IInv'
<1> USE DEF Goto, IInv, UpsertPoints
<1>1. \A q \in Resumes : Kept(q)' = Kept(q) /\ Kept(q) \subseteq Chunks
  BY KeptStable DEF Kept
<1>2. \A q \in Resumes, c \in Chunks :
        KeptText(q, c)' = KeptText(q, c) /\ KeptText(q, c) \in {"original", "edited"}
  BY KeptStable DEF KeptText
<1>3. batch[r] \in Uploads /\ points \in [Uploads -> [Chunks -> Texts]]
  BY DEF TypeOK
<1>4. \A u \in Uploads, c \in Chunks :
        points'[u][c] = IF u = batch[r] /\ c \in Kept(r) THEN KeptText(r, c) ELSE points[u][c]
  BY <1>3
<1>5. points' \in [Uploads -> [Chunks -> Texts]]
  BY <1>2, <1>3
<1>6. TypeOK'
  <2>1. collection' \in BOOLEAN
    BY DEF TypeOK
  <2>2. req' \in [Resumes -> {"idle"} \cup ResumeRunning \cup ResumeEnded]
    BY DEF TypeOK
  <2> QED
    BY <1>5, <2>1, <2>2 DEF TypeOK
<1>7. BatchAccounted' /\ NoZombieBatch' /\ PendingWasWritten' /\ TakenWasWritten'
  BY DEF TypeOK, BatchAccounted, NoZombieBatch, PendingWasWritten, TakenWasWritten
<1>8. IndexedWasReviewed'
  <2> SUFFICES ASSUME NEW u \in Uploads, NEW c \in Chunks, points'[u][c] # "absent"
               PROVE  \E q \in upserted' : /\ batch'[q] = u /\ c \in Kept(q)'
                                           /\ points'[u][c] = KeptText(q, c)'
    BY DEF IndexedWasReviewed
  <2>1. CASE u = batch[r] /\ c \in Kept(r)
    BY <1>1, <1>2, <1>4, <2>1
  <2>2. CASE ~(u = batch[r] /\ c \in Kept(r))
    <3>1. PICK q \in upserted :
            batch[q] = u /\ c \in Kept(q) /\ points[u][c] = KeptText(q, c)
      BY <1>4, <2>2 DEF IndexedWasReviewed
    <3> QED
      BY <1>1, <1>2, <1>4, <2>2, <3>1 DEF TypeOK
  <2> QED
    BY <2>1, <2>2
<1>9. UpsertedIsIndexed'
  BY <1>1, <1>2, <1>3, <1>4, SMTT(60) DEF UpsertedIsIndexed, TypeOK
<1>10. RequestStage'
  BY <1>1 DEF RequestStage, TypeOK
<1>11. RowsWereEarned'
  BY <1>1 DEF RowsWereEarned, TypeOK
<1> QED
  BY <1>6, <1>7, <1>8, <1>9, <1>10, <1>11

\* The other steps of a request.
LEMMA ResumeStep ==
  ASSUME IInv, NEW r \in Resumes, Resume(r) \/ Finalize(r)
  PROVE  IInv'
<1> USE DEF Goto, AddRow, IInv
<1>1. CASE UpsertPoints(r)
  BY <1>1, UpsertStep
<1>2. CASE DeleteBatch(r)
  <2>1. \A q \in Resumes : Kept(q)' = Kept(q)
    BY <1>2, KeptStable DEF DeleteBatch
  <2>2. TypeOK' /\ BatchAccounted' /\ NoZombieBatch' /\ PendingWasWritten' /\ TakenWasWritten'
    BY <1>2 DEF DeleteBatch, TypeOK, BatchAccounted, NoZombieBatch, PendingWasWritten,
           TakenWasWritten
  <2>3. IndexedWasReviewed' /\ UpsertedIsIndexed'
    BY <1>2, <2>1, KeptStable DEF DeleteBatch, IndexedWasReviewed, UpsertedIsIndexed, TypeOK
  <2>4. RequestStage' /\ RowsWereEarned'
    BY <1>2, <2>1 DEF DeleteBatch, RequestStage, RowsWereEarned, TypeOK
  <2> QED
    BY <2>2, <2>3, <2>4
<1>3. CASE AuditAllRejected(r) \/ AuditSuccess(r)
  <2>1. \A q \in Resumes : Kept(q)' = Kept(q)
    BY <1>3, KeptStable DEF AuditAllRejected, AuditSuccess
  <2>2. TypeOK'
    <3>1. collection' \in BOOLEAN
      BY <1>3 DEF AuditAllRejected, AuditSuccess, TypeOK
    <3>2. audit' \subseteq Rows
      BY <1>3 DEF AuditAllRejected, AuditSuccess, TypeOK
    <3>3. req' \in [Resumes -> {"idle"} \cup ResumeRunning \cup ResumeEnded]
      BY <1>3, SMTT(60) DEF AuditAllRejected, AuditSuccess, TypeOK
    <3> QED
      BY <1>3, <3>1, <3>2, <3>3 DEF AuditAllRejected, AuditSuccess, TypeOK
  <2>3. BatchAccounted' /\ NoZombieBatch' /\ PendingWasWritten' /\ TakenWasWritten'
    BY <1>3 DEF AuditAllRejected, AuditSuccess, TypeOK, BatchAccounted, NoZombieBatch,
           PendingWasWritten, TakenWasWritten
  <2>4. IndexedWasReviewed' /\ UpsertedIsIndexed'
    BY <1>3, <2>1, KeptStable DEF AuditAllRejected, AuditSuccess, IndexedWasReviewed,
           UpsertedIsIndexed, TypeOK
  <2>5. RequestStage' /\ RowsWereEarned'
    BY <1>3, <2>1, ZenonT(60) DEF AuditAllRejected, AuditSuccess, RequestStage,
           RowsWereEarned, TypeOK
  <2> QED
    BY <2>2, <2>3, <2>4, <2>5
<1>4. CASE \/ Resume(r) \/ GetBatchChunks(r) \/ CheckCollection(r) \/ CreateCollection(r)
           \/ CreateIndex(r) \/ EmbedTexts(r) \/ HttpFails(r)
  <2> USE <1>4 DEF Resume, GetBatchChunks, CheckCollection, CreateCollection, CreateIndex,
                   EmbedTexts, HttpFails
  <2>1. UNCHANGED <<upload, callVars, storeVars, points, historyVars>>
    OBVIOUS
  <2>2. TypeOK'
    BY ZenonT(60) DEF TypeOK
  <2>3. BatchAccounted' /\ NoZombieBatch' /\ PendingWasWritten' /\ TakenWasWritten'
    BY DEF TypeOK, BatchAccounted, NoZombieBatch, PendingWasWritten, TakenWasWritten
  <2>4. IndexedWasReviewed' /\ UpsertedIsIndexed' /\ RowsWereEarned'
    BY <2>1, KeptStable DEF IndexedWasReviewed, UpsertedIsIndexed, RowsWereEarned, TypeOK
  <2>5. RequestStage'
    BY <2>1, KeptStable DEF RequestStage, TypeOK
  <2> QED
    BY <2>2, <2>3, <2>4, <2>5
<1> QED
  BY <1>1, <1>2, <1>3, <1>4 DEF Finalize

\* A crash ends tasks and requests, and touches nothing that is stored.
LEMMA CrashStep ==
  ASSUME IInv, Crash
  PROVE  IInv'
<1> USE DEF IInv, Crash
<1>1. TypeOK'
  BY DEF TypeOK
<1>2. BatchAccounted' /\ NoZombieBatch' /\ PendingWasWritten' /\ TakenWasWritten'
  BY DEF TypeOK, BatchAccounted, NoZombieBatch, PendingWasWritten, TakenWasWritten
<1>3. IndexedWasReviewed' /\ UpsertedIsIndexed' /\ RowsWereEarned' /\ RequestStage'
  BY KeptStable DEF IndexedWasReviewed, UpsertedIsIndexed, RowsWereEarned, RequestStage, TypeOK
<1> QED
  BY <1>1, <1>2, <1>3

\* The inductive invariant holds throughout.
THEOREM Inductive == Spec => []IInv
<1>1. Init => IInv
  <2> SUFFICES ASSUME Init PROVE IInv
    OBVIOUS
  <2>1. TypeOK
    <3>1. collection \in BOOLEAN /\ indexes \subseteq IndexFields
      BY DEF Init
    <3> QED
      BY <3>1 DEF Init, TypeOK
  <2> QED
    BY <2>1 DEF Init, IInv, BatchAccounted, NoZombieBatch, IndexedWasReviewed,
       PendingWasWritten, TakenWasWritten, RequestStage, UpsertedIsIndexed, RowsWereEarned
<1>2. IInv /\ [Next]_vars => IInv'
  <2> SUFFICES ASSUME IInv, [Next]_vars PROVE IInv'
    OBVIOUS
  <2>1. CASE Next
    BY <2>1, UploadStep, ResumeStep, CrashStep DEF Next
  <2>2. CASE UNCHANGED vars
    <3>1. TypeOK' /\ BatchAccounted' /\ NoZombieBatch' /\ PendingWasWritten' /\ TakenWasWritten'
      BY <2>2 DEF vars, IInv, TypeOK, BatchAccounted, NoZombieBatch, PendingWasWritten,
             TakenWasWritten
    <3>2. IndexedWasReviewed' /\ UpsertedIsIndexed' /\ RowsWereEarned' /\ RequestStage'
      BY <2>2, KeptStable DEF vars, IInv, IndexedWasReviewed, UpsertedIsIndexed, RowsWereEarned,
             RequestStage, TypeOK
    <3> QED
      BY <3>1, <3>2 DEF IInv
  <2> QED
    BY <2>1, <2>2
<1> QED
  BY <1>1, <1>2, PTL DEF Spec

\* Tasks, requests, store, collection and histories keep their types.
THEOREM TypeCorrect == Spec => []TypeOK
<1>1. IInv => TypeOK
  BY DEF IInv
<1> QED
  BY <1>1, Inductive, PTL

\* A batch in the review queue is never lost, whatever crashes: it leaves the
\* queue only through a request that takes it.
THEOREM BatchNeverLost == Spec => []BatchAccounted
<1>1. IInv => BatchAccounted
  BY DEF IInv
<1> QED
  BY <1>1, Inductive, PTL

\* A batch that is being or was finalized is never offered for review again.
THEOREM NoZombie == Spec => []NoZombieBatch
<1>1. IInv => NoZombieBatch
  BY DEF IInv
<1> QED
  BY <1>1, Inductive, PTL

\* Only text that a reviewer kept is ever indexed.
THEOREM ReviewedOnly == Spec => []IndexedWasReviewed
<1>1. IInv => IndexedWasReviewed
  BY DEF IInv
<1> QED
  BY <1>1, Inductive, PTL

\* The audit rows of a finalize tell the truth about the index.
THEOREM AuditTrue == Spec => []AuditIsTrue
<1>1. IInv => AuditIsTrue
  BY DEF IInv, AuditIsTrue, RowsWereEarned, RequestStage, UpsertedIsIndexed
<1> QED
  BY <1>1, Inductive, PTL
=============================================================================
