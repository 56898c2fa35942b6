------------------------ MODULE QuickEntryProofs ------------------------
(***************************************************************************)
(* The proofs about Quick Entry, for any number of concurrent requests,    *)
(* job slots, forms, chunks, runs and faults: the types, the versions of   *)
(* the entry and the refinement of VersionedEntry, then what the runs of   *)
(* the job leave behind: the text of the chunks, the points and the rows   *)
(* that find them again, and the status of the entry.                      *)
(***************************************************************************)
EXTENDS QuickEntry, FiniteSetTheorems, TLAPS

-----------------------------------------------------------------------------
(***************************************************************************)
(* TypeOK is an invariant of QuickEntry, for any number of admins, job     *)
(* slots, forms, chunks, versions, runs and faults. It is inductive once   *)
(* BaseBounded is added: without it a request at publish_entry could write *)
(* a version beyond MaxVersion.                                            *)
(***************************************************************************)

\* a request on its way to a new version was admitted below the bound
BaseBounded ==
    \A a \in Admins : req[a].pc \in {"publish_history", "publish_entry"} =>
        req[a].base < MaxVersion

\* the inductive invariant
TypeInv == TypeOK /\ BaseBounded

\* RequestStep: a step that gives one request a well-typed record keeps the
\* requests typed.
LEMMA RequestStep ==
    ASSUME TypeInv, NEW a \in Admins, NEW r \in Request,
           req' = [req EXCEPT ![a] = r],
           r.pc \in {"publish_history", "publish_entry"} => r.base < MaxVersion
    PROVE  ApiTypeOK' /\ BaseBounded'
BY DEF TypeInv, TypeOK, ApiTypeOK, BaseBounded

\* NoRequestType: the record of a request that is not there is one of Request.
LEMMA NoRequestType == NoRequest \in Request /\ NoRequest.pc = "idle"
BY StoreAssumption DEF NoRequest, Request, ReqPC

\* FinishStep: the ways in which a handler returns keep the requests typed.
LEMMA FinishStep ==
    ASSUME TypeInv, NEW a \in Admins, Finish(a) \/ GotoEnqueue(a)
    PROVE  ApiTypeOK' /\ BaseBounded'
<1> DEFINE r == [NoRequest EXCEPT !.pc = "enqueue"]
<1>1. r \in Request /\ r.pc = "enqueue"
  BY NoRequestType DEF Request, ReqPC
<1>2. CASE Finish(a)
  BY <1>2, NoRequestType, RequestStep DEF Finish
<1>3. CASE GotoEnqueue(a)
  <2>1. req' = [req EXCEPT ![a] = r]
    BY <1>3 DEF GotoEnqueue
  <2> HIDE DEF r
  <2> QED
    BY <1>1, <2>1, RequestStep
<1> QED
  BY <1>2, <1>3

\* AfterType: an index call, answered or not, leaves the index in its type.
LEMMA AfterType ==
    ASSUME NEW index \in [Points -> IndexState], NEW p, NEW x \in IndexState,
           NEW ok, NEW new \in After(index, p, x, ok)
    PROVE  new \in [Points -> IndexState]
BY DEF After

\* RetireTypes: so does the best-effort retirement of a point in both indexes.
LEMMA RetireTypes ==
    ASSUME StoreTypeOK, NEW p \in Points, RetirePoint(p)
    PROVE  /\ qdrant' \in [Points -> IndexState]
           /\ opensearch' \in [Points -> IndexState]
<1> DEFINE retired(index) == IF index[p] = "live" THEN "retired" ELSE index[p]
<1>1. retired(qdrant) \in IndexState /\ retired(opensearch) \in IndexState
  BY DEF StoreTypeOK, IndexState
<1>2. PICK okQ \in QdrantOutcomes, okO \in OpenSearchOutcomes :
         /\ qdrant' \in After(qdrant, p, retired(qdrant), okQ)
         /\ opensearch' \in After(opensearch, p, retired(opensearch), okO)
  BY DEF RetirePoint
<1> HIDE DEF retired
<1> QED
  BY <1>1, <1>2, AfterType DEF StoreTypeOK

\* ApiTypes: every statement of knowledge_entries_handler.py keeps the types.
LEMMA ApiTypes ==
    ASSUME TypeInv, NEW a \in Admins, AdminRequest(a) \/ HandlerStep(a)
    PROVE  StoreTypeOK' /\ ApiTypeOK' /\ BaseBounded'
<1> DEFINE R == ApiTypeOK' /\ BaseBounded'
<1> USE DEF Versions, Points, ChunkTypes
<1>r. req[a] \in Request
  BY DEF TypeInv, TypeOK, ApiTypeOK
<1>s. StoreTypeOK
  BY DEF TypeInv, TypeOK
<1>e. entry \in Entry /\ entry.version \in 0 .. MaxVersion
  BY <1>s DEF StoreTypeOK, Entry
<1>1. ASSUME NEW form \in Forms, NEW publish \in BOOLEAN,
             CreateEntry(a, form, publish)
      PROVE  StoreTypeOK' /\ R
  <2> DEFINE r == [NoRequest EXCEPT !.pc = "create_history", !.form = form,
                                    !.publish = publish]
  <2>1. r \in Request /\ r.pc = "create_history"
    BY NoRequestType DEF Request, ReqPC
  <2>2. R
    BY <1>1, <2>1, RequestStep DEF CreateEntry
  <2>3. entry' \in Entry
    BY <1>1, StoreAssumption DEF CreateEntry, Entry, Status
  <2>4. StoreTypeOK'
    BY <1>1, <1>s, <2>3 DEF CreateEntry, StoreTypeOK, indexVars
  <2> QED
    BY <2>2, <2>4
<1>2. CASE CreateHistory(a)
  <2>1. R
    BY <1>2, FinishStep DEF CreateHistory
  <2>2. StoreTypeOK'
    BY <1>2, <1>s, <1>r DEF CreateHistory, StoreTypeOK, Request, indexVars
  <2> QED
    BY <2>1, <2>2
<1>3. CASE OpenEntry(a)
  <2> DEFINE r == [NoRequest EXCEPT !.pc = "open", !.base = entry.version]
  <2>1. r \in Request /\ r.pc = "open"
    BY <1>e, NoRequestType DEF Request, ReqPC
  <2>2. R
    BY <1>3, <2>1, RequestStep DEF OpenEntry
  <2>3. StoreTypeOK'
    BY <1>3, <1>s DEF OpenEntry, StoreTypeOK, indexVars
  <2> QED
    BY <2>2, <2>3
<1>4. ASSUME NEW form \in Forms, NEW publish \in BOOLEAN,
             SubmitEdit(a, form, publish)
      PROVE  StoreTypeOK' /\ R
  <2> DEFINE pc == IF publish THEN "publish_history" ELSE "save_draft"
             r == [req[a] EXCEPT !.pc = pc, !.form = form]
  <2>1. r \in Request /\ r.base = req[a].base /\ r.pc = pc
    BY <1>r DEF Request, ReqPC
  <2>2. ASSUME entry.version # req[a].base PROVE R
    <3>1. Finish(a)
      BY <1>4, <2>2 DEF SubmitEdit
    <3> QED
      BY <3>1, FinishStep
  <2>3. ASSUME entry.version = req[a].base PROVE R
    <3>1. /\ req' = [req EXCEPT ![a] = r]
          /\ publish => r.base < MaxVersion
      BY <1>4, <2>1, <2>3 DEF SubmitEdit
    <3>2. r.pc \in {"publish_history", "publish_entry"} => r.base < MaxVersion
      BY <2>1, <3>1
    <3> HIDE DEF r
    <3> QED
      BY <2>1, <3>1, <3>2, RequestStep
  <2>4. StoreTypeOK'
    BY <1>4, <1>s DEF SubmitEdit, StoreTypeOK, storeVars
  <2> QED
    BY <2>2, <2>3, <2>4
<1>5. CASE PublishHistory(a)
  <2> DEFINE r == [req[a] EXCEPT !.pc = "publish_entry"]
  <2>1. r \in Request /\ r.base = req[a].base
    BY <1>r DEF Request, ReqPC
  <2>2. ASSUME VersionTaken(a) PROVE R
    <3>1. Finish(a)
      BY <1>5, <2>2 DEF PublishHistory
    <3> QED
      BY <3>1, FinishStep
  <2>3. ASSUME ~VersionTaken(a) PROVE R
    <3>1. req' = [req EXCEPT ![a] = r] /\ req[a].base < MaxVersion
      BY <1>5, <2>3 DEF PublishHistory, TypeInv, BaseBounded
    <3> HIDE DEF r
    <3> QED
      BY <2>1, <3>1, RequestStep
  <2>4. StoreTypeOK'
    BY <1>5, <1>s, <1>r DEF PublishHistory, StoreTypeOK, Request, indexVars
  <2> QED
    BY <2>2, <2>3, <2>4
<1>6. CASE PublishEntry(a)
  <2>1. R
    BY <1>6, FinishStep DEF PublishEntry
  <2>2. /\ req[a].base + 1 \in 0 .. MaxVersion
        /\ req[a].form \in Forms \cup {NoForm}
    BY <1>6, <1>r, StoreAssumption
    DEF PublishEntry, Request, TypeInv, BaseBounded
  <2>3. entry' \in Entry /\ upToDate' = {}
    BY <1>6, <1>e, <2>2 DEF PublishEntry, WriteEntry, Entry, Status
  <2>4. StoreTypeOK'
    BY <1>6, <1>s, <2>3 DEF PublishEntry, StoreTypeOK, indexVars
  <2> QED
    BY <2>1, <2>4
<1>7. CASE Enqueue(a)
  <2>1. R
    BY <1>7, FinishStep DEF Enqueue
  <2>2. queue' \in [process : Nat, retry : Nat]
    <3>1. ASSUME NEW q \in [process : Nat, retry : Nat]
          PROVE  [q EXCEPT !.process = @ + 1] \in [process : Nat, retry : Nat]
      OBVIOUS
    <3> QED
      BY <1>7, <1>s, <3>1 DEF Enqueue, EnqueueProcess, StoreTypeOK
  <2>3. StoreTypeOK'
    BY <1>7, <1>s, <2>2 DEF Enqueue, StoreTypeOK, dbVars, indexVars
  <2> QED
    BY <2>1, <2>3
<1>8. CASE SaveDraft(a)
  <2>1. R
    BY <1>8, FinishStep DEF SaveDraft
  <2>2. entry' \in Entry /\ upToDate' \in SUBSET Admins
    BY <1>8, <1>e, <1>r, <1>s
    DEF SaveDraft, WriteEntry, Entry, Status, Request, StoreTypeOK
  <2>3. StoreTypeOK'
    BY <1>8, <1>s, <2>2 DEF SaveDraft, StoreTypeOK, indexVars
  <2> QED
    BY <2>1, <2>3
<1>9. ASSUME NEW v \in Versions, RestoreVersion(a, v)
      PROVE  StoreTypeOK' /\ R
  <2> DEFINE r == [NoRequest EXCEPT !.pc = "publish_history",
                                    !.base = entry.version, !.form = history[v]]
  <2>1. r \in Request /\ r.base < MaxVersion
    BY <1>9, <1>e, <1>s, NoRequestType
    DEF RestoreVersion, Request, ReqPC, StoreTypeOK
  <2>2. R
    BY <1>9, <2>1, RequestStep DEF RestoreVersion
  <2>3. StoreTypeOK'
    BY <1>9, <1>s DEF RestoreVersion, StoreTypeOK, storeVars
  <2> QED
    BY <2>2, <2>3
<1>10. CASE ArchiveEntry(a)
  <2> DEFINE r == [NoRequest EXCEPT !.pc = "archive_select"]
  <2>1. r \in Request /\ r.pc = "archive_select"
    BY NoRequestType DEF Request, ReqPC
  <2>2. R
    BY <1>10, <2>1, RequestStep DEF ArchiveEntry
  <2>3. StoreTypeOK'
    BY <1>10, <1>s DEF ArchiveEntry, StoreTypeOK, storeVars
  <2> QED
    BY <2>2, <2>3
<1>11. CASE ArchiveSelect(a)
  <2> DEFINE r == [req[a] EXCEPT !.pc = "archive_index", !.old = CurrentRows]
  <2>1. r \in Request /\ r.pc = "archive_index"
    BY <1>r DEF Request, ReqPC, CurrentRows, Rows
  <2>2. req' = [req EXCEPT ![a] = r]
    BY <1>11 DEF ArchiveSelect
  <2>3. R
    BY <2>1, <2>2, RequestStep
  <2>4. StoreTypeOK'
    BY <1>11, <1>s DEF ArchiveSelect, StoreTypeOK, storeVars
  <2> QED
    BY <2>3, <2>4
<1>12. CASE ArchiveIndex(a)
  <2>1. PICK p \in req[a].old :
          RetirePoint(p) /\ req' = [req EXCEPT ![a].old = @ \ {p}]
    BY <1>12 DEF ArchiveIndex
  <2> DEFINE r == [req[a] EXCEPT !.old = @ \ {p}]
  <2>2. r \in Request /\ r.pc = req[a].pc
    BY <1>r DEF Request
  <2>3. R
    BY <1>12, <2>1, <2>2, RequestStep DEF ArchiveIndex
  <2>4. qdrant' \in [Points -> IndexState] /\ opensearch' \in [Points -> IndexState]
    BY <1>r, <1>s, <2>1, RetireTypes DEF Request
  <2>5. StoreTypeOK'
    BY <1>12, <1>s, <2>4 DEF ArchiveIndex, StoreTypeOK, dbVars
  <2> QED
    BY <2>3, <2>5
<1>13. CASE ArchiveRows(a)
  <2>1. [req[a] EXCEPT !.pc = "archive_entry"] \in Request
    BY <1>r DEF Request, ReqPC
  <2>2. R
    BY <1>13, <1>r, <2>1, RequestStep DEF ArchiveRows, Request
  <2>3. chunks' \in [Points -> Chunk]
    <3>1. ASSUME NEW c \in Chunk PROVE [c EXCEPT !.current = FALSE] \in Chunk
      BY DEF Chunk
    <3> QED
      BY <1>13, <1>s, <3>1 DEF ArchiveRows, RowsRetired, StoreTypeOK
  <2>4. StoreTypeOK'
    BY <1>13, <1>s, <2>3 DEF ArchiveRows, StoreTypeOK, indexVars
  <2> QED
    BY <2>2, <2>4
<1>14. CASE ArchiveStatus(a)
  <2>1. R
    BY <1>14, FinishStep DEF ArchiveStatus
  <2>2. entry' \in Entry
    BY <1>14, <1>e DEF ArchiveStatus, WriteEntry, Entry, Status
  <2>3. StoreTypeOK'
    BY <1>14, <1>s, <2>2 DEF ArchiveStatus, WriteEntry, StoreTypeOK, indexVars
  <2> QED
    BY <2>1, <2>3
<1>x. CASE AdminRequest(a)
  BY <1>x, <1>1, <1>3, <1>4, <1>9, <1>10 DEF AdminRequest
<1>y. CASE HandlerStep(a)
  BY <1>y, <1>2, <1>5, <1>6, <1>7, <1>8, <1>11, <1>12, <1>13, <1>14 DEF HandlerStep
<1> QED
  BY <1>x, <1>y

\* NoJobType: the record of a free slot is one of Job.
LEMMA NoJobType == NoJob \in Job /\ NoJob.pc = "idle"
BY StoreAssumption DEF NoJob, Job, JobPC

\* JobRecordStep: a step that gives one job a well-typed record keeps the jobs
\* typed.
LEMMA JobRecordStep ==
    ASSUME WorkerTypeOK, NEW w \in Workers, NEW j \in Job,
           job' = [job EXCEPT ![w] = j]
    PROVE  WorkerTypeOK'
BY DEF WorkerTypeOK

\* JobControlStep: ending a job, or moving it to another stage, keeps the jobs
\* typed.
LEMMA JobControlStep ==
    ASSUME WorkerTypeOK, NEW w \in Workers,
           EndJob(w) \/ \E pc \in JobPC : Continue(w, pc)
    PROVE  WorkerTypeOK'
<1>1. CASE EndJob(w)
  BY <1>1, NoJobType, JobRecordStep DEF EndJob
<1>2. ASSUME NEW pc \in JobPC, Continue(w, pc) PROVE WorkerTypeOK'
  <2> DEFINE j == [job[w] EXCEPT !.pc = pc]
  <2>1. j \in Job
    BY DEF WorkerTypeOK, Job
  <2> QED
    BY <1>2, <2>1, JobRecordStep DEF Continue
<1> QED
  BY <1>1, <1>2

\* OutcomeType: the UPDATE of the status at the end of a run keeps the row typed.
LEMMA OutcomeType ==
    ASSUME StoreTypeOK, NEW status \in Status, WriteOutcome(status)
    PROVE  entry' \in Entry /\ upToDate' = {}
BY DEF StoreTypeOK, WriteOutcome, WriteEntry, Entry

\* QueueTypes: enqueue_job keeps the queue typed.
LEMMA QueueTypes ==
    ASSUME StoreTypeOK, EnqueueProcess \/ EnqueueRetry \/ UNCHANGED queue
    PROVE  queue' \in [process : Nat, retry : Nat]
<1>1. ASSUME NEW q \in [process : Nat, retry : Nat]
      PROVE  /\ [q EXCEPT !.process = @ + 1] \in [process : Nat, retry : Nat]
             /\ [q EXCEPT !.retry = @ + 1] \in [process : Nat, retry : Nat]
  OBVIOUS
<1> QED
  BY <1>1 DEF EnqueueProcess, EnqueueRetry, StoreTypeOK

\* DueRetriesType: a retry is due only if one is queued.
LEMMA DueRetriesType ==
    ASSUME StoreTypeOK, DueRetries > 0
    PROVE  queue.retry > 0
<1> DEFINE S == {w \in Workers : HasQueuedRetry(w)}
<1>1. Cardinality(S) \in Nat
  BY WorkersAssumption, FS_Subset, FS_CardinalityType
<1> HIDE DEF S
<1>2. queue.retry \in Nat /\ DueRetries = queue.retry - Cardinality(S)
  BY DEF StoreTypeOK, DueRetries, S
<1> QED
  BY <1>1, <1>2

\* NextChunkType: a job that moves to a chunk of the form stays typed.
LEMMA NextChunkType ==
    ASSUME NEW j \in Job, NEW pc \in JobPC, NEW n \in 0 .. NumChunks
    PROVE  [j EXCEPT !.pc = pc, !.next = n] \in Job
BY DEF Job

\* ChunkNumbers: the first chunk, and the one after a chunk that is not the last,
\* are chunks of the form.
LEMMA ChunkNumbers ==
    ASSUME NEW w \in Workers, job[w] \in Job
    PROVE  /\ 1 \in 0 .. NumChunks
           /\ MoreChunks(w) => job[w].next + 1 \in 0 .. NumChunks
BY StoreAssumption DEF Job, MoreChunks

\* WorkerTypes: every stage of process_form_entry.py and
\* retry_partial_indexing.py keeps the types.
LEMMA WorkerTypes ==
    ASSUME TypeInv, NEW w \in Workers,
           LoadEntry(w) \/ LoadRetry(w) \/ JobStep(w)
    PROVE  StoreTypeOK' /\ WorkerTypeOK'
<1> DEFINE S == StoreTypeOK'
           T == WorkerTypeOK'
<1> USE DEF Versions, Points, ChunkTypes
<1>j. job[w] \in Job /\ WorkerTypeOK
  BY DEF TypeInv, TypeOK, WorkerTypeOK
<1>s. StoreTypeOK
  BY DEF TypeInv, TypeOK
<1>e. entry \in Entry
  BY <1>s DEF StoreTypeOK
<1>1. CASE LoadEntry(w)
  <2> DEFINE j == [NoJob EXCEPT !.pc = "validate", !.run = runs + 1,
                                !.version = entry.version, !.form = entry.form]
  <2>1. queue' \in [process : Nat, retry : Nat]
    <3>1. ASSUME NEW q \in [process : Nat, retry : Nat], q.process > 0
          PROVE  [q EXCEPT !.process = @ - 1] \in [process : Nat, retry : Nat]
      BY <3>1
    <3> QED
      BY <1>1, <1>s, <3>1 DEF LoadEntry, StoreTypeOK
  <2>2. ASSUME runs < MaxRuns PROVE j \in Job
    <3>1. /\ runs + 1 \in 0 .. MaxRuns /\ entry.version \in 0 .. MaxVersion
          /\ entry.form \in Forms \cup {NoForm}
      BY <1>s, <1>e, <2>2, StoreAssumption DEF Entry, StoreTypeOK
    <3> QED
      BY <3>1, NoJobType DEF Job, JobPC
  <2>3. T /\ runs' \in 0 .. MaxRuns
    <3>1. CASE ToProcess
      <4>1. runs < MaxRuns /\ runs' = runs + 1 /\ job' = [job EXCEPT ![w] = j]
        BY <1>1, <3>1 DEF LoadEntry
      <4>2. j \in Job
        BY <2>2, <4>1
      <4> HIDE DEF j
      <4> QED
        <5>1. T
          BY <1>j, <4>1, <4>2, JobRecordStep
        <5>2. runs' \in 0 .. MaxRuns
          BY <1>s, <4>1, StoreAssumption DEF StoreTypeOK
        <5> QED
          BY <5>1, <5>2
    <3>2. CASE ~ToProcess
      BY <1>1, <1>j, <1>s, <3>2 DEF LoadEntry, WorkerTypeOK, StoreTypeOK
    <3> QED
      BY <3>1, <3>2
  <2>4. S
    BY <1>1, <1>s, <2>1, <2>3 DEF LoadEntry, StoreTypeOK, dbVars, indexVars
  <2> QED
    BY <2>3, <2>4
<1>2. CASE LoadRetry(w)
  <2> DEFINE j == [NoJob EXCEPT !.pc = "retry_qdrant",
                                !.qdrant = FailedRows("qdrant"),
                                !.opensearch = FailedRows("opensearch"),
                                !.live = CurrentRows,
                                !.retries = entry.retries]
  <2>1. queue' \in [process : Nat, retry : Nat]
    <3>1. ASSUME NEW q \in [process : Nat, retry : Nat], q.retry > 0
          PROVE  [q EXCEPT !.retry = @ - 1] \in [process : Nat, retry : Nat]
      BY <3>1
    <3> QED
      BY <1>2, <1>s, <3>1, DueRetriesType, SMTT(30) DEF LoadRetry, StoreTypeOK
  <2>2. j \in Job
    BY <1>e, NoJobType, ZenonT(30) DEF Job, JobPC, Entry, FailedRows, CurrentRows, Rows
  <2>3. job' = job \/ job' = [job EXCEPT ![w] = j]
    BY <1>2 DEF LoadRetry
  <2>4. T
    <3> HIDE DEF j
    <3> QED
      BY <1>j, <2>2, <2>3, JobRecordStep DEF WorkerTypeOK
  <2>5. S
    BY <1>2, <1>s, <2>1 DEF LoadRetry, StoreTypeOK, dbVars, indexVars
  <2> QED
    BY <2>4, <2>5
<1>3. CASE Validate(w)
  <2> DEFINE j == [job[w] EXCEPT !.pc = "retire", !.old = CurrentRows]
  <2>1. j \in Job
    BY <1>j, ZenonT(30) DEF Job, JobPC, CurrentRows, Rows
  <2>2. \/ EndJob(w) \/ Continue(w, "assemble")
        \/ job' = [job EXCEPT ![w] = j]
    BY <1>3 DEF Validate
  <2>3. T
    <3> HIDE DEF j
    <3> QED
      BY <1>j, <2>1, <2>2, JobRecordStep, JobControlStep DEF JobPC
  <2>4. entry' \in Entry /\ upToDate' \in SUBSET Admins
    BY <1>3, <1>s, <1>e, OutcomeType DEF Validate, FailEntry, Status, StoreTypeOK
  <2>5. S
    BY <1>3, <1>s, <2>4 DEF Validate, StoreTypeOK, indexVars
  <2> QED
    BY <2>3, <2>5
<1>4. CASE RetireIndex(w)
  <2>1. PICK p \in job[w].old :
          RetirePoint(p) /\ job' = [job EXCEPT ![w].old = @ \ {p}]
    BY <1>4 DEF RetireIndex
  <2> DEFINE j == [job[w] EXCEPT !.old = @ \ {p}]
  <2>2. j \in Job
    BY <1>j DEF Job
  <2>3. T
    BY <1>j, <2>1, <2>2, JobRecordStep
  <2>4. qdrant' \in [Points -> IndexState] /\ opensearch' \in [Points -> IndexState]
    BY <1>j, <1>s, <2>1, RetireTypes DEF Job
  <2>5. S
    BY <1>4, <1>s, <2>4 DEF RetireIndex, StoreTypeOK, dbVars
  <2> QED
    BY <2>3, <2>5
<1>5. CASE RetireRows(w)
  <2>1. T
    BY <1>5, <1>j, JobControlStep DEF RetireRows, JobPC
  <2>2. chunks' \in [Points -> Chunk]
    <3>1. ASSUME NEW c \in Chunk PROVE [c EXCEPT !.current = FALSE] \in Chunk
      BY DEF Chunk
    <3> QED
      BY <1>5, <1>s, <3>1 DEF RetireRows, RowsRetired, StoreTypeOK
  <2>3. S
    BY <1>5, <1>s, <2>2 DEF RetireRows, StoreTypeOK, indexVars
  <2> QED
    BY <2>1, <2>3
<1>6. CASE AssembleAndScore(w)
  <2> DEFINE j == [job[w] EXCEPT !.pc = "upsert", !.next = 1]
  <2>1. j \in Job
    BY <1>j, NextChunkType, ChunkNumbers DEF JobPC
  <2>2. EndJob(w) \/ job' = [job EXCEPT ![w] = j]
    BY <1>6 DEF AssembleAndScore
  <2>3. T
    <3> HIDE DEF j
    <3> QED
      BY <1>j, <2>1, <2>2, JobRecordStep, JobControlStep
  <2>4. entry' \in Entry /\ upToDate' \in SUBSET Admins
    BY <1>6, <1>s, <1>e, OutcomeType
    DEF AssembleAndScore, FailEntry, Status, StoreTypeOK
  <2>5. S
    BY <1>6, <1>s, <2>4 DEF AssembleAndScore, StoreTypeOK, indexVars
  <2> QED
    BY <2>3, <2>5
<1>7. CASE UpsertPoint(w)
  <2>1. PICK ok \in QdrantOutcomes :
          /\ qdrant' \in After(qdrant, Point(w), "live", ok)
          /\ job' = [job EXCEPT ![w].pc = "insert", ![w].ok = ok,
                                ![w].failed = @ \/ ~ok]
    BY <1>7 DEF UpsertPoint
  <2> DEFINE j == [job[w] EXCEPT !.pc = "insert", !.ok = ok,
                                 !.failed = @ \/ ~ok]
  <2>2. j \in Job
    <3> DEFINE failed == job[w].failed \/ ~ok
    <3>1. failed \in BOOLEAN /\ ok \in BOOLEAN
      BY StoreAssumption
    <3> HIDE DEF failed
    <3>2. [job[w] EXCEPT !.pc = "insert", !.ok = ok, !.failed = failed] \in Job
      BY <1>j, <3>1, ZenonT(30) DEF Job, JobPC
    <3> QED
      BY <3>2 DEF failed
  <2>3. T
    <3>1. job' = [job EXCEPT ![w] = j]
      BY <2>1
    <3> HIDE DEF j
    <3> QED
      BY <1>j, <2>2, <3>1, JobRecordStep
  <2>4. qdrant' \in [Points -> IndexState]
    BY <1>s, <2>1, AfterType DEF StoreTypeOK, IndexState
  <2>5. S
    BY <1>7, <1>s, <2>4 DEF UpsertPoint, StoreTypeOK, dbVars
  <2> QED
    BY <2>3, <2>5
<1>8. CASE InsertChunk(w)
  <2> DEFINE more == [job[w] EXCEPT !.pc = "upsert", !.next = job[w].next + 1]
             last == [job[w] EXCEPT !.pc = "index", !.next = 1]
  <2>1. MoreChunks(w) => more \in Job
    BY <1>j, NextChunkType, ChunkNumbers DEF JobPC
  <2>2. last \in Job
    BY <1>j, NextChunkType, ChunkNumbers DEF JobPC
  <2>3. \/ MoreChunks(w) /\ job' = [job EXCEPT ![w] = more]
        \/ job' = [job EXCEPT ![w] = last]
    BY <1>8 DEF InsertChunk
  <2>4. T
    <3> HIDE DEF more, last
    <3> QED
      BY <1>j, <2>1, <2>2, <2>3, JobRecordStep
  <2>5. chunks' \in [Points -> Chunk]
    <3>1. NewRow(w) \in Chunk
      BY <1>j DEF NewRow, Chunk, Job, StoreStatus
    <3> QED
      BY <1>8, <1>s, <3>1 DEF InsertChunk, StoreTypeOK
  <2>6. S
    BY <1>8, <1>s, <2>5 DEF InsertChunk, StoreTypeOK, indexVars
  <2> QED
    BY <2>4, <2>6
<1>9. CASE IndexDocument(w)
  <2>1. PICK ok \in OpenSearchOutcomes :
          /\ opensearch' \in After(opensearch, Point(w), "live", ok)
          /\ job' = [job EXCEPT ![w].pc = "mark", ![w].ok = ok,
                                ![w].failed = @ \/ ~ok]
    BY <1>9 DEF IndexDocument
  <2> DEFINE j == [job[w] EXCEPT !.pc = "mark", !.ok = ok,
                                 !.failed = @ \/ ~ok]
  <2>2. j \in Job
    <3> DEFINE failed == job[w].failed \/ ~ok
    <3>1. failed \in BOOLEAN /\ ok \in BOOLEAN
      BY StoreAssumption
    <3> HIDE DEF failed
    <3>2. [job[w] EXCEPT !.pc = "mark", !.ok = ok, !.failed = failed] \in Job
      BY <1>j, <3>1, ZenonT(30) DEF Job, JobPC
    <3> QED
      BY <3>2 DEF failed
  <2>3. T
    <3>1. job' = [job EXCEPT ![w] = j]
      BY <2>1
    <3> HIDE DEF j
    <3> QED
      BY <1>j, <2>2, <3>1, JobRecordStep
  <2>4. opensearch' \in [Points -> IndexState]
    BY <1>s, <2>1, AfterType DEF StoreTypeOK, IndexState
  <2>5. S
    BY <1>9, <1>s, <2>4 DEF IndexDocument, StoreTypeOK, dbVars
  <2> QED
    BY <2>3, <2>5
<1>10. CASE MarkIndexed(w)
  <2> DEFINE more == [job[w] EXCEPT !.pc = "index", !.next = job[w].next + 1]
  <2>1. MoreChunks(w) => more \in Job
    BY <1>j, NextChunkType, ChunkNumbers DEF JobPC
  <2>2. \/ MoreChunks(w) /\ job' = [job EXCEPT ![w] = more]
        \/ Continue(w, "determine")
    BY <1>10 DEF MarkIndexed
  <2>3. T
    <3> HIDE DEF more
    <3> QED
      BY <1>j, <2>1, <2>2, JobRecordStep, JobControlStep DEF JobPC
  <2>4. chunks' \in [Points -> Chunk]
    <3>1. ASSUME NEW c \in Chunk, NEW x \in StoreStatus
          PROVE  [c EXCEPT !.opensearch = x] \in Chunk
      BY DEF Chunk
    <3> QED
      BY <1>10, <1>s, <3>1 DEF MarkIndexed, StoreTypeOK, StoreStatus
  <2>5. S
    BY <1>10, <1>s, <2>4 DEF MarkIndexed, StoreTypeOK, indexVars
  <2> QED
    BY <2>3, <2>5
<1>11. CASE DetermineStatus(w) \/ Reschedule(w)
  <2>1. T
    BY <1>11, <1>j, JobControlStep DEF DetermineStatus, Reschedule, JobPC
  <2>2. queue' \in [process : Nat, retry : Nat]
    BY <1>11, <1>s, QueueTypes DEF DetermineStatus, Reschedule
  <2>3. S
    BY <1>11, <1>s, <2>2
    DEF DetermineStatus, Reschedule, StoreTypeOK, dbVars, indexVars
  <2> QED
    BY <2>1, <2>3
<1>12. CASE FinishEntry(w)
  <2>1. T
    BY <1>12, <1>j, JobControlStep DEF FinishEntry
  <2>2. entry' \in Entry /\ upToDate' = {}
    BY <1>12, <1>s, OutcomeType DEF FinishEntry, Status
  <2>3. S
    BY <1>12, <1>s, <2>2 DEF FinishEntry, StoreTypeOK, indexVars
  <2> QED
    BY <2>1, <2>3
<1>13. CASE RetryLog(w)
  <2>1. T
    BY <1>13, <1>j, JobControlStep DEF RetryLog, JobPC
  <2>2. entry' \in Entry /\ upToDate' = {}
    <3>1. AttemptCount(w) \in Nat
      BY <1>j DEF AttemptCount, Job
    <3> QED
      BY <1>13, <1>e, <3>1 DEF RetryLog, WriteEntry, Entry
  <2>3. S
    BY <1>13, <1>s, <2>2 DEF RetryLog, StoreTypeOK, indexVars
  <2> QED
    BY <2>1, <2>3
<1>14. CASE RetryFinish(w)
  <2>1. T
    BY <1>14, <1>j, JobControlStep DEF RetryFinish
  <2>2. entry' \in Entry /\ upToDate' = {}
    BY <1>14, <1>e DEF RetryFinish, WriteEntry, Entry, Status
  <2>3. S
    BY <1>14, <1>s, <2>2 DEF RetryFinish, StoreTypeOK, indexVars
  <2> QED
    BY <2>1, <2>3
<1>15. CASE RetryQdrant(w)
  <2>1. ASSUME NEW p \in job[w].qdrant, NEW ok \in QdrantOutcomes,
               qdrant' \in After(qdrant, p, Rebuilt(w, p), ok),
               chunks' = IF ok THEN [chunks EXCEPT ![p].qdrant = "success"]
                         ELSE chunks,
               job' = [job EXCEPT ![w].qdrant = @ \ {p},
                                  ![w].failed = @ \/ ~ok]
        PROVE  T /\ qdrant' \in [Points -> IndexState]
                 /\ chunks' \in [Points -> Chunk]
    <3> DEFINE j == [job[w] EXCEPT !.qdrant = @ \ {p}, !.failed = @ \/ ~ok]
    <3>1. j \in Job
      BY <1>j, StoreAssumption, ZenonT(30) DEF Job
    <3>2. job' = [job EXCEPT ![w] = j]
      BY <2>1
    <3>3. T
      <4> HIDE DEF j
      <4> QED
        BY <1>j, <3>1, <3>2, JobRecordStep
    <3>4. qdrant' \in [Points -> IndexState]
      BY <1>s, <2>1, AfterType DEF Rebuilt, StoreTypeOK, IndexState
    <3>5. chunks' \in [Points -> Chunk]
      <4>1. ASSUME NEW c \in Chunk PROVE [c EXCEPT !.qdrant = "success"] \in Chunk
        BY DEF Chunk, StoreStatus
      <4> QED
        BY <1>s, <2>1, <4>1 DEF StoreTypeOK
    <3> QED
      BY <3>3, <3>4, <3>5
  <2>2. ASSUME Continue(w, "retry_opensearch"), UNCHANGED <<qdrant, chunks>>
        PROVE  T /\ qdrant' \in [Points -> IndexState]
                 /\ chunks' \in [Points -> Chunk]
    BY <1>j, <1>s, <2>2, JobControlStep DEF JobPC, StoreTypeOK
  <2>3. T /\ qdrant' \in [Points -> IndexState] /\ chunks' \in [Points -> Chunk]
    BY <1>15, <2>1, <2>2 DEF RetryQdrant
  <2> QED
    BY <1>15, <1>s, <2>3 DEF RetryQdrant, StoreTypeOK
<1>16. CASE RetryOpenSearch(w)
  <2>1. ASSUME NEW p \in job[w].opensearch, NEW ok \in OpenSearchOutcomes,
               opensearch' \in After(opensearch, p, Rebuilt(w, p), ok),
               chunks' = IF ok THEN [chunks EXCEPT ![p].opensearch = "success"]
                         ELSE chunks,
               job' = [job EXCEPT ![w].opensearch = @ \ {p},
                                  ![w].failed = @ \/ ~ok]
        PROVE  T /\ opensearch' \in [Points -> IndexState]
                 /\ chunks' \in [Points -> Chunk]
    <3> DEFINE j == [job[w] EXCEPT !.opensearch = @ \ {p}, !.failed = @ \/ ~ok]
    <3>1. j \in Job
      BY <1>j, StoreAssumption, ZenonT(30) DEF Job
    <3>2. job' = [job EXCEPT ![w] = j]
      BY <2>1
    <3>3. T
      <4> HIDE DEF j
      <4> QED
        BY <1>j, <3>1, <3>2, JobRecordStep
    <3>4. opensearch' \in [Points -> IndexState]
      BY <1>s, <2>1, AfterType DEF Rebuilt, StoreTypeOK, IndexState
    <3>5. chunks' \in [Points -> Chunk]
      <4>1. ASSUME NEW c \in Chunk PROVE [c EXCEPT !.opensearch = "success"] \in Chunk
        BY DEF Chunk, StoreStatus
      <4> QED
        BY <1>s, <2>1, <4>1 DEF StoreTypeOK
    <3> QED
      BY <3>3, <3>4, <3>5
  <2>2. ASSUME Continue(w, "reschedule"), UNCHANGED <<opensearch, chunks>>
        PROVE  T /\ opensearch' \in [Points -> IndexState]
                 /\ chunks' \in [Points -> Chunk]
    BY <1>j, <1>s, <2>2, JobControlStep DEF JobPC, StoreTypeOK
  <2>3. T /\ opensearch' \in [Points -> IndexState] /\ chunks' \in [Points -> Chunk]
    BY <1>16, <2>1, <2>2 DEF RetryOpenSearch
  <2> QED
    BY <1>16, <1>s, <2>3 DEF RetryOpenSearch, StoreTypeOK
<1> QED
  BY <1>1, <1>2, <1>3, <1>4, <1>5, <1>6, <1>7, <1>8, <1>9, <1>10, <1>11,
     <1>12, <1>13, <1>14, <1>15, <1>16 DEF JobStep

\* FaultTypes: so does a crash of a handler or the abortion of a job.
LEMMA FaultTypes ==
    ASSUME TypeInv, Fault
    PROVE  StoreTypeOK' /\ ApiTypeOK' /\ BaseBounded' /\ WorkerTypeOK'
<1>s. StoreTypeOK /\ ApiTypeOK /\ BaseBounded /\ WorkerTypeOK
  BY DEF TypeInv, TypeOK
<1>1. ASSUME NEW a \in Admins, AbandonRequest(a), UNCHANGED job
      PROVE  StoreTypeOK' /\ ApiTypeOK' /\ BaseBounded' /\ WorkerTypeOK'
  <2>1. ApiTypeOK' /\ BaseBounded'
    BY <1>1, FinishStep DEF AbandonRequest
  <2>2. StoreTypeOK' /\ WorkerTypeOK'
    BY <1>1, <1>s DEF AbandonRequest, StoreTypeOK, WorkerTypeOK, storeVars
  <2> QED
    BY <2>1, <2>2
<1>2. ASSUME NEW w \in Workers, AbortJob(w), UNCHANGED req
      PROVE  StoreTypeOK' /\ ApiTypeOK' /\ BaseBounded' /\ WorkerTypeOK'
  <2>1. WorkerTypeOK'
    BY <1>2, <1>s, JobControlStep DEF AbortJob
  <2>2. queue' \in [process : Nat, retry : Nat]
    BY <1>2, <1>s, QueueTypes DEF AbortJob
  <2>3. StoreTypeOK'
    BY <1>2, <1>s, <2>2 DEF AbortJob, StoreTypeOK, dbVars, indexVars
  <2>4. ApiTypeOK' /\ BaseBounded'
    BY <1>2, <1>s DEF ApiTypeOK, BaseBounded
  <2> QED
    BY <2>1, <2>3, <2>4
<1> QED
  BY <1>1, <1>2 DEF Fault

\* TypeInit: the stores start well typed.
LEMMA TypeInit == Init => TypeInv
<1> SUFFICES ASSUME Init PROVE TypeInv
  OBVIOUS
<1> USE StoreAssumption
<1>1. entry \in Entry
  BY DEF Init, StoreInit, NoEntry, Entry
<1>2. chunks \in [Points -> Chunk]
  BY DEF Init, StoreInit, NoChunk, Chunk, StoreStatus
<1>3. StoreTypeOK
  BY <1>1, <1>2 DEF Init, StoreInit, StoreTypeOK, IndexState
<1>4. ApiTypeOK /\ BaseBounded
  BY NoRequestType DEF Init, ApiInit, ApiTypeOK, BaseBounded
<1>5. WorkerTypeOK
  BY NoJobType DEF Init, WorkerInit, WorkerTypeOK
<1> QED
  BY <1>3, <1>4, <1>5, FaultsAssumption DEF TypeInv, TypeOK, Init

\* TypeStep: the invariant is inductive.
LEMMA TypeStep == TypeInv /\ [Next]_vars => TypeInv'
<1> SUFFICES ASSUME TypeInv, [Next]_vars PROVE TypeInv'
  OBVIOUS
<1>s. /\ StoreTypeOK /\ ApiTypeOK /\ BaseBounded /\ WorkerTypeOK
      /\ faults \in 0 .. MaxFaults
  BY DEF TypeInv, TypeOK
<1>1. ASSUME NEW a \in Admins, ApiRequest(a) \/ ApiStep(a) PROVE TypeInv'
  <2>1. StoreTypeOK' /\ ApiTypeOK' /\ BaseBounded'
    BY <1>1, ApiTypes DEF ApiRequest, ApiStep
  <2>2. WorkerTypeOK' /\ faults' \in 0 .. MaxFaults
    BY <1>1, <1>s DEF ApiRequest, ApiStep, WorkerTypeOK
  <2> QED
    BY <2>1, <2>2 DEF TypeInv, TypeOK
<1>2. ASSUME NEW w \in Workers, StartProcess(w) \/ StartRetry(w) \/ WorkerStep(w)
      PROVE  TypeInv'
  <2>1. StoreTypeOK' /\ WorkerTypeOK'
    BY <1>2, WorkerTypes DEF StartProcess, StartRetry, WorkerStep
  <2>2. ApiTypeOK' /\ BaseBounded' /\ faults' \in 0 .. MaxFaults
    BY <1>2, <1>s DEF StartProcess, StartRetry, WorkerStep, ApiTypeOK, BaseBounded
  <2> QED
    BY <2>1, <2>2 DEF TypeInv, TypeOK
<1>3. CASE Fault
  <2>1. faults' \in 0 .. MaxFaults
    BY <1>3, <1>s, FaultsAssumption DEF Fault
  <2> QED
    BY <1>3, <2>1, FaultTypes DEF TypeInv, TypeOK
<1>4. CASE UNCHANGED vars
  BY <1>4, <1>s DEF vars, storeVars, TypeInv, TypeOK, StoreTypeOK, ApiTypeOK,
                    BaseBounded, WorkerTypeOK
<1> QED
  BY <1>1, <1>2, <1>3, <1>4 DEF Next

\* Typing: in every reachable state the stores, requests and jobs have their
\* types, and no accepted publication goes beyond MaxVersion.
THEOREM Typing == Spec => [](TypeOK /\ BaseBounded)
<1>1. TypeInv => TypeOK /\ BaseBounded
  BY DEF TypeInv
<1> QED
  BY <1>1, TypeInit, TypeStep, PTL DEF Spec

-----------------------------------------------------------------------------
(***************************************************************************)
(* The versions of an entry, for any number of concurrent requests, job    *)
(* slots, forms and faults.                                                *)
(*                                                                         *)
(* HistoryBacksEntry and OneWriterPerVersion need each other: an INSERT    *)
(* that succeeds shows, by HistoryBacksEntry, that the version selected    *)
(* earlier is still that of the row, and OneWriterPerVersion keeps it so   *)
(* until the UPDATE. A draft save is held to the version of the row by     *)
(* updated_at (RequestsOnEntry). VersionInv adds what the create and the   *)
(* worker must not disturb.                                                *)
(***************************************************************************)

\* stages of a request
Publishing == {"publish_history", "publish_entry"}
Editing == {"open", "save_draft"}

\* what each request knows of the entry: a publisher's version is not ahead of the
\* row, and an editor whose updated_at is fresh has the version of the row
RequestsOnEntry ==
    \A a \in Admins :
        /\ req[a].pc # "idle" => entry.version >= 1
        /\ req[a].pc \in Publishing =>
              /\ req[a].base \in 1 .. entry.version
              /\ req[a].form \in Forms
        /\ req[a].pc \in Editing =>
              /\ req[a].base \in 1 .. entry.version
              /\ a \in upToDate => req[a].base = entry.version
        /\ req[a].pc = "save_draft" => req[a].form \in Forms

\* the first row of the history is written once, by the request that created it
OneCreator ==
    /\ entry.version = 0 => history[1] = NoForm
    /\ \A a \in Admins : req[a].pc = "create_history" =>
        /\ history[1] = NoForm
        /\ req[a].form \in Forms
        /\ \A b \in Admins \ {a} : req[b].pc # "create_history"

\* a job runs on an entry that exists
JobsOnEntry == \A w \in Workers : job[w].pc # "idle" => entry.version >= 1

\* the inductive invariant
VersionInv ==
    /\ Exists <=> entry.version >= 1
    /\ JobsOnEntry
    /\ RequestsOnEntry
    /\ OneCreator
    /\ HistoryBacksEntry
    /\ OneWriterPerVersion

VInv == TypeInv /\ VersionInv

\* the stages that RequestsOnEntry and OneCreator speak of
Writing == Publishing \cup Editing \cup {"create_history"}

\* Domains: the types that the proofs about versions use.
LEMMA Domains ==
    ASSUME TypeInv
    PROVE  /\ entry.version \in 0 .. MaxVersion
           /\ \A a \in Admins : req[a].base \in 0 .. MaxVersion
           /\ history \in [Versions -> Forms \cup {NoForm}]
           /\ MaxVersion \in Nat \ {0} /\ 1 \in Versions
           /\ NoForm \notin Forms
BY StoreAssumption
DEF TypeInv, TypeOK, StoreTypeOK, ApiTypeOK, Entry, Request, Versions

\* KeptRequests: a step that leaves the version and the history alone, and
\* takes requests only out of the writing stages, keeps the invariant.
LEMMA KeptRequests ==
    ASSUME VInv, TypeInv',
           entry'.version = entry.version, Exists' = Exists,
           UNCHANGED history, upToDate' \subseteq upToDate,
           JobsOnEntry',
           \A b \in Admins : \/ req'[b] = req[b]
                             \/ /\ req'[b].pc \notin Writing
                                /\ req'[b].pc # "idle" => entry.version >= 1
    PROVE  VersionInv'
<1> USE DEF VInv, VersionInv
<1>1. RequestsOnEntry'
  BY DEF RequestsOnEntry, Writing, Publishing, Editing
<1>2. OneCreator'
  BY DEF OneCreator, Writing
<1>3. HistoryBacksEntry'
  BY DEF HistoryBacksEntry
<1>4. OneWriterPerVersion'
  BY DEF OneWriterPerVersion, Writing, Publishing
<1> QED
  BY <1>1, <1>2, <1>3, <1>4

\* what a step of the worker leaves alone
WorkerLeaves ==
    /\ entry'.version = entry.version
    /\ entry'.form = entry.form
    /\ Exists' = Exists
    /\ UNCHANGED history
    /\ upToDate' \subseteq upToDate
    /\ JobsOnEntry'

\* WorkerStepLeaves: the worker writes the status and the log of an entry, never
\* its version or its text, and never brings a row into existence.
LEMMA WorkerStepLeaves ==
    ASSUME VInv, NEW w \in Workers,
           LoadEntry(w) \/ LoadRetry(w) \/ JobStep(w)
    PROVE  WorkerLeaves
<1>t. /\ entry \in Entry /\ WorkerTypeOK
      /\ Exists <=> entry.version >= 1
      /\ JobsOnEntry
  BY DEF VInv, TypeInv, TypeOK, VersionInv, StoreTypeOK
<1>1. CASE LoadEntry(w) \/ LoadRetry(w)
  <2>1. UNCHANGED dbVars
    BY <1>1 DEF LoadEntry, LoadRetry
  <2>2. job' # job => Exists
    BY <1>1 DEF LoadEntry, LoadRetry, ToProcess, Exists
  <2>3. JobsOnEntry'
    BY <1>t, <2>1, <2>2 DEF JobsOnEntry, dbVars
  <2> QED
    BY <2>1, <2>3 DEF WorkerLeaves, dbVars, Exists
<1>2. CASE JobStep(w)
  <2>1. job[w].pc # "idle"
    BY <1>2 DEF JobStep, Validate, RetireIndex, RetireRows, AssembleAndScore,
       UpsertPoint, InsertChunk, IndexDocument, MarkIndexed, DetermineStatus,
       FinishEntry, RetryQdrant, RetryOpenSearch, Reschedule, RetryLog, RetryFinish
  <2>2. entry.version >= 1 /\ Exists
    BY <1>t, <2>1 DEF JobsOnEntry
  <2>3. UNCHANGED history
    BY <1>2 DEF JobStep, Validate, RetireIndex, RetireRows, AssembleAndScore,
       UpsertPoint, InsertChunk, IndexDocument, MarkIndexed, DetermineStatus,
       FinishEntry, RetryQdrant, RetryOpenSearch, Reschedule, RetryLog,
       RetryFinish, dbVars
  <2>4. \/ UNCHANGED <<entry, upToDate>>
        \/ \E status \in Status : WriteOutcome(status)
        \/ RetryLog(w)
        \/ RetryFinish(w)
    <3>1. CASE Validate(w) \/ AssembleAndScore(w) \/ FinishEntry(w)
      BY <3>1 DEF Validate, AssembleAndScore, FinishEntry, FailEntry, Status
    <3> QED
      BY <1>2, <3>1 DEF JobStep, RetireIndex, RetireRows,
         UpsertPoint, InsertChunk, IndexDocument, MarkIndexed, DetermineStatus,
         RetryQdrant, RetryOpenSearch, Reschedule, dbVars
  <2>5. /\ entry'.version = entry.version
        /\ entry'.form = entry.form
        /\ Exists'
        /\ upToDate' \subseteq upToDate
    <3>1. CASE UNCHANGED <<entry, upToDate>>
      BY <2>2, <3>1 DEF Exists
    <3>2. ASSUME NEW status \in Status, WriteOutcome(status)
          PROVE  <2>5!:
      BY <1>t, <3>2 DEF WriteOutcome, WriteEntry, Entry, Exists, Status
    <3>3. CASE RetryLog(w)
      BY <1>t, <2>2, <3>3 DEF RetryLog, WriteEntry, Entry, Exists
    <3>4. CASE RetryFinish(w)
      BY <1>t, <3>4 DEF RetryFinish, WriteEntry, Entry, Exists
    <3> QED
      BY <2>4, <3>1, <3>2, <3>3, <3>4
  <2> QED
    BY <2>2, <2>3, <2>5 DEF WorkerLeaves, JobsOnEntry
<1> QED
  BY <1>1, <1>2

\* ApiKeepsVersions: every statement of a handler keeps the invariant.
LEMMA ApiKeepsVersions ==
    ASSUME VInv, TypeInv', NEW a \in Admins, UNCHANGED job,
           AdminRequest(a) \/ HandlerStep(a)
    PROVE  VersionInv'
<1> USE DEF Publishing, Editing
<1>d. /\ entry.version \in 0 .. MaxVersion /\ entry \in Entry
      /\ history \in [Versions -> Forms \cup {NoForm}]
      /\ MaxVersion \in Nat \ {0} /\ 1 \in Versions /\ NoForm \notin Forms
      /\ \A b \in Admins : req[b].base \in 0 .. MaxVersion
  BY Domains DEF VInv, TypeInv, TypeOK, StoreTypeOK
<1>r. /\ req \in [Admins -> Request] /\ req[a] \in Request /\ BaseBounded
      /\ NoRequest \in Request /\ NoRequest.pc = "idle"
  BY NoRequestType DEF VInv, TypeInv, TypeOK, ApiTypeOK
<1>v. /\ Exists <=> entry.version >= 1
      /\ JobsOnEntry /\ RequestsOnEntry /\ OneCreator
      /\ HistoryBacksEntry /\ OneWriterPerVersion
  BY DEF VInv, VersionInv
\* a request that ends, or goes on to queue its job
<1>f. ASSUME Finish(a) \/ GotoEnqueue(a), entry.version >= 1
      PROVE  /\ \A b \in Admins : \/ req'[b] = req[b]
                                  \/ /\ req'[b].pc \notin Writing
                                     /\ req'[b].pc # "idle" => entry.version >= 1
             /\ \A b \in Admins \ {a} : req'[b] = req[b]
             /\ req'[a].pc \notin Writing
  <2> DEFINE r == [NoRequest EXCEPT !.pc = "enqueue"]
  <2>1. r.pc = "enqueue"
    BY <1>r DEF Request
  <2>2. req' = [req EXCEPT ![a] = NoRequest] \/ req' = [req EXCEPT ![a] = r]
    BY <1>f DEF Finish, GotoEnqueue
  <2> HIDE DEF r
  <2>3. \A b \in Admins \ {a} : req'[b] = req[b]
    BY <1>r, <2>2
  <2>4. req'[a].pc \notin Writing
    BY <1>r, <2>1, <2>2 DEF Writing
  <2> QED
    BY <1>f, <2>3, <2>4
<1>1. ASSUME NEW form \in Forms, NEW publish \in BOOLEAN,
             CreateEntry(a, form, publish)
      PROVE  VersionInv'
  <2> DEFINE r == [NoRequest EXCEPT !.pc = "create_history", !.form = form,
                                    !.publish = publish]
  <2>1. r.pc = "create_history" /\ r.form = form
    BY <1>r DEF Request
  <2>2. req' = [req EXCEPT ![a] = r]
    BY <1>1 DEF CreateEntry
  <2> HIDE DEF r
  <2>3. /\ entry.version = 0 /\ \A b \in Admins : req[b].pc = "idle"
        /\ entry'.version = 1 /\ Exists' /\ UNCHANGED history
    BY <1>1, <1>v, <1>d DEF CreateEntry, Exists, RequestsOnEntry
  <2>4. JobsOnEntry'
    BY <2>3 DEF JobsOnEntry
  <2>5. RequestsOnEntry'
    BY <1>r, <2>1, <2>2, <2>3 DEF RequestsOnEntry
  <2>6. OneCreator'
    BY <1>r, <1>v, <2>1, <2>2, <2>3 DEF OneCreator
  <2>7. HistoryBacksEntry'
    BY <1>v, <1>d, <2>3 DEF HistoryBacksEntry
  <2>8. OneWriterPerVersion'
    BY <1>r, <2>1, <2>2, <2>3 DEF OneWriterPerVersion
  <2> QED
    BY <2>3, <2>4, <2>5, <2>6, <2>7, <2>8 DEF VersionInv
<1>2. CASE CreateHistory(a)
  <2>1. /\ req[a].pc = "create_history" /\ entry' = entry
        /\ upToDate' = upToDate
        /\ history' = [history EXCEPT ![1] = req[a].form]
        /\ Finish(a) \/ GotoEnqueue(a)
    BY <1>2 DEF CreateHistory
  <2>2. entry.version >= 1 /\ entry.version # 0
    BY <1>v, <1>d, <2>1 DEF RequestsOnEntry
  <2>3. \A b \in Admins : \/ req'[b] = req[b]
                          \/ req'[b].pc \notin Writing
    BY <1>f, <2>1, <2>2
  <2>4. req'[a].pc \notin Writing
    BY <1>f, <2>1, <2>2
  <2>5. RequestsOnEntry'
    BY <1>v, <2>1, <2>2, <2>3 DEF RequestsOnEntry, Writing
  <2>6. OneCreator'
    BY <1>v, <2>1, <2>2, <2>3, <2>4 DEF OneCreator, Writing
  <2>7. HistoryBacksEntry'
    BY <1>v, <1>d, <2>1 DEF HistoryBacksEntry, Versions
  <2>8. OneWriterPerVersion'
    <3>1. \A b \in Admins : req[b].pc = "publish_entry" => req[b].base + 1 # 1
      BY <1>v, <1>d DEF RequestsOnEntry
    <3> QED
      BY <1>v, <1>d, <2>1, <2>3, <3>1 DEF OneWriterPerVersion, Writing
  <2> QED
    BY <1>v, <2>1, <2>5, <2>6, <2>7, <2>8 DEF VersionInv, JobsOnEntry, Exists
<1>3. CASE OpenEntry(a)
  <2> DEFINE r == [NoRequest EXCEPT !.pc = "open", !.base = entry.version]
  <2>1. r.pc = "open" /\ r.base = entry.version
    BY <1>r DEF Request
  <2>2. /\ req' = [req EXCEPT ![a] = r] /\ req[a].pc = "idle"
        /\ UNCHANGED <<entry, history>> /\ upToDate' = upToDate \cup {a}
        /\ entry.version >= 1
    BY <1>3, <1>v DEF OpenEntry
  <2> HIDE DEF r
  <2>3. RequestsOnEntry'
    BY <1>r, <1>v, <1>d, <2>1, <2>2 DEF RequestsOnEntry
  <2>4. OneCreator'
    BY <1>r, <1>v, <2>1, <2>2 DEF OneCreator
  <2>5. HistoryBacksEntry'
    BY <1>v, <2>2 DEF HistoryBacksEntry
  <2>6. OneWriterPerVersion'
    BY <1>r, <1>v, <2>1, <2>2 DEF OneWriterPerVersion
  <2> QED
    BY <1>v, <2>2, <2>3, <2>4, <2>5, <2>6 DEF VersionInv, JobsOnEntry, Exists
<1>4. ASSUME NEW form \in Forms, NEW publish \in BOOLEAN,
             SubmitEdit(a, form, publish)
      PROVE  VersionInv'
  <2> DEFINE pc == IF publish THEN "publish_history" ELSE "save_draft"
             r == [req[a] EXCEPT !.pc = pc, !.form = form]
  <2>1. r.base = req[a].base /\ r.pc = pc /\ r.form = form
    BY <1>r DEF Request
  <2>2. /\ req[a].pc = "open" /\ UNCHANGED storeVars
    BY <1>4 DEF SubmitEdit
  <2>3. UNCHANGED <<entry, history, upToDate>> /\ entry.version >= 1
    BY <1>v, <2>2 DEF storeVars, RequestsOnEntry
  <2>4. ASSUME Finish(a) PROVE VersionInv'
    BY <1>f, <1>v, <2>3, <2>4, KeptRequests DEF Exists, JobsOnEntry
  <2>5. ASSUME req' = [req EXCEPT ![a] = r] PROVE VersionInv'
    <3> HIDE DEF r
    <3>1. RequestsOnEntry'
      BY <1>r, <1>v, <2>1, <2>2, <2>3, <2>5 DEF RequestsOnEntry
    <3>2. OneCreator'
      BY <1>r, <1>v, <2>1, <2>3, <2>5 DEF OneCreator
    <3>3. HistoryBacksEntry'
      BY <1>v, <2>3 DEF HistoryBacksEntry
    <3>4. OneWriterPerVersion'
      BY <1>r, <1>v, <2>1, <2>3, <2>5 DEF OneWriterPerVersion
    <3> QED
      BY <1>v, <2>3, <3>1, <3>2, <3>3, <3>4 DEF VersionInv, JobsOnEntry, Exists
  <2> QED
    BY <1>4, <2>4, <2>5 DEF SubmitEdit
<1>5. CASE PublishHistory(a)
  <2> DEFINE r == [req[a] EXCEPT !.pc = "publish_entry"]
  <2>1. r.base = req[a].base /\ r.pc = "publish_entry" /\ r.form = req[a].form
    BY <1>r DEF Request
  <2>2. /\ req[a].pc = "publish_history" /\ UNCHANGED <<entry, upToDate>>
        /\ entry.version >= 1
        /\ req[a].base \in 1 .. entry.version /\ req[a].form \in Forms
        /\ req[a].base < MaxVersion
    BY <1>5, <1>v, <1>r DEF PublishHistory, RequestsOnEntry, BaseBounded
  <2>3. ASSUME VersionTaken(a) PROVE VersionInv'
    <3>1. Finish(a) /\ UNCHANGED history
      BY <1>5, <2>3 DEF PublishHistory
    <3> QED
      BY <1>f, <1>v, <2>2, <3>1, KeptRequests DEF Exists, JobsOnEntry
  <2>4. ASSUME ~VersionTaken(a) PROVE VersionInv'
    <3>1. /\ history[req[a].base + 1] = NoForm
          /\ history' = [history EXCEPT ![req[a].base + 1] = req[a].form]
          /\ req' = [req EXCEPT ![a] = r]
      BY <1>5, <2>4 DEF PublishHistory, VersionTaken, SnapshotVersion
    <3> HIDE DEF r
    <3>2. req[a].base = entry.version
      <4>1. req[a].base + 1 \in 2 .. MaxVersion
        BY <2>2, <1>d
      <4> QED
        BY <1>v, <1>d, <2>2, <3>1, <4>1 DEF HistoryBacksEntry
    <3>3. \A b \in Admins : req[b].pc # "publish_entry"
      BY <1>v, <1>d, <3>1, <3>2 DEF OneWriterPerVersion, RequestsOnEntry
    <3>4. RequestsOnEntry'
      BY <1>r, <1>v, <2>1, <2>2, <3>1 DEF RequestsOnEntry
    <3>5. OneCreator'
      BY <1>r, <1>v, <1>d, <2>1, <2>2, <3>1 DEF OneCreator
    <3>6. HistoryBacksEntry'
      BY <1>v, <1>d, <2>2, <3>1, <3>2 DEF HistoryBacksEntry, Versions
    <3>7. OneWriterPerVersion'
      BY <1>r, <1>d, <2>1, <2>2, <3>1, <3>2, <3>3
      DEF OneWriterPerVersion, Versions
    <3> QED
      BY <1>v, <2>2, <3>4, <3>5, <3>6, <3>7 DEF VersionInv, JobsOnEntry, Exists
  <2> QED
    BY <2>3, <2>4
<1>6. CASE PublishEntry(a)
  <2>1. /\ req[a].pc = "publish_entry" /\ UNCHANGED history /\ upToDate' = {}
        /\ GotoEnqueue(a) /\ entry.version >= 1
        /\ req[a].base = entry.version
        /\ req[a].form \in Forms
        /\ history[entry.version + 1] = req[a].form
        /\ \A b \in Admins \ {a} : req[b].pc # "publish_entry"
    BY <1>6, <1>v
    DEF PublishEntry, WriteEntry, OneWriterPerVersion, RequestsOnEntry
  <2>2. entry'.version = entry.version + 1 /\ Exists'
    BY <1>6, <1>d, <2>1 DEF PublishEntry, WriteEntry, Entry, Exists
  <2>3. \A b \in Admins : \/ b # a /\ req'[b] = req[b]
                          \/ req'[b].pc \notin Writing
    BY <1>f, <2>1
  <2>4. RequestsOnEntry'
    BY <1>v, <1>d, <2>1, <2>2, <2>3 DEF RequestsOnEntry, Writing
  <2>5. OneCreator'
    BY <1>v, <1>d, <2>1, <2>2, <2>3 DEF OneCreator, Writing
  <2>6. HistoryBacksEntry'
    BY <1>v, <1>d, <2>1, <2>2 DEF HistoryBacksEntry
  <2>7. OneWriterPerVersion'
    BY <2>1, <2>3 DEF OneWriterPerVersion, Writing
  <2> QED
    BY <1>v, <1>d, <2>1, <2>2, <2>4, <2>5, <2>6, <2>7 DEF VersionInv, JobsOnEntry
<1>7. CASE SaveDraft(a)
  <2>1. /\ req[a].pc = "save_draft" /\ UNCHANGED history /\ Finish(a)
        /\ entry.version >= 1
    BY <1>7, <1>v DEF SaveDraft, RequestsOnEntry
  <2>2. entry'.version = entry.version /\ Exists' /\ upToDate' \subseteq upToDate
    <3>1. CASE ~LockHeld(a)
      BY <1>7, <1>v, <2>1, <3>1 DEF SaveDraft, Exists
    <3>2. CASE LockHeld(a)
      <4>1. req[a].base = entry.version
        BY <1>v, <2>1, <3>2 DEF LockHeld, RequestsOnEntry
      <4> QED
        BY <1>7, <1>d, <3>2, <4>1 DEF SaveDraft, WriteEntry, Entry, Exists
    <3> QED
      BY <3>1, <3>2
  <2> QED
    BY <1>f, <1>v, <2>1, <2>2, KeptRequests DEF JobsOnEntry
<1>8. ASSUME NEW v \in Versions, RestoreVersion(a, v)
      PROVE  VersionInv'
  <2> DEFINE r == [NoRequest EXCEPT !.pc = "publish_history",
                                    !.base = entry.version, !.form = history[v]]
  <2>1. r.pc = "publish_history" /\ r.base = entry.version /\ r.form = history[v]
    BY <1>r DEF Request
  <2>2. /\ req' = [req EXCEPT ![a] = r] /\ history[v] \in Forms
        /\ entry.version >= 1 /\ UNCHANGED storeVars
    BY <1>8, <1>v, <1>d DEF RestoreVersion
  <2>3. UNCHANGED <<entry, history, upToDate>>
    BY <2>2 DEF storeVars
  <2> HIDE DEF r
  <2>4. RequestsOnEntry'
    BY <1>r, <1>v, <1>d, <2>1, <2>2, <2>3 DEF RequestsOnEntry
  <2>5. OneCreator'
    BY <1>r, <1>v, <2>1, <2>2, <2>3 DEF OneCreator
  <2>6. HistoryBacksEntry'
    BY <1>v, <2>3 DEF HistoryBacksEntry
  <2>7. OneWriterPerVersion'
    BY <1>r, <1>v, <2>1, <2>2, <2>3 DEF OneWriterPerVersion
  <2> QED
    BY <1>v, <2>3, <2>4, <2>5, <2>6, <2>7 DEF VersionInv, JobsOnEntry, Exists
<1>9. CASE \/ ArchiveEntry(a) \/ ArchiveSelect(a) \/ ArchiveIndex(a)
           \/ ArchiveRows(a) \/ ArchiveStatus(a) \/ Enqueue(a)
  <2>1. /\ UNCHANGED history
        /\ entry.version >= 1
    BY <1>9, <1>v DEF ArchiveEntry, ArchiveSelect, ArchiveIndex, ArchiveRows,
       ArchiveStatus, Enqueue, RequestsOnEntry, storeVars, dbVars
  <2>2. entry'.version = entry.version /\ Exists' /\ upToDate' \subseteq upToDate
    <3>1. CASE ArchiveStatus(a)
      BY <1>d, <3>1 DEF ArchiveStatus, WriteEntry, Entry, Exists
    <3>2. CASE UNCHANGED <<entry, upToDate>>
      BY <1>v, <2>1, <3>2 DEF Exists
    <3> QED
      BY <1>9, <3>1, <3>2 DEF ArchiveEntry, ArchiveSelect, ArchiveIndex,
         ArchiveRows, Enqueue, storeVars, dbVars
  <2>3. /\ \A b \in Admins \ {a} : req'[b] = req[b]
        /\ req'[a].pc \in {"idle", "archive_select", "archive_index", "archive_entry"}
    <3>1. CASE ArchiveStatus(a) \/ Enqueue(a)
      BY <1>r, <3>1 DEF ArchiveStatus, Enqueue, Finish
    <3>2. CASE ArchiveEntry(a)
      BY <1>r, <3>2 DEF ArchiveEntry, Request
    <3>3. CASE ArchiveSelect(a) \/ ArchiveRows(a)
      BY <1>r, <3>3 DEF ArchiveSelect, ArchiveRows, Request
    <3>4. CASE ArchiveIndex(a)
      BY <1>r, <3>4 DEF ArchiveIndex, Request
    <3> QED
      BY <1>9, <3>1, <3>2, <3>3, <3>4
  <2> QED
    BY <1>v, <2>1, <2>2, <2>3, KeptRequests
    DEF JobsOnEntry, Writing
<1>x. CASE AdminRequest(a)
  BY <1>x, <1>1, <1>3, <1>4, <1>8, <1>9 DEF AdminRequest
<1>y. CASE HandlerStep(a)
  BY <1>y, <1>2, <1>5, <1>6, <1>7, <1>9 DEF HandlerStep
<1> QED
  BY <1>x, <1>y

\* VersionInit: the invariant holds at the start.
LEMMA VersionInit == Init => VInv
<1> SUFFICES ASSUME Init PROVE VersionInv
  BY TypeInit DEF VInv
<1>1. /\ entry.version = 0 /\ ~Exists
      /\ \A a \in Admins : req[a].pc = "idle"
      /\ \A w \in Workers : job[w].pc = "idle"
      /\ history = [v \in Versions |-> NoForm] /\ 1 \in Versions
      /\ MaxVersion \in Nat
  BY StoreAssumption DEF Init, StoreInit, ApiInit, WorkerInit, NoEntry, NoRequest,
     NoJob, Exists, Versions
<1> QED
  BY <1>1 DEF VersionInv, JobsOnEntry, RequestsOnEntry, OneCreator,
     HistoryBacksEntry, OneWriterPerVersion, Versions, Publishing, Editing

\* VersionStep: the invariant is inductive.
LEMMA VersionStep == VInv /\ [Next]_vars => VInv'
<1> SUFFICES ASSUME VInv, [Next]_vars PROVE VInv'
  OBVIOUS
<1>t. TypeInv'
  BY TypeStep DEF VInv
<1>1. ASSUME NEW a \in Admins, ApiRequest(a) \/ ApiStep(a) PROVE VersionInv'
  BY <1>1, <1>t, ApiKeepsVersions DEF ApiRequest, ApiStep
<1>2. ASSUME NEW w \in Workers, StartProcess(w) \/ StartRetry(w) \/ WorkerStep(w)
      PROVE  VersionInv'
  BY <1>2, <1>t, WorkerStepLeaves, KeptRequests
  DEF StartProcess, StartRetry, WorkerStep, WorkerLeaves
<1>3. CASE Fault
  <2>1. ASSUME NEW a \in Admins, AbandonRequest(a), UNCHANGED job
        PROVE  VersionInv'
    <3>1. UNCHANGED <<entry, history, upToDate>> /\ JobsOnEntry'
      BY <2>1 DEF AbandonRequest, storeVars, VInv, VersionInv, JobsOnEntry
    <3>2. \A b \in Admins : req'[b] = req[b] \/ req'[b] = NoRequest
      BY <2>1 DEF AbandonRequest, Finish, VInv, TypeInv, TypeOK, ApiTypeOK
    <3> QED
      BY <1>t, <3>1, <3>2, NoRequestType, KeptRequests
      DEF Exists, Writing, Publishing, Editing
  <2>2. ASSUME NEW w \in Workers, AbortJob(w), UNCHANGED req
        PROVE  VersionInv'
    <3>1. UNCHANGED <<entry, history, upToDate>>
      BY <2>2 DEF AbortJob, dbVars
    <3>2. JobsOnEntry'
      BY <2>2, <3>1, NoJobType
      DEF AbortJob, EndJob, VInv, VersionInv, JobsOnEntry, TypeInv, TypeOK, WorkerTypeOK
    <3> QED
      BY <1>t, <2>2, <3>1, <3>2, KeptRequests DEF Exists
  <2>3. \/ \E a \in Admins : AbandonRequest(a) /\ UNCHANGED job
        \/ \E w \in Workers : AbortJob(w) /\ UNCHANGED req
    BY <1>3 DEF Fault
  <2> QED
    BY <1>t, <2>1, <2>2, <2>3 DEF VInv
<1>4. CASE UNCHANGED vars
  <2>1. UNCHANGED <<entry, history, upToDate, req, job>>
    BY <1>4 DEF vars, storeVars
  <2> QED
    BY <1>t, <2>1, KeptRequests DEF Exists, VInv, VersionInv, JobsOnEntry
<1> QED
  BY <1>t, <1>1, <1>2, <1>3, <1>4 DEF Next, VInv

\* VersionSafety: the history backs every version of the entry, and the unique
\* constraint of migration 007 serialises the publications.
THEOREM VersionSafety ==
    Spec => [](HistoryBacksEntry /\ OneWriterPerVersion)
<1>1. VInv => HistoryBacksEntry /\ OneWriterPerVersion
  BY DEF VInv, VersionInv
<1> QED
  BY <1>1, VersionInit, VersionStep, PTL DEF Spec

\* what one step of the program does to the versions
Keeps == /\ entry'.version = entry.version /\ entry'.form = entry.form
         /\ \A v \in Versions : history[v] # NoForm => history'[v] = history[v]

Creates == /\ entry.version = 0 /\ entry'.version = 1
           /\ entry'.form \in Forms /\ UNCHANGED history

Saves == /\ entry.version > 0 /\ entry'.version = entry.version
         /\ entry'.form \in Forms /\ UNCHANGED history

Publishes == /\ entry.version > 0 /\ entry.version < MaxVersion
             /\ entry'.version = entry.version + 1
             /\ entry'.form \in Forms /\ UNCHANGED history
             /\ history[entry.version + 1] = entry'.form

\* VersionEffects: seen from the version, its text and its history, every step of
\* the program is one of four.
LEMMA VersionEffects ==
    ASSUME VInv, [Next]_vars
    PROVE  Keeps \/ Creates \/ Saves \/ Publishes
<1>d. /\ entry.version \in 0 .. MaxVersion /\ entry \in Entry
      /\ history \in [Versions -> Forms \cup {NoForm}]
      /\ MaxVersion \in Nat \ {0} /\ 1 \in Versions /\ NoForm \notin Forms
  BY Domains DEF VInv, TypeInv, TypeOK, StoreTypeOK
<1>v. /\ Exists <=> entry.version >= 1
      /\ RequestsOnEntry /\ OneCreator /\ OneWriterPerVersion /\ BaseBounded
  BY DEF VInv, VersionInv, TypeInv
<1>k. UNCHANGED <<entry, history>> => Keeps
  BY DEF Keeps
<1>1. ASSUME NEW a \in Admins, AdminRequest(a)
      PROVE  Keeps \/ Creates \/ Saves \/ Publishes
  <2>1. ASSUME NEW form \in Forms, NEW publish \in BOOLEAN,
               CreateEntry(a, form, publish)
        PROVE  Creates
    BY <2>1, <1>v, <1>d DEF CreateEntry, Creates
  <2>2. ASSUME OpenEntry(a) \/ ArchiveEntry(a)
               \/ (\E form \in Forms, publish \in BOOLEAN :
                      SubmitEdit(a, form, publish))
               \/ (\E v \in Versions : RestoreVersion(a, v))
        PROVE  UNCHANGED <<entry, history>>
    BY <2>2 DEF OpenEntry, ArchiveEntry, SubmitEdit, RestoreVersion, storeVars
  <2> QED
    BY <1>1, <1>k, <2>1, <2>2 DEF AdminRequest
<1>2. ASSUME NEW a \in Admins, HandlerStep(a)
      PROVE  Keeps \/ Creates \/ Saves \/ Publishes
  <2>1. CASE CreateHistory(a)
    <3>1. history[1] = NoForm
      BY <2>1, <1>v DEF CreateHistory, OneCreator
    <3> QED
      BY <2>1, <1>d, <3>1 DEF CreateHistory, Keeps
  <2>2. CASE PublishHistory(a)
    BY <2>2, <1>d DEF PublishHistory, VersionTaken, SnapshotVersion, Keeps
  <2>3. CASE PublishEntry(a)
    <3>1. /\ req[a].base = entry.version /\ req[a].base < MaxVersion
          /\ req[a].base >= 1 /\ req[a].form \in Forms
          /\ history[entry.version + 1] = req[a].form
      BY <2>3, <1>v, <1>d
      DEF PublishEntry, OneWriterPerVersion, RequestsOnEntry, BaseBounded, Publishing
    <3> QED
      BY <2>3, <1>d, <3>1 DEF PublishEntry, WriteEntry, Entry, Publishes
  <2>4. CASE SaveDraft(a)
    <3>1. CASE ~LockHeld(a)
      BY <2>4, <3>1, <1>k DEF SaveDraft
    <3>2. CASE LockHeld(a)
      <4>1. /\ req[a].base = entry.version /\ entry.version >= 1
            /\ req[a].form \in Forms
        BY <2>4, <1>v, <3>2 DEF SaveDraft, LockHeld, RequestsOnEntry, Editing
      <4>2. /\ entry' = [entry EXCEPT !.status = "draft",
                                     !.version = req[a].base,
                                     !.form = req[a].form]
            /\ UNCHANGED history
        BY <2>4, <3>2 DEF SaveDraft, WriteEntry
      <4>3. entry'.version = req[a].base /\ entry'.form = req[a].form
        BY <1>d, <4>2 DEF Entry
      <4> QED
        BY <1>d, <4>1, <4>2, <4>3 DEF Saves
    <3> QED
      BY <3>1, <3>2
  <2>5. CASE ArchiveStatus(a)
    BY <2>5, <1>d DEF ArchiveStatus, WriteEntry, Entry, Keeps
  <2>6. CASE Enqueue(a) \/ ArchiveSelect(a) \/ ArchiveIndex(a) \/ ArchiveRows(a)
    BY <2>6, <1>k DEF Enqueue, ArchiveSelect, ArchiveIndex, ArchiveRows,
       storeVars, dbVars
  <2> QED
    BY <1>2, <2>1, <2>2, <2>3, <2>4, <2>5, <2>6 DEF HandlerStep
<1>3. ASSUME NEW w \in Workers, LoadEntry(w) \/ LoadRetry(w) \/ JobStep(w)
      PROVE  Keeps
  BY <1>3, WorkerStepLeaves DEF WorkerLeaves, Keeps
<1>4. CASE Fault \/ UNCHANGED vars
  BY <1>4, <1>k DEF Fault, AbandonRequest, AbortJob, vars, storeVars, dbVars
<1> QED
  BY <1>1, <1>2, <1>3, <1>4
  DEF Next, ApiRequest, ApiStep, StartProcess, StartRetry, WorkerStep

\* VersionStepsByOne: the version is never taken back and never skips a number,
\* although every UPDATE writes a version computed from an earlier SELECT.
VersionStepsByOne == [][entry'.version \in {entry.version, entry.version + 1}]_vars

\* StepsByOne: no step takes the version back or skips a number.
THEOREM StepsByOne == Spec => VersionStepsByOne
<1>1. VInv /\ [Next]_vars => [entry'.version \in {entry.version, entry.version + 1}]_vars
  <2>1. ASSUME VInv, [Next]_vars
        PROVE  entry'.version \in {entry.version, entry.version + 1}
    BY <2>1, VersionEffects DEF Keeps, Creates, Saves, Publishes
  <2> QED
    BY <2>1
<1> QED
  BY <1>1, VersionInit, VersionStep, PTL DEF Spec, VersionStepsByOne

\* FiledIsFinal: no step rewrites a text in the history.
THEOREM FiledIsFinal == Spec => FiledTextIsFinal
<1> DEFINE A == \A v \in Versions : history[v] # NoForm => history'[v] = history[v]
<1>1. VInv /\ [Next]_vars => [A]_vars
  <2>1. ASSUME VInv, [Next]_vars PROVE A
    BY <2>1, VersionEffects DEF Keeps, Creates, Saves, Publishes
  <2> QED
    BY <2>1
<1> QED
  BY <1>1, VersionInit, VersionStep, PTL DEF Spec, FiledTextIsFinal

\* AbstractInit: the initial states map to those of VersionedEntry.
LEMMA AbstractInit == Init => Abstract!Init
<1> SUFFICES ASSUME Init PROVE Abstract!Init
  OBVIOUS
<1>1. entry.version = 0 /\ entry.form = NoForm
  BY DEF Init, StoreInit, NoEntry
<1> QED
  BY <1>1 DEF Abstract!Init, Filed, Versions

\* AbstractStep: every step maps to a step of VersionedEntry or to a stutter.
LEMMA AbstractStep ==
    ASSUME VInv, [Next]_vars
    PROVE  [Abstract!Next]_(Abstract!vars)
<1>d. /\ entry.version \in 0 .. MaxVersion
      /\ history \in [Versions -> Forms \cup {NoForm}]
      /\ MaxVersion \in Nat \ {0} /\ NoForm \notin Forms
  BY Domains DEF VInv
<1>1. CASE Keeps
  <2>1. \A v \in Versions : 2 <= v /\ v <= entry.version => history'[v] = history[v]
    BY <1>1, <1>d DEF VInv, VersionInv, HistoryBacksEntry, Keeps, Versions
  <2>2. Filed' = Filed
    BY <1>1, <2>1 DEF Keeps, Filed
  <2> QED
    BY <1>1, <2>2 DEF Keeps, Abstract!vars
<1>2. CASE Creates
  <2>1. Filed' = Filed
    BY <1>2 DEF Creates, Filed, Versions
  <2>2. Abstract!Create(entry'.form)
    BY <1>2, <2>1 DEF Creates, Abstract!Create
  <2> QED
    BY <1>2, <2>2 DEF Creates, Abstract!Next
<1>3. CASE Saves
  <2>1. Filed' = Filed
    BY <1>3 DEF Saves, Filed
  <2>2. Abstract!Save(entry'.form)
    BY <1>3, <2>1 DEF Saves, Abstract!Save
  <2> QED
    BY <1>3, <2>2 DEF Saves, Abstract!Next
<1>4. CASE Publishes
  <2>1. Filed' = [Filed EXCEPT ![entry.version + 1] = entry'.form]
    <3> DEFINE new == [Filed EXCEPT ![entry.version + 1] = entry'.form]
    <3>1. ASSUME NEW v \in Versions PROVE Filed'[v] = new[v]
      <4>1. CASE v = entry.version + 1
        BY <1>4, <1>d, <4>1 DEF Publishes, Filed, Versions
      <4>2. CASE v # entry.version + 1
        <5>1. v <= entry'.version <=> v <= entry.version
          BY <1>4, <1>d, <4>2 DEF Publishes, Versions
        <5> QED
          BY <1>4, <4>2, <5>1 DEF Publishes, Filed
      <4> QED
        BY <4>1, <4>2
    <3> QED
      BY <3>1 DEF Filed
  <2>2. Abstract!Publish(entry'.form)
    BY <1>4, <2>1 DEF Publishes, Abstract!Publish
  <2> QED
    BY <1>4, <2>2 DEF Publishes, Abstract!Next
<1> QED
  BY <1>1, <1>2, <1>3, <1>4, VersionEffects

\* Refinement: the interleaved, crashing program implements VersionedEntry.
THEOREM Refinement == Spec => ImplementsVersionedEntry
<1>1. VInv /\ [Next]_vars => [Abstract!Next]_(Abstract!vars)
  BY AbstractStep
<1> QED
  BY <1>1, AbstractInit, VersionInit, VersionStep, PTL
  DEF Spec, ImplementsVersionedEntry, Abstract!Spec

-----------------------------------------------------------------------------
(***************************************************************************)
(* IndexedTextIsPublished: the chunks of a version hold the text that the  *)
(* history has for it. A chunk gets its text from a job, the job from the  *)
(* row when it starts, and the row agrees with the history as long as it   *)
(* says processing; the invariant follows the text along that way.         *)
(***************************************************************************)

\* a job of process_form_entry is running
Processing(w) == job[w].pc # "idle" /\ ~IsRetry(w)

\* a job is queued or running, or about to be queued
WorkWaiting ==
    \/ queue.process > 0
    \/ \E a \in Admins : req[a].pc = "enqueue"
    \/ \E w \in Workers : Processing(w)

VersionIsFiled == entry.version \in Versions /\ history[entry.version] # NoForm

\* a job is not queued before the text of the version is in the history
WorkIsFiled == WorkWaiting => VersionIsFiled

\* while the row says processing, its text is the one that was published
RowIsFiled ==
    entry.status = "processing" /\ VersionIsFiled =>
        entry.form = history[entry.version]

\* also when the history is written after the row
CreatorHasText ==
    \A a \in Admins :
        req[a].pc = "create_history" /\ entry.version = 1
        /\ entry.status = "processing" => req[a].form = entry.form

JobsAreFiled ==
    \A w \in Workers : Processing(w) =>
        /\ job[w].version \in Versions
        /\ job[w].form \in Forms
        /\ job[w].form = history[job[w].version]

ChunksAreFiled ==
    \A p \in Rows : /\ chunks[p].version \in Versions
                    /\ chunks[p].form \in Forms
                    /\ chunks[p].form = history[chunks[p].version]

\* the inductive invariant
TextInv == /\ WorkIsFiled /\ RowIsFiled /\ CreatorHasText
           /\ JobsAreFiled /\ ChunksAreFiled

\* HistoryGrows: a step keeps what is in the history, and the version that is
\* filed stays filed, whatever version the row moves to.
LEMMA HistoryGrows ==
    ASSUME VInv, [Next]_vars
    PROVE  /\ \A v \in Versions : history[v] # NoForm => history'[v] = history[v]
           /\ VersionIsFiled => VersionIsFiled'
           /\ entry'.version \in 2 .. MaxVersion => VersionIsFiled'
<1>1. \A v \in Versions : history[v] # NoForm => history'[v] = history[v]
  BY VersionEffects DEF Keeps, Creates, Saves, Publishes
<1>2. /\ VInv' /\ entry'.version \in 0 .. MaxVersion
      /\ entry.version \in 0 .. MaxVersion /\ MaxVersion \in Nat \ {0}
  <2>1. VInv'
    BY VersionStep
  <2> QED
    BY <2>1, Domains, StoreAssumption DEF VInv, TypeInv, TypeOK, StoreTypeOK, Entry
<1>3. entry'.version \in 2 .. MaxVersion => VersionIsFiled'
  BY <1>2 DEF VInv, VersionInv, HistoryBacksEntry, VersionIsFiled, Versions
<1>4. ASSUME VersionIsFiled PROVE VersionIsFiled'
  <2>1. \/ entry'.version = entry.version
        \/ entry'.version \in 2 .. MaxVersion
    BY <1>2, <1>4, VersionEffects
    DEF VersionIsFiled, Versions, Keeps, Creates, Saves, Publishes
  <2> QED
    BY <1>1, <1>3, <1>4, <2>1 DEF VersionIsFiled
<1> QED
  BY <1>1, <1>3, <1>4

\* ChunkEffects: a step changes the text of a chunk only by the INSERT of its row,
\* which takes version and text from the job.
LEMMA ChunkEffects ==
    ASSUME VInv, [Next]_vars, NEW p \in Points
    PROVE  \/ /\ chunks'[p].version = chunks[p].version
              /\ chunks'[p].form = chunks[p].form
           \/ \E w \in Workers : /\ Processing(w)
                                 /\ chunks'[p].version = job[w].version
                                 /\ chunks'[p].form = job[w].form
<1> DEFINE Same == /\ chunks'[p].version = chunks[p].version
                   /\ chunks'[p].form = chunks[p].form
<1>c. chunks \in [Points -> Chunk] /\ chunks[p] \in Chunk
  BY DEF VInv, TypeInv, TypeOK, StoreTypeOK
<1>1. CASE UNCHANGED chunks
  BY <1>1
<1>2. ASSUME NEW S, chunks' = RowsRetired(S) PROVE Same
  BY <1>c, <1>2 DEF RowsRetired, Chunk
<1>3. ASSUME NEW w \in Workers, InsertChunk(w), ~Same
      PROVE  /\ Processing(w)
             /\ chunks'[p].version = job[w].version
             /\ chunks'[p].form = job[w].form
  <2>1. chunks' = [chunks EXCEPT ![Point(w)] = NewRow(w)] /\ job[w].pc = "insert"
    BY <1>3 DEF InsertChunk
  <2>2. chunks'[p] = NewRow(w)
    BY <1>c, <1>3, <2>1
  <2> QED
    BY <2>1, <2>2 DEF NewRow, Processing, IsRetry
<1>4. ASSUME NEW w \in Workers, MarkIndexed(w) PROVE Same
  BY <1>c, <1>4 DEF MarkIndexed, Chunk
<1>5. ASSUME NEW w \in Workers, RetryQdrant(w) \/ RetryOpenSearch(w) PROVE Same
  <2>1. \/ chunks' = chunks
        \/ \E q : \/ chunks' = [chunks EXCEPT ![q].qdrant = "success"]
                  \/ chunks' = [chunks EXCEPT ![q].opensearch = "success"]
    BY <1>5 DEF RetryQdrant, RetryOpenSearch
  <2> QED
    BY <1>c, <2>1 DEF Chunk
<1>6. ASSUME NEW a \in Admins, AdminRequest(a) \/ HandlerStep(a)
      PROVE  chunks' = chunks \/ chunks' = RowsRetired(Rows)
  BY <1>6 DEF AdminRequest, HandlerStep, CreateEntry, OpenEntry, SubmitEdit,
     RestoreVersion, ArchiveEntry, CreateHistory, PublishHistory, PublishEntry,
     Enqueue, SaveDraft, ArchiveSelect, ArchiveIndex, ArchiveRows, ArchiveStatus,
     storeVars, dbVars
<1>7. ASSUME NEW w \in Workers, LoadEntry(w) \/ LoadRetry(w) \/ JobStep(w)
      PROVE  \/ chunks' = chunks \/ (\E S : chunks' = RowsRetired(S))
             \/ InsertChunk(w) \/ MarkIndexed(w)
             \/ RetryQdrant(w) \/ RetryOpenSearch(w)
  BY <1>7 DEF LoadEntry, LoadRetry, JobStep, Validate, RetireIndex, RetireRows,
     AssembleAndScore, UpsertPoint, IndexDocument, DetermineStatus, FinishEntry,
     Reschedule, RetryLog, RetryFinish, dbVars
<1>8. CASE Fault \/ UNCHANGED vars
  BY <1>1, <1>8 DEF Fault, AbandonRequest, AbortJob, vars, storeVars, dbVars
<1>9. ASSUME NEW a \in Admins, ApiRequest(a) \/ ApiStep(a) PROVE Same
  BY <1>2, <1>6, <1>9 DEF ApiRequest, ApiStep
<1>10. ASSUME NEW w \in Workers, StartProcess(w) \/ StartRetry(w) \/ WorkerStep(w)
       PROVE  Same \/ InsertChunk(w)
  BY <1>2, <1>4, <1>5, <1>7, <1>10 DEF StartProcess, StartRetry, WorkerStep
<1> QED
  BY <1>3, <1>8, <1>9, <1>10 DEF Next

\* JobEffects: a job that is processing after a step was processing the same
\* version and text before it, or has read them from the row.
LEMMA JobEffects ==
    ASSUME VInv, [Next]_vars, NEW w \in Workers, Processing(w)'
    PROVE  \/ /\ Processing(w)
              /\ job'[w].version = job[w].version
              /\ job'[w].form = job[w].form
           \/ /\ WorkWaiting /\ entry.status = "processing"
              /\ job'[w].version = entry.version
              /\ job'[w].form = entry.form
<1> DEFINE Same == /\ Processing(w)
                   /\ job'[w].version = job[w].version
                   /\ job'[w].form = job[w].form
           Read == /\ WorkWaiting /\ entry.status = "processing"
                   /\ job'[w].version = entry.version
                   /\ job'[w].form = entry.form
<1>j. job \in [Workers -> Job] /\ job[w] \in Job /\ NoJob \in Job
  BY NoJobType DEF VInv, TypeInv, TypeOK, WorkerTypeOK
<1>0. job' = job => Same
  BY DEF Processing, IsRetry
<1>1. ASSUME NEW u \in Workers, u # w,
             LoadEntry(u) \/ LoadRetry(u) \/ JobStep(u) \/ AbortJob(u)
      PROVE  job'[w] = job[w]
  BY <1>j, <1>1 DEF LoadEntry, LoadRetry, JobStep, AbortJob, EndJob, Continue,
     Validate, RetireIndex, RetireRows, AssembleAndScore, UpsertPoint, InsertChunk,
     IndexDocument, MarkIndexed, DetermineStatus, FinishEntry, RetryQdrant,
     RetryOpenSearch, Reschedule, RetryLog, RetryFinish
<1>2. job'[w] = job[w] => Same
  BY DEF Processing, IsRetry
<1>3. ~EndJob(w)
  BY <1>j, NoJobType DEF EndJob, Processing
<1>4. ASSUME LoadEntry(w) PROVE Same \/ Read
  <2> DEFINE j == [NoJob EXCEPT !.pc = "validate", !.run = runs + 1,
                                !.version = entry.version, !.form = entry.form]
  <2>1. CASE ToProcess
    <3>1. job' = [job EXCEPT ![w] = j] /\ queue.process > 0
      BY <1>4, <2>1 DEF LoadEntry
    <3>2. j.version = entry.version /\ j.form = entry.form
      BY <1>j DEF Job
    <3> HIDE DEF j
    <3> QED
      BY <1>j, <2>1, <3>1, <3>2 DEF ToProcess, WorkWaiting
  <2>2. CASE ~ToProcess
    BY <1>0, <1>4, <2>2 DEF LoadEntry
  <2> QED
    BY <2>1, <2>2
<1>5. ASSUME LoadRetry(w) PROVE Same
  <2> DEFINE j == [NoJob EXCEPT !.pc = "retry_qdrant",
                                !.qdrant = FailedRows("qdrant"),
                                !.opensearch = FailedRows("opensearch"),
                                !.live = CurrentRows,
                                !.retries = entry.retries]
  <2>1. job' = job \/ job' = [job EXCEPT ![w] = j]
    BY <1>5 DEF LoadRetry
  <2>2. j.pc = "retry_qdrant"
    BY <1>j DEF Job
  <2> HIDE DEF j
  <2> QED
    BY <1>j, <1>0, <2>1, <2>2 DEF Processing, IsRetry
<1>6. ASSUME \/ Validate(w) \/ RetireIndex(w) \/ RetireRows(w)
             \/ AssembleAndScore(w) \/ UpsertPoint(w) \/ InsertChunk(w)
             \/ IndexDocument(w) \/ MarkIndexed(w) \/ DetermineStatus(w)
             \/ FinishEntry(w)
      PROVE  Same
  <2> DEFINE Kept == /\ job'[w].version = job[w].version
                     /\ job'[w].form = job[w].form
  <2> HIDE DEF Same
  <2> SUFFICES Kept
    BY <1>6 DEF Same, Validate, RetireIndex, RetireRows, AssembleAndScore,
       UpsertPoint, InsertChunk, IndexDocument, MarkIndexed, DetermineStatus,
       FinishEntry, Processing, IsRetry
  <2>1. ASSUME NEW pc \in JobPC, Continue(w, pc) PROVE Kept /\ job'[w].pc = pc
    BY <1>j, <2>1 DEF Continue, Job
  <2>2. CASE Validate(w) \/ RetireRows(w) \/ DetermineStatus(w)
    <3>1. \/ \E pc \in JobPC : Continue(w, pc)
          \/ job' = [job EXCEPT ![w].pc = "retire", ![w].old = CurrentRows]
      BY <1>3, <2>2 DEF Validate, RetireRows, DetermineStatus, JobPC
    <3> QED
      BY <1>j, <2>1, <3>1 DEF Job
  <2>3. CASE RetireIndex(w)
    BY <1>j, <2>3 DEF RetireIndex, Job
  <2>4. CASE AssembleAndScore(w) \/ FinishEntry(w)
    BY <1>j, <1>3, <2>4 DEF AssembleAndScore, FinishEntry, Job
  <2>5. CASE UpsertPoint(w)
    BY <1>j, <2>5 DEF UpsertPoint, Job
  <2>6. CASE InsertChunk(w)
    BY <1>j, <2>6 DEF InsertChunk, Job
  <2>7. CASE IndexDocument(w)
    BY <1>j, <2>7 DEF IndexDocument, Job
  <2>8. CASE MarkIndexed(w)
    <3>1. \/ Continue(w, "determine")
          \/ job' = [job EXCEPT ![w].pc = "index", ![w].next = @ + 1]
      BY <2>8 DEF MarkIndexed
    <3> QED
      BY <1>j, <2>1, <3>1 DEF Job, JobPC
  <2> QED
    BY <1>6, <2>2, <2>3, <2>4, <2>5, <2>6, <2>7, <2>8
<1>7. ASSUME \/ RetryQdrant(w) \/ RetryOpenSearch(w) \/ Reschedule(w)
             \/ RetryLog(w) \/ RetryFinish(w)
      PROVE  FALSE
  <2> DEFINE RetryPC == {"retry_qdrant", "retry_opensearch", "reschedule",
                         "retry_log", "retry_finish"}
  <2>1. job'[w].pc \notin RetryPC
    BY DEF Processing, IsRetry
  <2>2. ASSUME NEW pc \in RetryPC PROVE ~Continue(w, pc)
    BY <1>j, <2>1, <2>2 DEF Continue, Job
  <2>3. ASSUME NEW j \in Job, job' = [job EXCEPT ![w] = j], j.pc \in RetryPC
        PROVE  FALSE
    BY <1>j, <2>1, <2>3
  <2>4. ~RetryQdrant(w)
    <3>1. SUFFICES ASSUME RetryQdrant(w) PROVE FALSE
      OBVIOUS
    <3>2. PICK p \in job[w].qdrant, ok \in QdrantOutcomes :
             job' = [job EXCEPT ![w].qdrant = @ \ {p}, ![w].failed = @ \/ ~ok]
      BY <2>2, <3>1 DEF RetryQdrant
    <3>3. job'[w].pc = job[w].pc
      BY <1>j, <3>2 DEF Job
    <3> QED
      BY <2>1, <3>1, <3>3 DEF RetryQdrant
  <2>5. ~RetryOpenSearch(w)
    <3>1. SUFFICES ASSUME RetryOpenSearch(w) PROVE FALSE
      OBVIOUS
    <3>2. PICK p \in job[w].opensearch, ok \in OpenSearchOutcomes :
             job' = [job EXCEPT ![w].opensearch = @ \ {p}, ![w].failed = @ \/ ~ok]
      BY <2>2, <3>1 DEF RetryOpenSearch
    <3>3. job'[w].pc = job[w].pc
      BY <1>j, <3>2 DEF Job
    <3> QED
      BY <2>1, <3>1, <3>3 DEF RetryOpenSearch
  <2>6. ~(Reschedule(w) \/ RetryLog(w))
    BY <2>2 DEF Reschedule, RetryLog
  <2> QED
    BY <1>3, <1>7, <2>4, <2>5, <2>6 DEF RetryFinish
<1>8. CASE Fault \/ UNCHANGED vars
  <2>1. job' = job \/ \E u \in Workers : AbortJob(u)
    BY <1>8 DEF Fault, vars
  <2> QED
    BY <1>0, <1>1, <1>2, <1>3, <2>1 DEF AbortJob
<1>9. ASSUME NEW u \in Workers, StartProcess(u) \/ StartRetry(u) \/ WorkerStep(u)
      PROVE  Same \/ Read
  BY <1>1, <1>2, <1>4, <1>5, <1>6, <1>7, <1>9
  DEF StartProcess, StartRetry, WorkerStep, JobStep
<1> QED
  BY <1>0, <1>8, <1>9 DEF Next, ApiRequest, ApiStep

\* RowEffects: only a create and a publication put an entry into processing;
\* otherwise its version and text stay while it says so.
LEMMA RowEffects ==
    ASSUME VInv, [Next]_vars, entry'.status = "processing"
    PROVE  \/ /\ entry.status = "processing"
              /\ entry'.version = entry.version
              /\ entry'.form = entry.form
           \/ \E a \in Admins, form \in Forms, publish \in BOOLEAN :
                 CreateEntry(a, form, publish) /\ UNCHANGED job
           \/ \E a \in Admins : PublishEntry(a) /\ UNCHANGED job
<1> DEFINE Same == /\ entry.status = "processing"
                   /\ entry'.version = entry.version
                   /\ entry'.form = entry.form
<1>e. entry \in Entry
  BY DEF VInv, TypeInv, TypeOK, StoreTypeOK
<1>0. entry' = entry => Same
  OBVIOUS
<1>1. ASSUME NEW a \in Admins, AdminRequest(a)
      PROVE  Same \/ \E form \in Forms, publish \in BOOLEAN :
                        CreateEntry(a, form, publish)
  BY <1>1 DEF AdminRequest, OpenEntry, SubmitEdit, RestoreVersion, ArchiveEntry,
     storeVars
<1>2. ASSUME NEW a \in Admins, HandlerStep(a) PROVE Same \/ PublishEntry(a)
  <2>1. CASE SaveDraft(a) \/ ArchiveStatus(a)
    BY <1>e, <2>1 DEF SaveDraft, ArchiveStatus, WriteEntry, Entry
  <2> QED
    BY <1>2, <2>1 DEF HandlerStep, CreateHistory, PublishHistory, Enqueue,
       ArchiveSelect, ArchiveIndex, ArchiveRows, storeVars, dbVars
<1>3. ASSUME NEW w \in Workers, LoadEntry(w) \/ LoadRetry(w) \/ JobStep(w)
      PROVE  Same
  <2>1. ASSUME NEW status \in Status, status # "processing"
        PROVE  ~WriteOutcome(status)
    BY <1>e, <2>1 DEF WriteOutcome, WriteEntry, Entry
  <2>2. CASE Validate(w) \/ AssembleAndScore(w)
    BY <2>1, <2>2 DEF Validate, AssembleAndScore, FailEntry, Status
  <2>3. ~FinishEntry(w)
    BY <2>1 DEF FinishEntry, Status
  <2>4. CASE RetryLog(w) \/ RetryFinish(w)
    BY <1>e, <2>4 DEF RetryLog, RetryFinish, WriteEntry, Entry
  <2> QED
    BY <1>3, <2>2, <2>3, <2>4 DEF LoadEntry, LoadRetry, JobStep, RetireIndex,
       RetireRows, UpsertPoint, InsertChunk, IndexDocument, MarkIndexed,
       DetermineStatus, RetryQdrant, RetryOpenSearch, Reschedule, dbVars
<1>4. CASE Fault \/ UNCHANGED vars
  BY <1>4 DEF Fault, AbandonRequest, AbortJob, vars, storeVars, dbVars
<1> QED
  BY <1>1, <1>2, <1>3, <1>4
  DEF Next, ApiRequest, ApiStep, StartProcess, StartRetry, WorkerStep

\* WorkEffects: work appears only where the version is filed.
LEMMA WorkEffects ==
    ASSUME VInv, [Next]_vars, WorkWaiting'
    PROVE  WorkWaiting \/ VersionIsFiled'
<1>t. /\ queue \in [process : Nat, retry : Nat] /\ req \in [Admins -> Request]
      /\ NoRequest \in Request /\ NoRequest.pc = "idle"
      /\ history \in [Versions -> Forms \cup {NoForm}] /\ 1 \in Versions
      /\ NoForm \notin Forms
      /\ MaxVersion \in Nat \ {0}
      /\ entry \in Entry /\ entry.version \in 0 .. MaxVersion
  BY Domains, NoRequestType DEF VInv, TypeInv, TypeOK, StoreTypeOK, ApiTypeOK
<1>j. (\E w \in Workers : Processing(w)') => WorkWaiting
  BY JobEffects DEF WorkWaiting
<1>q. queue'.process > 0 => WorkWaiting
  <2>1. ASSUME queue' = queue \/ EnqueueRetry
        PROVE  queue'.process > 0 => queue.process > 0
    BY <1>t, <2>1 DEF EnqueueRetry
  <2>2. ASSUME NEW w \in Workers, LoadEntry(w) \/ LoadRetry(w)
        PROVE  queue'.process > 0 => WorkWaiting
    BY <1>t, <2>2 DEF LoadEntry, LoadRetry, WorkWaiting
  <2>3. ASSUME NEW w \in Workers, JobStep(w)
        PROVE  queue' = queue \/ EnqueueRetry
    BY <2>3 DEF JobStep, Validate, RetireIndex, RetireRows, AssembleAndScore,
       UpsertPoint, InsertChunk, IndexDocument, MarkIndexed, DetermineStatus,
       FinishEntry, RetryQdrant, RetryOpenSearch, Reschedule, RetryLog, RetryFinish
  <2>4. ASSUME NEW a \in Admins, AdminRequest(a) \/ HandlerStep(a)
        PROVE  queue' = queue \/ req[a].pc = "enqueue"
    BY <2>4 DEF AdminRequest, HandlerStep, CreateEntry, OpenEntry, SubmitEdit,
       RestoreVersion, ArchiveEntry, CreateHistory, PublishHistory, PublishEntry,
       Enqueue, SaveDraft, ArchiveSelect, ArchiveIndex, ArchiveRows, ArchiveStatus,
       storeVars
  <2>5. ASSUME NEW w \in Workers, AbortJob(w)
        PROVE  queue' = queue \/ EnqueueRetry \/ Processing(w)
    BY <2>5 DEF AbortJob, Processing
  <2>6. ASSUME NEW a \in Admins, AbandonRequest(a) PROVE queue' = queue
    BY <2>6 DEF AbandonRequest, storeVars
  <2>7. CASE Fault
    BY <2>1, <2>5, <2>6, <2>7 DEF Fault, WorkWaiting
  <2>8. CASE UNCHANGED vars
    BY <2>8 DEF vars, storeVars, WorkWaiting
  <2> QED
    BY <2>1, <2>2, <2>3, <2>4, <2>7, <2>8
    DEF Next, ApiRequest, ApiStep, StartProcess, StartRetry, WorkerStep, WorkWaiting
<1>r. ASSUME NEW b \in Admins, req'[b].pc = "enqueue", req[b].pc # "enqueue"
      PROVE  VersionIsFiled'
  <2>1. ASSUME NEW a \in Admins, Finish(a) PROVE FALSE
    BY <1>t, <1>r, <2>1 DEF Finish
  <2>2. PICK a \in Admins : AdminRequest(a) \/ HandlerStep(a)
    BY <1>r, <2>1 DEF Next, ApiRequest, ApiStep, StartProcess, StartRetry,
       WorkerStep, Fault, AbandonRequest, vars
  <2>3. ~AdminRequest(a)
    <3>1. ASSUME NEW r \in Request, r.pc # "enqueue", req' = [req EXCEPT ![a] = r]
          PROVE  FALSE
      BY <1>t, <1>r, <3>1
    <3>2. ASSUME NEW form, NEW publish, CreateEntry(a, form, publish) PROVE FALSE
      <4> DEFINE r == [NoRequest EXCEPT !.pc = "create_history", !.form = form,
                                        !.publish = publish]
      <4>1. r.pc = "create_history"
        BY <1>t DEF Request
      <4>2. req' = [req EXCEPT ![a] = r]
        BY <3>2 DEF CreateEntry
      <4> HIDE DEF r
      <4> QED
        BY <1>t, <1>r, <4>1, <4>2
    <3>3. ~OpenEntry(a)
      BY <1>t, <1>r, ZenonT(30) DEF OpenEntry, Request
    <3>4. ASSUME NEW form, NEW publish, SubmitEdit(a, form, publish) PROVE FALSE
      <4>1. req' = [req EXCEPT ![a].pc = IF publish THEN "publish_history"
                                         ELSE "save_draft",
                               ![a].form = form]
        BY <2>1, <3>4 DEF SubmitEdit
      <4> QED
        BY <1>t, <1>r, <4>1, ZenonT(30) DEF Request
    <3>5. ASSUME NEW v, RestoreVersion(a, v) PROVE FALSE
      BY <1>t, <1>r, <3>5 DEF RestoreVersion, Request
    <3>6. ~ArchiveEntry(a)
      BY <1>t, <1>r DEF ArchiveEntry, Request
    <3> QED
      BY <3>2, <3>3, <3>4, <3>5, <3>6 DEF AdminRequest
  <2>4. ~(\/ Enqueue(a) \/ SaveDraft(a) \/ ArchiveStatus(a))
    BY <2>1 DEF Enqueue, SaveDraft, ArchiveStatus
  <2>5. ~(\/ ArchiveSelect(a) \/ ArchiveIndex(a) \/ ArchiveRows(a))
    BY <1>t, <1>r DEF ArchiveSelect, ArchiveIndex, ArchiveRows, Request
  <2>6. ~PublishHistory(a)
    BY <1>t, <1>r, <2>1 DEF PublishHistory, Request
  <2>7. CASE CreateHistory(a)
    <3>1. /\ history' = [history EXCEPT ![1] = req[a].form]
          /\ req[a].form \in Forms /\ entry.version >= 1 /\ entry' = entry
      BY <2>7 DEF CreateHistory, VInv, VersionInv, OneCreator, RequestsOnEntry
    <3>2. CASE entry.version = 1
      BY <1>t, <3>1, <3>2 DEF VersionIsFiled
    <3>3. CASE entry.version # 1
      BY <1>t, <3>1, <3>3, HistoryGrows
    <3> QED
      BY <3>2, <3>3
  <2>8. CASE PublishEntry(a)
    <3>1. /\ req[a].base = entry.version /\ entry.version >= 1
          /\ req[a].base < MaxVersion
      BY <2>8, <1>t DEF PublishEntry, VInv, VersionInv, OneWriterPerVersion,
         RequestsOnEntry, TypeInv, BaseBounded
    <3>2. entry'.version = entry.version + 1
      BY <1>t, <2>8, <3>1 DEF PublishEntry, WriteEntry, Entry
    <3> QED
      BY <1>t, <3>1, <3>2, HistoryGrows
  <2> QED
    BY <2>2, <2>3, <2>4, <2>5, <2>6, <2>7, <2>8 DEF HandlerStep
<1> QED
  BY <1>j, <1>q, <1>r DEF WorkWaiting

\* EntryOrHistory: no statement writes the row and the history.
LEMMA EntryOrHistory ==
    ASSUME VInv, [Next]_vars
    PROVE  UNCHANGED entry \/ UNCHANGED history
<1>1. ASSUME NEW a \in Admins, AdminRequest(a)
      PROVE  UNCHANGED entry \/ UNCHANGED history
  BY <1>1 DEF AdminRequest, CreateEntry, OpenEntry, SubmitEdit, RestoreVersion,
     ArchiveEntry, storeVars
<1>2. ASSUME NEW a \in Admins, HandlerStep(a)
      PROVE  UNCHANGED entry \/ UNCHANGED history
  BY <1>2 DEF HandlerStep, CreateHistory, PublishHistory, PublishEntry, Enqueue,
     SaveDraft, ArchiveSelect, ArchiveIndex, ArchiveRows, ArchiveStatus,
     storeVars, dbVars
<1>3. ASSUME NEW w \in Workers, LoadEntry(w) \/ LoadRetry(w) \/ JobStep(w)
      PROVE  UNCHANGED history
  BY <1>3, WorkerStepLeaves DEF WorkerLeaves
<1>4. CASE Fault \/ UNCHANGED vars
  BY <1>4 DEF Fault, AbandonRequest, AbortJob, vars, storeVars, dbVars
<1> QED
  BY <1>1, <1>2, <1>3, <1>4
  DEF Next, ApiRequest, ApiStep, StartProcess, StartRetry, WorkerStep

\* CreatorIsNew: a request about to write the first history row was there before
\* the step, or is the one that created the entry.
LEMMA CreatorIsNew ==
    ASSUME VInv, [Next]_vars, NEW b \in Admins, req'[b].pc = "create_history"
    PROVE  \/ req'[b] = req[b]
           \/ \E a \in Admins, form \in Forms, publish \in BOOLEAN :
                 CreateEntry(a, form, publish)
<1> SUFFICES ASSUME req'[b] # req[b],
                    ~\E a \in Admins, form \in Forms, publish \in BOOLEAN :
                        CreateEntry(a, form, publish)
             PROVE  FALSE
  OBVIOUS
<1>t. /\ req \in [Admins -> Request]
      /\ NoRequest \in Request /\ NoRequest.pc = "idle"
  BY NoRequestType DEF VInv, TypeInv, TypeOK, ApiTypeOK
<1>1. ASSUME NEW a \in Admins, NEW r \in Request, r.pc # "create_history",
             req' = [req EXCEPT ![a] = r]
      PROVE  FALSE
  BY <1>t, <1>1
<1>2. ASSUME NEW a \in Admins, Finish(a) \/ GotoEnqueue(a) PROVE FALSE
  BY <1>t, <1>2 DEF Finish, GotoEnqueue, Request
<1>3. PICK a \in Admins : AdminRequest(a) \/ HandlerStep(a)
  BY <1>2 DEF Next, ApiRequest, ApiStep, StartProcess, StartRetry, WorkerStep,
     Fault, AbandonRequest, vars
<1>4. ~OpenEntry(a) /\ ~ArchiveEntry(a)
  BY <1>t DEF OpenEntry, ArchiveEntry, Request
<1>5. ASSUME NEW form, NEW publish, SubmitEdit(a, form, publish) PROVE FALSE
  <2>1. req' = [req EXCEPT ![a].pc = IF publish THEN "publish_history"
                                     ELSE "save_draft",
                           ![a].form = form]
    BY <1>2, <1>5 DEF SubmitEdit
  <2> QED
    BY <1>t, <2>1 DEF Request
<1>6. ASSUME NEW v, RestoreVersion(a, v) PROVE FALSE
  BY <1>t, <1>6 DEF RestoreVersion, Request
<1>7. ~AdminRequest(a)
  BY <1>4, <1>5, <1>6 DEF AdminRequest
<1>8. ~PublishHistory(a)
  BY <1>t, <1>2 DEF PublishHistory, Request
<1>9. ~(\/ CreateHistory(a) \/ PublishEntry(a) \/ Enqueue(a) \/ SaveDraft(a)
        \/ ArchiveStatus(a))
  BY <1>2 DEF CreateHistory, PublishEntry, Enqueue, SaveDraft, ArchiveStatus
<1>10. ~(ArchiveSelect(a) \/ ArchiveIndex(a) \/ ArchiveRows(a))
  BY <1>t DEF ArchiveSelect, ArchiveIndex, ArchiveRows, Request
<1> QED
  BY <1>3, <1>7, <1>8, <1>9, <1>10 DEF HandlerStep

\* TextStep: the invariant is inductive, given the one on the versions.
LEMMA TextStep ==
    ASSUME VInv, TextInv, [Next]_vars
    PROVE  TextInv'
<1> USE DEF TextInv
<1>d. /\ entry \in Entry /\ entry.version \in 0 .. MaxVersion
      /\ history \in [Versions -> Forms \cup {NoForm}]
      /\ NoForm \notin Forms /\ MaxVersion \in Nat \ {0} /\ 1 \in Versions
      /\ req \in [Admins -> Request] /\ NoRequest \in Request
  BY Domains, NoRequestType DEF VInv, TypeInv, TypeOK, StoreTypeOK, ApiTypeOK
<1>v. VInv' /\ TypeInv' /\ VersionInv'
  BY VersionStep DEF VInv
<1>h. /\ \A v \in Versions : history[v] # NoForm => history'[v] = history[v]
      /\ VersionIsFiled => VersionIsFiled'
  BY HistoryGrows
\* what a create and a publication leave
<1>c. ASSUME NEW a \in Admins, NEW form \in Forms, NEW publish \in BOOLEAN,
             CreateEntry(a, form, publish)
      PROVE  ~VersionIsFiled' /\ CreatorHasText'
  <2> DEFINE r == [NoRequest EXCEPT !.pc = "create_history", !.form = form,
                                    !.publish = publish]
  <2>1. /\ req' = [req EXCEPT ![a] = r] /\ history' = history
        /\ entry'.version = 1 /\ entry'.form = form
    BY <1>c DEF CreateEntry
  <2>2. entry.version = 0 /\ history[1] = NoForm
    BY <1>c, <1>d DEF CreateEntry, VInv, VersionInv, OneCreator
  <2>3. \A b \in Admins : req[b].pc = "idle"
    BY <1>d, <2>2 DEF VInv, VersionInv, RequestsOnEntry
  <2>4. r.form = form
    BY <1>d DEF Request
  <2> HIDE DEF r
  <2>5. CreatorHasText'
    BY <1>d, <2>1, <2>3, <2>4 DEF CreatorHasText
  <2> QED
    BY <2>1, <2>2, <2>5 DEF VersionIsFiled
<1>p. ASSUME NEW a \in Admins, PublishEntry(a)
      PROVE  /\ entry'.version >= 2
             /\ entry'.form = history'[entry'.version]
  <2>1. /\ req[a].base = entry.version /\ entry.version >= 1
        /\ history[req[a].base + 1] = req[a].form
    BY <1>p DEF PublishEntry, VInv, VersionInv, OneWriterPerVersion, RequestsOnEntry
  <2>2. /\ entry'.version = entry.version + 1 /\ entry'.form = req[a].form
        /\ history' = history
    BY <1>d, <1>p, <2>1 DEF PublishEntry, WriteEntry, Entry
  <2> QED
    BY <1>d, <2>1, <2>2
<1>1. WorkIsFiled'
  <2> SUFFICES ASSUME WorkWaiting' PROVE VersionIsFiled'
    BY DEF WorkIsFiled
  <2> QED
    BY <1>h, WorkEffects DEF WorkIsFiled
\* where the history of the row's version appears
<1>f. ASSUME VersionIsFiled', ~VersionIsFiled, UNCHANGED entry
      PROVE  /\ entry.version = 1
             /\ \E a \in Admins : /\ req[a].pc = "create_history"
                                  /\ history'[1] = req[a].form
  <2>1. entry.version \in Versions /\ history[entry.version] = NoForm
    BY <1>f DEF VersionIsFiled
  <2>2. entry.version = 1
    BY <1>d, <2>1 DEF VInv, VersionInv, HistoryBacksEntry, Versions
  <2>3. history'[1] # NoForm /\ history[1] = NoForm
    BY <1>f, <2>1, <2>2 DEF VersionIsFiled
  <2>4. PICK a \in Admins : CreateHistory(a) \/ PublishHistory(a)
    <3>1. ASSUME NEW a \in Admins, AdminRequest(a) \/ HandlerStep(a),
                 ~CreateHistory(a), ~PublishHistory(a)
          PROVE  history' = history
      BY <3>1 DEF AdminRequest, HandlerStep, CreateEntry, OpenEntry, SubmitEdit,
         RestoreVersion, ArchiveEntry, PublishEntry, Enqueue, SaveDraft,
         ArchiveSelect, ArchiveIndex, ArchiveRows, ArchiveStatus, storeVars, dbVars
    <3>2. ASSUME NEW w \in Workers, LoadEntry(w) \/ LoadRetry(w) \/ JobStep(w)
          PROVE  history' = history
      BY <3>2, WorkerStepLeaves DEF WorkerLeaves
    <3>3. CASE Fault \/ UNCHANGED vars
      BY <2>3, <3>3 DEF Fault, AbandonRequest, AbortJob, vars, storeVars, dbVars
    <3> QED
      BY <2>3, <3>1, <3>2, <3>3
      DEF Next, ApiRequest, ApiStep, StartProcess, StartRetry, WorkerStep
  <2>5. ~PublishHistory(a)
    <3>1. SUFFICES ASSUME PublishHistory(a) PROVE FALSE
      OBVIOUS
    <3>2. req[a].base >= 1 /\ req[a].base \in Nat
      BY <1>d, <3>1
      DEF PublishHistory, VInv, VersionInv, RequestsOnEntry, Publishing
    <3> QED
      BY <1>d, <2>3, <3>1, <3>2 DEF PublishHistory, SnapshotVersion
  <2>6. req[a].pc = "create_history" /\ history'[1] = req[a].form
    BY <1>d, <2>4, <2>5 DEF CreateHistory
  <2> QED
    BY <2>2, <2>6
<1>2. RowIsFiled'
  <2> SUFFICES ASSUME entry'.status = "processing", VersionIsFiled'
               PROVE  entry'.form = history'[entry'.version]
    BY DEF RowIsFiled
  <2>1. ASSUME entry.status = "processing", entry'.version = entry.version,
               entry'.form = entry.form
        PROVE  entry'.form = history'[entry'.version]
    <3>1. CASE VersionIsFiled
      BY <1>h, <2>1, <3>1 DEF RowIsFiled, VersionIsFiled
    <3>2. CASE ~VersionIsFiled
      <4>1. ASSUME UNCHANGED entry PROVE entry'.form = history'[entry'.version]
        <5>1. PICK a \in Admins : /\ req[a].pc = "create_history"
                                  /\ history'[1] = req[a].form
                                  /\ entry.version = 1
          BY <1>f, <3>2, <4>1
        <5> QED
          BY <2>1, <5>1 DEF CreatorHasText
      <4>2. ASSUME history' = history PROVE FALSE
        BY <2>1, <3>2, <4>2 DEF VersionIsFiled
      <4>3. UNCHANGED entry \/ UNCHANGED history
        BY EntryOrHistory
      <4> QED
        BY <4>1, <4>2, <4>3
    <3> QED
      BY <3>1, <3>2
  <2> QED
    BY <1>c, <1>p, <2>1, RowEffects
<1>3. CreatorHasText'
  <2> SUFFICES ASSUME NEW b \in Admins, req'[b].pc = "create_history",
                      entry'.version = 1, entry'.status = "processing"
               PROVE  req'[b].form = entry'.form
    BY DEF CreatorHasText
  <2>1. ASSUME req'[b] = req[b], entry.status = "processing",
               entry'.version = entry.version, entry'.form = entry.form
        PROVE  req'[b].form = entry'.form
    BY <2>1 DEF CreatorHasText
  <2>2. \/ req'[b] = req[b]
        \/ \E a \in Admins, form \in Forms, publish \in BOOLEAN :
              CreateEntry(a, form, publish)
    BY CreatorIsNew
  <2> QED
    BY <1>c, <1>p, <2>1, <2>2, RowEffects DEF CreatorHasText
<1>4. JobsAreFiled'
  <2> SUFFICES ASSUME NEW w \in Workers, Processing(w)'
               PROVE  /\ job'[w].version \in Versions
                      /\ job'[w].form \in Forms
                      /\ job'[w].form = history'[job'[w].version]
    BY DEF JobsAreFiled
  <2>1. CASE /\ Processing(w)
             /\ job'[w].version = job[w].version
             /\ job'[w].form = job[w].form
    BY <1>d, <1>h, <2>1 DEF JobsAreFiled
  <2>2. CASE /\ WorkWaiting /\ entry.status = "processing"
             /\ job'[w].version = entry.version
             /\ job'[w].form = entry.form
    <3>1. VersionIsFiled /\ entry.form = history[entry.version]
      BY <2>2 DEF WorkIsFiled, RowIsFiled
    <3> QED
      BY <1>d, <1>h, <2>2, <3>1 DEF VersionIsFiled
  <2> QED
    BY <2>1, <2>2, JobEffects
<1>5. ChunksAreFiled'
  <2> SUFFICES ASSUME NEW p \in Points, chunks'[p].version # 0
               PROVE  /\ chunks'[p].version \in Versions
                      /\ chunks'[p].form \in Forms
                      /\ chunks'[p].form = history'[chunks'[p].version]
    BY DEF ChunksAreFiled, Rows, Points
  <2>1. CASE /\ chunks'[p].version = chunks[p].version
             /\ chunks'[p].form = chunks[p].form
    BY <1>d, <1>h, <2>1 DEF ChunksAreFiled, Rows
  <2>2. ASSUME NEW w \in Workers, Processing(w),
               chunks'[p].version = job[w].version,
               chunks'[p].form = job[w].form
        PROVE  /\ chunks'[p].version \in Versions
               /\ chunks'[p].form \in Forms
               /\ chunks'[p].form = history'[chunks'[p].version]
    BY <1>d, <1>h, <2>2 DEF JobsAreFiled
  <2> QED
    BY <2>1, <2>2, ChunkEffects
<1> QED
  BY <1>1, <1>2, <1>3, <1>4, <1>5

\* TextInit: the invariant holds at the start.
LEMMA TextInit == Init => TextInv
<1> SUFFICES ASSUME Init PROVE TextInv
  OBVIOUS
<1>1. /\ entry.version = 0 /\ entry.status = "absent" /\ queue.process = 0
      /\ \A a \in Admins : req[a].pc = "idle"
      /\ \A w \in Workers : job[w].pc = "idle"
      /\ \A p \in Points : chunks[p].version = 0
  BY DEF Init, StoreInit, ApiInit, WorkerInit, NoEntry, NoRequest, NoJob, NoChunk
<1> QED
  BY <1>1 DEF TextInv, WorkIsFiled, WorkWaiting, Processing, RowIsFiled,
     CreatorHasText, JobsAreFiled, ChunksAreFiled, Rows

\* IndexedText: whatever happens meanwhile, a chunk holds the text that the history
\* has for its version.
THEOREM IndexedText == Spec => []IndexedTextIsPublished
<1>1. TextInv => IndexedTextIsPublished
  BY DEF TextInv, ChunksAreFiled, IndexedTextIsPublished
<1>2. VInv /\ TextInv /\ [Next]_vars => VInv' /\ TextInv'
  BY VersionStep, TextStep
<1> QED
  BY <1>1, <1>2, VersionInit, TextInit, PTL DEF Spec

-----------------------------------------------------------------------------
(***************************************************************************)
(* The points in Qdrant against the rows that find them again, and the     *)
(* status of the entry against the jobs that move it on. A point is        *)
(* followed from the call that stores it, through the job that has yet to  *)
(* insert its row, to the retries that write it again; a queued retry is   *)
(* counted against the jobs that have yet to write the status it needs.    *)
(***************************************************************************)

-----------------------------------------------------------------------------
(***************************************************************************)
(* Points and rows                                                         *)
(***************************************************************************)

\* the point of the chunk at hand is one that the run has drawn
JobsNumbered ==
    \A w \in Workers :
        /\ Processing(w) => job[w].run # 0
        /\ job[w].pc \in {"upsert", "insert"} => job[w].next # 0

\* a job that was told its point is stored will find it there
StoredBeforeInsert ==
    \A w \in Workers : job[w].pc = "insert" /\ job[w].ok =>
        qdrant[Point(w)] # "absent"

\* a retry writes no point that has no row
RetriesHaveRows == \A w \in Workers : job[w].qdrant \subseteq Rows

\* no status claims a point that is not there, of a row or not
StatusTruthful ==
    \A p \in Points : chunks[p].qdrant = "success" => qdrant[p] # "absent"

\* the inductive invariant
PointInv == /\ JobsNumbered /\ StoredBeforeInsert /\ RetriesHaveRows
            /\ StatusTruthful /\ EveryPointHasRow

-----------------------------------------------------------------------------
(***************************************************************************)
(* Status and jobs                                                         *)
(***************************************************************************)

Scheduling == {w \in Workers : HasQueuedRetry(w)}

\* every job that has queued a retry and has yet to write its status still has
\* that retry in the queue
RetriesQueued == queue.retry >= Cardinality(Scheduling)

\* the inductive invariant
WorkInv == RetriesQueued /\ PartialIndexHasRetry /\ ProcessingHasJob

-----------------------------------------------------------------------------
\* OthersStay: a step of one job leaves the other slots alone.
LEMMA OthersStay ==
    ASSUME VInv, NEW w \in Workers, NEW u \in Workers, u # w,
           LoadEntry(u) \/ LoadRetry(u) \/ JobStep(u) \/ AbortJob(u)
    PROVE  job'[w] = job[w]
<1>j. job \in [Workers -> Job]
  BY DEF VInv, TypeInv, TypeOK, WorkerTypeOK
<1> QED
  BY <1>j DEF LoadEntry, LoadRetry, JobStep, AbortJob, EndJob, Continue,
     Validate, RetireIndex, RetireRows, AssembleAndScore, UpsertPoint, InsertChunk,
     IndexDocument, MarkIndexed, DetermineStatus, FinishEntry, RetryQdrant,
     RetryOpenSearch, Reschedule, RetryLog, RetryFinish

\* JobMoves: a step that changes a job is a step of that job, and takes it out of
\* its slot before its end only with a fault.
LEMMA JobMoves ==
    ASSUME VInv, [Next]_vars, NEW w \in Workers
    PROVE  \/ job'[w] = job[w]
           \/ LoadEntry(w) \/ LoadRetry(w) \/ JobStep(w)
           \/ AbortJob(w) /\ faults' = faults + 1
<1>1. CASE Fault \/ UNCHANGED vars
  <2>1. \/ job' = job
        \/ \E u \in Workers : AbortJob(u) /\ faults' = faults + 1
    BY <1>1 DEF Fault, vars
  <2> QED
    BY <2>1, OthersStay
<1>2. ASSUME NEW u \in Workers, StartProcess(u) \/ StartRetry(u) \/ WorkerStep(u)
      PROVE  \/ job'[w] = job[w]
             \/ LoadEntry(w) \/ LoadRetry(w) \/ JobStep(w)
  BY <1>2, OthersStay DEF StartProcess, StartRetry, WorkerStep
<1> QED
  BY <1>1, <1>2 DEF Next, ApiRequest, ApiStep

\* the stages in the order in which a job goes through them
Stages == {<<"validate", "retire">>, <<"validate", "assemble">>,
           <<"retire", "retire">>, <<"retire", "assemble">>,
           <<"assemble", "upsert">>, <<"upsert", "insert">>,
           <<"insert", "upsert">>, <<"insert", "index">>, <<"index", "mark">>,
           <<"mark", "index">>, <<"mark", "determine">>, <<"determine", "finish">>,
           <<"retry_qdrant", "retry_qdrant">>,
           <<"retry_qdrant", "retry_opensearch">>,
           <<"retry_opensearch", "retry_opensearch">>,
           <<"retry_opensearch", "reschedule">>, <<"reschedule", "retry_log">>,
           <<"reschedule", "retry_finish">>, <<"retry_log", "retry_finish">>}

\* StageFields: a step of a job that goes on takes it to the next stage and keeps
\* its run, its attempt count and, where no chunk is at hand, whether one failed.
LEMMA StageFields ==
    ASSUME VInv, NEW w \in Workers, JobStep(w), ~EndJob(w)
    PROVE  /\ <<job[w].pc, job'[w].pc>> \in Stages
           /\ job'[w].run = job[w].run
           /\ job'[w].retries = job[w].retries
           /\ job'[w].qdrant \subseteq job[w].qdrant
           /\ \/ job'[w].next \in {1, job[w].next + 1}
              \/ job'[w].next = job[w].next /\ job'[w].pc # "upsert"
           /\ job[w].pc \in {"determine", "reschedule", "retry_log"} =>
                 job'[w].failed = job[w].failed
<1> DEFINE Kept == /\ job'[w].run = job[w].run
                   /\ job'[w].retries = job[w].retries
                   /\ job'[w].qdrant \subseteq job[w].qdrant
           Next1 == \/ job'[w].next \in {1, job[w].next + 1}
                    \/ job'[w].next = job[w].next /\ job'[w].pc # "upsert"
           From == job[w].pc
           To == job'[w].pc
           Stays == job'[w].failed = job[w].failed
<1>j. job \in [Workers -> Job] /\ job[w] \in Job
  BY DEF VInv, TypeInv, TypeOK, WorkerTypeOK
<1>c. ASSUME NEW pc \in JobPC, Continue(w, pc)
      PROVE  Kept /\ (pc # "upsert" => Next1) /\ Stays /\ To = pc
  BY <1>j, <1>c DEF Continue, Job
<1>1. ASSUME Validate(w)
      PROVE  Kept /\ Next1 /\ From = "validate" /\ To \in {"retire", "assemble"}
  <2>1. \/ Continue(w, "assemble")
        \/ job' = [job EXCEPT ![w].pc = "retire", ![w].old = CurrentRows]
    BY <1>1 DEF Validate
  <2> QED
    BY <1>c, <1>j, <1>1, <2>1 DEF Job, JobPC, Validate
<1>2. ASSUME RetireIndex(w)
      PROVE  Kept /\ Next1 /\ From = "retire" /\ To = "retire"
  BY <1>j, <1>2 DEF RetireIndex, Job
<1>3. ASSUME RetireRows(w)
      PROVE  Kept /\ Next1 /\ From = "retire" /\ To = "assemble"
  BY <1>c, <1>3 DEF RetireRows, JobPC
<1>4. ASSUME AssembleAndScore(w)
      PROVE  Kept /\ Next1 /\ From = "assemble" /\ To = "upsert"
  BY <1>j, <1>4 DEF AssembleAndScore, Job
<1>5. ASSUME UpsertPoint(w)
      PROVE  Kept /\ Next1 /\ From = "upsert" /\ To = "insert"
  BY <1>j, <1>5 DEF UpsertPoint, Job
<1>6. ASSUME InsertChunk(w)
      PROVE  Kept /\ Next1 /\ From = "insert" /\ To \in {"upsert", "index"}
  BY <1>j, <1>6 DEF InsertChunk, Job
<1>7. ASSUME IndexDocument(w)
      PROVE  Kept /\ Next1 /\ From = "index" /\ To = "mark"
  BY <1>j, <1>7 DEF IndexDocument, Job
<1>8. ASSUME MarkIndexed(w)
      PROVE  Kept /\ Next1 /\ From = "mark" /\ To \in {"index", "determine"}
  <2>1. \/ Continue(w, "determine")
        \/ job' = [job EXCEPT ![w].pc = "index", ![w].next = @ + 1]
    BY <1>8 DEF MarkIndexed
  <2> QED
    BY <1>c, <1>j, <1>8, <2>1 DEF Job, JobPC, MarkIndexed
<1>9. ASSUME DetermineStatus(w)
      PROVE  Kept /\ Next1 /\ Stays /\ From = "determine" /\ To = "finish"
  BY <1>c, <1>9 DEF DetermineStatus, JobPC
<1>10. ASSUME RetryQdrant(w)
       PROVE  /\ Kept /\ Next1 /\ From = "retry_qdrant"
              /\ To \in {"retry_qdrant", "retry_opensearch"}
  <2>1. ASSUME NEW p, NEW ok,
               job' = [job EXCEPT ![w].qdrant = @ \ {p}, ![w].failed = @ \/ ~ok]
        PROVE  Kept /\ job'[w].next = job[w].next /\ To = From
    BY <1>j, <2>1 DEF Job
  <2>2. CASE Continue(w, "retry_opensearch")
    BY <1>c, <1>10, <2>2 DEF JobPC, RetryQdrant
  <2> HIDE DEF Kept
  <2> QED
    BY <1>10, <2>1, <2>2 DEF RetryQdrant
<1>11. ASSUME RetryOpenSearch(w)
       PROVE  /\ Kept /\ Next1 /\ From = "retry_opensearch"
              /\ To \in {"retry_opensearch", "reschedule"}
  <2>1. ASSUME NEW p, NEW ok,
               job' = [job EXCEPT ![w].opensearch = @ \ {p}, ![w].failed = @ \/ ~ok]
        PROVE  Kept /\ job'[w].next = job[w].next /\ To = From
    BY <1>j, <2>1 DEF Job
  <2>2. CASE Continue(w, "reschedule")
    BY <1>c, <1>11, <2>2 DEF JobPC, RetryOpenSearch
  <2> HIDE DEF Kept
  <2> QED
    BY <1>11, <2>1, <2>2 DEF RetryOpenSearch
<1>12. ASSUME Reschedule(w)
       PROVE  /\ Kept /\ Next1 /\ Stays /\ From = "reschedule"
              /\ To \in {"retry_log", "retry_finish"}
  BY <1>c, <1>12 DEF Reschedule, JobPC
<1>13. ASSUME RetryLog(w)
       PROVE  /\ Kept /\ Next1 /\ Stays /\ From = "retry_log"
              /\ To = "retry_finish"
  BY <1>c, <1>13 DEF RetryLog, JobPC
<1>14. ~FinishEntry(w) /\ ~RetryFinish(w)
  BY DEF FinishEntry, RetryFinish
<1> HIDE DEF Kept, Next1, From, To, Stays
<1>15. Kept /\ Next1 /\ <<From, To>> \in Stages
       /\ (From \in {"determine", "reschedule", "retry_log"} => Stays)
  BY <1>1, <1>2, <1>3, <1>4, <1>5, <1>6, <1>7, <1>8, <1>9, <1>10, <1>11, <1>12,
     <1>13, <1>14 DEF JobStep, Stages
<1> QED
  BY <1>15 DEF Kept, Next1, From, To, Stays

\* FreshFields: what a job that starts knows.
LEMMA FreshFields ==
    ASSUME VInv, NEW w \in Workers, job'[w] # job[w]
    PROVE  /\ LoadEntry(w) => /\ job'[w].pc = "validate"
                              /\ job'[w].run = runs + 1
                              /\ job'[w].qdrant = {}
           /\ LoadRetry(w) => /\ job'[w].pc = "retry_qdrant"
                              /\ job'[w].qdrant = FailedRows("qdrant")
<1>j. job \in [Workers -> Job] /\ NoJob \in Job /\ NoJob.qdrant = {}
  BY NoJobType DEF VInv, TypeInv, TypeOK, WorkerTypeOK, NoJob
<1>1. ASSUME LoadEntry(w)
      PROVE  /\ job'[w].pc = "validate"
             /\ job'[w].run = runs + 1
             /\ job'[w].qdrant = {}
  <2> DEFINE j == [NoJob EXCEPT !.pc = "validate", !.run = runs + 1,
                                !.version = entry.version, !.form = entry.form]
  <2>1. j.pc = "validate" /\ j.run = runs + 1 /\ j.qdrant = {}
    BY <1>j DEF Job
  <2>2. job' = [job EXCEPT ![w] = j]
    BY <1>1 DEF LoadEntry
  <2> QED
    BY <1>j, <2>1, <2>2
<1>2. ASSUME LoadRetry(w)
      PROVE  /\ job'[w].pc = "retry_qdrant"
             /\ job'[w].qdrant = FailedRows("qdrant")
  <2> DEFINE j == [NoJob EXCEPT !.pc = "retry_qdrant",
                                !.qdrant = FailedRows("qdrant"),
                                !.opensearch = FailedRows("opensearch"),
                                !.live = CurrentRows,
                                !.retries = entry.retries]
  <2>1. j.pc = "retry_qdrant" /\ j.qdrant = FailedRows("qdrant")
    BY <1>j DEF Job
  <2>2. job' = [job EXCEPT ![w] = j]
    BY <1>2 DEF LoadRetry
  <2> HIDE DEF j
  <2> QED
    BY <1>j, <2>1, <2>2
<1> QED
  BY <1>1, <1>2

\* EndFields: what is left in the slot of a job that ends.
LEMMA EndFields ==
    ASSUME VInv, NEW w \in Workers, EndJob(w)
    PROVE  job'[w] = NoJob /\ job'[w].pc = "idle" /\ job'[w].qdrant = {}
BY NoJobType DEF VInv, TypeInv, TypeOK, WorkerTypeOK, EndJob, NoJob

-----------------------------------------------------------------------------
(***************************************************************************)
(* PointInv is inductive                                                   *)
(***************************************************************************)

\* NumberedStep: no call is made for a chunk 0 or a run 0.
LEMMA NumberedStep ==
    ASSUME VInv, JobsNumbered, [Next]_vars
    PROVE  JobsNumbered'
<1> SUFFICES ASSUME NEW w \in Workers
             PROVE  /\ Processing(w)' => job'[w].run # 0
                    /\ job'[w].pc \in {"upsert", "insert"} => job'[w].next # 0
  BY DEF JobsNumbered
<1>t. runs \in Nat /\ job[w].next \in Nat
  BY StoreAssumption DEF VInv, TypeInv, TypeOK, StoreTypeOK, WorkerTypeOK, Job
<1> USE DEF Processing, IsRetry
<1>1. CASE job'[w] = job[w]
  BY <1>1 DEF JobsNumbered
<1>2. CASE EndJob(w)
  BY <1>2, EndFields
<1>3. CASE (LoadEntry(w) \/ LoadRetry(w)) /\ job'[w] # job[w]
  BY <1>t, <1>3, FreshFields
<1>4. CASE JobStep(w) /\ ~EndJob(w)
  <2>1. <<job[w].pc, job'[w].pc>> \in Stages /\ job'[w].run = job[w].run
    BY <1>4, StageFields
  <2>2. Processing(w)' => Processing(w)
    BY <2>1 DEF Stages
  <2>3. \/ job'[w].next \in {1, job[w].next + 1}
        \/ job'[w].next = job[w].next /\ job'[w].pc # "upsert"
    BY <1>4, StageFields
  <2>4. job'[w].pc \in {"upsert", "insert"} => job'[w].next # 0
    BY <1>t, <2>1, <2>3 DEF JobsNumbered, Stages
  <2> QED
    BY <2>1, <2>2, <2>4 DEF JobsNumbered
<1> QED
  BY <1>1, <1>2, <1>3, <1>4, JobMoves DEF AbortJob

\* AfterEffects: a call for one point leaves the others alone, and has done its
\* work when it succeeds.
LEMMA AfterEffects ==
    ASSUME NEW index \in [Points -> IndexState], NEW q, NEW x, NEW ok,
           NEW new \in After(index, q, x, ok), NEW p \in Points
    PROVE  /\ new[p] = index[p] \/ (p = q /\ new[p] = x)
           /\ ok /\ p = q => new[p] = x
BY DEF After

\* HandPoint: the point of the chunk at hand, and that it stays in hand.
LEMMA HandPoint ==
    ASSUME VInv, JobsNumbered, NEW w \in Workers,
           job[w].pc \in {"upsert", "insert"}
    PROVE  Point(w) \in Points
<1>1. /\ job[w].run \in 0 .. MaxRuns /\ job[w].next \in 0 .. NumChunks
      /\ job[w].run # 0 /\ job[w].next # 0
  BY DEF VInv, TypeInv, TypeOK, WorkerTypeOK, Job, JobsNumbered, Processing, IsRetry
<1>2. job[w].run \in 1 .. MaxRuns /\ job[w].next \in 1 .. NumChunks
  BY <1>1, StoreAssumption
<1> QED
  BY <1>2 DEF Point, Points, ChunkTypes

\* UpsertFields: the job remembers for which point it called, and the answer.
LEMMA UpsertFields ==
    ASSUME VInv, NEW w \in Workers, UpsertPoint(w)
    PROVE  /\ job'[w].pc = "insert"
           /\ Point(w)' = Point(w)
           /\ \E ok \in QdrantOutcomes :
                 /\ qdrant' \in After(qdrant, Point(w), "live", ok)
                 /\ job'[w].ok = ok
<1>j. job \in [Workers -> Job] /\ job[w] \in Job
  BY DEF VInv, TypeInv, TypeOK, WorkerTypeOK
<1>1. PICK ok \in QdrantOutcomes :
         /\ qdrant' \in After(qdrant, Point(w), "live", ok)
         /\ job' = [job EXCEPT ![w].pc = "insert", ![w].ok = ok,
                               ![w].failed = @ \/ ~ok]
  BY DEF UpsertPoint
<1>2. /\ job'[w].pc = "insert" /\ job'[w].ok = ok
      /\ job'[w].run = job[w].run /\ job'[w].next = job[w].next
  BY <1>j, <1>1 DEF Job
<1> QED
  BY <1>1, <1>2 DEF Point

\* QdrantEffects: nothing removes a point, and only an upsert and a retry store one.
LEMMA QdrantEffects ==
    ASSUME VInv, [Next]_vars, NEW p \in Points
    PROVE  /\ qdrant[p] # "absent" => qdrant'[p] # "absent"
           /\ qdrant[p] = "absent" /\ qdrant'[p] # "absent" =>
                 \E w \in Workers : \/ UpsertPoint(w) /\ p = Point(w)
                                    \/ RetryQdrant(w) /\ p \in job[w].qdrant
<1> DEFINE Same == (qdrant'[p] = "absent") <=> (qdrant[p] = "absent")
           Stored == qdrant'[p] # "absent"
<1>q. qdrant \in [Points -> IndexState]
  BY DEF VInv, TypeInv, TypeOK, StoreTypeOK
<1>1. ASSUME NEW q, RetirePoint(q) PROVE Same
  <2> DEFINE retired(index) == IF index[q] = "live" THEN "retired" ELSE index[q]
  <2>1. PICK ok \in QdrantOutcomes : qdrant' \in After(qdrant, q, retired(qdrant), ok)
    BY <1>1 DEF RetirePoint
  <2>2. p = q => (retired(qdrant) = "absent") <=> (qdrant[p] = "absent")
    OBVIOUS
  <2> HIDE DEF retired
  <2> QED
    BY <1>q, <2>1, <2>2, AfterEffects
<1>2. ASSUME NEW w \in Workers, UpsertPoint(w)
      PROVE  Same \/ (p = Point(w) /\ Stored)
  BY <1>q, <1>2, UpsertFields, AfterEffects
<1>3. ASSUME NEW w \in Workers, RetryQdrant(w)
      PROVE  Same \/ (p \in job[w].qdrant /\ Stored)
  <2>1. CASE UNCHANGED qdrant
    BY <2>1
  <2>2. ASSUME NEW q \in job[w].qdrant, NEW ok,
               qdrant' \in After(qdrant, q, Rebuilt(w, q), ok)
        PROVE  Same \/ (p \in job[w].qdrant /\ Stored)
    <3>1. Rebuilt(w, q) # "absent"
      BY DEF Rebuilt
    <3> QED
      BY <1>q, <2>2, <3>1, AfterEffects
  <2> QED
    BY <1>3, <2>1, <2>2 DEF RetryQdrant
<1>4. ASSUME NEW a \in Admins, AdminRequest(a) \/ HandlerStep(a)
      PROVE  UNCHANGED qdrant \/ \E q : RetirePoint(q)
  BY <1>4 DEF AdminRequest, HandlerStep, CreateEntry, OpenEntry, SubmitEdit,
     RestoreVersion, ArchiveEntry, CreateHistory, PublishHistory, PublishEntry,
     Enqueue, SaveDraft, ArchiveSelect, ArchiveIndex, ArchiveRows, ArchiveStatus,
     storeVars, indexVars
<1>5. ASSUME NEW w \in Workers, LoadEntry(w) \/ LoadRetry(w) \/ JobStep(w)
      PROVE  \/ UNCHANGED qdrant \/ \E q : RetirePoint(q)
             \/ UpsertPoint(w) \/ RetryQdrant(w)
  BY <1>5 DEF LoadEntry, LoadRetry, JobStep, Validate, RetireIndex, RetireRows,
     AssembleAndScore, InsertChunk, IndexDocument, MarkIndexed, DetermineStatus,
     FinishEntry, RetryOpenSearch, Reschedule, RetryLog, RetryFinish, indexVars
<1>6. CASE Fault \/ UNCHANGED vars
  BY <1>6 DEF Fault, AbandonRequest, AbortJob, vars, storeVars, indexVars
<1>7. ASSUME NEW a \in Admins, ApiRequest(a) \/ ApiStep(a) PROVE Same
  BY <1>1, <1>4, <1>7 DEF ApiRequest, ApiStep
<1>8. ASSUME NEW w \in Workers, StartProcess(w) \/ StartRetry(w) \/ WorkerStep(w)
      PROVE  \/ Same
             \/ UpsertPoint(w) /\ p = Point(w) /\ Stored
             \/ RetryQdrant(w) /\ p \in job[w].qdrant /\ Stored
  BY <1>1, <1>2, <1>3, <1>5, <1>8 DEF StartProcess, StartRetry, WorkerStep
<1> QED
  BY <1>6, <1>7, <1>8 DEF Next

\* StatusEffects: a row says success because its job was told so, or because a
\* retry has just stored the point.
LEMMA StatusEffects ==
    ASSUME VInv, [Next]_vars, NEW p \in Points, chunks'[p].qdrant = "success"
    PROVE  \/ chunks[p].qdrant = "success"
           \/ \E w \in Workers : /\ InsertChunk(w)
                                 /\ p = Point(w)
                                 /\ job[w].ok
           \/ qdrant'[p] # "absent"
<1> DEFINE Same == chunks'[p].qdrant = chunks[p].qdrant
<1>c. chunks \in [Points -> Chunk] /\ chunks[p] \in Chunk
  BY DEF VInv, TypeInv, TypeOK, StoreTypeOK
<1>q. qdrant \in [Points -> IndexState]
  BY DEF VInv, TypeInv, TypeOK, StoreTypeOK
<1>1. CASE UNCHANGED chunks
  BY <1>1
<1>2. ASSUME NEW S, chunks' = RowsRetired(S) PROVE Same
  BY <1>c, <1>2 DEF RowsRetired, Chunk
<1>3. ASSUME NEW w \in Workers, InsertChunk(w), ~Same
      PROVE  p = Point(w) /\ job[w].ok
  <2>1. chunks' = [chunks EXCEPT ![Point(w)] = NewRow(w)]
    BY <1>3 DEF InsertChunk
  <2>2. p = Point(w) /\ chunks'[p] = NewRow(w)
    BY <1>c, <1>3, <2>1
  <2> QED
    BY <2>2 DEF NewRow
<1>4. ASSUME NEW w \in Workers, MarkIndexed(w) PROVE Same
  BY <1>c, <1>4 DEF MarkIndexed, Chunk
<1>5. ASSUME NEW w \in Workers, RetryQdrant(w), ~Same
      PROVE  qdrant'[p] # "absent"
  <2>1. PICK q \in job[w].qdrant, ok \in QdrantOutcomes :
           /\ qdrant' \in After(qdrant, q, Rebuilt(w, q), ok)
           /\ chunks' = IF ok THEN [chunks EXCEPT ![q].qdrant = "success"]
                        ELSE chunks
    BY <1>5 DEF RetryQdrant
  <2>2. ok /\ p = q
    BY <1>c, <1>5, <2>1 DEF Chunk
  <2>3. Rebuilt(w, q) # "absent"
    BY DEF Rebuilt
  <2>4. qdrant' = [qdrant EXCEPT ![q] = Rebuilt(w, q)]
    BY <2>1, <2>2 DEF After
  <2> QED
    BY <1>q, <2>2, <2>3, <2>4
<1>6. ASSUME NEW w \in Workers, RetryOpenSearch(w) PROVE Same
  <2>1. \/ chunks' = chunks
        \/ \E q : chunks' = [chunks EXCEPT ![q].opensearch = "success"]
    BY <1>6 DEF RetryOpenSearch
  <2> QED
    BY <1>c, <2>1 DEF Chunk
<1>7. ASSUME NEW a \in Admins, AdminRequest(a) \/ HandlerStep(a)
      PROVE  chunks' = chunks \/ chunks' = RowsRetired(Rows)
  BY <1>7 DEF AdminRequest, HandlerStep, CreateEntry, OpenEntry, SubmitEdit,
     RestoreVersion, ArchiveEntry, CreateHistory, PublishHistory, PublishEntry,
     Enqueue, SaveDraft, ArchiveSelect, ArchiveIndex, ArchiveRows, ArchiveStatus,
     storeVars, dbVars
<1>8. ASSUME NEW w \in Workers, LoadEntry(w) \/ LoadRetry(w) \/ JobStep(w)
      PROVE  \/ chunks' = chunks \/ (\E S : chunks' = RowsRetired(S))
             \/ InsertChunk(w) \/ MarkIndexed(w)
             \/ RetryQdrant(w) \/ RetryOpenSearch(w)
  BY <1>8 DEF LoadEntry, LoadRetry, JobStep, Validate, RetireIndex, RetireRows,
     AssembleAndScore, UpsertPoint, IndexDocument, DetermineStatus, FinishEntry,
     Reschedule, RetryLog, RetryFinish, dbVars
<1>9. CASE Fault \/ UNCHANGED vars
  BY <1>1, <1>9 DEF Fault, AbandonRequest, AbortJob, vars, storeVars, dbVars
<1>10. ASSUME NEW a \in Admins, ApiRequest(a) \/ ApiStep(a) PROVE Same
  BY <1>2, <1>7, <1>10 DEF ApiRequest, ApiStep
<1>11. ASSUME NEW w \in Workers, StartProcess(w) \/ StartRetry(w) \/ WorkerStep(w)
       PROVE  \/ Same \/ qdrant'[p] # "absent"
              \/ InsertChunk(w) /\ p = Point(w) /\ job[w].ok
  BY <1>2, <1>3, <1>4, <1>5, <1>6, <1>8, <1>11
  DEF StartProcess, StartRetry, WorkerStep
<1> QED
  BY <1>9, <1>10, <1>11 DEF Next

\* RowsStay: no row of knowledge_form_entry_chunks is deleted.
LEMMA RowsStay ==
    ASSUME VInv, TextInv, [Next]_vars
    PROVE  Rows \subseteq Rows'
<1> SUFFICES ASSUME NEW p \in Points, chunks[p].version # 0
             PROVE  chunks'[p].version # 0
  BY DEF Rows, Points
<1>1. \A w \in Workers : Processing(w) => job[w].version # 0
  BY DEF TextInv, JobsAreFiled, Versions
<1> QED
  BY <1>1, ChunkEffects

\* PointStep: the invariant is inductive, given the ones on versions and texts.
LEMMA PointStep ==
    ASSUME VInv, TextInv, PointInv, [Next]_vars
    PROVE  PointInv'
<1> USE DEF PointInv
<1>r. Rows \subseteq Rows'
  BY RowsStay
<1>i. ASSUME NEW w \in Workers, job'[w].pc = "insert"
      PROVE  job'[w] = job[w] \/ UpsertPoint(w)
  <2>1. CASE EndJob(w) \/ ((LoadEntry(w) \/ LoadRetry(w)) /\ job'[w] # job[w])
    BY <1>i, <2>1, EndFields, FreshFields
  <2>2. CASE JobStep(w) /\ ~EndJob(w)
    <3>1. job[w].pc = "upsert"
      BY <1>i, <2>2, StageFields DEF Stages
    <3> QED
      BY <2>2, <3>1 DEF JobStep, Validate, RetireIndex, RetireRows,
         AssembleAndScore, InsertChunk, IndexDocument, MarkIndexed,
         DetermineStatus, FinishEntry, RetryQdrant, RetryOpenSearch, Reschedule,
         RetryLog, RetryFinish
  <2> QED
    BY <2>1, <2>2, JobMoves DEF AbortJob
<1>1. JobsNumbered'
  BY NumberedStep
<1>2. StoredBeforeInsert'
  <2> SUFFICES ASSUME NEW w \in Workers, job'[w].pc = "insert", job'[w].ok
               PROVE  qdrant'[Point(w)'] # "absent"
    BY DEF StoredBeforeInsert
  <2>1. CASE job'[w] = job[w]
    <3>1. Point(w)' = Point(w) /\ Point(w) \in Points
      BY <2>1, HandPoint DEF Point
    <3> QED
      BY <2>1, <3>1, QdrantEffects DEF StoredBeforeInsert
  <2>2. CASE UpsertPoint(w)
    <3>1. PICK ok \in QdrantOutcomes :
             /\ qdrant' \in After(qdrant, Point(w), "live", ok)
             /\ job'[w].ok = ok
      BY <2>2, UpsertFields
    <3>2. Point(w)' = Point(w) /\ Point(w) \in Points
      BY <2>2, UpsertFields, HandPoint DEF UpsertPoint
    <3>3. qdrant' = [qdrant EXCEPT ![Point(w)] = "live"]
      BY <3>1 DEF After
    <3>4. qdrant \in [Points -> IndexState]
      BY DEF VInv, TypeInv, TypeOK, StoreTypeOK
    <3> QED
      BY <3>2, <3>3, <3>4
  <2> QED
    BY <1>i, <2>1, <2>2
<1>3. RetriesHaveRows'
  <2> SUFFICES ASSUME NEW w \in Workers
               PROVE  job'[w].qdrant \subseteq Rows
    BY <1>r DEF RetriesHaveRows
  <2>1. CASE EndJob(w) \/ ((LoadEntry(w) \/ LoadRetry(w)) /\ job'[w] # job[w])
    BY <2>1, EndFields, FreshFields DEF FailedRows
  <2>2. CASE JobStep(w) /\ ~EndJob(w)
    BY <2>2, StageFields DEF RetriesHaveRows
  <2> QED
    BY <2>1, <2>2, JobMoves DEF AbortJob, RetriesHaveRows
<1>4. StatusTruthful'
  <2> SUFFICES ASSUME NEW p \in Points, chunks'[p].qdrant = "success"
               PROVE  qdrant'[p] # "absent"
    BY DEF StatusTruthful, Points
  <2>1. CASE chunks[p].qdrant = "success"
    BY <2>1, QdrantEffects DEF StatusTruthful
  <2>2. ASSUME NEW w \in Workers, InsertChunk(w), p = Point(w), job[w].ok
        PROVE  qdrant'[p] # "absent"
    BY <2>2, QdrantEffects DEF StoredBeforeInsert, InsertChunk
  <2> QED
    BY <2>1, <2>2, StatusEffects
<1>5. EveryPointHasRow'
  <2> SUFFICES ASSUME faults' = 0, NEW p \in Points, qdrant'[p] # "absent"
               PROVE  \/ p \in Rows'
                      \/ \E w \in Workers : job'[w].pc = "insert" /\ Point(w)' = p
    BY DEF EveryPointHasRow, Points
  <2>f. faults \in Nat /\ faults' \in {faults, faults + 1}
    BY FaultsAssumption DEF VInv, TypeInv, TypeOK, Next, ApiRequest, ApiStep,
       StartProcess, StartRetry, WorkerStep, Fault, vars
  <2>1. faults = 0 /\ faults' # faults + 1
    BY <2>f
  <2>2. CASE p \in Rows
    BY <1>r, <2>2
  <2>3. ASSUME NEW w \in Workers, job[w].pc = "insert", Point(w) = p, p \notin Rows
        PROVE  \/ p \in Rows'
               \/ job'[w].pc = "insert" /\ Point(w)' = p
    <3>1. job'[w] = job[w] \/ InsertChunk(w)
      BY <2>1, <2>3, JobMoves DEF LoadEntry, LoadRetry, JobStep, Validate,
         RetireIndex, RetireRows, AssembleAndScore, UpsertPoint, IndexDocument,
         MarkIndexed, DetermineStatus, FinishEntry, RetryQdrant,
         RetryOpenSearch, Reschedule, RetryLog, RetryFinish
    <3>2. CASE job'[w] = job[w]
      BY <2>3, <3>2 DEF Point
    <3>3. CASE InsertChunk(w)
      <4>1. chunks' = [chunks EXCEPT ![p] = NewRow(w)]
        BY <2>3, <3>3 DEF InsertChunk
      <4>2. job[w].version # 0
        BY <2>3 DEF TextInv, JobsAreFiled, Processing, IsRetry, Versions
      <4>3. chunks \in [Points -> Chunk]
        BY DEF VInv, TypeInv, TypeOK, StoreTypeOK
      <4>4. chunks'[p].version # 0
        BY <4>1, <4>2, <4>3 DEF NewRow
      <4> QED
        BY <4>4 DEF Rows, Points
    <3> QED
      BY <3>1, <3>2, <3>3
  <2>4. CASE qdrant[p] # "absent"
    BY <2>1, <2>2, <2>3, <2>4 DEF EveryPointHasRow
  <2>5. ASSUME NEW w \in Workers, UpsertPoint(w), p = Point(w)
        PROVE  job'[w].pc = "insert" /\ Point(w)' = p
    BY <2>5, UpsertFields
  <2>6. ASSUME NEW w \in Workers, RetryQdrant(w), p \in job[w].qdrant
        PROVE  p \in Rows
    BY <2>6 DEF RetriesHaveRows
  <2> QED
    BY <2>2, <2>4, <2>5, <2>6, QdrantEffects
<1> QED
  BY <1>1, <1>2, <1>3, <1>4, <1>5

\* PointInit: the invariant holds at the start.
LEMMA PointInit == Init => PointInv
<1> SUFFICES ASSUME Init PROVE PointInv
  OBVIOUS
<1>1. /\ \A w \in Workers : job[w].pc = "idle" /\ job[w].qdrant = {}
      /\ \A p \in Points : chunks[p].qdrant = "pending" /\ qdrant[p] = "absent"
  BY DEF Init, StoreInit, WorkerInit, NoJob, NoChunk
<1> QED
  BY <1>1 DEF PointInv, JobsNumbered, StoredBeforeInsert, RetriesHaveRows,
     StatusTruthful, EveryPointHasRow, Processing

\* PointSafety: what the rows say of Qdrant is true, and each stored point can be
\* found again by its row.
THEOREM PointSafety == Spec => [](QdrantStatusTruthful /\ EveryPointHasRow)
<1>1. PointInv => QdrantStatusTruthful /\ EveryPointHasRow
  BY DEF PointInv, StatusTruthful, QdrantStatusTruthful, Rows
<1>2. VInv /\ TextInv /\ PointInv /\ [Next]_vars => VInv' /\ TextInv' /\ PointInv'
  BY VersionStep, TextStep, PointStep
<1> QED
  BY <1>1, <1>2, VersionInit, TextInit, PointInit, PTL DEF Spec

-----------------------------------------------------------------------------
(***************************************************************************)
(* WorkInv is inductive                                                    *)
(***************************************************************************)

\* FaultCount: faults are counted up, so a behaviour without one had none before.
LEMMA FaultCount ==
    ASSUME VInv, [Next]_vars, faults' = 0
    PROVE  faults = 0 /\ faults' # faults + 1 /\ ~Fault
<1>1. faults \in Nat
  BY FaultsAssumption DEF VInv, TypeInv, TypeOK
<1>2. faults' = faults \/ faults' = faults + 1
  BY DEF Next, ApiRequest, ApiStep, StartProcess, StartRetry, WorkerStep, Fault,
     vars
<1> QED
  BY <1>1, <1>2 DEF Fault

\* RequestMoves: without a fault, a step that changes a request is one of it.
LEMMA RequestMoves ==
    ASSUME VInv, [Next]_vars, ~Fault, NEW a \in Admins
    PROVE  req'[a] = req[a] \/ AdminRequest(a) \/ HandlerStep(a)
<1>q. req \in [Admins -> Request]
  BY DEF VInv, TypeInv, TypeOK, ApiTypeOK
<1>1. ASSUME NEW b \in Admins, b # a, AdminRequest(b) \/ HandlerStep(b)
      PROVE  req'[a] = req[a]
  BY <1>q, <1>1 DEF AdminRequest, HandlerStep, CreateEntry, OpenEntry, SubmitEdit,
     RestoreVersion, ArchiveEntry, CreateHistory, PublishHistory, PublishEntry,
     Enqueue, SaveDraft, ArchiveSelect, ArchiveIndex, ArchiveRows, ArchiveStatus,
     Finish, GotoEnqueue
<1>2. ASSUME NEW b \in Admins, ApiRequest(b) \/ ApiStep(b)
      PROVE  req'[a] = req[a] \/ AdminRequest(a) \/ HandlerStep(a)
  BY <1>1, <1>2 DEF ApiRequest, ApiStep
<1>3. ASSUME NEW w \in Workers, StartProcess(w) \/ StartRetry(w) \/ WorkerStep(w)
      PROVE  req' = req
  BY <1>3 DEF StartProcess, StartRetry, WorkerStep
<1> QED
  BY <1>2, <1>3 DEF Next, vars

\* QueueEffects: jobs leave the queue one at a time, and only to be looked at.
LEMMA QueueEffects ==
    ASSUME VInv, [Next]_vars
    PROVE  /\ \/ queue'.process >= queue.process
              \/ \E w \in Workers : LoadEntry(w) /\ UNCHANGED <<req, faults>>
           /\ \/ queue'.retry >= queue.retry
              \/ \E w \in Workers : LoadRetry(w) /\ UNCHANGED <<req, faults>>
<1> DEFINE More == /\ queue'.process >= queue.process
                   /\ queue'.retry >= queue.retry
<1>q. queue \in [process : Nat, retry : Nat]
  BY DEF VInv, TypeInv, TypeOK, StoreTypeOK
<1>1. ASSUME \/ UNCHANGED queue \/ EnqueueProcess \/ EnqueueRetry
      PROVE  More
  BY <1>q, <1>1 DEF EnqueueProcess, EnqueueRetry
<1>2. ASSUME NEW a \in Admins, AdminRequest(a) \/ HandlerStep(a) PROVE More
  BY <1>1, <1>2 DEF AdminRequest, HandlerStep, CreateEntry, OpenEntry, SubmitEdit,
     RestoreVersion, ArchiveEntry, CreateHistory, PublishHistory, PublishEntry,
     Enqueue, SaveDraft, ArchiveSelect, ArchiveIndex, ArchiveRows, ArchiveStatus,
     storeVars
<1>3. ASSUME NEW w \in Workers, JobStep(w) PROVE More
  BY <1>1, <1>3 DEF JobStep, Validate, RetireIndex, RetireRows, AssembleAndScore,
     UpsertPoint, InsertChunk, IndexDocument, MarkIndexed, DetermineStatus,
     FinishEntry, RetryQdrant, RetryOpenSearch, Reschedule, RetryLog, RetryFinish
<1>4. ASSUME Fault \/ UNCHANGED vars PROVE More
  BY <1>1, <1>4 DEF Fault, AbandonRequest, AbortJob, vars, storeVars
<1>5. ASSUME NEW w \in Workers, LoadEntry(w) PROVE queue'.retry >= queue.retry
  BY <1>q, <1>5 DEF LoadEntry
<1>6. ASSUME NEW w \in Workers, LoadRetry(w) PROVE queue'.process >= queue.process
  BY <1>q, <1>6 DEF LoadRetry
<1> HIDE DEF More
<1>7. \/ More
      \/ \E w \in Workers : LoadEntry(w) /\ UNCHANGED <<req, faults>>
      \/ \E w \in Workers : LoadRetry(w) /\ UNCHANGED <<req, faults>>
  BY <1>2, <1>3, <1>4
  DEF Next, ApiRequest, ApiStep, StartProcess, StartRetry, WorkerStep
<1> QED
  BY <1>5, <1>6, <1>7 DEF More

\* EndEffects: a job that ends of its own has written what it ends with.
LEMMA EndEffects ==
    ASSUME VInv, NEW w \in Workers, JobStep(w), EndJob(w)
    PROVE  /\ entry'.status # "processing"
           /\ entry'.status = "partial_index" => HasQueuedRetry(w)
           /\ IsRetry(w) => RetryFinish(w)
           /\ queue' = queue
<1>j. job'[w].pc = "idle" /\ entry \in Entry
  BY EndFields DEF VInv, TypeInv, TypeOK, StoreTypeOK
<1>k. job \in [Workers -> Job] /\ job[w] \in Job
  BY DEF VInv, TypeInv, TypeOK, WorkerTypeOK
<1>o. ASSUME NEW status \in Status, WriteOutcome(status)
      PROVE  entry'.status = status
  BY <1>j, <1>o DEF WriteOutcome, WriteEntry, Entry
<1>1. CASE Validate(w) \/ AssembleAndScore(w)
  <2>1. WriteOutcome("failed") \/ WriteOutcome("low_quality")
    <3>1. ASSUME \/ \E pc \in JobPC \ {"idle"} : Continue(w, pc)
                 \/ \E pc \in JobPC \ {"idle"} : \E old :
                       job' = [job EXCEPT ![w].pc = pc, ![w].old = old]
                 \/ \E pc \in JobPC \ {"idle"} : \E n :
                       job' = [job EXCEPT ![w].pc = pc, ![w].next = n]
          PROVE  FALSE
      BY <1>j, <1>k, <3>1, ZenonT(30) DEF Continue, Job
    <3> QED
      BY <1>1, <3>1 DEF Validate, AssembleAndScore, FailEntry, JobPC
  <2> QED
    BY <1>o, <1>1, <2>1 DEF Validate, AssembleAndScore, IsRetry, Status
<1>2. CASE FinishEntry(w)
  <2>1. IF job[w].failed THEN WriteOutcome("partial_index")
                         ELSE WriteOutcome("active")
    BY <1>2 DEF FinishEntry
  <2>2. IF job[w].failed THEN entry'.status = "partial_index"
                         ELSE entry'.status = "active"
    BY <1>o, <2>1 DEF Status
  <2> QED
    BY <1>2, <2>2 DEF FinishEntry, IsRetry, HasQueuedRetry
<1>3. CASE RetryFinish(w)
  <2>1. entry'.status = IF ~job[w].failed THEN "active"
                        ELSE IF GivesUp(w) THEN "failed" ELSE "partial_index"
    BY <1>j, <1>3 DEF RetryFinish, WriteEntry, Entry
  <2> QED
    BY <1>3, <2>1 DEF RetryFinish, HasQueuedRetry
<1>4. ASSUME job[w].pc # "idle", \/ RetireIndex(w) \/ RetireRows(w)
             \/ UpsertPoint(w) \/ InsertChunk(w) \/ IndexDocument(w)
             \/ MarkIndexed(w) \/ DetermineStatus(w) \/ RetryQdrant(w)
             \/ RetryOpenSearch(w) \/ Reschedule(w) \/ RetryLog(w)
      PROVE  job'[w].pc # "idle"
  <2>1. ASSUME NEW pc, pc # "idle", Continue(w, pc) PROVE job'[w].pc # "idle"
    BY <1>k, <2>1 DEF Continue, Job
  <2>2. CASE RetireRows(w) \/ DetermineStatus(w) \/ Reschedule(w) \/ RetryLog(w)
    BY <2>1, <2>2 DEF RetireRows, DetermineStatus, Reschedule, RetryLog
  <2>3. CASE RetireIndex(w) \/ UpsertPoint(w) \/ IndexDocument(w)
    <3>1. CASE RetireIndex(w)
      BY <1>4, <1>k, <3>1 DEF RetireIndex, Job
    <3>2. CASE UpsertPoint(w)
      BY <1>k, <3>2 DEF UpsertPoint, Job
    <3>3. CASE IndexDocument(w)
      BY <1>k, <3>3 DEF IndexDocument, Job
    <3> QED
      BY <2>3, <3>1, <3>2, <3>3
  <2>4. CASE InsertChunk(w)
    BY <1>k, <2>4 DEF InsertChunk, Job
  <2>5. CASE MarkIndexed(w)
    <3>1. CASE job' = [job EXCEPT ![w].pc = "index", ![w].next = @ + 1]
      BY <1>k, <3>1 DEF Job
    <3> QED
      BY <2>1, <2>5, <3>1 DEF MarkIndexed
  <2>6. CASE RetryQdrant(w)
    <3>1. ASSUME NEW p, NEW ok,
                 job' = [job EXCEPT ![w].qdrant = @ \ {p}, ![w].failed = @ \/ ~ok]
          PROVE  job'[w].pc # "idle"
      BY <1>4, <1>k, <3>1 DEF Job
    <3> QED
      BY <2>1, <2>6, <3>1 DEF RetryQdrant
  <2>7. CASE RetryOpenSearch(w)
    <3>1. ASSUME NEW p, NEW ok,
                 job' = [job EXCEPT ![w].opensearch = @ \ {p},
                                    ![w].failed = @ \/ ~ok]
          PROVE  job'[w].pc # "idle"
      BY <1>4, <1>k, <3>1 DEF Job
    <3> QED
      BY <2>1, <2>7, <3>1 DEF RetryOpenSearch
  <2> QED
    BY <1>4, <2>2, <2>3, <2>4, <2>5, <2>6, <2>7
<1> QED
  BY <1>j, <1>1, <1>2, <1>3, <1>4 DEF JobStep, RetireIndex, RetireRows, UpsertPoint,
     InsertChunk, IndexDocument, MarkIndexed, DetermineStatus, RetryQdrant,
     RetryOpenSearch, Reschedule, RetryLog

\* ProcessingStep: an entry that says processing never loses its last job.
LEMMA ProcessingStep ==
    ASSUME VInv, ProcessingHasJob, [Next]_vars
    PROVE  ProcessingHasJob'
<1> DEFINE Waits(a) == \/ req[a].pc = "enqueue"
                       \/ req[a].pc = "create_history" /\ req[a].publish
           Goal == \/ queue'.process > 0
                   \/ \E w \in Workers : Processing(w)'
                   \/ \E a \in Admins : Waits(a)'
<1> SUFFICES ASSUME faults' = 0, entry'.status = "processing"
             PROVE  Goal
  BY DEF ProcessingHasJob, Processing
<1>f. faults = 0 /\ faults' # faults + 1 /\ ~Fault
  BY FaultCount
<1>t. /\ req \in [Admins -> Request] /\ NoRequest \in Request
      /\ queue \in [process : Nat, retry : Nat]
      /\ job \in [Workers -> Job]
  BY NoRequestType DEF VInv, TypeInv, TypeOK, ApiTypeOK, StoreTypeOK, WorkerTypeOK
<1>g. ASSUME NEW a \in Admins, GotoEnqueue(a) PROVE Waits(a)'
  <2> DEFINE r == [NoRequest EXCEPT !.pc = "enqueue"]
  <2>1. r.pc = "enqueue"
    BY <1>t DEF Request
  <2>2. req' = [req EXCEPT ![a] = r]
    BY <1>g DEF GotoEnqueue
  <2> HIDE DEF r
  <2> QED
    BY <1>t, <2>1, <2>2
<1>1. ASSUME NEW a \in Admins, NEW form \in Forms, NEW publish \in BOOLEAN,
             CreateEntry(a, form, publish)
      PROVE  Waits(a)'
  <2> DEFINE r == [NoRequest EXCEPT !.pc = "create_history", !.form = form,
                                    !.publish = publish]
  <2>1. r.pc = "create_history" /\ r.publish = publish
    BY <1>t DEF Request
  <2>2. req' = [req EXCEPT ![a] = r] /\ publish
    BY <1>1 DEF CreateEntry
  <2> HIDE DEF r
  <2>3. req'[a] = r
    BY <1>t, <2>2
  <2> QED
    BY <2>1, <2>2, <2>3
<1>2. ASSUME NEW a \in Admins, PublishEntry(a) PROVE Waits(a)'
  BY <1>g, <1>2 DEF PublishEntry
<1>3. ASSUME NEW a \in Admins, Waits(a) PROVE Goal
  <2>1. CASE req'[a] = req[a]
    BY <1>3, <2>1
  <2>2. CASE AdminRequest(a)
    BY <1>3, <2>2 DEF AdminRequest, CreateEntry, OpenEntry, SubmitEdit,
       RestoreVersion, ArchiveEntry
  <2>3. CASE HandlerStep(a)
    <3>1. Enqueue(a) \/ CreateHistory(a)
      BY <1>3, <2>3 DEF HandlerStep, PublishHistory, PublishEntry, SaveDraft,
         ArchiveSelect, ArchiveIndex, ArchiveRows, ArchiveStatus
    <3>2. CASE Enqueue(a)
      <4>1. queue' = [queue EXCEPT !.process = @ + 1]
        BY <3>2 DEF Enqueue, EnqueueProcess
      <4>2. queue'.process = queue.process + 1 /\ queue.process \in Nat
        BY <1>t, <4>1
      <4> QED
        BY <4>2
    <3>3. CASE CreateHistory(a)
      BY <1>3, <1>g, <3>3 DEF CreateHistory
    <3> QED
      BY <3>1, <3>2, <3>3
  <2> QED
    BY <1>f, <2>1, <2>2, <2>3, RequestMoves
<1>4. ASSUME NEW w \in Workers, Processing(w) PROVE Processing(w)'
  <2>1. JobStep(w) => ~EndJob(w)
    BY EndEffects
  <2>2. CASE job'[w] = job[w]
    BY <1>4, <2>2 DEF Processing, IsRetry
  <2>3. CASE JobStep(w)
    BY <1>4, <2>1, <2>3, StageFields DEF Processing, IsRetry, Stages
  <2> QED
    BY <1>f, <1>4, <2>2, <2>3, JobMoves DEF Processing, LoadEntry, LoadRetry
<1>5. ASSUME queue.process > 0, entry.status = "processing" PROVE Goal
  <2>1. CASE queue'.process >= queue.process
    <3>1. queue'.process \in Nat /\ queue.process \in Nat
      <4>1. TypeInv'
        BY TypeStep DEF VInv
      <4> QED
        BY <1>t, <4>1 DEF TypeInv, TypeOK, StoreTypeOK
    <3> QED
      BY <1>5, <2>1, <3>1
  <2>2. ASSUME NEW w \in Workers, LoadEntry(w) PROVE Processing(w)'
    <3> DEFINE j == [NoJob EXCEPT !.pc = "validate", !.run = runs + 1,
                                  !.version = entry.version, !.form = entry.form]
    <3>1. j.pc = "validate"
      BY NoJobType DEF Job
    <3>2. job' = [job EXCEPT ![w] = j]
      BY <1>5, <2>2 DEF LoadEntry, ToProcess
    <3> HIDE DEF j
    <3> QED
      BY <1>t, <3>1, <3>2 DEF Processing, IsRetry
  <2> QED
    BY <2>1, <2>2, QueueEffects
<1>6. CASE entry.status = "processing"
  <2>1. \/ queue.process > 0
        \/ \E w \in Workers : Processing(w)
        \/ \E a \in Admins : Waits(a)
    BY <1>f, <1>6 DEF ProcessingHasJob, Processing
  <2> HIDE DEF Waits
  <2> QED
    BY <1>3, <1>4, <1>5, <1>6, <2>1
<1> HIDE DEF Waits
<1> QED
  BY <1>1, <1>2, <1>6, RowEffects

\* SchedulingType: the jobs with a retry in the queue can be counted.
LEMMA SchedulingType ==
    /\ IsFiniteSet(Scheduling) /\ Cardinality(Scheduling) \in Nat
    /\ \A w \in Workers : HasQueuedRetry(w) => Cardinality(Scheduling) >= 1
<1>1. Scheduling \subseteq Workers /\ IsFiniteSet(Workers)
  BY WorkersAssumption DEF Scheduling
<1>2. IsFiniteSet(Scheduling) /\ Cardinality(Scheduling) \in Nat
  BY <1>1, FS_Subset, FS_CardinalityType
<1>3. ASSUME NEW w \in Workers, HasQueuedRetry(w)
      PROVE  Cardinality(Scheduling) >= 1
  <2>1. Scheduling # {}
    BY <1>3 DEF Scheduling
  <2>2. Cardinality(Scheduling) # 0
    BY <1>2, <2>1, FS_EmptySet
  <2> QED
    BY <1>2, <2>2
<1> QED
  BY <1>2, <1>3

\* SchedulingGrows: a job that comes to wait for its own status has just queued a
\* retry.
LEMMA SchedulingGrows ==
    ASSUME VInv, NEW w \in Workers, HasQueuedRetry(w)', ~HasQueuedRetry(w),
           LoadEntry(w) \/ LoadRetry(w) \/ JobStep(w) \/ AbortJob(w)
    PROVE  EnqueueRetry /\ ~LoadRetry(w)
<1>1. job'[w] # job[w]
  BY DEF HasQueuedRetry, GivesUp, AttemptCount
<1>2. ~EndJob(w)
  BY EndFields DEF HasQueuedRetry
<1>3. ~LoadEntry(w) /\ ~LoadRetry(w)
  BY <1>1, FreshFields DEF HasQueuedRetry
<1>4. JobStep(w)
  BY <1>2, <1>3 DEF AbortJob
<1>5. GivesUp(w)' <=> GivesUp(w)
  BY <1>2, <1>4, StageFields DEF GivesUp, AttemptCount
<1>6. /\ <<job[w].pc, job'[w].pc>> \in Stages
      /\ job[w].pc \in {"determine", "reschedule", "retry_log"} =>
            job'[w].failed = job[w].failed
  BY <1>2, <1>4, StageFields
<1>7. \/ job[w].pc = "determine" /\ job[w].failed
      \/ job[w].pc = "reschedule" /\ job[w].failed /\ ~GivesUp(w)
  BY <1>5, <1>6 DEF HasQueuedRetry, Stages
<1>8. DetermineStatus(w) \/ Reschedule(w)
  BY <1>4, <1>7 DEF JobStep, Validate, RetireIndex, RetireRows, AssembleAndScore,
     UpsertPoint, InsertChunk, IndexDocument, MarkIndexed, FinishEntry, RetryQdrant,
     RetryOpenSearch, RetryLog, RetryFinish
<1> QED
  BY <1>3, <1>7, <1>8 DEF DetermineStatus, Reschedule

\* RetriesQueuedStep: the count of queued retries keeps up with the jobs.
LEMMA RetriesQueuedStep ==
    ASSUME VInv, RetriesQueued, [Next]_vars
    PROVE  RetriesQueued'
<1> DEFINE S == Scheduling
           T == Scheduling'
           m == queue.retry
           n == queue'.retry
<1>q. queue \in [process : Nat, retry : Nat] /\ m \in Nat /\ n \in Nat
  <2>1. TypeInv'
    BY TypeStep DEF VInv
  <2> QED
    BY <2>1 DEF VInv, TypeInv, TypeOK, StoreTypeOK
<1>s. /\ IsFiniteSet(S) /\ Cardinality(S) \in Nat /\ m >= Cardinality(S)
      /\ IsFiniteSet(T) /\ Cardinality(T) \in Nat
  <2>1. IsFiniteSet(Workers) /\ T \subseteq Workers
    BY WorkersAssumption DEF Scheduling
  <2> QED
    BY <2>1, SchedulingType, FS_Subset, FS_CardinalityType DEF RetriesQueued
<1>1. ASSUME T \subseteq S, n >= m \/ (m - Cardinality(S) > 0 /\ n = m - 1)
      PROVE  n >= Cardinality(T)
  <2>1. Cardinality(T) <= Cardinality(S)
    BY <1>s, <1>1, FS_Subset
  <2> HIDE DEF S, T, m, n
  <2> QED
    BY <1>q, <1>s, <1>1, <2>1
<1>2. ASSUME NEW w \in Workers, T \subseteq S \cup {w}, n = m + 1
      PROVE  n >= Cardinality(T)
  <2>1. /\ IsFiniteSet(S \cup {w})
        /\ Cardinality(S \cup {w}) \in {Cardinality(S), Cardinality(S) + 1}
    BY <1>s, FS_AddElement
  <2>2. Cardinality(T) <= Cardinality(S \cup {w})
    BY <1>2, <2>1, FS_Subset
  <2>3. Cardinality(T) <= Cardinality(S) + 1
    <3> HIDE DEF S, T
    <3> QED
      BY <1>s, <2>1, <2>2
  <2> HIDE DEF S, T, m, n
  <2> QED
    BY <1>q, <1>s, <1>2, <2>3
<1>3. ASSUME UNCHANGED job, n = m PROVE n >= Cardinality(T)
  <2>1. T \subseteq S
    BY <1>3 DEF Scheduling, HasQueuedRetry, GivesUp, AttemptCount
  <2> HIDE DEF S, T, m, n
  <2> QED
    BY <1>1, <1>3, <1>q, <2>1
<1>4. ASSUME NEW w \in Workers,
             LoadEntry(w) \/ LoadRetry(w) \/ JobStep(w) \/ AbortJob(w)
      PROVE  n >= Cardinality(T)
  <2>1. \A u \in Workers \ {w} : HasQueuedRetry(u)' => HasQueuedRetry(u)
    <3>1. ASSUME NEW u \in Workers \ {w} PROVE job'[u] = job[u]
      BY <1>4, OthersStay
    <3> QED
      BY <3>1 DEF HasQueuedRetry, GivesUp, AttemptCount
  <2>2. CASE HasQueuedRetry(w)' /\ ~HasQueuedRetry(w)
    <3>1. EnqueueRetry
      BY <1>4, <2>2, SchedulingGrows
    <3>2. n = m + 1
      BY <1>q, <3>1 DEF EnqueueRetry
    <3>3. T \subseteq S \cup {w}
      BY <2>1 DEF Scheduling
    <3> QED
      BY <1>2, <3>2, <3>3
  <2>3. CASE HasQueuedRetry(w)' => HasQueuedRetry(w)
    <3>1. T \subseteq S
      BY <2>1, <2>3 DEF Scheduling
    <3>2. n >= m \/ (m - Cardinality(S) > 0 /\ n = m - 1)
      <4>1. CASE UNCHANGED queue \/ EnqueueProcess \/ EnqueueRetry
        BY <1>q, <4>1 DEF EnqueueProcess, EnqueueRetry
      <4>2. CASE LoadEntry(w)
        BY <1>q, <4>2 DEF LoadEntry
      <4>3. CASE LoadRetry(w)
        BY <1>q, <4>3 DEF LoadRetry, DueRetries, Scheduling
      <4> QED
        BY <1>4, <4>1, <4>2, <4>3 DEF AbortJob, JobStep, Validate, RetireIndex,
           RetireRows, AssembleAndScore, UpsertPoint, InsertChunk, IndexDocument,
           MarkIndexed, DetermineStatus, FinishEntry, RetryQdrant,
           RetryOpenSearch, Reschedule, RetryLog, RetryFinish
    <3> QED
      BY <1>1, <3>1, <3>2
  <2> QED
    BY <2>2, <2>3
<1>5. ASSUME NEW a \in Admins, AdminRequest(a) \/ HandlerStep(a) PROVE n = m
  BY <1>q, <1>5 DEF AdminRequest, HandlerStep, CreateEntry, OpenEntry, SubmitEdit,
     RestoreVersion, ArchiveEntry, CreateHistory, PublishHistory, PublishEntry,
     Enqueue, EnqueueProcess, SaveDraft, ArchiveSelect, ArchiveIndex, ArchiveRows,
     ArchiveStatus, storeVars
<1>6. ASSUME Fault PROVE n >= Cardinality(T)
  <2> HIDE DEF T, n
  <2>1. \/ \E w \in Workers : AbortJob(w)
        \/ UNCHANGED job /\ \E a \in Admins : AbandonRequest(a)
    BY <1>6 DEF Fault
  <2>2. ASSUME NEW a \in Admins, AbandonRequest(a) PROVE n = m
    BY <2>2 DEF AbandonRequest, storeVars, n
  <2> QED
    BY <1>3, <1>4, <2>1, <2>2
<1>7. ASSUME UNCHANGED vars PROVE n >= Cardinality(T)
  BY <1>3, <1>7 DEF vars, storeVars
<1> HIDE DEF T, n, m
<1>8. n >= Cardinality(T)
  BY <1>3, <1>4, <1>5, <1>6, <1>7
  DEF Next, ApiRequest, ApiStep, StartProcess, StartRetry, WorkerStep
<1> QED
  BY <1>8 DEF RetriesQueued, T, n

\* PartialEffects: partial_index is written only by a job whose retry is queued.
LEMMA PartialEffects ==
    ASSUME VInv, [Next]_vars, entry'.status = "partial_index"
    PROVE  \/ entry.status = "partial_index"
           \/ \E w \in Workers : HasQueuedRetry(w) /\ UNCHANGED queue
<1> DEFINE Same == entry.status = "partial_index"
<1>e. entry \in Entry
  BY DEF VInv, TypeInv, TypeOK, StoreTypeOK
<1>1. ASSUME NEW a \in Admins, AdminRequest(a) \/ HandlerStep(a) PROVE Same
  <2>1. CASE SaveDraft(a) \/ ArchiveStatus(a) \/ PublishEntry(a)
    BY <1>e, <2>1 DEF SaveDraft, ArchiveStatus, PublishEntry, WriteEntry, Entry
  <2>2. ASSUME NEW form \in Forms, NEW publish \in BOOLEAN,
               CreateEntry(a, form, publish)
        PROVE  FALSE
    BY <2>2 DEF CreateEntry
  <2> QED
    BY <1>1, <2>1, <2>2 DEF AdminRequest, HandlerStep, OpenEntry, SubmitEdit,
       RestoreVersion, ArchiveEntry, CreateHistory, PublishHistory, Enqueue,
       ArchiveSelect, ArchiveIndex, ArchiveRows, storeVars, dbVars
<1>2. ASSUME NEW w \in Workers, LoadEntry(w) \/ LoadRetry(w) \/ JobStep(w)
      PROVE  Same \/ (HasQueuedRetry(w) /\ UNCHANGED queue)
  <2>1. CASE JobStep(w) /\ EndJob(w)
    BY <2>1, EndEffects
  <2>2. CASE RetryLog(w)
    BY <1>e, <2>2 DEF RetryLog, WriteEntry, Entry
  <2>3. CASE ~(JobStep(w) /\ EndJob(w)) /\ ~RetryLog(w)
    <3>1. UNCHANGED entry
      BY <1>2, <2>3 DEF LoadEntry, LoadRetry, JobStep, Validate, RetireIndex,
         RetireRows, AssembleAndScore, UpsertPoint, InsertChunk, IndexDocument,
         MarkIndexed, DetermineStatus, FinishEntry, RetryQdrant,
         RetryOpenSearch, Reschedule, RetryFinish, dbVars
    <3> QED
      BY <3>1
  <2> QED
    BY <2>1, <2>2, <2>3
<1>3. CASE Fault \/ UNCHANGED vars
  BY <1>3 DEF Fault, AbandonRequest, AbortJob, vars, storeVars, dbVars
<1> QED
  BY <1>1, <1>2, <1>3
  DEF Next, ApiRequest, ApiStep, StartProcess, StartRetry, WorkerStep

\* PartialStep: an entry that says partial_index never loses its last retry.
LEMMA PartialStep ==
    ASSUME VInv, RetriesQueued, PartialIndexHasRetry, [Next]_vars
    PROVE  PartialIndexHasRetry'
<1> SUFFICES ASSUME faults' = 0, entry'.status = "partial_index"
             PROVE  queue'.retry > 0 \/ \E w \in Workers : IsRetry(w)'
  BY DEF PartialIndexHasRetry
<1>f. faults = 0 /\ faults' # faults + 1
  BY FaultCount
<1>q. queue.retry \in Nat /\ queue'.retry \in Nat
  <2>1. TypeInv'
    BY TypeStep DEF VInv
  <2> QED
    BY <2>1 DEF VInv, TypeInv, TypeOK, StoreTypeOK
\* a job that is about to write its status has a retry in the queue
<1>1. ASSUME NEW w \in Workers, HasQueuedRetry(w), UNCHANGED queue
      PROVE  queue'.retry > 0
  <2>1. Cardinality(Scheduling) >= 1 /\ Cardinality(Scheduling) \in Nat
    BY <1>1, SchedulingType
  <2> QED
    BY <1>q, <1>1, <2>1 DEF RetriesQueued
<1>2. ASSUME NEW w \in Workers, IsRetry(w)
      PROVE  queue'.retry > 0 \/ IsRetry(w)'
  <2>1. CASE job'[w] = job[w]
    BY <1>2, <2>1 DEF IsRetry
  <2>2. CASE JobStep(w) /\ ~EndJob(w)
    BY <1>2, <2>2, StageFields DEF IsRetry, Stages
  <2>3. CASE JobStep(w) /\ EndJob(w)
    BY <1>1, <2>3, EndEffects
  <2> QED
    BY <1>f, <1>2, <2>1, <2>2, <2>3, JobMoves DEF IsRetry, LoadEntry, LoadRetry
<1>3. ASSUME queue.retry > 0, entry.status = "partial_index"
      PROVE  queue'.retry > 0 \/ \E w \in Workers : IsRetry(w)'
  <2>1. CASE queue'.retry >= queue.retry
    BY <1>q, <1>3, <2>1
  <2>2. ASSUME NEW w \in Workers, LoadRetry(w) PROVE IsRetry(w)'
    <3> DEFINE j == [NoJob EXCEPT !.pc = "retry_qdrant",
                                  !.qdrant = FailedRows("qdrant"),
                                  !.opensearch = FailedRows("opensearch"),
                                  !.live = CurrentRows,
                                  !.retries = entry.retries]
    <3>1. j.pc = "retry_qdrant"
      BY NoJobType DEF Job
    <3>2. job' = [job EXCEPT ![w] = j] /\ job \in [Workers -> Job]
      BY <1>3, <2>2 DEF LoadRetry, VInv, TypeInv, TypeOK, WorkerTypeOK
    <3> HIDE DEF j
    <3> QED
      BY <3>1, <3>2 DEF IsRetry
  <2> QED
    BY <2>1, <2>2, QueueEffects
<1>4. CASE entry.status = "partial_index"
  BY <1>2, <1>3, <1>4, <1>f DEF PartialIndexHasRetry
<1> QED
  BY <1>1, <1>4, PartialEffects

\* WorkInit: the invariant holds at the start.
LEMMA WorkInit == Init => WorkInv
<1> SUFFICES ASSUME Init PROVE WorkInv
  OBVIOUS
<1>1. /\ \A w \in Workers : job[w].pc = "idle"
      /\ entry.status = "absent" /\ queue.retry = 0
  BY DEF Init, StoreInit, WorkerInit, NoJob, NoEntry
<1>2. Scheduling = {}
  BY <1>1 DEF Scheduling, HasQueuedRetry
<1>3. Cardinality(Scheduling) = 0
  BY <1>2, FS_EmptySet
<1> QED
  BY <1>1, <1>3 DEF WorkInv, RetriesQueued, PartialIndexHasRetry, ProcessingHasJob

\* WorkSafety: without a crash, an entry that waits for a job has one to wait for.
THEOREM WorkSafety == Spec => [](ProcessingHasJob /\ PartialIndexHasRetry)
<1>1. VInv /\ WorkInv /\ [Next]_vars => VInv' /\ WorkInv'
  BY VersionStep, ProcessingStep, PartialStep, RetriesQueuedStep DEF WorkInv
<1> QED
  BY <1>1, VersionInit, WorkInit, PTL DEF Spec, WorkInv
=========================================================================
