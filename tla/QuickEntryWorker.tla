--------------------------- MODULE QuickEntryWorker ---------------------------
(***************************************************************************)
(* The ARQ tasks process_form_entry (stages A1 to A13) and                 *)
(* retry_partial_indexing. Each element of Workers is a job slot of the    *)
(* worker process (they run concurrently on its event loop);               *)
(* job[w].pc names the statement or call that comes next.                  *)
(***************************************************************************)
EXTENDS QuickEntryStore

CONSTANT Workers  \* the slots of the worker process: max_jobs of them

ASSUME WorkersAssumption == IsFiniteSet(Workers)

MaxRetryCount == 3

VARIABLE job

workerVars == <<storeVars, job>>

JobPC == {"idle", "validate", "retire", "assemble", "upsert", "insert",
          "index", "mark", "determine", "finish", "retry_qdrant",
          "retry_opensearch", "reschedule", "retry_log", "retry_finish"}

\* process: run, version and form of the SELECT in A1, old the points yet to be
\* retired, next the chunk at hand, ok the outcome of the call on it, failed
\* whether a chunk failed.
\* retry: qdrant and opensearch are the failed rows still to be retried, live
\* those whose row was current when it was read, retries the count it read.
Job == [pc : JobPC, run : 0 .. MaxRuns, version : 0 .. MaxVersion,
        form : Forms \cup {NoForm}, old : SUBSET Points, next : 0 .. NumChunks,
        ok : BOOLEAN, failed : BOOLEAN, qdrant : SUBSET Points,
        opensearch : SUBSET Points, live : SUBSET Points, retries : Nat]

NoJob == [pc |-> "idle", run |-> 0, version |-> 0, form |-> NoForm, old |-> {},
          next |-> 0, ok |-> FALSE, failed |-> FALSE, qdrant |-> {},
          opensearch |-> {}, live |-> {}, retries |-> 0]

WorkerTypeOK == job \in [Workers -> Job]

WorkerInit == job = [w \in Workers |-> NoJob]

EndJob(w) == job' = [job EXCEPT ![w] = NoJob]
Continue(w, pc) == job' = [job EXCEPT ![w].pc = pc]

\* the point of the chunk at hand
Point(w) == <<job[w].run, job[w].next>>

\* UPDATE ... SET status, processing_log WHERE id: a fresh log counts no retry
WriteOutcome(status) ==
    WriteEntry([entry EXCEPT !.status = status, !.retries = 0])

-----------------------------------------------------------------------------
(***************************************************************************)
(* process_form_entry                                                      *)
(***************************************************************************)

\* Mutant: the job does not look at the status
Mut_ToProcess == TRUE

\* A1: the job leaves the queue; it does nothing unless the row says processing
ToProcess == entry.status = "processing"

LoadEntry(w) ==
    /\ job[w].pc = "idle"
    /\ queue.process > 0
    /\ queue' = [queue EXCEPT !.process = @ - 1]
    /\ \/ /\ ~ToProcess
          /\ UNCHANGED <<job, runs>>
       \/ /\ ToProcess
          /\ runs < MaxRuns
          /\ runs' = runs + 1
          /\ job' = [job EXCEPT ![w] =
                        [NoJob EXCEPT !.pc = "validate", !.run = runs + 1,
                                      !.version = entry.version,
                                      !.form = entry.form]]
    /\ UNCHANGED <<dbVars, indexVars>>

\* Mutant: the error is raised and the status is left alone
Mut_FailEntry(w) == UNCHANGED <<entry, upToDate>>

\* _fail_entry
FailEntry(w) == WriteOutcome("failed")

\* A2, then A3: SELECT the current rows
Validate(w) ==
    /\ job[w].pc = "validate"
    /\ \/ /\ FailEntry(w)
          /\ EndJob(w)
       \/ /\ IF job[w].version > 1
             THEN job' = [job EXCEPT ![w].pc = "retire", ![w].old = CurrentRows]
             ELSE Continue(w, "assemble")
          /\ UNCHANGED <<entry, upToDate>>
    /\ UNCHANGED <<history, chunks, indexVars, queue, runs>>

\* A3: retire each of them in both indexes ...
RetireIndex(w) ==
    /\ job[w].pc = "retire"
    /\ \E p \in job[w].old :
          /\ RetirePoint(p)
          /\ job' = [job EXCEPT ![w].old = @ \ {p}]
    /\ UNCHANGED <<dbVars, queue, runs>>

\* ... and UPDATE ... WHERE version < the version of the SELECT in A1
RetireRows(w) ==
    /\ job[w].pc = "retire"
    /\ job[w].old = {}
    /\ chunks' = RowsRetired({p \in Rows : chunks[p].version < job[w].version})
    /\ Continue(w, "assemble")
    /\ UNCHANGED <<entry, upToDate, history, indexVars, queue, runs>>

\* A4 to A9: assembly and embedding fail the entry, a low score refuses it
AssembleAndScore(w) ==
    /\ job[w].pc = "assemble"
    /\ \/ /\ FailEntry(w) \/ WriteOutcome("low_quality")
          /\ EndJob(w)
       \/ /\ job' = [job EXCEPT ![w].pc = "upsert", ![w].next = 1]
          /\ UNCHANGED <<entry, upToDate>>
    /\ UNCHANGED <<history, chunks, indexVars, queue, runs>>

\* A10, for each chunk: upsert the point ...
UpsertPoint(w) ==
    /\ job[w].pc = "upsert"
    /\ \E ok \in QdrantOutcomes :
          /\ qdrant' \in After(qdrant, Point(w), "live", ok)
          /\ job' = [job EXCEPT ![w].pc = "insert", ![w].ok = ok,
                                ![w].failed = @ \/ ~ok]
    /\ UNCHANGED <<dbVars, opensearch, queue, runs>>

\* Mutants: the outcome of the upsert is ignored; a chunk whose upsert failed gets
\* no row
Mut_NewRowUnchecked(w) == [version |-> job[w].version, form |-> job[w].form,
    qdrant |-> "success", opensearch |-> "pending", current |-> TRUE]
Mut_NewRowIfStored(w) ==
    IF job[w].ok THEN Mut_NewRowUnchecked(w) ELSE NoChunk

\* ... and INSERT its row, whether the point was stored or not
NewRow(w) == [version |-> job[w].version, form |-> job[w].form,
              qdrant |-> IF job[w].ok THEN "success" ELSE "failed",
              opensearch |-> "pending", current |-> TRUE]

\* Mutant: one chunk too many
Mut_MoreChunks(w) == job[w].next <= NumChunks
MoreChunks(w) == job[w].next < NumChunks

InsertChunk(w) ==
    /\ job[w].pc = "insert"
    /\ chunks' = [chunks EXCEPT ![Point(w)] = NewRow(w)]
    /\ IF MoreChunks(w)
       THEN job' = [job EXCEPT ![w].pc = "upsert", ![w].next = @ + 1]
       ELSE job' = [job EXCEPT ![w].pc = "index", ![w].next = 1]
    /\ UNCHANGED <<entry, upToDate, history, indexVars, queue, runs>>

\* A11, for each chunk: index the document ...
IndexDocument(w) ==
    /\ job[w].pc = "index"
    /\ \E ok \in OpenSearchOutcomes :
          /\ opensearch' \in After(opensearch, Point(w), "live", ok)
          /\ job' = [job EXCEPT ![w].pc = "mark", ![w].ok = ok,
                                ![w].failed = @ \/ ~ok]
    /\ UNCHANGED <<dbVars, qdrant, queue, runs>>

\* ... and UPDATE ... WHERE entry_id, version and chunk_type
MarkIndexed(w) ==
    /\ job[w].pc = "mark"
    /\ chunks' = [p \in Points |->
                    IF p \in Rows /\ chunks[p].version = job[w].version
                                  /\ p[2] = job[w].next
                    THEN [chunks[p] EXCEPT !.opensearch =
                            IF job[w].ok THEN "success" ELSE "failed"]
                    ELSE chunks[p]]
    /\ IF MoreChunks(w)
       THEN job' = [job EXCEPT ![w].pc = "index", ![w].next = @ + 1]
       ELSE Continue(w, "determine")
    /\ UNCHANGED <<entry, upToDate, history, indexVars, queue, runs>>

\* A12: a partial index queues its retry before the status is written
DetermineStatus(w) ==
    /\ job[w].pc = "determine"
    /\ IF job[w].failed THEN EnqueueRetry ELSE UNCHANGED queue
    /\ Continue(w, "finish")
    /\ UNCHANGED <<dbVars, indexVars, runs>>

\* A13: UPDATE ... WHERE id, whatever the row holds by now
FinishEntry(w) ==
    /\ job[w].pc = "finish"
    /\ WriteOutcome(IF job[w].failed THEN "partial_index" ELSE "active")
    /\ EndJob(w)
    /\ UNCHANGED <<history, chunks, indexVars, queue, runs>>

-----------------------------------------------------------------------------
(***************************************************************************)
(* retry_partial_indexing                                                  *)
(***************************************************************************)

FailedRows(field) ==
    {p \in Rows : /\ chunks[p].version = entry.version
                  /\ chunks[p][field] = "failed"}

\* Mutant: the attempt is not counted
Mut_AttemptCount(w) == job[w].retries

\* the attempt is counted on the log that the job read when it started
AttemptCount(w) == job[w].retries + 1
GivesUp(w) == AttemptCount(w) >= MaxRetryCount

\* the job has queued a retry and has yet to write the status
HasQueuedRetry(w) ==
    \/ job[w].pc = "finish" /\ job[w].failed
    \/ job[w].pc \in {"retry_log", "retry_finish"} /\ job[w].failed /\ ~GivesUp(w)

\* Mutant: the retry is queued without a delay
Mut_DueRetries == queue.retry

\* A retry is deferred by at least 300 s and job_timeout is 180 s: the job that
\* queued it has written its status, or has been aborted, before it is due
DueRetries == queue.retry - Cardinality({w \in Workers : HasQueuedRetry(w)})

LoadRetry(w) ==
    /\ job[w].pc = "idle"
    /\ DueRetries > 0
    /\ queue' = [queue EXCEPT !.retry = @ - 1]
    /\ \/ /\ entry.status \notin {"partial_index", "active"}
          /\ UNCHANGED job
       \/ /\ entry.status \in {"partial_index", "active"}
          /\ job' = [job EXCEPT ![w] =
                        [NoJob EXCEPT !.pc = "retry_qdrant",
                                      !.qdrant = FailedRows("qdrant"),
                                      !.opensearch = FailedRows("opensearch"),
                                      !.live = CurrentRows,
                                      !.retries = entry.retries]]
    /\ UNCHANGED <<dbVars, indexVars, runs>>

\* the payload is rebuilt with the is_current that was read in LoadRetry
Rebuilt(w, p) == IF p \in job[w].live THEN "live" ELSE "retired"

\* for each failed row, embed and write again: the row is updated once the index
\* has answered
RetryQdrant(w) ==
    /\ job[w].pc = "retry_qdrant"
    /\ \/ \E p \in job[w].qdrant, ok \in QdrantOutcomes :
             /\ qdrant' \in After(qdrant, p, Rebuilt(w, p), ok)
             /\ chunks' = IF ok THEN [chunks EXCEPT ![p].qdrant = "success"]
                          ELSE chunks
             /\ job' = [job EXCEPT ![w].qdrant = @ \ {p},
                                   ![w].failed = @ \/ ~ok]
       \/ /\ job[w].qdrant = {}
          /\ Continue(w, "retry_opensearch")
          /\ UNCHANGED <<qdrant, chunks>>
    /\ UNCHANGED <<entry, upToDate, history, opensearch, queue, runs>>

RetryOpenSearch(w) ==
    /\ job[w].pc = "retry_opensearch"
    /\ \/ \E p \in job[w].opensearch, ok \in OpenSearchOutcomes :
             /\ opensearch' \in After(opensearch, p, Rebuilt(w, p), ok)
             /\ chunks' = IF ok THEN [chunks EXCEPT ![p].opensearch = "success"]
                          ELSE chunks
             /\ job' = [job EXCEPT ![w].opensearch = @ \ {p},
                                   ![w].failed = @ \/ ~ok]
       \/ /\ job[w].opensearch = {}
          /\ Continue(w, "reschedule")
          /\ UNCHANGED <<opensearch, chunks>>
    /\ UNCHANGED <<entry, upToDate, history, qdrant, queue, runs>>

\* nothing failed: active. Otherwise count the attempt, and queue the next one
\* unless this was the last
Reschedule(w) ==
    /\ job[w].pc = "reschedule"
    /\ IF job[w].failed /\ ~GivesUp(w) THEN EnqueueRetry ELSE UNCHANGED queue
    /\ Continue(w, IF job[w].failed THEN "retry_log" ELSE "retry_finish")
    /\ UNCHANGED <<dbVars, indexVars, runs>>

RetryLog(w) ==
    /\ job[w].pc = "retry_log"
    /\ WriteEntry([entry EXCEPT !.retries = AttemptCount(w)])
    /\ Continue(w, "retry_finish")
    /\ UNCHANGED <<history, chunks, indexVars, queue, runs>>

RetryFinish(w) ==
    /\ job[w].pc = "retry_finish"
    /\ WriteEntry([entry EXCEPT !.status =
                    IF ~job[w].failed THEN "active"
                    ELSE IF GivesUp(w) THEN "failed" ELSE "partial_index"])
    /\ EndJob(w)
    /\ UNCHANGED <<history, chunks, indexVars, queue, runs>>

-----------------------------------------------------------------------------
\* the steps of a job that has started
JobStep(w) ==
    \/ Validate(w) \/ RetireIndex(w) \/ RetireRows(w) \/ AssembleAndScore(w)
    \/ UpsertPoint(w) \/ InsertChunk(w) \/ IndexDocument(w) \/ MarkIndexed(w)
    \/ DetermineStatus(w) \/ FinishEntry(w)
    \/ RetryQdrant(w) \/ RetryOpenSearch(w) \/ Reschedule(w)
    \/ RetryLog(w) \/ RetryFinish(w)

IsRetry(w) == job[w].pc \in {"retry_qdrant", "retry_opensearch", "reschedule",
                             "retry_log", "retry_finish"}

\* The worker process dies, or job_timeout or an error outside the handled
\* stages ends the job. ARQ runs the job of a dead worker again until max_tries
\* and drops it otherwise.
AbortJob(w) ==
    /\ job[w].pc # "idle"
    /\ EndJob(w)
    /\ \/ UNCHANGED queue
       \/ IF IsRetry(w) THEN EnqueueRetry ELSE EnqueueProcess
    /\ UNCHANGED <<dbVars, indexVars, runs>>
=============================================================================
