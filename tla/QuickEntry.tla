------------------------------ MODULE QuickEntry ------------------------------
(***************************************************************************)
(* The Quick Entry subsystem: the admin API and the ARQ worker on their    *)
(* shared stores.                                                          *)
(***************************************************************************)
EXTENDS QuickEntryApi, QuickEntryWorker

CONSTANT MaxFaults  \* bound: crashes and aborted jobs

ASSUME FaultsAssumption == MaxFaults \in Nat

VARIABLE faults

vars == <<storeVars, req, job, faults>>

Init == StoreInit /\ ApiInit /\ WorkerInit /\ faults = 0

ApiRequest(a) == AdminRequest(a) /\ UNCHANGED <<job, faults>>
ApiStep(a) == HandlerStep(a) /\ UNCHANGED <<job, faults>>
StartProcess(w) == LoadEntry(w) /\ UNCHANGED <<req, faults>>
StartRetry(w) == LoadRetry(w) /\ UNCHANGED <<req, faults>>
WorkerStep(w) == JobStep(w) /\ UNCHANGED <<req, faults>>

Fault ==
    /\ faults < MaxFaults
    /\ faults' = faults + 1
    /\ \/ \E a \in Admins : AbandonRequest(a) /\ UNCHANGED job
       \/ \E w \in Workers : AbortJob(w) /\ UNCHANGED req

Next ==
    \/ \E a \in Admins : ApiRequest(a) \/ ApiStep(a)
    \/ \E w \in Workers : StartProcess(w) \/ StartRetry(w) \/ WorkerStep(w)
    \/ Fault

Spec == Init /\ [][Next]_vars

\* A request that was accepted runs to its end, a job that was started too, and
\* ARQ hands the jobs that are due to a free slot in the order they are due.
\* Nothing obliges an admin to act, or a fault to happen.
Fairness ==
    /\ \A a \in Admins : WF_vars(ApiStep(a))
    /\ \A w \in Workers : WF_vars(WorkerStep(w))
    /\ WF_vars(\E w \in Workers : StartProcess(w))
    /\ WF_vars(\E w \in Workers : StartRetry(w))

FairSpec == Spec /\ Fairness

-----------------------------------------------------------------------------
(***************************************************************************)
(* Types                                                                   *)
(***************************************************************************)

\* TypeOK: every store, request and job has its type; the workers' chunk
\* counter stays within the chunks of the form.
TypeOK ==
    /\ StoreTypeOK
    /\ ApiTypeOK
    /\ WorkerTypeOK
    /\ faults \in 0 .. MaxFaults

-----------------------------------------------------------------------------
(***************************************************************************)
(* Versions: publish, restore and draft saves race without a transaction   *)
(***************************************************************************)

\* HistoryBacksEntry: each version that the entry has reached by a publish or a
\* restore has its row in the history, and the history is ahead of the entry by
\* at most the one row whose UPDATE is outstanding or was lost in a crash. (Row
\* 1 may be missing for good: create_entry writes it in a second statement.)
HistoryBacksEntry ==
    \A v \in 2 .. MaxVersion :
        /\ v <= entry.version => history[v] # NoForm
        /\ history[v] # NoForm => v <= entry.version + 1

\* OneWriterPerVersion: the unique constraint on (entry_id, version) works as a
\* lock. A request past its INSERT is the only one there, still has the version
\* that it selected beneath it, and has its own text in the history.
OneWriterPerVersion ==
    \A a \in Admins : req[a].pc = "publish_entry" =>
        /\ req[a].base = entry.version
        /\ history[req[a].base + 1] = req[a].form
        /\ \A b \in Admins \ {a} : req[b].pc # "publish_entry"

\* FiledTextIsFinal: no request rewrites the history of a version.
FiledTextIsFinal ==
    [][\A v \in Versions : history[v] # NoForm => history'[v] = history[v]]_vars

\* ImplementsVersionedEntry: with its statements interleaved, crashed and
\* retried, the entry behaves as VersionedEntry. The INSERT of a history row is
\* invisible until the UPDATE of the entry makes it that version's text.
Filed == [v \in Versions |-> IF 2 <= v /\ v <= entry.version
                             THEN history[v] ELSE NoForm]

Abstract == INSTANCE VersionedEntry WITH
    Texts <- Forms,
    NoText <- NoForm,
    LastVersion <- MaxVersion,
    version <- entry.version,
    text <- entry.form,
    filed <- Filed

ImplementsVersionedEntry == Abstract!Spec

\* IndexedTextIsPublished: whatever edits, publishes, crashes and repeated jobs
\* do meanwhile, a chunk holds the text that the history has for its version: a
\* draft never reaches the index, and a version is never indexed with the text
\* of another.
IndexedTextIsPublished ==
    \A p \in Rows : chunks[p].form = history[chunks[p].version]

-----------------------------------------------------------------------------
(***************************************************************************)
(* The database and the indexes                                            *)
(***************************************************************************)

\* QdrantStatusTruthful: a row that says its point was stored is right, also
\* when two runs index one version and when a retry races a new run.
QdrantStatusTruthful ==
    \A p \in Rows : chunks[p].qdrant = "success" => qdrant[p] # "absent"

\* EveryPointHasRow: archive_entry and stage A3 find the points to retire by
\* their rows. Without a crash, each stored point has its row, or a run is about
\* to insert it.
EveryPointHasRow ==
    faults = 0 =>
        \A p \in Points : qdrant[p] # "absent" =>
            \/ p \in Rows
            \/ \E w \in Workers : job[w].pc = "insert" /\ Point(w) = p

-----------------------------------------------------------------------------
(***************************************************************************)
(* Progress                                                                *)
(***************************************************************************)

\* PartialIndexHasRetry: without a crash, an entry that says partial_index has a
\* retry queued or running. It rests on the delay of the retry: it is queued
\* before the status that it requires is written.
PartialIndexHasRetry ==
    faults = 0 /\ entry.status = "partial_index" =>
        queue.retry > 0 \/ \E w \in Workers : IsRetry(w)

\* ProcessingHasJob: without a crash, an entry that says processing has a job
\* queued or running, or a request that is about to queue it.
ProcessingHasJob ==
    faults = 0 /\ entry.status = "processing" =>
        \/ queue.process > 0
        \/ \E w \in Workers : job[w].pc # "idle" /\ ~IsRetry(w)
        \/ \E a \in Admins : \/ req[a].pc = "enqueue"
                             \/ req[a].pc = "create_history" /\ req[a].publish

\* ProcessingEnds: an entry does not stay in processing.
ProcessingEnds == entry.status = "processing" ~> entry.status # "processing"

\* RetriesEnd: nor in partial_index, however often the indexes fail.
RetriesEnd == entry.status = "partial_index" ~> entry.status # "partial_index"

-----------------------------------------------------------------------------
(***************************************************************************)
(* What the documents say and the code does not do                         *)
(***************************************************************************)

Quiet == /\ \A w \in Workers : job[w].pc = "idle"
         /\ \A a \in Admins : req[a].pc \in {"idle", "open"}
         /\ queue = [process |-> 0, retry |-> 0]

\* ActiveIsIndexed: an entry that the drawer reports as active in the knowledge
\* base, with nothing left to run, has chunks of its version there.
ActiveIsIndexed ==
    Quiet /\ entry.status = "active" =>
        \E p \in Rows : chunks[p].version = entry.version
=============================================================================
