--------------------------- MODULE QuickEntryStore ---------------------------
(***************************************************************************)
(* The stores that the Quick Entry handlers and tasks share, for ONE entry *)
(* (every statement of the code is keyed by the entry's id, so entries do  *)
(* not interact):                                                          *)
(*                                                                         *)
(*   entry       the row of knowledge_form_entries                         *)
(*   upToDate    the clients whose copy of updated_at is the row's         *)
(*   history     the rows of knowledge_form_entry_versions                 *)
(*   chunks      the rows of knowledge_form_entry_chunks, by point id      *)
(*   qdrant      the entry's points in the vector store                    *)
(*   opensearch  the entry's documents in the search index                 *)
(*   queue       the entry's jobs waiting in the ARQ queue                 *)
(*   runs        the process_form_entry runs so far: each run draws fresh  *)
(*               uuids, here the pairs <<run, chunk>>                      *)
(*                                                                         *)
(* No handler or task opens a transaction, so each SQL statement commits   *)
(* by itself; the modules that EXTEND this one take one step per statement *)
(* that another actor can observe.                                         *)
(***************************************************************************)
EXTENDS Integers, FiniteSets

CONSTANTS
    Admins,      \* concurrent requests of the admin API
    Forms,       \* contents of the form, validated when they are submitted
    NoForm,      \* no content: the row does not exist
    NumChunks,   \* chunks that a form is assembled into
    MaxVersion,  \* bound: publishing stops at this version
    MaxRuns,     \* bound: runs of process_form_entry past its status check
    QdrantOutcomes,     \* outcomes of a call to Qdrant: {TRUE} or {TRUE, FALSE}
    OpenSearchOutcomes  \* the same for OpenSearch

ASSUME StoreAssumption ==
    /\ NoForm \notin Forms
    /\ NumChunks \in Nat \ {0}
    /\ MaxVersion \in Nat \ {0}
    /\ MaxRuns \in Nat \ {0}
    /\ QdrantOutcomes \subseteq BOOLEAN /\ TRUE \in QdrantOutcomes
    /\ OpenSearchOutcomes \subseteq BOOLEAN /\ TRUE \in OpenSearchOutcomes

VARIABLES entry, upToDate, history, chunks, qdrant, opensearch, queue, runs

dbVars == <<entry, upToDate, history, chunks>>
indexVars == <<qdrant, opensearch>>
storeVars == <<entry, upToDate, history, chunks, qdrant, opensearch, queue, runs>>

-----------------------------------------------------------------------------
(***************************************************************************)
(* Types                                                                   *)
(***************************************************************************)

Status == {"draft", "processing", "active", "archived", "low_quality",
           "failed", "partial_index"}

Versions == 1 .. MaxVersion
ChunkTypes == 1 .. NumChunks
Points == (1 .. MaxRuns) \X ChunkTypes

\* retries is processing_log.retry_count
Entry == [status : Status \cup {"absent"}, version : 0 .. MaxVersion,
          form : Forms \cup {NoForm}, retries : Nat]

NoEntry == [status |-> "absent", version |-> 0, form |-> NoForm, retries |-> 0]

StoreStatus == {"pending", "success", "failed"}

Chunk == [version : 0 .. MaxVersion, form : Forms \cup {NoForm},
          qdrant : StoreStatus, opensearch : StoreStatus, current : BOOLEAN]

NoChunk == [version |-> 0, form |-> NoForm, qdrant |-> "pending",
            opensearch |-> "pending", current |-> FALSE]

\* "live" is a payload with is_current TRUE, "retired" one with FALSE
IndexState == {"absent", "live", "retired"}

StoreTypeOK ==
    /\ entry \in Entry
    /\ upToDate \in SUBSET Admins
    /\ history \in [Versions -> Forms \cup {NoForm}]
    /\ chunks \in [Points -> Chunk]
    /\ qdrant \in [Points -> IndexState]
    /\ opensearch \in [Points -> IndexState]
    /\ queue \in [process : Nat, retry : Nat]
    /\ runs \in 0 .. MaxRuns

StoreInit ==
    /\ entry = NoEntry
    /\ upToDate = {}
    /\ history = [v \in Versions |-> NoForm]
    /\ chunks = [p \in Points |-> NoChunk]
    /\ qdrant = [p \in Points |-> "absent"]
    /\ opensearch = [p \in Points |-> "absent"]
    /\ queue = [process |-> 0, retry |-> 0]
    /\ runs = 0

-----------------------------------------------------------------------------
(***************************************************************************)
(* Statements and calls                                                    *)
(***************************************************************************)

Exists == entry.status # "absent"

Rows == {p \in Points : chunks[p].version # 0}
CurrentRows == {p \in Rows : chunks[p].current}

\* UPDATE knowledge_form_entries: kfe_updated_at_trigger stamps the row, so
\* that no client's copy of updated_at matches it any more
WriteEntry(row) ==
    /\ entry' = row
    /\ upToDate' = {}

\* What an index may hold after a call that writes state x to point p: a call
\* that fails may still have reached the store, with its answer lost
After(index, p, x, ok) ==
    IF ok THEN {[index EXCEPT ![p] = x]}
    ELSE {index, [index EXCEPT ![p] = x]}

\* set_payload and update_document of {"is_current": False}, best effort in each
\* index; a point that is absent has nothing to retire
RetirePoint(p) ==
    LET retired(index) == IF index[p] = "live" THEN "retired" ELSE index[p]
    IN  \E okQ \in QdrantOutcomes, okO \in OpenSearchOutcomes :
           /\ qdrant' \in After(qdrant, p, retired(qdrant), okQ)
           /\ opensearch' \in After(opensearch, p, retired(opensearch), okO)

\* UPDATE knowledge_form_entry_chunks SET is_current = FALSE
RowsRetired(points) ==
    [p \in Points |-> IF p \in points THEN [chunks[p] EXCEPT !.current = FALSE]
                      ELSE chunks[p]]

EnqueueProcess == queue' = [queue EXCEPT !.process = @ + 1]
EnqueueRetry == queue' = [queue EXCEPT !.retry = @ + 1]
=============================================================================
