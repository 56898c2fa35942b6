---------------------------- MODULE QuickEntryApi ----------------------------
(***************************************************************************)
(* knowledge_entries_handler.py: the admin requests that change an entry.  *)
(* Each element of Admins is a request (with the page its client opened    *)
(* before it); req[a].pc names the statement that comes next.              *)
(*                                                                         *)
(* The entry is an error_guide or a procedure: confirm_current and the     *)
(* staleness job refuse it. It has no gap_id and no screenshots.           *)
(***************************************************************************)
EXTENDS QuickEntryStore

CONSTANT Requests  \* what the clients do besides creating and publishing

ASSUME RequestsAssumption == Requests \subseteq {"save", "restore", "archive"}

VARIABLE req

ReqPC == {"idle", "open", "create_history", "publish_history",
          "publish_entry", "enqueue", "save_draft", "archive_select",
          "archive_index", "archive_entry"}

\* base is the version on the client's page, which is that of the row when the
\* handler goes on; form the content to be written; publish whether a created
\* entry is processed; old the points that archive_entry has yet to retire
Request == [pc : ReqPC, base : 0 .. MaxVersion, form : Forms \cup {NoForm},
            publish : BOOLEAN, old : SUBSET Points]

NoRequest == [pc |-> "idle", base |-> 0, form |-> NoForm, publish |-> FALSE,
              old |-> {}]

ApiTypeOK == req \in [Admins -> Request]

ApiInit == req = [a \in Admins |-> NoRequest]

Finish(a) == req' = [req EXCEPT ![a] = NoRequest]
\* Mutant: the job is never queued
Mut_GotoEnqueue(a) == Finish(a)

GotoEnqueue(a) == req' = [req EXCEPT ![a] = [NoRequest EXCEPT !.pc = "enqueue"]]

-----------------------------------------------------------------------------
(***************************************************************************)
(* POST: create_entry. The document id is unique, so a second create of    *)
(* the same document is refused with 409.                                  *)
(***************************************************************************)

CreateEntry(a, form, publish) ==
    /\ req[a].pc = "idle"
    /\ ~Exists
    /\ entry' = [status |-> IF publish THEN "processing" ELSE "draft",
                 version |-> 1, form |-> form, retries |-> 0]
    /\ req' = [req EXCEPT ![a] = [NoRequest EXCEPT !.pc = "create_history",
                                                   !.form = form,
                                                   !.publish = publish]]
    /\ UNCHANGED <<upToDate, history, chunks, indexVars, queue, runs>>

CreateHistory(a) ==
    /\ req[a].pc = "create_history"
    /\ history' = [history EXCEPT ![1] = req[a].form]
    /\ IF req[a].publish THEN GotoEnqueue(a) ELSE Finish(a)
    /\ UNCHANGED <<entry, upToDate, chunks, indexVars, queue, runs>>

-----------------------------------------------------------------------------
(***************************************************************************)
(* GET, then PUT: update_entry. The client sends the version and the       *)
(* updated_at of the page it opened.                                       *)
(***************************************************************************)

OpenEntry(a) ==
    /\ req[a].pc = "idle"
    /\ Exists
    /\ req' = [req EXCEPT ![a] = [NoRequest EXCEPT !.pc = "open",
                                                   !.base = entry.version]]
    /\ upToDate' = upToDate \cup {a}
    /\ UNCHANGED <<entry, history, chunks, indexVars, queue, runs>>

\* SELECT and the check of current_version; the handler's own copy of the
\* version equals the client's from here on
SubmitEdit(a, form, publish) ==
    /\ req[a].pc = "open"
    /\ \/ /\ entry.version # req[a].base          \* 409
          /\ Finish(a)
       \/ /\ entry.version = req[a].base
          /\ publish => entry.version < MaxVersion
          /\ req' = [req EXCEPT ![a].pc = IF publish THEN "publish_history"
                                          ELSE "save_draft",
                                ![a].form = form]
    /\ UNCHANGED storeVars

\* Mutant: a snapshot of the version being left
Mut_SnapshotVersion(a) == req[a].base

\* the version whose content is inserted: the one being created
SnapshotVersion(a) == req[a].base + 1

\* Mutant: no unique constraint
Mut_VersionTaken(a) == FALSE

\* the unique constraint on (entry_id, version)
VersionTaken(a) == history[SnapshotVersion(a)] # NoForm

\* INSERT INTO the versions, shared by publish and restore: the second writer is
\* turned away (409 from update_entry, 500 from restore_version)
PublishHistory(a) ==
    /\ req[a].pc = "publish_history"
    /\ \/ /\ VersionTaken(a)
          /\ Finish(a)
          /\ UNCHANGED history
       \/ /\ ~VersionTaken(a)
          /\ history' = [history EXCEPT ![SnapshotVersion(a)] = req[a].form]
          /\ req' = [req EXCEPT ![a].pc = "publish_entry"]
    /\ UNCHANGED <<entry, upToDate, chunks, indexVars, queue, runs>>

\* UPDATE ... WHERE id, whatever the row holds by now
PublishEntry(a) ==
    /\ req[a].pc = "publish_entry"
    /\ WriteEntry([entry EXCEPT !.status = "processing",
                                !.version = req[a].base + 1,
                                !.form = req[a].form])
    /\ GotoEnqueue(a)
    /\ UNCHANGED <<history, chunks, indexVars, queue, runs>>

Enqueue(a) ==
    /\ req[a].pc = "enqueue"
    /\ EnqueueProcess
    /\ Finish(a)
    /\ UNCHANGED <<dbVars, indexVars, runs>>

\* Mutant: no comparison of updated_at
Mut_LockHeld(a) == TRUE

\* WHERE id AND updated_at = expected_updated_at
LockHeld(a) == a \in upToDate

SaveDraft(a) ==
    /\ req[a].pc = "save_draft"
    /\ \/ /\ ~LockHeld(a)                         \* UPDATE 0: 409
          /\ UNCHANGED <<entry, upToDate>>
       \/ /\ LockHeld(a)
          /\ WriteEntry([entry EXCEPT !.status = "draft",
                                      !.version = req[a].base,
                                      !.form = req[a].form])
    /\ Finish(a)
    /\ UNCHANGED <<history, chunks, indexVars, queue, runs>>

-----------------------------------------------------------------------------
(***************************************************************************)
(* POST restore: a copy of a historic version becomes the next version     *)
(***************************************************************************)

RestoreVersion(a, v) ==
    /\ req[a].pc = "idle"
    /\ Exists
    /\ entry.status # "archived"
    /\ history[v] # NoForm
    /\ entry.version < MaxVersion
    /\ req' = [req EXCEPT ![a] = [NoRequest EXCEPT !.pc = "publish_history",
                                                   !.base = entry.version,
                                                   !.form = history[v]]]
    /\ UNCHANGED storeVars

-----------------------------------------------------------------------------
(***************************************************************************)
(* DELETE: archive_entry                                                   *)
(***************************************************************************)

ArchiveEntry(a) ==
    /\ req[a].pc = "idle"
    /\ Exists
    /\ entry.status # "archived"
    /\ req' = [req EXCEPT ![a] = [NoRequest EXCEPT !.pc = "archive_select"]]
    /\ UNCHANGED storeVars

ArchiveSelect(a) ==
    /\ req[a].pc = "archive_select"
    /\ req' = [req EXCEPT ![a].pc = "archive_index", ![a].old = CurrentRows]
    /\ UNCHANGED storeVars

ArchiveIndex(a) ==
    /\ req[a].pc = "archive_index"
    /\ \E p \in req[a].old :
          /\ RetirePoint(p)
          /\ req' = [req EXCEPT ![a].old = @ \ {p}]
    /\ UNCHANGED <<dbVars, queue, runs>>

ArchiveRows(a) ==
    /\ req[a].pc = "archive_index"
    /\ req[a].old = {}
    /\ chunks' = RowsRetired(Rows)
    /\ req' = [req EXCEPT ![a].pc = "archive_entry"]
    /\ UNCHANGED <<entry, upToDate, history, indexVars, queue, runs>>

ArchiveStatus(a) ==
    /\ req[a].pc = "archive_entry"
    /\ WriteEntry([entry EXCEPT !.status = "archived"])
    /\ Finish(a)
    /\ UNCHANGED <<history, chunks, indexVars, queue, runs>>

-----------------------------------------------------------------------------
\* a new request, or a client's next click
AdminRequest(a) ==
    \/ \E form \in Forms, publish \in BOOLEAN : CreateEntry(a, form, publish)
    \/ OpenEntry(a)
    \/ \E form \in Forms : SubmitEdit(a, form, TRUE)
    \/ "save" \in Requests /\ \E form \in Forms : SubmitEdit(a, form, FALSE)
    \/ "restore" \in Requests /\ \E v \in Versions : RestoreVersion(a, v)
    \/ "archive" \in Requests /\ ArchiveEntry(a)

\* the statements of a request that has been accepted
HandlerStep(a) ==
    \/ CreateHistory(a)
    \/ PublishHistory(a)
    \/ PublishEntry(a)
    \/ Enqueue(a)
    \/ SaveDraft(a)
    \/ ArchiveSelect(a)
    \/ ArchiveIndex(a)
    \/ ArchiveRows(a)
    \/ ArchiveStatus(a)

\* the server stops between two statements of a request, or one of them fails:
\* what was written stays
AbandonRequest(a) ==
    /\ req[a].pc \notin {"idle", "open"}
    /\ Finish(a)
    /\ UNCHANGED storeVars
=============================================================================
