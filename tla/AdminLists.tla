------------------------------- MODULE AdminLists -------------------------------
(***************************************************************************)
(* The pages of the admin console that show a list of the server and write *)
(* to it: documents, tickets, registry, configuration and review queue.    *)
(* The list on the screen is the cached answer of a query; a write is a    *)
(* request whose answer makes the cache fetch again.  Fetches, requests    *)
(* and answers are apart, so they overlap.  Local state of a page goes     *)
(* when the page is left, the state of the store and the requests do not.  *)
(*                                                                         *)
(* The rows are numbered in the order of the list, the newest first.       *)
(***************************************************************************)
EXTENDS Naturals, FiniteSets

CONSTANTS
    MaxWrites,          \* bounds: requests of the page,
    MaxEvents,          \* fetches no write causes, departures, writes of others,
    MaxDrafts           \* values typed into a cell

ASSUME ListsAssumption == MaxWrites \in Nat /\ MaxEvents \in Nat /\ MaxDrafts \in 0..2

Items == 1..3

ListPages == {"documents", "tickets", "registry", "config", "review"}

Columns == {"open", "in_progress", "resolved"}

\* "none": the server has no such row.
Values == Columns \cup {"none", "active", "failed", "draft", "approved", "pending", "v0", "v1", "v2"}

Drafts == <<"v0", "v1", "v2">>

InitialRows(p) ==
    CASE p = "documents" -> [i \in Items |-> IF i = 1 THEN "active" ELSE "none"]
      [] p = "tickets"   -> [i \in Items |-> IF i = 3 THEN "none" ELSE "open"]
      [] p = "registry"  -> [i \in Items |-> IF i = 3 THEN "none" ELSE "draft"]
      [] p = "config"    -> [i \in Items |-> IF i = 1 THEN "v0" ELSE "none"]
      [] p = "review"    -> [i \in Items |-> IF i = 1 THEN "none" ELSE "pending"]
      [] OTHER           -> [i \in Items |-> "none"]

VARIABLES
    page, mounted,
    \* The server: its rows and the number of requests it has carried out.
    server, writes,
    \* The cached list; at: the writes it has seen.
    cache, fetch, events, stale, fetchFailed,
    net, sent,
    due,                \* the writes answered while the list was on the screen
    \* The store of the console.
    selected, reviewIndex, progress, activeTicket,
    \* The state of the page.
    correction, dragged, dialog, file, modal, latest, cell,
    filtered,           \* a filter hides the row of the cell
    typed               \* values typed into the cell

queryVars == <<cache, fetch, events, stale, fetchFailed>>
serverVars == <<server, writes>>
netVars   == <<net, sent, due>>
storeVars == <<selected, reviewIndex, progress, activeTicket>>
localVars == <<correction, dragged, dialog, file, modal, latest, cell, filtered, typed>>
listVars  == <<page, mounted, serverVars, queryVars, netVars, storeVars, localVars>>

Unknown == [known |-> FALSE, rows |-> InitialRows("none"), at |-> 0]

NoFetch == [state |-> "idle", rows |-> InitialRows("none"), at |-> 0]

Asked == [NoFetch EXCEPT !.state = "asked"]

Cell == [editing |-> FALSE, focused |-> FALSE, draft |-> "v0", saving |-> FALSE, blurred |-> {}]

Modal == [open |-> FALSE, filled |-> FALSE]

\* The last call of each mutation of the page; it is pending until answered.
Calls == {"upload", "bulk", "move", "approve", "reject", "resolve", "config", "deprecate"}

NoCalls == [op \in Calls |-> 0]

ListsInit ==
    /\ mounted = TRUE
    /\ server = InitialRows(page) /\ writes = 0
    /\ cache = Unknown /\ fetch = Asked /\ events = 0 /\ stale = FALSE /\ fetchFailed = FALSE
    /\ net = {} /\ sent = 0 /\ due = 0
    /\ selected = {} /\ reviewIndex = 0 /\ progress = "none" /\ activeTicket = 0
    /\ correction = 0 /\ dragged = 0 /\ dialog = 0
    /\ file = "none" /\ modal = Modal /\ latest = NoCalls
    /\ cell = Cell /\ filtered = FALSE /\ typed = 0

-----------------------------------------------------------------------------
(* What the page shows.                                                    *)

Rows == cache.rows

On(p) == page = p /\ mounted /\ cache.known

Listed == {i \in Items : cache.known /\ Rows[i] # "none"}

\* The review page lists what is pending, in order.
Pending(rows) == {i \in Items : rows[i] = "pending"}

IsAt(i, rows, index) == Cardinality({j \in Pending(rows) : j < i}) = index

\* The item at an index; 0 when the index is past the end.
ItemAt(rows, index) ==
    IF \E i \in Pending(rows) : IsAt(i, rows, index)
    THEN CHOOSE i \in Pending(rows) : IsAt(i, rows, index) ELSE 0

Current == IF On("review") THEN ItemAt(Rows, reviewIndex) ELSE 0

\* A mutant: a correction is kept when another item comes on the screen.
Mut_Redrawn(rows, index) == correction

\* The draft of a correction goes with the item it was typed for.
Redrawn(rows, index) ==
    IF page = "review" /\ ItemAt(rows, index) # Current THEN 0 ELSE correction

Busy(op) == \E r \in net : r.op = op /\ r.id = latest[op]

-----------------------------------------------------------------------------
(* The query.                                                              *)

\* A mutant: a write does not make the list fetch again.
Mut_Invalidated == UNCHANGED <<fetch, stale>>

\* A list on the screen is fetched again, and a fetch under way is dropped
\* for it unless it is the first; another list is only marked.
Invalidated ==
    IF mounted
    THEN /\ fetch' = IF fetch.state # "idle" /\ ~cache.known THEN fetch ELSE Asked
         /\ stale' = stale
    ELSE stale' = TRUE /\ UNCHANGED fetch

\* The interval, the network coming back.
Refetch ==
    /\ mounted /\ fetch.state = "idle" /\ events < MaxEvents
    /\ fetch' = Asked /\ events' = events + 1
    /\ UNCHANGED <<page, mounted, serverVars, cache, stale, fetchFailed, netVars, storeVars, localVars>>

ServerReads ==
    /\ fetch.state = "asked"
    /\ fetch' = [state |-> "read", rows |-> server, at |-> writes]
    /\ UNCHANGED <<page, mounted, serverVars, cache, events, stale, fetchFailed,
                   netVars, storeVars, localVars>>

FetchAnswered ==
    /\ fetch.state = "read"
    /\ cache' = [known |-> TRUE, rows |-> fetch.rows, at |-> fetch.at]
    /\ fetch' = NoFetch /\ stale' = FALSE /\ fetchFailed' = FALSE
    /\ correction' = Redrawn(fetch.rows, reviewIndex)
    /\ dialog' = IF page = "registry" /\ dialog # 0 /\ fetch.rows[dialog] # "draft" THEN 0 ELSE dialog
    /\ UNCHANGED <<page, mounted, serverVars, events, netVars, storeVars,
                   dragged, file, modal, latest, cell, filtered, typed>>

\* Its retries have run out, or the answer was a refusal.
FetchFails ==
    /\ fetch.state # "idle" /\ events < MaxEvents
    /\ fetch' = NoFetch /\ events' = events + 1 /\ fetchFailed' = TRUE
    /\ UNCHANGED <<page, mounted, serverVars, cache, stale, netVars, storeVars, localVars>>

-----------------------------------------------------------------------------
(* Requests.                                                               *)

\* mount: the component that sent it is on the page, and shows it as pending.
Request(op, item, value) ==
    [op |-> op, item |-> item, value |-> value, state |-> "sent", mount |-> TRUE,
     id |-> sent + 1, at |-> 0,
     before |-> IF op = "move" THEN cache ELSE Unknown]

Send(r) ==
    /\ sent < MaxWrites
    /\ sent' = sent + 1 /\ net' = net \cup {r}
    /\ latest' = IF mounted THEN [latest EXCEPT ![r.op] = r.id] ELSE latest
    /\ UNCHANGED due

\* There is no route to deprecate a document or to reject a pattern.
Unserved == {"deprecate", "bulk", "reject"}

Effect(r) ==
    CASE r.op = "resolve" -> "resolved"
      [] r.op = "approve" -> "approved"
      [] OTHER            -> r.value

\* An upload ends with the document active or failed.
Serve(r) ==
    /\ r.state = "sent" /\ r.op \notin Unserved
    /\ \E value \in IF r.op = "upload" THEN {"active", "failed"} ELSE {Effect(r)} :
          server' = [server EXCEPT ![r.item] = value]
    /\ writes' = writes + 1
    /\ net' = (net \ {r}) \cup {[r EXCEPT !.state = "served", !.at = writes']}
    /\ UNCHANGED <<page, mounted, queryVars, sent, due, storeVars, localVars>>

\* Refused, or the request or its answer is lost.
Lose(r) ==
    /\ r.state \in {"sent", "served"}
    /\ net' = (net \ {r}) \cup {[r EXCEPT !.state = "failed"]}
    /\ UNCHANGED <<page, mounted, serverVars, queryVars, sent, due, storeVars, localVars>>

ServerStep == \E r \in net : Serve(r) \/ Lose(r)

\* The requests whose list is fetched again whatever the outcome.
OnSettled == {"bulk", "move"}

Refetches(r) == r.state = "served" \/ r.op \in OnSettled

\* What an answer does to the list: a move that failed puts back the list it
\* found, and the list is fetched again.
Settled(r) ==
    /\ net' = net \ {r} /\ UNCHANGED sent
    /\ cache' = IF r.op = "move" /\ r.state = "failed" THEN r.before ELSE cache
    /\ IF Refetches(r) THEN Invalidated ELSE UNCHANGED <<fetch, stale>>
    /\ due' = IF Refetches(r) /\ mounted /\ cache.known /\ r.at > due THEN r.at ELSE due
    /\ UNCHANGED <<page, mounted, serverVars, events, fetchFailed, latest>>

Answers(ops) == {r \in net : r.op \in ops /\ r.state \in {"served", "failed"}}

\* Everything an action of the page may leave alone.
Outside == <<page, mounted, serverVars, queryVars>>

\* What the timer of a blur saves: the draft and the value of that moment.
Captured == [draft |-> cell.draft, value |-> Rows[1], mount |-> TRUE]

\* The cell after a blur, whose timer will save what the cell holds now.
Blurred == [cell EXCEPT !.focused = FALSE, !.blurred = @ \cup {Captured}]

\* The click on something else of the page blurs a cell that has the focus.
Pressed == IF cell.focused THEN Blurred ELSE cell

\* A new cell: the timers of the old one still run.
Unmounted == [Cell EXCEPT !.blurred = {[saved EXCEPT !.mount = FALSE] : saved \in Pressed.blurred}]

-----------------------------------------------------------------------------
(* Every page.                                                             *)

\* A component that unmounts takes its state with it; a blur that follows the
\* click on another link has its timer already.
Leave ==
    /\ mounted /\ events < MaxEvents /\ events' = events + 1
    /\ mounted' = FALSE
    /\ net' = {[r EXCEPT !.mount = FALSE] : r \in net}
    /\ correction' = 0 /\ dragged' = 0 /\ dialog' = 0 /\ file' = "none" /\ modal' = Modal
    /\ latest' = NoCalls
    /\ cell' = Unmounted /\ filtered' = FALSE
    /\ UNCHANGED <<page, serverVars, cache, fetch, stale, fetchFailed, sent, due, storeVars,
                   typed>>

\* The cache is kept for five minutes; what is marked or old is fetched.
Return ==
    /\ ~mounted /\ mounted' = TRUE
    /\ \/ cache' = cache
       \/ fetch.state = "idle" /\ cache' = Unknown
    /\ \/ fetch' = IF fetch.state = "idle" THEN Asked ELSE fetch
       \/ cache'.known /\ ~stale /\ UNCHANGED fetch
    /\ UNCHANGED <<page, serverVars, events, stale, fetchFailed, netVars, storeVars, localVars>>

\* Another administrator, or an employee whose feedback makes a review item.
OtherWrites(i) ==
    /\ events < MaxEvents /\ events' = events + 1
    /\ \/ page = "tickets" /\ server[i] \in Columns /\ server' = [server EXCEPT ![i] = "resolved"]
       \/ page = "review" /\ server[i] = "pending" /\ server' = [server EXCEPT ![i] = "resolved"]
       \/ page = "review" /\ server[i] = "none" /\ server' = [server EXCEPT ![i] = "pending"]
       \/ page = "registry" /\ server[i] = "none" /\ server' = [server EXCEPT ![i] = "draft"]
    /\ UNCHANGED <<page, mounted, writes, cache, fetch, stale, fetchFailed, netVars,
                   storeVars, localVars>>

-----------------------------------------------------------------------------
(* Documents.                                                              *)

Free == dialog = 0 /\ ~modal.open

\* The checkbox of a row, or the space bar on it.
HandleSelectRow(i) ==
    /\ On("documents") /\ Free /\ i \in Listed
    /\ selected' = IF i \in selected THEN selected \ {i} ELSE selected \cup {i}
    /\ UNCHANGED <<Outside, netVars, reviewIndex, progress, activeTicket, localVars>>

AllSelected == Listed # {} /\ Listed \subseteq selected

\* The checkbox of the head, or the shortcut, which no dialog stops.
HandleSelectAll ==
    /\ On("documents")
    /\ selected' = IF AllSelected THEN {} ELSE Listed
    /\ UNCHANGED <<Outside, netVars, reviewIndex, progress, activeTicket, localVars>>

ClearDocumentSelection ==
    /\ On("documents") /\ Free /\ selected # {}
    /\ selected' = {}
    /\ UNCHANGED <<Outside, netVars, reviewIndex, progress, activeTicket, localVars>>

\* Only what is selected and active in the list is sent.
BulkDeprecate ==
    /\ On("documents") /\ Free /\ ~Busy("bulk")
    /\ \E i \in selected : Rows[i] = "active"
    /\ Send(Request("bulk", 0, "none"))
    /\ selected' = {}
    /\ UNCHANGED <<Outside, reviewIndex, progress, activeTicket, correction, dragged, dialog,
                   file, modal, cell, filtered, typed>>

\* A dialog asks before a document is deprecated or a pattern rejected.
OpenDialog(i) ==
    /\ Free
    /\ \/ On("documents") /\ i \in Listed
       \/ On("registry") /\ Rows[i] = "draft" /\ ~Busy("reject")
    /\ dialog' = i
    /\ UNCHANGED <<Outside, netVars, storeVars, correction, dragged, file, modal, latest, cell,
                   filtered, typed>>

CloseDialog ==
    /\ dialog # 0 /\ dialog' = 0
    /\ UNCHANGED <<Outside, netVars, storeVars, correction, dragged, file, modal, latest, cell,
                   filtered, typed>>

\* The dialog stays open after its action.  It is disabled while the action is
\* awaited, and a rejection is not.
HandleConfirm ==
    /\ dialog # 0
    /\ LET op == IF page = "documents" THEN "deprecate" ELSE "reject"
       IN  /\ ~\E r \in net : r.op = "deprecate" /\ r.item = dialog /\ r.mount
           /\ Send(Request(op, dialog, "none"))
    /\ UNCHANGED <<Outside, storeVars, correction, dragged, dialog, file, modal, cell,
                   filtered, typed>>

\* A file that is valid opens the form for its details, which keeps the choice
\* of a file that was not uploaded.
HandleFileReady ==
    /\ page = "documents" /\ mounted /\ Free /\ ~Busy("upload")
    /\ file' = "picked" /\ modal' = [modal EXCEPT !.open = TRUE]
    /\ UNCHANGED <<Outside, netVars, storeVars, correction, dragged, dialog, latest, cell,
                   filtered, typed>>

ChooseDetails ==
    /\ modal.open /\ ~modal.filled
    /\ modal' = [modal EXCEPT !.filled = TRUE]
    /\ UNCHANGED <<Outside, netVars, storeVars, correction, dragged, dialog, file, latest, cell,
                   filtered, typed>>

CloseModal ==
    /\ modal.open
    /\ modal' = [modal EXCEPT !.open = FALSE]
    /\ UNCHANGED <<Outside, netVars, storeVars, correction, dragged, dialog, file, latest, cell,
                   filtered, typed>>

HandleUpload ==
    /\ modal = [open |-> TRUE, filled |-> TRUE] /\ file = "picked" /\ ~Busy("upload")
    /\ Send(Request("upload", 2, "none"))
    /\ UNCHANGED <<Outside, storeVars, correction, dragged, dialog, file, modal, cell,
                   filtered, typed>>

\* The row of an upload is keyed by the name of its file.
SetUploadProgress ==
    /\ \E r \in net : r.op = "upload"
    /\ progress = "none" /\ progress' = "sending"
    /\ UNCHANGED <<Outside, netVars, selected, reviewIndex, activeTicket, localVars>>

\* The form closes only when the upload succeeded.
UploadAnswered(r) ==
    /\ Settled(r)
    /\ progress' = "none"
    /\ IF r.state = "served" /\ r.mount THEN file' = "none" /\ modal' = Modal
       ELSE UNCHANGED <<file, modal>>
    /\ UNCHANGED <<selected, reviewIndex, activeTicket, correction, dragged, dialog, cell,
                   filtered, typed>>

-----------------------------------------------------------------------------
(* Tickets.                                                                *)

HandleDragStart(i) ==
    /\ On("tickets") /\ dragged = 0 /\ activeTicket = 0 /\ i \in Listed
    /\ dragged' = i
    /\ UNCHANGED <<Outside, netVars, storeVars, correction, dialog, file, modal, latest, cell,
                   filtered, typed>>

\* The move is on the screen before it is on its way; a fetch under way is
\* dropped, and the list is kept for the case that the move fails.
Move(i, column) ==
    /\ Rows[i] # column
    /\ Send(Request("move", i, column))
    /\ cache' = [cache EXCEPT !.rows[i] = column]
    /\ fetch' = NoFetch
    /\ UNCHANGED <<page, mounted, serverVars, events, stale, fetchFailed>>

\* Dropped on a column, on a card of it, or elsewhere.
HandleDragEnd ==
    /\ dragged # 0 /\ dragged' = 0
    /\ \/ dragged \in Listed /\ \E column \in Columns : Move(dragged, column)
       \/ UNCHANGED <<Outside, netVars, latest>>
    /\ UNCHANGED <<storeVars, correction, dialog, file, modal, cell, filtered, typed>>

SetActiveTicket(i) ==
    /\ On("tickets") /\ dragged = 0
    /\ i \in (Listed \cup {0}) \ {activeTicket}
    /\ activeTicket' = i
    /\ UNCHANGED <<Outside, netVars, selected, reviewIndex, progress, localVars>>

\* The buttons of the drawer.
MoveTo(column) ==
    /\ On("tickets") /\ activeTicket \in Listed
    /\ Move(activeTicket, column)
    /\ activeTicket' = 0
    /\ UNCHANGED <<selected, reviewIndex, progress, correction, dragged, dialog, file, modal,
                   cell, filtered, typed>>

-----------------------------------------------------------------------------
(* Registry.                                                               *)

Approve(i) ==
    /\ On("registry") /\ Free /\ Rows[i] = "draft" /\ ~Busy("approve")
    /\ Send(Request("approve", i, "none"))
    /\ UNCHANGED <<Outside, storeVars, correction, dragged, dialog, file, modal, cell,
                   filtered, typed>>

-----------------------------------------------------------------------------
(* Configuration: one cell.                                                *)

CellUnchanged == <<Outside, storeVars, correction, dragged, dialog, file, modal, filtered>>

StartEdit ==
    /\ On("config") /\ ~filtered /\ ~cell.editing /\ ~cell.saving
    /\ cell' = [cell EXCEPT !.editing = TRUE, !.focused = TRUE, !.draft = Rows[1]]
    /\ UNCHANGED <<CellUnchanged, netVars, latest, typed>>

TypeDraft ==
    /\ cell.editing /\ cell.focused /\ typed < MaxDrafts
    /\ typed' = typed + 1
    /\ cell' = [cell EXCEPT !.draft = Drafts[typed' + 1]]
    /\ UNCHANGED <<CellUnchanged, netVars, latest>>

\* What was captured is saved if it differs; c is the cell otherwise.
CommitSave(c, saved) ==
    IF saved.draft = saved.value
    THEN /\ cell' = IF saved.mount THEN [c EXCEPT !.editing = FALSE, !.focused = FALSE] ELSE c
         /\ UNCHANGED <<netVars, latest>>
    ELSE /\ Send([Request("config", 1, saved.draft) EXCEPT !.mount = saved.mount])
         /\ cell' = IF saved.mount THEN [c EXCEPT !.saving = TRUE, !.focused = FALSE] ELSE c

\* A click elsewhere only takes the focus, and one on the cell gives it back.
ClickAway ==
    /\ cell.editing /\ cell.focused
    /\ cell' = Blurred
    /\ UNCHANGED <<CellUnchanged, netVars, latest, typed>>

Refocus ==
    /\ cell.editing /\ ~cell.focused /\ ~cell.saving
    /\ cell' = [cell EXCEPT !.focused = TRUE]
    /\ UNCHANGED <<CellUnchanged, netVars, latest, typed>>

\* The category or the box for stale values: the cell of a row that is hidden
\* is gone with its edit.
FilterRow ==
    /\ On("config") /\ filtered' = ~filtered
    /\ cell' = IF filtered THEN cell ELSE Unmounted
    /\ net' = {[r EXCEPT !.mount = FALSE] : r \in net}
    /\ UNCHANGED <<Outside, storeVars, correction, dragged, dialog, file, modal, sent, due,
                   latest, typed>>

PressEnter ==
    /\ cell.editing /\ cell.focused
    /\ CommitSave(cell, Captured)
    /\ UNCHANGED <<CellUnchanged, typed>>

ClickSave ==
    /\ cell.editing /\ ~cell.saving
    /\ CommitSave(Pressed, Captured)
    /\ UNCHANGED <<CellUnchanged, typed>>

\* The timer of the blur that a click on the button causes is not cleared.
CancelEdit(c) ==
    /\ cell' = [c EXCEPT !.editing = FALSE, !.focused = FALSE]
    /\ UNCHANGED <<CellUnchanged, netVars, latest, typed>>

PressEscape == cell.editing /\ cell.focused /\ CancelEdit(cell)

ClickCancel == cell.editing /\ ~cell.saving /\ CancelEdit(Pressed)

\* 150 ms after a blur, unless the cell has the focus again.
BlurTimer(saved) ==
    /\ saved \in cell.blurred
    /\ LET rest == [cell EXCEPT !.blurred = @ \ {saved}]
       IN  IF cell.focused /\ saved.mount THEN cell' = rest /\ UNCHANGED <<netVars, latest>>
           ELSE CommitSave(rest, saved)
    /\ UNCHANGED <<CellUnchanged, typed>>

\* Every answer of the cell ends its edit, also the one of another save.
SaveAnswered(r) ==
    /\ Settled(r)
    /\ cell' = IF r.mount THEN [cell EXCEPT !.editing = FALSE, !.focused = FALSE, !.saving = FALSE]
               ELSE cell
    /\ UNCHANGED <<storeVars, correction, dragged, dialog, file, modal, filtered, typed>>

-----------------------------------------------------------------------------
(* Review queue.                                                           *)

SetReviewQueueIndex(index) ==
    /\ reviewIndex' = index
    /\ correction' = Redrawn(Rows, index)
    /\ UNCHANGED <<Outside, netVars, selected, progress, activeTicket,
                   dragged, dialog, file, modal, latest, cell, filtered, typed>>

LastIndex == IF Pending(Rows) = {} THEN 0 ELSE Cardinality(Pending(Rows)) - 1

\* A mutant: past the end.
Mut_GoNext == On("review") /\ SetReviewQueueIndex(reviewIndex + 1)

GoNext == On("review") /\ SetReviewQueueIndex(IF reviewIndex < LastIndex THEN reviewIndex + 1 ELSE LastIndex)

GoPrev == On("review") /\ reviewIndex > 0 /\ SetReviewQueueIndex(reviewIndex - 1)

SelectItem(index) == On("review") /\ index < Cardinality(Pending(Rows)) /\ SetReviewQueueIndex(index)

\* Only in the browser: the item stays pending, and the index has no end.
HandleSkip ==
    On("review") /\ reviewIndex < Cardinality(Items) /\ SetReviewQueueIndex(reviewIndex + 1)

TypeCorrection ==
    /\ Current # 0 /\ correction = 0 /\ ~Busy("resolve")
    /\ correction' = Current
    /\ UNCHANGED <<Outside, netVars, storeVars, dragged, dialog, file, modal, latest, cell,
                   filtered, typed>>

\* The value of the request is the item its text was typed for.  The shortcut
\* works while an answer is being submitted, the button does not.
HandleApprove ==
    /\ Current # 0 /\ correction # 0
    /\ Send(Request("resolve", Current, correction))
    /\ UNCHANGED <<Outside, storeVars, correction, dragged, dialog, file, modal, cell,
                   filtered, typed>>

\* The next index, in the list that still holds the item answered.
ResolveAnswered(r) ==
    /\ Settled(r)
    /\ reviewIndex' = IF r.state = "served" THEN reviewIndex + 1 ELSE reviewIndex
    /\ correction' = Redrawn(Rows, reviewIndex')
    /\ UNCHANGED <<selected, progress, activeTicket, dragged, dialog, file, modal, cell,
                   filtered, typed>>

-----------------------------------------------------------------------------
(* The other answers have no more to do than the list.                     *)

PlainAnswered(r) ==
    /\ Settled(r)
    /\ UNCHANGED <<storeVars, correction, dragged, dialog, file, modal, cell, filtered, typed>>

Answered ==
    \/ \E r \in Answers({"deprecate", "bulk", "move", "approve", "reject"}) : PlainAnswered(r)
    \/ \E r \in Answers({"upload"}) : UploadAnswered(r)
    \/ \E r \in Answers({"config"}) : SaveAnswered(r)
    \/ \E r \in Answers({"resolve"}) : ResolveAnswered(r)

ListsNext ==
    \/ Refetch \/ ServerReads \/ FetchAnswered \/ FetchFails
    \/ ServerStep \/ Answered
    \/ Leave \/ Return
    \/ \E i \in Items :
          \/ OtherWrites(i) \/ HandleSelectRow(i) \/ OpenDialog(i)
          \/ HandleDragStart(i) \/ Approve(i)
    \/ \E i \in Items \cup {0} : SetActiveTicket(i)
    \/ \E column \in Columns : MoveTo(column)
    \/ HandleSelectAll \/ ClearDocumentSelection \/ BulkDeprecate
    \/ CloseDialog \/ HandleConfirm
    \/ HandleFileReady \/ ChooseDetails \/ CloseModal \/ HandleUpload \/ SetUploadProgress
    \/ HandleDragEnd
    \/ StartEdit \/ TypeDraft \/ ClickAway \/ Refocus \/ PressEnter \/ ClickSave
    \/ PressEscape \/ ClickCancel \/ FilterRow
    \/ \E saved \in cell.blurred : BlurTimer(saved)
    \/ GoNext \/ GoPrev \/ HandleSkip \/ TypeCorrection \/ HandleApprove
    \/ \E index \in 0..2 : SelectItem(index)

-----------------------------------------------------------------------------
(* What must hold.                                                         *)

ListsTypeOK ==
    /\ page \in ListPages \cup {"entries", "audit", "gaps"} /\ mounted \in BOOLEAN
    /\ server \in [Items -> Values] /\ writes \in 0..MaxWrites
    /\ cache \in [known : BOOLEAN, rows : [Items -> Values], at : 0..MaxWrites]
    /\ fetch \in [state : {"idle", "asked", "read"}, rows : [Items -> Values], at : 0..MaxWrites]
    /\ selected \subseteq Items /\ progress \in {"none", "sending"} /\ activeTicket \in Items \cup {0}
    /\ reviewIndex \in 0..(Cardinality(Items) + MaxWrites)
    /\ correction \in Items \cup {0} /\ dragged \in Items \cup {0}
    /\ dialog \in Items \cup {0} /\ filtered \in BOOLEAN /\ modal \in [open : BOOLEAN, filled : BOOLEAN]
    /\ \A r \in net : r.op \in Calls /\ r.id \in 1..sent

\* Once nothing is under way, a list shows every write that was answered while
\* it was on the screen, unless its fetch has failed: overlapping moves, a
\* move put back and a fetch dropped do not leave it behind (mutations.ts).
AnsweredWritesShown ==
    (net = {} /\ fetch.state = "idle" /\ cache.known /\ ~stale /\ ~fetchFailed) => cache.at >= due

\* The text sent for a review item was typed with that item on the screen,
\* whatever a fetch, another administrator or a shortcut did to the list in
\* between (review-queue/page.tsx).
CorrectionFitsItem == \A r \in net : r.op = "resolve" => r.value = r.item
=============================================================================
