-------------------------------- MODULE Editor --------------------------------
(***************************************************************************)
(* The Quick Entry form of one browser page: its states, the automatic     *)
(* save, the submission with its duplicate check, the drawer that watches  *)
(* the processing, and the cached copy of the entry it takes its locks     *)
(* from.  Requests and answers are apart, so they overlap and overtake one *)
(* another.  The entry on the server, its job and another administrator    *)
(* are the environment; each write of the server is one step, since its    *)
(* two locks are checked again by the statement that writes.               *)
(*                                                                         *)
(* A content is a text, all that the automatic save watches, and the       *)
(* review frequency of a configuration, which it does not watch; each is a *)
(* number, a new one for each edit.                                        *)
(***************************************************************************)
EXTENDS Naturals, FiniteSets

CONSTANTS
    MaxContents,        \* bounds: edits by anyone,
    MaxVersion,         \* versions of the entry,
    MaxStamp,           \* writes of the entry,
    MaxRequests,        \* requests of the form on their way at once,
    MaxFetches,         \* fetches that no write causes,
    OpenedStatuses      \* what an entry that is opened may be

\* The bounds leave room for the entry that is opened.
ASSUME EditorAssumption ==
    /\ MaxContents \in Nat \ {0} /\ MaxVersion \in Nat \ {0} /\ MaxStamp \in Nat \ {0}
    /\ MaxRequests \in Nat /\ MaxFetches \in Nat
    /\ OpenedStatuses \subseteq {"draft", "active", "low_quality", "archived"}

Edits == 0..MaxContents

Contents == [text : Edits, review : Edits]

Fresh(n) == [text |-> n, review |-> n]

TerminalStatuses == {"active", "archived", "low_quality", "failed", "partial_index"}

Statuses == TerminalStatuses \cup {"draft", "processing"}

\* An entry without a version does not exist.
Entry == [content : Contents, version : 0..MaxVersion, stamp : 0..MaxStamp,
          status : Statuses, by : {"form", "other"}]

NoEntry == [content |-> Fresh(0), version |-> 0, stamp |-> 0, status |-> "draft", by |-> "other"]

FormStates == {"selecting_type", "loading", "draft_editing", "duplicate_checking",
               "duplicate_found", "submitting", "processing", "processing_done", "archived"}

VARIABLES
    \* The page and its form.
    page,               \* "new", "moving" (the route is being replaced) or "entry"
    mount,              \* which component instance is on the page
    formState, form, currentVersion,
    dirty,              \* isDirtyRef of the automatic save
    captured,           \* what the submission under its duplicate check will send
    drawer,             \* the processing drawer is open
    noted,              \* the status its effect has run with, "" for none
    \* The cache of the entry.
    cached, fetch, fetches,
    \* The network, the server and who has seen what.
    net, entry, last,
    kept,               \* contents the form has been loaded with or told are stored
    told                \* versions it has been loaded with or told of

formVars   == <<formState, form, currentVersion, dirty, captured>>
pageVars   == <<page, mount>>
drawerVars == <<drawer, noted>>
historyVars == <<kept, told>>
cacheVars  == <<cached, fetch, fetches>>
serverVars == <<entry, last>>
vars == <<pageVars, formVars, drawerVars, cacheVars, net, serverVars, historyVars>>

\* A mutant: the lock of the cached entry, which the form need not show.
Mut_Request(kind, published) ==
    [kind |-> kind, mount |-> mount, state |-> "sent",
     op |-> IF page = "new" THEN "create" ELSE "update",
     publish |-> published, content |-> form, version |-> cached.version, stamp |-> cached.stamp]

Request(kind, published) ==
    [kind |-> kind, mount |-> mount, state |-> "sent",
     op |-> IF page = "new" THEN "create" ELSE "update",
     publish |-> published, content |-> form, version |-> currentVersion,
     stamp |-> cached.stamp]        \* 0: there is none to send

NoRequest == [kind |-> "none"]

FetchStates == {"idle", "asked"}

\* The form of a mount starts empty, unless the entry is in the cache already.
InitialState(data) ==
    IF data.version = 0 THEN "loading"
    ELSE IF data.status = "archived" THEN "archived" ELSE "draft_editing"

Init ==
    /\ mount = 1 /\ captured = NoRequest /\ drawer = FALSE /\ noted = ""
    /\ cached = NoEntry /\ fetches = 0 /\ net = {} /\ dirty = FALSE /\ form = Fresh(0)
    /\ currentVersion = 1
    /\ last = 1 /\ kept = {Fresh(0)} /\ told = {}
    /\ \/ /\ page = "new" /\ formState = "selecting_type"
          /\ entry = NoEntry /\ fetch = "idle"
       \/ /\ page = "entry" /\ formState = "loading"
          /\ \E status \in OpenedStatuses :
                entry = [content |-> Fresh(1), version |-> 1, stamp |-> 1,
                         status |-> status, by |-> "other"]
          /\ fetch = "asked"

\* A mutant: an archived entry can be edited.
Mut_Editable == formState \notin {"selecting_type", "loading"}

Editable == formState \notin {"selecting_type", "loading", "archived"}

-----------------------------------------------------------------------------
(* The form.                                                               *)

SelectType ==
    /\ formState = "selecting_type"
    /\ formState' = "draft_editing"
    /\ UNCHANGED <<form, currentVersion, dirty, captured, pageVars, drawerVars, cacheVars,
                   net, serverVars, historyVars>>

Type(content) ==
    /\ last < MaxContents
    /\ last' = last + 1 /\ form' = content
    /\ UNCHANGED <<formState, currentVersion, captured, pageVars, drawerVars, cacheVars,
                   net, entry, kept, told>>

\* Any change of what the automatic save watches makes the form dirty.
TypeText == Type([form EXCEPT !.text = last + 1]) /\ dirty' = TRUE

Edit == Editable /\ TypeText

\* The review frequency is sent with the form, and is not among the dependencies of the
\* automatic save.
SetReviewFrequency ==
    Editable /\ Type([form EXCEPT !.review = last + 1]) /\ UNCHANGED dirty

\* A suggested identifier replaces the one in the field, whatever was typed
\* while it was awaited.
HandleSuggestId == page = "new" /\ Editable /\ TypeText

Learn(data) == kept' = kept \cup {data.content} /\ told' = told \cup {data.version}

\* The first fetch to land while the form is loading fills it.  The effect
\* that watches for changes has run with the empty form before.
Seed ==
    /\ formState = "loading" /\ cached.version > 0
    /\ formState' = InitialState(cached)
    /\ form' = cached.content /\ currentVersion' = cached.version
    /\ dirty' = TRUE
    /\ Learn(cached)
    /\ UNCHANGED <<captured, pageVars, drawerVars, cacheVars, net, serverVars>>

\* The route of the entry replaces the one of the new form: the component is
\* another, and what was typed since the request left is gone.
Navigate ==
    /\ page = "moving"
    /\ page' = "entry" /\ mount' = mount + 1
    /\ formState' = InitialState(cached)
    /\ form' = cached.content /\ currentVersion' = IF cached.version = 0 THEN 1 ELSE cached.version
    /\ Learn(cached)
    /\ dirty' = FALSE /\ captured' = NoRequest
    /\ drawer' = FALSE /\ noted' = ""
    /\ UNCHANGED <<cacheVars, net, serverVars>>

-----------------------------------------------------------------------------
(* Requests leave.                                                         *)

Send(r) == Cardinality(net) < MaxRequests /\ net' = net \cup {r}

\* A tick of the timer that finds the form dirty.
AutoSave ==
    /\ formState = "draft_editing" /\ dirty
    /\ Request("autosave", FALSE) \notin net
    /\ dirty' = FALSE
    /\ Send(Request("autosave", FALSE))
    /\ UNCHANGED <<formState, form, currentVersion, captured, pageVars, drawerVars, cacheVars,
                   serverVars, historyVars>>

\* The button is off while a submission is under way or the entry processes.
HandleSubmitClick ==
    /\ formState \in {"draft_editing", "processing_done"}
    /\ captured = NoRequest
    /\ formState' = "duplicate_checking"
    /\ captured' = Request("submit", TRUE)
    /\ UNCHANGED <<form, currentVersion, dirty, pageVars, drawerVars, cacheVars, net,
                   serverVars, historyVars>>

SubmitEntry(r) ==
    /\ formState' = "submitting"
    /\ captured' = NoRequest
    /\ Send(r)
    /\ UNCHANGED <<form, currentVersion, dirty, pageVars, drawerVars, cacheVars, serverVars,
                   kept, told>>

\* What is sent then was put together when the button was clicked.
NoDuplicate == captured # NoRequest /\ SubmitEntry(captured)

DuplicateFound ==
    /\ captured # NoRequest
    /\ formState' \in {"duplicate_found", "draft_editing"}
    /\ captured' = NoRequest
    /\ UNCHANGED <<form, currentVersion, dirty, pageVars, drawerVars, cacheVars, net,
                   serverVars, historyVars>>

SubmitAnyway == formState = "duplicate_found" /\ SubmitEntry(Request("submit", TRUE))

CancelDuplicate ==
    /\ formState = "duplicate_found"
    /\ formState' = "draft_editing"
    /\ UNCHANGED <<form, currentVersion, dirty, captured, pageVars, drawerVars, cacheVars, net,
                   serverVars, historyVars>>

\* The "Save draft" button of a stored draft submits too, with no check.
SaveDraft ==
    /\ page # "new" /\ cached.status = "draft" /\ cached.version > 0
    /\ Editable /\ formState \notin {"submitting", "duplicate_checking"}
    /\ SubmitEntry(Request("submit", TRUE))

-----------------------------------------------------------------------------
(* The server.                                                             *)

Store(content, version, status, by) ==
    entry' = [content |-> content, version |-> version, stamp |-> entry.stamp + 1,
              status |-> status, by |-> by]

Accepts(r) ==
    IF r.op = "create" THEN entry.version = 0
    ELSE r.version = entry.version /\ (r.publish \/ r.stamp = entry.stamp)

\* A refused update by a lock, and by the form's validation; the latter, like a
\* failure of the network, may meet any request.
Refusal(r) == IF r.op = "update" /\ r.version # entry.version THEN "conflict" ELSE "refused"

Answer(r, state, version) ==
    net' = (net \ {r}) \cup {[r EXCEPT !.state = state, !.version = version]}

\* The answer of a request that was served may still be lost.
Serve(r) ==
    /\ r.state = "sent" /\ Accepts(r)
    /\ entry.stamp < MaxStamp /\ (r.publish => entry.version < MaxVersion)
    /\ Store(r.content, entry.version + (IF r.publish \/ r.op = "create" THEN 1 ELSE 0),
             IF r.publish THEN "processing" ELSE "draft", "form")
    /\ \E state \in {"stored", "refused"} :
          Answer(r, state, entry'.version)
    /\ UNCHANGED <<pageVars, formVars, drawerVars, cacheVars, last, historyVars>>

Refuse(r) ==
    /\ r.state = "sent"
    /\ \/ ~Accepts(r) /\ Answer(r, Refusal(r), r.version)
       \/ Answer(r, "refused", r.version)
    /\ UNCHANGED <<pageVars, formVars, drawerVars, cacheVars, serverVars, historyVars>>

-----------------------------------------------------------------------------
(* Answers.  Those to a component that is gone only touch the cache.       *)

\* An update that was stored makes the cached entry out of date.
Refetch(r) == fetch' = IF r.state = "stored" THEN "asked" ELSE fetch

Arrives(r, kind) == r.kind = kind /\ r.state # "sent" /\ net' = net \ {r}

\* The first save of a new entry replaces the route by the entry's.
Moves(r) == page' = IF r.state = "stored" /\ r.op = "create" THEN "moving" ELSE page

TakeVersion(r) ==
    currentVersion' = IF r.state = "stored" /\ r.op = "update" THEN r.version ELSE currentVersion

Keep(r) == IF r.state = "stored" THEN Learn(r) ELSE UNCHANGED <<kept, told>>

\* A mutant: a save that failed is not tried again.
Mut_AutoSaved(r) ==
    /\ r.mount = mount /\ Arrives(r, "autosave")
    /\ Refetch(r) /\ Moves(r) /\ TakeVersion(r) /\ Keep(r)
    /\ UNCHANGED <<mount, formState, form, dirty, captured, drawerVars, cached, fetches, serverVars>>

AutoSaved(r) ==
    /\ r.mount = mount /\ Arrives(r, "autosave")
    /\ Refetch(r) /\ Moves(r) /\ TakeVersion(r) /\ Keep(r)
    /\ dirty' = (dirty \/ r.state # "stored")
    /\ UNCHANGED <<mount, formState, form, captured, drawerVars, cached, fetches, serverVars>>

\* A mutant: the form does not return from a refusal.
Mut_Submitted(r) ==
    /\ r.mount = mount /\ Arrives(r, "submit")
    /\ Refetch(r) /\ Moves(r) /\ TakeVersion(r) /\ Keep(r)
    /\ formState' = IF r.state = "stored" THEN "processing" ELSE formState
    /\ drawer' = (drawer \/ r.state = "stored")
    /\ noted' = IF drawer THEN noted ELSE ""
    /\ UNCHANGED <<mount, form, dirty, captured, cached, fetches, serverVars>>

\* A conflict is told from any other refusal by the current entry in the body;
\* the body holds it one level deeper than it is looked for.
Submitted(r) ==
    /\ r.mount = mount /\ Arrives(r, "submit")
    /\ Refetch(r) /\ Moves(r) /\ TakeVersion(r) /\ Keep(r)
    /\ formState' = IF r.state = "stored" THEN "processing" ELSE "draft_editing"
    /\ drawer' = (drawer \/ r.state = "stored")
    /\ noted' = IF drawer THEN noted ELSE ""
    /\ UNCHANGED <<mount, form, dirty, captured, cached, fetches, serverVars>>

AnswerTooLate(r) ==
    /\ r.mount # mount /\ r.state # "sent"
    /\ net' = net \ {r}
    /\ Refetch(r) /\ Keep(r)
    /\ UNCHANGED <<pageVars, formVars, drawerVars, cached, fetches, serverVars>>

-----------------------------------------------------------------------------
(* The cached entry and the drawer.                                        *)

HasId == page # "new"

\* The network is back, or a screenshot changed; the drawer polls while the
\* entry processes.
Polls == drawer /\ cached.status \notin TerminalStatuses

Fetch ==
    /\ HasId /\ fetch = "idle"
    /\ \/ Polls /\ UNCHANGED fetches
       \/ ~Polls /\ fetches < MaxFetches /\ fetches' = fetches + 1
    /\ fetch' = "asked"
    /\ UNCHANGED <<pageVars, formVars, drawerVars, cached, net, serverVars, historyVars>>

FetchAnswered ==
    /\ fetch = "asked" /\ entry.version > 0
    /\ fetch' = "idle"
    /\ cached' \in (IF cached.version > 0 THEN {entry, cached} ELSE {entry})
    /\ UNCHANGED <<pageVars, formVars, drawerVars, fetches, net, serverVars, historyVars>>

\* The drawer reports the end of the processing, once per status it is shown.
ProcessingComplete ==
    /\ drawer /\ cached.version > 0 /\ noted # cached.status
    /\ noted' = cached.status
    /\ formState' = IF cached.status \in TerminalStatuses THEN "processing_done" ELSE formState
    /\ UNCHANGED <<form, currentVersion, dirty, captured, pageVars, drawer, cacheVars, net,
                   serverVars, historyVars>>

CloseDrawer ==
    /\ drawer
    /\ drawer' = FALSE /\ noted' = ""
    /\ UNCHANGED <<pageVars, formVars, cacheVars, net, serverVars, historyVars>>

ViewProcessing ==
    /\ formState = "processing" /\ ~drawer
    /\ drawer' = TRUE
    /\ UNCHANGED <<noted, pageVars, formVars, cacheVars, net, serverVars, historyVars>>

-----------------------------------------------------------------------------
(* Others.                                                                 *)

JobEnds ==
    /\ entry.status = "processing" /\ entry.stamp < MaxStamp
    /\ \E status \in {"active", "failed"} :
          entry' = [entry EXCEPT !.status = status, !.stamp = @ + 1]
    /\ UNCHANGED <<pageVars, formVars, drawerVars, cacheVars, net, last, historyVars>>

OtherSaves ==
    /\ entry.version > 0 /\ entry.status # "archived"
    /\ last < MaxContents /\ entry.stamp < MaxStamp
    /\ last' = last + 1
    /\ \/ Store(Fresh(last'), entry.version, "draft", "other")
       \/ entry.version < MaxVersion /\ Store(Fresh(last'), entry.version + 1, "processing", "other")
    /\ UNCHANGED <<pageVars, formVars, drawerVars, cacheVars, net, historyVars>>

Next ==
    \/ SelectType \/ Edit \/ SetReviewFrequency \/ HandleSuggestId \/ Seed \/ Navigate
    \/ AutoSave \/ HandleSubmitClick \/ NoDuplicate \/ DuplicateFound \/ SubmitAnyway
    \/ CancelDuplicate \/ SaveDraft
    \/ \E r \in net : Serve(r) \/ Refuse(r) \/ AutoSaved(r) \/ Submitted(r) \/ AnswerTooLate(r)
    \/ Fetch \/ FetchAnswered \/ ProcessingComplete \/ CloseDrawer \/ ViewProcessing
    \/ JobEnds \/ OtherSaves

\* Requests are answered or fail; the check for duplicates too.
Fairness ==
    /\ WF_vars(NoDuplicate \/ DuplicateFound)
    /\ WF_vars(\E r \in net : Serve(r) \/ Refuse(r))
    /\ WF_vars(\E r \in net : AutoSaved(r) \/ Submitted(r) \/ AnswerTooLate(r))

Spec == Init /\ [][Next]_vars /\ Fairness
-----------------------------------------------------------------------------
(* Properties.                                                             *)

\* Every variable has its type; a form without an entry has no lock to send, and
\* the form of an archived entry shows what was loaded.
EditorTypeOK ==
    /\ page \in {"new", "moving", "entry"} /\ mount \in 1..2
    /\ formState \in FormStates /\ form \in Contents /\ currentVersion \in 1..MaxVersion
    /\ dirty \in BOOLEAN /\ drawer \in BOOLEAN /\ noted \in Statuses \cup {""}
    /\ cached \in Entry /\ entry \in Entry /\ fetch \in FetchStates
    /\ page = "new" => cached = NoEntry /\ formState \notin {"loading", "archived"}
    /\ formState = "archived" => form \in kept

\* What the automatic save watches is never lost silently while the form is being edited:
\* in a form that is not dirty and awaits nothing it is what the server once stored,
\* whatever saves, failures, conflicts and reloads came in between.
UnsavedIsDirty ==
    formState = "draft_editing" /\ ~dirty /\ (\A r \in net : r.mount # mount)
        => \E c \in kept : c.text = form.text

\* A submission replaces no version of the entry that another administrator
\* published without the form having been loaded with it.
PublishesReplaceKnown ==
    [][entry'.by = "form" /\ entry'.version > entry.version /\ entry.by = "other"
       /\ entry.version > 0 => entry.version \in told]_vars

\* A submission and its check for duplicates come to an end.
SubmissionEnds ==
    formState \in {"duplicate_checking", "submitting"}
        ~> formState \notin {"duplicate_checking", "submitting"}
===============================================================================
