----------------------------- MODULE EditorProofs -----------------------------
(***************************************************************************)
(* The promises of the Quick Entry form, for any number of contents,       *)
(* versions, writes and requests: what the automatic save watches stays    *)
(* dirty, on its way or stored, and a submission replaces no version that  *)
(* the form was not shown.  Both rest on the requests: which mount sent    *)
(* them, with which lock, and what the server has answered.                *)
(***************************************************************************)
EXTENDS Editor, TLAPS

\* every request, on its way or waiting for the duplicate check
Requests == [kind : {"autosave", "submit"}, mount : 1..2,
             state : {"sent", "stored", "refused", "conflict"},
             op : {"create", "update"}, publish : BOOLEAN,
             content : Contents, version : 1..MaxVersion, stamp : 0..MaxStamp]

Awaited == net \cup ({captured} \ {NoRequest})

\* the types, those of the variables that EditorTypeOK leaves out among them
Typed ==
    /\ page \in {"new", "moving", "entry"} /\ mount \in 1..2
    /\ formState \in FormStates /\ form \in Contents /\ currentVersion \in 1..MaxVersion
    /\ noted \in Statuses \cup {""}
    /\ cached \in Entry /\ entry \in Entry /\ fetch \in FetchStates
    /\ last \in Edits
    /\ Awaited \subseteq Requests

Flags == dirty \in BOOLEAN /\ drawer \in BOOLEAN

\* the form of a new entry has no lock and no cached entry until the route is
\* replaced, which happens once
NewForm ==
    /\ page = "new" => /\ cached = NoEntry /\ fetch = "idle" /\ currentVersion = 1
                       /\ formState \notin {"loading", "archived"}
    /\ page \in {"new", "moving"} => mount = 1

\* a form that still loads has sent nothing and shows no processing
LoadingForm ==
    formState = "loading" =>
        /\ ~drawer /\ captured = NoRequest
        /\ \A r \in net : r.mount # mount

\* a form that has an entry and is not loading was told the version it holds
VersionTold == page # "new" /\ formState # "loading" => currentVersion \in told

\* a create leaves from the new form and yields the first version; an update
\* that leaves carries a version the form was told
RequestFits(r) ==
    /\ r.mount <= mount
    /\ page = "new" => r.op = "create"
    /\ r.op = "create" /\ page = "entry" => r.mount < mount
    /\ r.op = "create" /\ r.state = "stored" => r.version = 1
    /\ r.op = "update" /\ r.state = "sent" => r.version \in told

RequestsFit == \A r \in Awaited : RequestFits(r)

CapturedHere == captured # NoRequest => captured.mount = mount /\ captured.kind = "submit"

\* the server once stored what the automatic save watches of the form
Stored == \E c \in kept : c.text = form.text

\* what it watches of a form that is not dirty is stored, or an automatic save holds it
SavedOrSaving ==
    \/ dirty \/ Stored
    \/ \E r \in net : r.mount = mount /\ r.kind = "autosave" /\ r.content.text = form.text

ArchivedKept == formState = "archived" => form \in kept

\* the inductive invariant
EditorInv == /\ Typed /\ Flags /\ NewForm /\ LoadingForm /\ VersionTold /\ RequestsFit
             /\ CapturedHere /\ SavedOrSaving /\ ArchivedKept

-----------------------------------------------------------------------------
\* RequestTyped: what the form sends has its type and names the mount, the
\* content and the version of the form.
LEMMA RequestTyped ==
    ASSUME Typed, NEW kind \in {"autosave", "submit"}, NEW published \in BOOLEAN
    PROVE  /\ Request(kind, published) \in Requests
           /\ Request(kind, published) # NoRequest
           /\ Request(kind, published).kind = kind
           /\ Request(kind, published).mount = mount
           /\ Request(kind, published).state = "sent"
           /\ Request(kind, published).op = IF page = "new" THEN "create" ELSE "update"
           /\ Request(kind, published).content = form
           /\ Request(kind, published).version = currentVersion
<1>1. cached.stamp \in 0..MaxStamp
  BY DEF Typed, Entry
<1> QED
  BY <1>1 DEF Request, Requests, NoRequest, Typed

\* AnswerTyped: an answer is the request with another state and version.
LEMMA AnswerTyped ==
    ASSUME NEW r \in Requests, NEW state \in {"stored", "refused", "conflict"},
           NEW version \in 1..MaxVersion
    PROVE  LET q == [r EXCEPT !.state = state, !.version = version]
           IN  /\ q \in Requests
               /\ q.state = state /\ q.version = version
               /\ q.kind = r.kind /\ q.mount = r.mount
               /\ q.op = r.op /\ q.content = r.content
BY DEF Requests

\* FitsStays: a request keeps fitting while its mount stays on the page.
LEMMA FitsStays ==
    ASSUME NEW r, RequestFits(r), told \subseteq told', mount' = mount,
           page' = page \/ (page = "new" /\ page' = "moving")
    PROVE  RequestFits(r)'
BY DEF RequestFits

\* SentFits: what the form sends fits.
LEMMA SentFits ==
    ASSUME EditorInv, NEW kind \in {"autosave", "submit"}, NEW published \in BOOLEAN,
           formState # "loading"
    PROVE  RequestFits(Request(kind, published))
<1>t. Typed /\ NewForm /\ VersionTold
  BY DEF EditorInv
<1>0. mount \in Nat
  <2>1. mount \in 1..2
    BY <1>t, Zenon DEF Typed
  <2> QED
    BY <2>1
<1>1. ASSUME page # "new" PROVE currentVersion \in told
  BY <1>t, <1>1 DEF VersionTold
<1>2. page = "new" \/ page # "new"
  OBVIOUS
<1> DEFINE q == Request(kind, published)
<1>3. /\ q.mount = mount /\ q.state = "sent" /\ q.version = currentVersion
      /\ q.op = IF page = "new" THEN "create" ELSE "update"
  BY <1>t, RequestTyped
<1> HIDE DEF q
<1>4. RequestFits(q)
  BY <1>0, <1>1, <1>2, <1>3 DEF RequestFits
<1> QED
  BY <1>4 DEF q

-----------------------------------------------------------------------------
(* The invariant, one group of conjuncts at a time.                        *)

\* InitInv: it holds at first.
LEMMA InitInv == Init => EditorInv
<1> SUFFICES ASSUME Init PROVE EditorInv
  OBVIOUS
<1> USE EditorAssumption
<1>1. Typed
  <2>1. Awaited = {}
    BY DEF Init, Awaited
  <2>0. Fresh(0) \in Contents /\ Fresh(1) \in Contents
    BY DEF Fresh, Contents, Edits
  <2>2. NoEntry \in Entry
    BY <2>0 DEF NoEntry, Entry, Statuses
  <2>3. ASSUME NEW status \in OpenedStatuses
        PROVE  [content |-> Fresh(1), version |-> 1, stamp |-> 1, status |-> status, by |-> "other"] \in Entry
    BY <2>0, <2>3 DEF Entry, Statuses, TerminalStatuses
  <2>4. entry \in Entry
    BY <2>2, <2>3 DEF Init
  <2>5. cached \in Entry
    BY <2>2 DEF Init
  <2>5a. mount \in 1..2
    <3>1. mount = 1
      BY DEF Init
    <3> QED
      BY <3>1
  <2>6. /\ page \in {"new", "moving", "entry"}
        /\ formState \in FormStates /\ fetch \in FetchStates
        /\ noted \in Statuses \cup {""}
    BY DEF Init, FormStates, FetchStates
  <2>7. form \in Contents /\ last \in Edits /\ currentVersion \in 1..MaxVersion
    <3>1. form = Fresh(0) /\ last = 1 /\ currentVersion = 1
      BY DEF Init
    <3> QED
      BY <2>0, <3>1 DEF Edits
  <2> QED
    BY <2>1, <2>4, <2>5, <2>5a, <2>6, <2>7 DEF Typed
<1> QED
  BY <1>1 DEF Init, EditorInv, Flags, NewForm, LoadingForm, VersionTold, RequestsFit,
     Awaited, CapturedHere, SavedOrSaving, ArchivedKept, Stored
\* Known grows, and the page moves on: what every action but Navigate keeps.
Settled == /\ kept \subseteq kept' /\ told \subseteq told' /\ mount' = mount
           /\ page' = page \/ (page = "new" /\ page' = "moving")

\* PlaceMoves: every action but Navigate stays on the page or leaves the new form.
LEMMA PlaceMoves == EditorInv /\ Next => Settled \/ Navigate
<1> SUFFICES ASSUME EditorInv, Next, ~Navigate PROVE Settled
  OBVIOUS
<1>1. CASE \E r \in net : AutoSaved(r) \/ Submitted(r) \/ AnswerTooLate(r)
  <2>1. PICK r \in net : AutoSaved(r) \/ Submitted(r) \/ AnswerTooLate(r)
    BY <1>1
  <2>2. kept \subseteq kept' /\ told \subseteq told'
    BY <2>1 DEF AutoSaved, Submitted, AnswerTooLate, Keep, Learn
  <2>3. mount' = mount
    BY <2>1 DEF AutoSaved, Submitted, AnswerTooLate, pageVars
  <2>4. page' # page => r.op = "create" /\ r.mount = mount /\ page' = "moving"
    BY <2>1 DEF AutoSaved, Submitted, AnswerTooLate, Moves, pageVars
  <2>5. RequestFits(r) /\ mount \in 1..2 /\ page \in {"new", "moving", "entry"}
    BY DEF EditorInv, Typed, RequestsFit, Awaited
  <2>6. r.op = "create" /\ r.mount = mount => page # "entry"
    BY <2>5 DEF RequestFits
  <2> QED
    BY <2>2, <2>3, <2>4, <2>5, <2>6 DEF Settled
<1>2. CASE Seed
  BY <1>2 DEF Seed, Learn, Settled, pageVars
<1>3. CASE \E r \in net : Serve(r) \/ Refuse(r)
  BY <1>3 DEF Serve, Refuse, Settled, historyVars, pageVars
<1>4. CASE SelectType \/ Edit \/ SetReviewFrequency \/ HandleSuggestId \/ AutoSave \/ HandleSubmitClick
           \/ NoDuplicate \/ DuplicateFound \/ SubmitAnyway \/ CancelDuplicate \/ SaveDraft
  BY <1>4 DEF SelectType, Edit, SetReviewFrequency, HandleSuggestId, Type, TypeText, AutoSave,
     HandleSubmitClick, NoDuplicate, DuplicateFound, SubmitAnyway, CancelDuplicate, SaveDraft,
     SubmitEntry, Settled, historyVars, pageVars
<1>5. CASE Fetch \/ FetchAnswered \/ ProcessingComplete \/ CloseDrawer \/ ViewProcessing
           \/ JobEnds \/ OtherSaves
  BY <1>5 DEF Fetch, FetchAnswered, ProcessingComplete, CloseDrawer, ViewProcessing, JobEnds,
     OtherSaves, Settled, historyVars, pageVars
<1> QED
  BY <1>1, <1>2, <1>3, <1>4, <1>5 DEF Next

\* Sent(r): a request that the form puts together in this step.
Sent(r) == \E kind \in {"autosave", "submit"}, published \in BOOLEAN :
               r = Request(kind, published) /\ formState # "loading"

\* Answered(r): the answer to a request, given in this step.
Answered(r) == \E q \in net, state \in {"stored", "refused", "conflict"}, version \in 1..MaxVersion :
                   /\ q.state = "sent"
                   /\ r = [q EXCEPT !.state = state, !.version = version]
                   /\ q.op = "create" /\ state = "stored" => version = 1

\* ServerAnswers: an answer has the version that the write produced, or none.
LEMMA ServerAnswers ==
    ASSUME EditorInv, NEW q \in net, Serve(q) \/ Refuse(q), NEW r \in net', r \notin net
    PROVE  Answered(r)
<1>t. q \in Requests /\ entry \in Entry
  BY DEF EditorInv, Typed, Awaited
<1>r. q.version \in 1..MaxVersion /\ q.op \in {"create", "update"}
  BY <1>t DEF Requests
<1>1. CASE Serve(q)
  <2>1. q.state = "sent" /\ Accepts(q)
    BY <1>1 DEF Serve
  <2>2. entry'.version = entry.version + (IF q.publish \/ q.op = "create" THEN 1 ELSE 0)
    BY <1>1 DEF Serve, Store
  <2>3. entry.version \in 0..MaxVersion
    BY <1>t DEF Entry
  <2>4. q.publish => entry.version < MaxVersion
    BY <1>1 DEF Serve
  <2>5. q.op = "create" => entry.version = 0
    BY <2>1 DEF Accepts
  <2>6. q.op = "update" => q.version = entry.version
    BY <2>1 DEF Accepts
  <2>7. entry'.version \in 1..MaxVersion /\ (q.op = "create" => entry'.version = 1)
    <3>1. CASE q.op = "create"
      BY <3>1, <2>2, <2>5, EditorAssumption
    <3>2. CASE q.op = "update" /\ q.publish
      BY <3>2, <2>2, <2>3, <2>4, EditorAssumption
    <3>3. CASE q.op = "update" /\ ~q.publish
      BY <3>3, <2>2, <2>3, <2>6, <1>r, EditorAssumption
    <3> QED
      BY <3>1, <3>2, <3>3, <1>r
  <2>8. \E state \in {"stored", "refused"} :
           net' = (net \ {q}) \cup {[q EXCEPT !.state = state, !.version = entry'.version]}
    BY <1>1 DEF Serve, Answer
  <2> QED
    BY <2>1, <2>7, <2>8 DEF Answered
<1>2. CASE Refuse(q)
  <2>1. q.state = "sent"
    BY <1>2 DEF Refuse
  <2>2. \E state \in {"refused", "conflict"} :
           net' = (net \ {q}) \cup {[q EXCEPT !.state = state, !.version = q.version]}
    BY <1>2 DEF Refuse, Answer, Refusal
  <2> QED
    BY <2>1, <2>2, <1>r DEF Answered
<1> QED
  BY <1>1, <1>2

\* RequestsMove: a request that was not there before leaves in this step, or is
\* the answer to one that was.
LEMMA RequestsMove ==
    ASSUME EditorInv, Next, NEW r \in Awaited', r \notin Awaited
    PROVE  Sent(r) \/ Answered(r)
<1>l. LoadingForm
  BY DEF EditorInv
<1>a. r \in net' \/ (r = captured' /\ captured' # NoRequest)
  BY DEF Awaited
<1>n. r \notin net /\ (captured # NoRequest => r # captured)
  BY DEF Awaited
<1>1. CASE \E q \in net : Serve(q) \/ Refuse(q)
  <2>1. captured' = captured
    BY <1>1 DEF Serve, Refuse, formVars
  <2> QED
    BY <1>1, <1>a, <1>n, <2>1, ServerAnswers
<1>2. CASE \E q \in net : AutoSaved(q) \/ Submitted(q) \/ AnswerTooLate(q)
  <2>1. net' \subseteq net /\ captured' = captured
    BY <1>2 DEF AutoSaved, Submitted, AnswerTooLate, Arrives, formVars
  <2> QED
    BY <2>1, <1>a, <1>n
<1>3. CASE AutoSave \/ HandleSubmitClick \/ NoDuplicate \/ SubmitAnyway \/ SaveDraft
  <2>1. CASE NoDuplicate
    BY <2>1, <1>a, <1>n DEF NoDuplicate, SubmitEntry, Send
  <2>2. CASE AutoSave
    <3>1. r = Request("autosave", FALSE) /\ formState # "loading"
      BY <2>2, <1>a, <1>n DEF AutoSave, Send
    <3> QED
      BY <3>1 DEF Sent
  <2>3. CASE HandleSubmitClick \/ SubmitAnyway \/ SaveDraft
    <3>1. r = Request("submit", TRUE) /\ formState # "loading"
      BY <2>3, <1>a, <1>n DEF HandleSubmitClick, SubmitAnyway, SaveDraft, SubmitEntry, Send,
         Editable
    <3> QED
      BY <3>1 DEF Sent
  <2> QED
    BY <1>3, <2>1, <2>2, <2>3
<1>4. CASE SelectType \/ Edit \/ SetReviewFrequency \/ HandleSuggestId \/ Seed \/ Navigate \/ DuplicateFound
           \/ CancelDuplicate
  BY <1>4, <1>a, <1>n DEF SelectType, Edit, SetReviewFrequency, HandleSuggestId, Type, TypeText,
     Seed, Navigate, DuplicateFound, CancelDuplicate
<1>5. CASE Fetch \/ FetchAnswered \/ ProcessingComplete \/ CloseDrawer \/ ViewProcessing
           \/ JobEnds \/ OtherSaves
  BY <1>5, <1>a, <1>n DEF Fetch, FetchAnswered, ProcessingComplete, CloseDrawer, ViewProcessing,
     JobEnds, OtherSaves, formVars
<1> QED
  BY <1>1, <1>2, <1>3, <1>4, <1>5 DEF Next
-----------------------------------------------------------------------------
\* StepRequests: the requests keep their type and fit.
LEMMA StepRequests == EditorInv /\ Next => Awaited' \subseteq Requests /\ RequestsFit'
<1> SUFFICES ASSUME EditorInv, Next, NEW r \in Awaited'
             PROVE  r \in Requests /\ RequestFits(r)'
  BY DEF RequestsFit
<1>t. Typed /\ NewForm /\ RequestsFit /\ Awaited \subseteq Requests
  BY DEF EditorInv, Typed
<1>1. r \in Requests
  <2>1. CASE r \in Awaited
    BY <1>t, <2>1
  <2>2. CASE Sent(r)
    BY <1>t, <2>2, RequestTyped DEF Sent
  <2>3. CASE Answered(r)
    <3>1. PICK q \in net, state \in {"stored", "refused", "conflict"}, version \in 1..MaxVersion :
              r = [q EXCEPT !.state = state, !.version = version]
      BY <2>3 DEF Answered
    <3>2. q \in Requests
      BY <1>t DEF Awaited
    <3> QED
      BY <3>1, <3>2, AnswerTyped
  <2> QED
    BY <2>1, <2>2, <2>3, RequestsMove
<1>2. RequestFits(r) \/ Answered(r)
  <2>1. CASE r \in Awaited
    BY <1>t, <2>1 DEF RequestsFit
  <2>2. CASE Sent(r)
    BY <2>2, SentFits DEF Sent
  <2> QED
    BY <2>1, <2>2, RequestsMove
<1>3. RequestFits(r)
  <2>1. SUFFICES ASSUME NEW q \in net, NEW state \in {"stored", "refused", "conflict"},
                        NEW version \in 1..MaxVersion,
                        r = [q EXCEPT !.state = state, !.version = version],
                        q.op = "create" /\ state = "stored" => version = 1
                 PROVE  RequestFits(r)
    BY <1>2 DEF Answered
  <2>2. q \in Requests /\ RequestFits(q)
    BY <1>t DEF RequestsFit, Awaited
  <2>3. /\ r.state = state /\ r.version = version /\ r.mount = q.mount /\ r.op = q.op
    BY <2>1, <2>2 DEF Requests
  <2>4. state # "sent" /\ (q.op = "create" /\ state = "stored" => version = 1)
    BY <2>1
  <2> QED
    BY <2>2, <2>3, <2>4 DEF RequestFits
<1>4. CASE Settled
  <2>1. /\ told \subseteq told' /\ mount' = mount
        /\ page' = page \/ (page = "new" /\ page' = "moving")
    BY <1>4 DEF Settled
  <2> QED
    BY <1>1, <1>3, <2>1, FitsStays
<1>5. CASE Navigate
  <2>1. page = "moving" /\ page' = "entry" /\ mount' = mount + 1
    BY <1>5 DEF Navigate
  <2>2. mount = 1
    BY <2>1, <1>t DEF NewForm
  <2>3. told \subseteq told'
    BY <1>5 DEF Navigate, Learn
  <2>4. r.mount \in Nat /\ r.mount <= mount
    <3>1. r.mount \in 1..2
      BY <1>1 DEF Requests
    <3>2. r.mount <= mount
      BY <1>3 DEF RequestFits
    <3> QED
      BY <3>1, <3>2
  <2>5. r.mount <= mount' /\ r.mount < mount'
    BY <2>1, <2>2, <2>4
  <2>6. /\ r.op = "create" /\ r.state = "stored" => r.version = 1
        /\ r.op = "update" /\ r.state = "sent" => r.version \in told'
    BY <1>3, <2>3 DEF RequestFits
  <2> QED
    BY <1>1, <2>1, <2>5, <2>6 DEF RequestFits
<1> QED
  BY <1>4, <1>5, PlaceMoves

\* StepEntry: the entry and its cached copy keep their type.
LEMMA StepEntry == EditorInv /\ Next => entry' \in Entry /\ cached' \in Entry
<1> SUFFICES ASSUME EditorInv, Next PROVE entry' \in Entry /\ cached' \in Entry
  OBVIOUS
<1>t. entry \in Entry /\ cached \in Entry /\ last \in Edits /\ net \subseteq Requests
  BY DEF EditorInv, Typed, Awaited
<1>1. cached' \in {entry, cached}
  BY DEF Next, SelectType, Edit, SetReviewFrequency, HandleSuggestId, Type, TypeText, Seed,
     Navigate, AutoSave, HandleSubmitClick, NoDuplicate, DuplicateFound, SubmitAnyway,
     CancelDuplicate, SaveDraft, SubmitEntry, Serve, Refuse, AutoSaved, Submitted, AnswerTooLate,
     Fetch, FetchAnswered, ProcessingComplete, CloseDrawer, ViewProcessing, JobEnds, OtherSaves,
     drawerVars, cacheVars
<1>n. /\ entry.stamp \in 0..MaxStamp /\ entry.version \in 0..MaxVersion
      /\ (entry.stamp < MaxStamp => entry.stamp + 1 \in 0..MaxStamp)
      /\ (entry.version < MaxVersion => entry.version + 1 \in 0..MaxVersion)
  <2>1. entry.stamp \in 0..MaxStamp /\ entry.version \in 0..MaxVersion
    BY <1>t DEF Entry
  <2> QED
    BY <2>1, EditorAssumption
<1>s. "draft" \in Statuses /\ "processing" \in Statuses
      /\ "active" \in Statuses /\ "failed" \in Statuses
  BY DEF Statuses, TerminalStatuses
<1>2. CASE \E r \in net : Serve(r)
  <2>1. PICK r \in net : Serve(r)
    BY <1>2
  <2>2. r.content \in Contents /\ r.op \in {"create", "update"}
    BY <1>t DEF Requests
  <2>3. entry.version + (IF r.publish \/ r.op = "create" THEN 1 ELSE 0) \in 0..MaxVersion
    <3>1. r.publish => entry.version < MaxVersion
      BY <2>1 DEF Serve
    <3>2. r.op = "create" => entry.version = 0
      BY <2>1 DEF Serve, Accepts
    <3>3. CASE r.publish \/ r.op = "create"
      BY <3>1, <3>2, <3>3, <1>n, EditorAssumption
    <3>4. CASE ~(r.publish \/ r.op = "create")
      BY <3>4, <1>n
    <3> QED
      BY <3>3, <3>4
  <2>4. entry.stamp + 1 \in 0..MaxStamp
    BY <2>1, <1>n DEF Serve
  <2>5. (IF r.publish THEN "processing" ELSE "draft") \in Statuses
    BY <1>s
  <2> QED
    BY <2>1, <2>2, <2>3, <2>4, <2>5, <1>1, <1>t DEF Serve, Store, Entry
<1>3. CASE JobEnds
  <2>1. PICK status \in {"active", "failed"} :
            entry' = [entry EXCEPT !.status = status, !.stamp = @ + 1]
    BY <1>3 DEF JobEnds
  <2>2. status \in Statuses /\ entry.stamp + 1 \in 0..MaxStamp
    BY <1>3, <1>n, <1>s DEF JobEnds
  <2> QED
    BY <2>1, <2>2, <1>1, <1>t DEF Entry
<1>4. CASE OtherSaves
  <2>1. Fresh(last + 1) \in Contents /\ last' = last + 1
    <3>1. last + 1 \in Edits /\ last' = last + 1
      BY <1>4, <1>t, EditorAssumption DEF OtherSaves, Edits
    <3> QED
      BY <3>1 DEF Fresh, Contents
  <2> QED
    BY <2>1, <1>4, <1>1, <1>n, <1>s, <1>t DEF OtherSaves, Store, Entry
<1>5. CASE entry' = entry
  BY <1>5, <1>1, <1>t
<1>6. entry' = entry \/ (\E r \in net : Serve(r)) \/ JobEnds \/ OtherSaves
  BY DEF Next, SelectType, Edit, SetReviewFrequency, HandleSuggestId, Type, TypeText, Seed,
     Navigate, AutoSave, HandleSubmitClick, NoDuplicate, DuplicateFound, SubmitAnyway,
     CancelDuplicate, SaveDraft, SubmitEntry, Refuse, AutoSaved, Submitted, AnswerTooLate, Fetch,
     FetchAnswered, ProcessingComplete, CloseDrawer, ViewProcessing, serverVars
<1> QED
  BY <1>2, <1>3, <1>4, <1>5, <1>6
\* NetTyped: what is on its way has its type and fits.
LEMMA NetTyped ==
    ASSUME EditorInv, NEW r \in net
    PROVE  /\ r \in Requests /\ RequestFits(r)
           /\ r.version \in 1..MaxVersion /\ r.mount \in 1..2
           /\ r.kind \in {"autosave", "submit"}
<1>1. r \in Requests /\ RequestFits(r)
  BY DEF EditorInv, Typed, RequestsFit, Awaited
<1> QED
  BY <1>1 DEF Requests

\* StepForm: the form keeps its types.
LEMMA StepForm ==
    EditorInv /\ Next =>
        /\ page' \in {"new", "moving", "entry"} /\ mount' \in 1..2
        /\ formState' \in FormStates /\ form' \in Contents /\ last' \in Edits
        /\ currentVersion' \in 1..MaxVersion
        /\ noted' \in Statuses \cup {""} /\ fetch' \in FetchStates
<1> SUFFICES ASSUME EditorInv, Next
             PROVE  /\ page' \in {"new", "moving", "entry"} /\ mount' \in 1..2
                    /\ formState' \in FormStates /\ form' \in Contents /\ last' \in Edits
                    /\ currentVersion' \in 1..MaxVersion
                    /\ noted' \in Statuses \cup {""} /\ fetch' \in FetchStates
  OBVIOUS
<1>t. Typed /\ NewForm
  BY DEF EditorInv
<1>c. /\ cached.version \in 0..MaxVersion /\ cached.content \in Contents
      /\ cached.status \in Statuses
  BY <1>t DEF Typed, Entry
<1>1. page' \in {"new", "moving", "entry"} /\ mount' \in 1..2
  <2>1. CASE Settled
    BY <2>1, <1>t DEF Settled, Typed
  <2>2. CASE Navigate
    <3>1. mount = 1 /\ mount' = mount + 1 /\ page' = "entry"
      BY <2>2, <1>t DEF Navigate, NewForm
    <3> QED
      BY <3>1
  <2> QED
    BY <2>1, <2>2, PlaceMoves
<1>2. formState' \in FormStates
  BY <1>t DEF Typed, FormStates, InitialState, Next, SelectType, Edit, SetReviewFrequency,
     HandleSuggestId, Type, TypeText, Seed, Navigate, AutoSave, HandleSubmitClick, NoDuplicate,
     DuplicateFound, SubmitAnyway, CancelDuplicate, SaveDraft, SubmitEntry, Serve, Refuse,
     AutoSaved, Submitted, AnswerTooLate, Fetch, FetchAnswered, ProcessingComplete, CloseDrawer,
     ViewProcessing, JobEnds, OtherSaves, formVars
<1>3. form' \in Contents /\ last' \in Edits
  <2>1. CASE /\ last' = last + 1 /\ last < MaxContents
             /\ form' \in {form, [form EXCEPT !.text = last + 1], [form EXCEPT !.review = last + 1]}
    <3>1. last + 1 \in Edits
      <4>1. last \in Edits
        BY <1>t DEF Typed
      <4> QED
        BY <4>1, <2>1, EditorAssumption DEF Edits
    <3>2. form \in Contents
      BY <1>t DEF Typed
    <3>3. [form EXCEPT !.text = last + 1] \in Contents /\ [form EXCEPT !.review = last + 1] \in Contents
      BY <3>1, <3>2 DEF Contents
    <3> QED
      BY <2>1, <3>1, <3>2, <3>3
  <2>2. CASE last' = last /\ form' \in {form, cached.content}
    BY <2>2, <1>t, <1>c DEF Typed
  <2>3. CASE Edit \/ SetReviewFrequency \/ HandleSuggestId \/ OtherSaves
    BY <2>1, <2>3 DEF Edit, SetReviewFrequency, HandleSuggestId, Type, TypeText, OtherSaves,
       formVars
  <2>4. CASE ~(Edit \/ SetReviewFrequency \/ HandleSuggestId \/ OtherSaves)
    BY <2>2, <2>4 DEF Next, SelectType, Seed, Navigate, AutoSave, HandleSubmitClick, NoDuplicate,
       DuplicateFound, SubmitAnyway, CancelDuplicate, SaveDraft, SubmitEntry, Serve, Refuse,
       AutoSaved, Submitted, AnswerTooLate, Fetch, FetchAnswered, ProcessingComplete, CloseDrawer,
       ViewProcessing, JobEnds, formVars, serverVars
  <2> QED
    BY <2>3, <2>4
<1>4. currentVersion' \in 1..MaxVersion
  <2>1. \/ currentVersion' \in {currentVersion, 1}
        \/ cached.version # 0 /\ currentVersion' = cached.version
        \/ \E r \in net : currentVersion' = r.version
    <3>1. CASE \E r \in net : AutoSaved(r) \/ Submitted(r) \/ AnswerTooLate(r)
      BY <3>1 DEF AutoSaved, Submitted, AnswerTooLate, TakeVersion, formVars
    <3>2. CASE Seed
      <4>1. cached.version # 0
        BY <3>2, <1>c DEF Seed
      <4> QED
        BY <3>2, <4>1 DEF Seed
    <3>3. CASE ~(Seed \/ \E r \in net : AutoSaved(r) \/ Submitted(r) \/ AnswerTooLate(r))
      BY <3>3 DEF Next, SelectType, Edit, SetReviewFrequency, HandleSuggestId, Type, TypeText,
         Navigate, AutoSave, HandleSubmitClick, NoDuplicate, DuplicateFound, SubmitAnyway,
         CancelDuplicate, SaveDraft, SubmitEntry, Serve, Refuse, Fetch, FetchAnswered,
         ProcessingComplete, CloseDrawer, ViewProcessing, JobEnds, OtherSaves, formVars
    <3> QED
      BY <3>1, <3>2, <3>3
  <2>2. currentVersion \in 1..MaxVersion /\ 1 \in 1..MaxVersion
    <3>1. currentVersion \in 1..MaxVersion
      BY <1>t, Zenon DEF Typed
    <3> QED
      BY <3>1, EditorAssumption
  <2>3. cached.version # 0 => cached.version \in 1..MaxVersion
    BY <1>c, EditorAssumption
  <2> QED
    BY <2>1, <2>2, <2>3, NetTyped
<1>5. noted' \in Statuses \cup {""}
  BY <1>t, <1>c DEF Typed, Next, SelectType, Edit, SetReviewFrequency, HandleSuggestId, Type,
     TypeText, Seed, Navigate, AutoSave, HandleSubmitClick, NoDuplicate, DuplicateFound,
     SubmitAnyway, CancelDuplicate, SaveDraft, SubmitEntry, Serve, Refuse, AutoSaved, Submitted,
     AnswerTooLate, Fetch, FetchAnswered, ProcessingComplete, CloseDrawer, ViewProcessing,
     JobEnds, OtherSaves, drawerVars
<1>6. fetch' \in FetchStates
  BY <1>t DEF Typed, FetchStates, Next, SelectType, Edit, SetReviewFrequency, HandleSuggestId,
     Type, TypeText, Seed, Navigate, AutoSave, HandleSubmitClick, NoDuplicate, DuplicateFound,
     SubmitAnyway, CancelDuplicate, SaveDraft, SubmitEntry, Serve, Refuse, AutoSaved, Submitted,
     AnswerTooLate, Refetch, Fetch, FetchAnswered, ProcessingComplete, CloseDrawer,
     ViewProcessing, JobEnds, OtherSaves, cacheVars
<1> QED
  BY <1>1, <1>2, <1>3, <1>4, <1>5, <1>6

\* StepFlags: the flags stay Booleans.
LEMMA StepFlags == EditorInv /\ Next => Flags'
<1> SUFFICES ASSUME EditorInv, Next PROVE Flags'
  OBVIOUS
<1>1. Flags
  BY DEF EditorInv
<1>2. dirty' \in BOOLEAN
  BY <1>1, Zenon DEF Flags, Next, SelectType, Edit, SetReviewFrequency, HandleSuggestId, Type,
     TypeText, Seed, Navigate, AutoSave, HandleSubmitClick, NoDuplicate, DuplicateFound,
     SubmitAnyway, CancelDuplicate, SaveDraft, SubmitEntry, Serve, Refuse, AutoSaved, Submitted,
     AnswerTooLate, Fetch, FetchAnswered, ProcessingComplete, CloseDrawer, ViewProcessing,
     JobEnds, OtherSaves, formVars
<1>3. drawer' \in BOOLEAN
  BY <1>1, Zenon DEF Flags, Next, SelectType, Edit, SetReviewFrequency, HandleSuggestId, Type,
     TypeText, Seed, Navigate, AutoSave, HandleSubmitClick, NoDuplicate, DuplicateFound,
     SubmitAnyway, CancelDuplicate, SaveDraft, SubmitEntry, Serve, Refuse, AutoSaved, Submitted,
     AnswerTooLate, Fetch, FetchAnswered, ProcessingComplete, CloseDrawer, ViewProcessing,
     JobEnds, OtherSaves, drawerVars
<1> QED
  BY <1>2, <1>3 DEF Flags
\* StepPlace: a new form stays apart from the entry until the route is replaced.
LEMMA StepPlace == EditorInv /\ Next => NewForm'
<1> SUFFICES ASSUME EditorInv, Next PROVE NewForm'
  OBVIOUS
<1>t. NewForm /\ page \in {"new", "moving", "entry"}
  BY DEF EditorInv, Typed
<1>1. page' \in {"new", "moving"} => mount' = 1
  <2>1. CASE Settled
    BY <2>1, <1>t DEF Settled, NewForm
  <2>2. CASE Navigate
    BY <2>2 DEF Navigate
  <2> QED
    BY <2>1, <2>2, PlaceMoves
<1>2. ASSUME page' = "new"
      PROVE  /\ cached' = NoEntry /\ fetch' = "idle" /\ currentVersion' = 1
             /\ formState' \notin {"loading", "archived"}
  <2>1. page = "new" /\ Settled
    <3>1. CASE Settled
      BY <3>1, <1>2 DEF Settled
    <3>2. CASE Navigate
      BY <3>2, <1>2 DEF Navigate
    <3> QED
      BY <3>1, <3>2, PlaceMoves
  <2>2. /\ cached = NoEntry /\ cached.version = 0 /\ fetch = "idle" /\ currentVersion = 1
        /\ formState \notin {"loading", "archived"} /\ mount = 1
    BY <2>1, <1>t DEF NewForm, NoEntry
  <2>3. ASSUME NEW r \in net, AutoSaved(r) \/ Submitted(r) \/ AnswerTooLate(r)
        PROVE  /\ r.state # "stored"
               /\ cached' = cached /\ fetch' = fetch /\ currentVersion' = currentVersion
               /\ formState' \in {formState, "draft_editing"}
    <3>1. r.op = "create"
      BY <2>1, NetTyped DEF RequestFits
    <3>2. r.mount = 1
      <4>1. r.mount \in 1..2 /\ r.mount <= mount
        BY NetTyped DEF RequestFits
      <4> QED
        BY <4>1, <2>2
    <3>3. ~AnswerTooLate(r)
      BY <3>2, <2>2 DEF AnswerTooLate
    <3>4. r.state # "stored"
      BY <3>1, <3>3, <2>3, <1>2, <2>1 DEF AutoSaved, Submitted, Moves
    <3> QED
      BY <3>3, <3>4, <2>3 DEF AutoSaved, Submitted, Refetch, TakeVersion
  <2>4. CASE \E r \in net : AutoSaved(r) \/ Submitted(r) \/ AnswerTooLate(r)
    BY <2>4, <2>3, <2>2
  <2>5. CASE Fetch \/ FetchAnswered \/ ProcessingComplete \/ Seed \/ Navigate \/ SaveDraft
    <3>1. ~(cached.version > 0)
      BY <2>2
    <3> QED
      BY <2>5, <2>1, <2>2, <3>1, Zenon DEF Fetch, HasId, FetchAnswered, ProcessingComplete, Seed,
         Navigate, SaveDraft
  <2>6. CASE SelectType \/ Edit \/ SetReviewFrequency \/ HandleSuggestId \/ AutoSave \/ HandleSubmitClick
             \/ NoDuplicate \/ DuplicateFound \/ SubmitAnyway \/ CancelDuplicate
    BY <2>6, <2>2 DEF SelectType, Edit, SetReviewFrequency, HandleSuggestId, Type, TypeText,
       AutoSave, HandleSubmitClick, NoDuplicate, DuplicateFound, SubmitAnyway, CancelDuplicate,
       SubmitEntry, cacheVars
  <2>7. CASE (\E r \in net : Serve(r) \/ Refuse(r)) \/ CloseDrawer \/ ViewProcessing
             \/ JobEnds \/ OtherSaves
    BY <2>7, <2>2 DEF Serve, Refuse, CloseDrawer, ViewProcessing, JobEnds, OtherSaves,
       cacheVars, formVars
  <2> QED
    BY <2>4, <2>5, <2>6, <2>7 DEF Next
<1> QED
  BY <1>1, <1>2 DEF NewForm

\* StepLoading: a form that loads has sent nothing yet, in the step that mounts
\* it too.
LEMMA StepLoading == EditorInv /\ Next => LoadingForm'
<1> SUFFICES ASSUME EditorInv, Next, formState' = "loading"
             PROVE  /\ ~drawer' /\ captured' = NoRequest
                    /\ \A r \in net' : r.mount # mount'
  BY DEF LoadingForm
<1>t. LoadingForm /\ NewForm
  BY DEF EditorInv
<1>1. CASE Navigate
  <2>1. mount = 1 /\ mount' = mount + 1 /\ net' = net /\ drawer' = FALSE /\ captured' = NoRequest
    BY <1>1, <1>t DEF Navigate, NewForm
  <2>2. ASSUME NEW r \in net PROVE r.mount # mount'
    <3>1. r.mount \in 1..2 /\ r.mount <= mount
      BY NetTyped DEF RequestFits
    <3> QED
      BY <3>1, <2>1
  <2> QED
    BY <2>1, <2>2
<1>2. CASE ~Navigate
  <2>1. formState = "loading"
    BY <1>2 DEF Next, SelectType, Edit, SetReviewFrequency, HandleSuggestId, Type, TypeText, Seed,
       InitialState, AutoSave, HandleSubmitClick, NoDuplicate, DuplicateFound, SubmitAnyway,
       CancelDuplicate, SaveDraft, SubmitEntry, Serve, Refuse, AutoSaved, Submitted,
       AnswerTooLate, Fetch, FetchAnswered, ProcessingComplete, CloseDrawer, ViewProcessing,
       JobEnds, OtherSaves, formVars
  <2>2. ~drawer /\ captured = NoRequest /\ \A r \in net : r.mount # mount
    BY <2>1, <1>t DEF LoadingForm
  <2>3. mount' = mount
    BY <1>2, PlaceMoves DEF Settled
  <2>4. ~(\E r \in net : AutoSaved(r) \/ Submitted(r))
    BY <2>2 DEF AutoSaved, Submitted
  <2>5. ~drawer'
    BY <1>2, <2>1, <2>2, <2>4, Zenon DEF Next, SelectType, Edit, SetReviewFrequency,
       HandleSuggestId, Type, TypeText, Seed, AutoSave, HandleSubmitClick, NoDuplicate,
       DuplicateFound, SubmitAnyway, CancelDuplicate, SaveDraft, SubmitEntry, Serve, Refuse,
       AnswerTooLate, Fetch, FetchAnswered, ProcessingComplete, CloseDrawer, ViewProcessing,
       JobEnds, OtherSaves, drawerVars
  <2>6. ASSUME NEW r \in Awaited', r \notin Awaited
        PROVE  \E q \in net : r.mount = q.mount
    <3>1. Answered(r)
      BY <2>6, <2>1, RequestsMove DEF Sent
    <3>2. PICK q \in net, state \in {"stored", "refused", "conflict"}, version \in 1..MaxVersion :
              r = [q EXCEPT !.state = state, !.version = version]
      BY <3>1 DEF Answered
    <3> QED
      BY <3>2, NetTyped DEF Requests
  <2>7. \A r \in Awaited' : r.mount # mount
    BY <2>2, <2>6 DEF Awaited
  <2>8. captured' = NoRequest
    BY <1>2, <2>1, <2>2 DEF Next, SelectType, Edit, SetReviewFrequency, HandleSuggestId, Type,
       TypeText, Seed, AutoSave, HandleSubmitClick, NoDuplicate, DuplicateFound, SubmitAnyway,
       CancelDuplicate, SaveDraft, SubmitEntry, Editable, Serve, Refuse, AutoSaved, Submitted,
       AnswerTooLate, Fetch, FetchAnswered, ProcessingComplete, CloseDrawer, ViewProcessing,
       JobEnds, OtherSaves, formVars
  <2> QED
    BY <2>3, <2>5, <2>7, <2>8 DEF Awaited
<1> QED
  BY <1>1, <1>2
\* StepTold: the version a form holds is one it was told, however it came by it.
LEMMA StepTold == EditorInv /\ Next => VersionTold'
<1> SUFFICES ASSUME EditorInv, Next, page' # "new", formState' # "loading"
             PROVE  currentVersion' \in told'
  BY DEF VersionTold
<1>t. VersionTold /\ NewForm /\ LoadingForm
  BY DEF EditorInv
<1>1. CASE Seed
  BY <1>1 DEF Seed, Learn
<1>2. CASE Navigate
  <2>1. cached.version # 0
    BY <1>2 DEF Navigate, InitialState
  <2> QED
    BY <2>1, <1>2 DEF Navigate, Learn
<1>3. CASE \E r \in net : AutoSaved(r) \/ Submitted(r)
  <2>1. PICK r \in net : AutoSaved(r) \/ Submitted(r)
    BY <1>3
  <2>2. Keep(r) /\ TakeVersion(r) /\ Moves(r) /\ r.mount = mount
    BY <2>1 DEF AutoSaved, Submitted
  <2>3. formState # "loading"
    BY <2>2, <1>t DEF LoadingForm
  <2>4. told \subseteq told' /\ (r.state = "stored" => r.version \in told')
    BY <2>2 DEF Keep, Learn
  <2>5. CASE page # "new"
    BY <2>2, <2>3, <2>4, <2>5, <1>t DEF TakeVersion, VersionTold
  <2>6. CASE page = "new"
    <3>1. r.state = "stored" /\ r.op = "create"
      BY <2>2, <2>6 DEF Moves
    <3>2. r.version = 1
      BY <3>1, NetTyped DEF RequestFits
    <3>3. currentVersion' = 1
      BY <3>1, <2>2, <2>6, <1>t DEF TakeVersion, NewForm
    <3> QED
      BY <3>1, <3>2, <3>3, <2>4
  <2> QED
    BY <2>5, <2>6
<1>4. CASE ~(Seed \/ Navigate \/ \E r \in net : AutoSaved(r) \/ Submitted(r))
  <2>1. page' = page /\ currentVersion' = currentVersion /\ told \subseteq told'
    <3>1. told \subseteq told'
      BY <1>4, PlaceMoves DEF Settled
    <3> QED
      BY <1>4, <3>1 DEF Next, SelectType, Edit, SetReviewFrequency, HandleSuggestId, Type,
         TypeText, AutoSave, HandleSubmitClick, NoDuplicate, DuplicateFound, SubmitAnyway,
         CancelDuplicate, SaveDraft, SubmitEntry, Serve, Refuse, AnswerTooLate, Fetch,
         FetchAnswered, ProcessingComplete, CloseDrawer, ViewProcessing, JobEnds, OtherSaves,
         formVars, pageVars
  <2>2. formState # "loading"
    <3>1. ASSUME formState = "loading" PROVE formState' = "loading"
      <4>1. ~drawer /\ captured = NoRequest
        BY <3>1, <1>t DEF LoadingForm
      <4> QED
        BY <1>4, <3>1, <4>1, Zenon DEF Next, SelectType, Edit, SetReviewFrequency,
           HandleSuggestId, Type, TypeText, AutoSave, HandleSubmitClick, NoDuplicate,
           DuplicateFound, SubmitAnyway, CancelDuplicate, SaveDraft, SubmitEntry, Editable, Serve,
           Refuse, AnswerTooLate, Fetch, FetchAnswered, ProcessingComplete, CloseDrawer,
           ViewProcessing, JobEnds, OtherSaves, formVars
    <3> QED
      BY <3>1
  <2> QED
    BY <2>1, <2>2, <1>t DEF VersionTold
<1> QED
  BY <1>1, <1>2, <1>3, <1>4

\* StepCaptured: the submission under its check is one of this mount.
LEMMA StepCaptured == EditorInv /\ Next => CapturedHere'
<1> SUFFICES ASSUME EditorInv, Next, captured' # NoRequest
             PROVE  captured'.mount = mount' /\ captured'.kind = "submit"
  BY DEF CapturedHere
<1>1. mount' = mount
  <2>1. ~Navigate
    BY DEF Navigate
  <2> QED
    BY <2>1, PlaceMoves DEF Settled
<1>2. CASE HandleSubmitClick
  BY <1>1, <1>2, RequestTyped DEF HandleSubmitClick, EditorInv
<1>3. CASE ~HandleSubmitClick
  <2>1. captured' = captured
    BY <1>3 DEF Next, SelectType, Edit, SetReviewFrequency, HandleSuggestId, Type, TypeText, Seed,
       Navigate, AutoSave, NoDuplicate, DuplicateFound, SubmitAnyway, CancelDuplicate, SaveDraft,
       SubmitEntry, Serve, Refuse, AutoSaved, Submitted, AnswerTooLate, Fetch, FetchAnswered,
       ProcessingComplete, CloseDrawer, ViewProcessing, JobEnds, OtherSaves, formVars
  <2> QED
    BY <1>1, <2>1 DEF EditorInv, CapturedHere
<1> QED
  BY <1>2, <1>3

\* ServedStays: a request that is served or refused stays on its way, answered.
LEMMA ServedStays ==
    ASSUME EditorInv, NEW q \in net, Serve(q) \/ Refuse(q), NEW r \in net
    PROVE  \E s \in net' : s.mount = r.mount /\ s.kind = r.kind /\ s.content = r.content
<1>0. \E state, version : net' = (net \ {q}) \cup {[q EXCEPT !.state = state, !.version = version]}
  BY DEF Serve, Refuse, Answer, Refusal
<1>1. PICK state, version : net' = (net \ {q}) \cup {[q EXCEPT !.state = state, !.version = version]}
  BY <1>0
<1>2. CASE r # q
  BY <1>1, <1>2
<1>3. CASE r = q
  <2>1. DEFINE s == [q EXCEPT !.state = state, !.version = version]
  <2>2. s \in net' /\ s.mount = q.mount /\ s.kind = q.kind /\ s.content = q.content
    BY <1>1, NetTyped DEF Requests
  <2> QED
    BY <2>2, <1>3
<1> QED
  BY <1>2, <1>3

\* StepSaved: an automatic save is over when its content is stored, or when the
\* form is dirty again.
LEMMA StepSaved == EditorInv /\ Next => SavedOrSaving'
<1> SUFFICES ASSUME EditorInv, Next PROVE SavedOrSaving'
  OBVIOUS
<1>t. SavedOrSaving /\ CapturedHere /\ Typed
  BY DEF EditorInv
<1>1. CASE Edit \/ HandleSuggestId \/ Seed
  BY <1>1, Zenon DEF Edit, HandleSuggestId, TypeText, Seed, SavedOrSaving
<1>8. CASE SetReviewFrequency
  <2>1. form'.text = form.text
    <3>1. form \in Contents /\ form' = [form EXCEPT !.review = last + 1]
      BY <1>8, <1>t DEF SetReviewFrequency, Type, Typed
    <3> QED
      BY <3>1 DEF Contents
  <2>2. mount' = mount /\ dirty' = dirty /\ kept' = kept /\ net' = net
    BY <1>8 DEF SetReviewFrequency, Type, pageVars
  <2> QED
    BY <2>1, <2>2, <1>t DEF SavedOrSaving, Stored
<1>2. CASE Navigate
  BY <1>2 DEF Navigate, Learn, SavedOrSaving, Stored
<1>3. CASE AutoSave
  <2>1. Request("autosave", FALSE) \in net' /\ form' = form
    BY <1>3 DEF AutoSave, Send
  <2>2. mount' = mount
    BY <1>3 DEF AutoSave, pageVars
  <2> QED
    BY <2>1, <2>2, <1>t, RequestTyped DEF SavedOrSaving
<1>4. CASE \E r \in net : AutoSaved(r)
  <2>1. PICK r \in net : AutoSaved(r)
    BY <1>4
  <2>2. /\ net' = net \ {r} /\ form' = form /\ mount' = mount /\ Keep(r)
        /\ dirty' = (dirty \/ r.state # "stored")
    BY <2>1 DEF AutoSaved, Arrives
  <2>3. kept \subseteq kept'
    BY <2>2 DEF Keep, Learn
  <2>4. CASE dirty \/ Stored \/ r.state # "stored"
    BY <2>4, <2>2, <2>3, Zenon DEF SavedOrSaving, Stored
  <2>5. CASE ~dirty /\ ~Stored /\ r.state = "stored"
    <3>1. PICK q \in net : q.mount = mount /\ q.kind = "autosave" /\ q.content.text = form.text
      BY <2>5, <1>t DEF SavedOrSaving
    <3>2. CASE q = r
      <4>1. r.content \in kept'
        BY <2>2, <2>5 DEF Keep, Learn
      <4> QED
        BY <4>1, <2>2, <3>1, <3>2 DEF SavedOrSaving, Stored
    <3>3. CASE q # r
      BY <3>1, <3>3, <2>2 DEF SavedOrSaving
    <3> QED
      BY <3>2, <3>3
  <2> QED
    BY <2>4, <2>5
<1>5. CASE \E r \in net : Submitted(r) \/ AnswerTooLate(r)
  <2>1. PICK r \in net : Submitted(r) \/ AnswerTooLate(r)
    BY <1>5
  <2>2. /\ net' = net \ {r} /\ form' = form /\ mount' = mount /\ dirty' = dirty
        /\ r.kind = "submit" \/ r.mount # mount
    BY <2>1 DEF Submitted, AnswerTooLate, Arrives, formVars, pageVars
  <2>3. kept \subseteq kept'
    BY <2>1 DEF Submitted, AnswerTooLate, Keep, Learn
  <2> QED
    BY <2>2, <2>3, <1>t DEF SavedOrSaving, Stored
<1>6. CASE \E q \in net : Serve(q) \/ Refuse(q)
  <2>1. form' = form /\ mount' = mount /\ dirty' = dirty /\ kept' = kept
    BY <1>6 DEF Serve, Refuse, formVars, pageVars, historyVars
  <2> QED
    BY <2>1, <1>6, <1>t, ServedStays DEF SavedOrSaving, Stored
<1>7. CASE SelectType \/ HandleSubmitClick \/ NoDuplicate \/ DuplicateFound \/ SubmitAnyway
           \/ CancelDuplicate \/ SaveDraft \/ Fetch \/ FetchAnswered \/ ProcessingComplete
           \/ CloseDrawer \/ ViewProcessing \/ JobEnds \/ OtherSaves
  <2>1. form' = form /\ mount' = mount /\ dirty' = dirty /\ kept' = kept
    BY <1>7 DEF SelectType, HandleSubmitClick, NoDuplicate, DuplicateFound, SubmitAnyway,
       CancelDuplicate, SaveDraft, SubmitEntry, Fetch, FetchAnswered, ProcessingComplete,
       CloseDrawer, ViewProcessing, JobEnds, OtherSaves, formVars, pageVars, historyVars
  <2>2. net \subseteq net'
    BY <1>7 DEF SelectType, HandleSubmitClick, NoDuplicate, DuplicateFound, SubmitAnyway,
       CancelDuplicate, SaveDraft, SubmitEntry, Send, Fetch, FetchAnswered, ProcessingComplete,
       CloseDrawer, ViewProcessing, JobEnds, OtherSaves
  <2> QED
    BY <2>1, <2>2, <1>t DEF SavedOrSaving, Stored
<1> QED
  BY <1>1, <1>2, <1>3, <1>4, <1>5, <1>6, <1>7, <1>8 DEF Next

\* StepArchived: an archived form is never edited.
LEMMA StepArchived == EditorInv /\ Next => ArchivedKept'
<1> SUFFICES ASSUME EditorInv, Next, formState' = "archived" PROVE form' \in kept'
  BY DEF ArchivedKept
<1>1. CASE Seed \/ Navigate
  BY <1>1 DEF Seed, Navigate, Learn
<1>2. CASE ~(Seed \/ Navigate)
  <2>1. form' = form /\ formState = "archived"
    BY <1>2 DEF Next, SelectType, Edit, SetReviewFrequency, HandleSuggestId, Type, TypeText,
       Editable, AutoSave, HandleSubmitClick, NoDuplicate, DuplicateFound, SubmitAnyway,
       CancelDuplicate, SaveDraft, SubmitEntry, Serve, Refuse, AutoSaved, Submitted,
       AnswerTooLate, Fetch, FetchAnswered, ProcessingComplete, CloseDrawer, ViewProcessing,
       JobEnds, OtherSaves, formVars
  <2> QED
    BY <1>2, <2>1, PlaceMoves DEF EditorInv, ArchivedKept, Settled
<1> QED
  BY <1>1, <1>2

-----------------------------------------------------------------------------
\* StepInv: the invariant is inductive.
LEMMA StepInv == EditorInv /\ [Next]_vars => EditorInv'
<1>1. CASE Next
  BY <1>1, StepRequests, StepEntry, StepForm, StepFlags, StepPlace, StepLoading, StepTold,
     StepCaptured, StepSaved, StepArchived DEF EditorInv, Typed
<1>2. CASE UNCHANGED vars
  BY <1>2, Zenon DEF vars, pageVars, formVars, drawerVars, cacheVars, serverVars, historyVars,
     EditorInv, Typed, Flags, NewForm, LoadingForm, VersionTold, RequestsFit, RequestFits,
     Awaited, CapturedHere, SavedOrSaving, Stored, ArchivedKept
<1> QED
  BY <1>1, <1>2

LEMMA InvHolds == Spec => []EditorInv
BY InitInv, StepInv, PTL DEF Spec

\* Implied: the properties that the run checks follow.
LEMMA Implied == EditorInv => EditorTypeOK /\ UnsavedIsDirty
<1> SUFFICES ASSUME EditorInv PROVE EditorTypeOK /\ UnsavedIsDirty
  OBVIOUS
<1>1. EditorTypeOK
  BY DEF EditorInv, Typed, Flags, NewForm, ArchivedKept, EditorTypeOK
<1>2. UnsavedIsDirty
  BY DEF EditorInv, SavedOrSaving, Stored, UnsavedIsDirty
<1> QED
  BY <1>1, <1>2

\* What the automatic save watches is dirty, on its way or stored, in every reachable
\* state and for any number of contents, versions, writes and requests; the form of an
\* archived entry shows what was loaded (useAutoSave and the effects of EntryFormPage).
THEOREM EditorSafety == Spec => [](EditorTypeOK /\ UnsavedIsDirty)
BY InvHolds, Implied, PTL

\* No submission replaces a version of another administrator that the form was
\* not shown: the lock it sends is a version it was told, and the server compares
\* it with the one it replaces.
THEOREM PublishSafety == Spec => PublishesReplaceKnown
<1>1. EditorInv /\ [Next]_vars =>
        [entry'.by = "form" /\ entry'.version > entry.version /\ entry.by = "other"
         /\ entry.version > 0 => entry.version \in told]_vars
  <2> SUFFICES ASSUME EditorInv, Next, entry'.by = "form", entry.by = "other", entry.version > 0
               PROVE  entry.version \in told
    OBVIOUS
  <2>0. entry.version # 0 /\ entry \in Entry
    <3>1. entry \in Entry
      BY DEF EditorInv, Typed
    <3>2. entry.version \in 0..MaxVersion
      BY <3>1 DEF Entry
    <3> QED
      BY <3>1, <3>2, EditorAssumption
  <2>1. PICK r \in net : Serve(r)
    <3>1. entry' = entry \/ (\E r \in net : Serve(r)) \/ JobEnds \/ OtherSaves
      BY DEF Next, SelectType, Edit, SetReviewFrequency, HandleSuggestId, Type, TypeText, Seed,
         Navigate, AutoSave, HandleSubmitClick, NoDuplicate, DuplicateFound, SubmitAnyway,
         CancelDuplicate, SaveDraft, SubmitEntry, Refuse, AutoSaved, Submitted, AnswerTooLate,
         Fetch, FetchAnswered, ProcessingComplete, CloseDrawer, ViewProcessing, serverVars
    <3>2. ~JobEnds
      BY <2>0 DEF JobEnds, Entry
    <3>3. ~OtherSaves
      BY DEF OtherSaves, Store
    <3> QED
      BY <3>1, <3>2, <3>3
  <2>2. r.state = "sent" /\ Accepts(r)
    BY <2>1 DEF Serve
  <2>3. r.op = "update" /\ r.version = entry.version
    BY <2>0, <2>2, NetTyped DEF Accepts, Requests
  <2> QED
    BY <2>2, <2>3, NetTyped DEF RequestFits
<1> QED
  BY <1>1, InvHolds, PTL DEF Spec, PublishesReplaceKnown
===============================================================================
