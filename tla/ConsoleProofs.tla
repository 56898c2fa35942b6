----------------------------- MODULE ConsoleProofs -----------------------------
(***************************************************************************)
(* The promises of the admin console, for any number of requests, events,  *)
(* rows per page and changes of filters: a list catches up with every      *)
(* write that was answered on it, a correction is sent for the item it was *)
(* typed for, and the audit trail stands on a page that its filters have.  *)
(***************************************************************************)
EXTENDS Console, FiniteSetTheorems, TLAPS

-----------------------------------------------------------------------------
(* Types.                                                                  *)

RowSets == [Items -> Values]

Caches == [known : BOOLEAN, rows : RowSets, at : 0..MaxWrites]

Fetches == [state : {"idle", "asked", "read"}, rows : RowSets, at : 0..MaxWrites]

Requests == [op : Calls, item : Items \cup {0}, value : Values \cup Items \cup {0},
             state : {"sent", "served", "failed"}, mount : BOOLEAN,
             id : 1..MaxWrites, at : 0..MaxWrites, before : Caches]

Saves == [draft : Values, value : Values, mount : BOOLEAN]

Cells == [editing : BOOLEAN, focused : BOOLEAN, draft : Values, saving : BOOLEAN,
          blurred : SUBSET Saves]

\* the server, the query and the page; ListsTypeOK without its bounds
QueryTyped ==
    /\ page \in ListPages \cup FilterPages /\ server \in RowSets
    /\ cache \in Caches
    /\ fetch \in Fetches

LocalTyped ==
    /\ selected \subseteq Items /\ progress \in {"none", "sending"} /\ activeTicket \in Items \cup {0}
    /\ correction \in Items \cup {0} /\ dragged \in Items \cup {0} /\ dialog \in Items \cup {0}
    /\ modal \in [open : BOOLEAN, filled : BOOLEAN]
    /\ cell \in Cells /\ typed \in 0..MaxDrafts

FlagsTyped == mounted \in BOOLEAN /\ filtered \in BOOLEAN

CountsTyped == writes \in 0..MaxWrites /\ sent \in 0..MaxWrites /\ due \in 0..MaxWrites
               /\ reviewIndex \in Nat

-----------------------------------------------------------------------------
(* Requests.                                                               *)

\* a move knows the list it replaced, a resolution the item of its text
RequestFits(r) ==
    /\ r \in Requests /\ r.id <= sent /\ r.at <= writes
    /\ r.op \in {"move", "config"} => r.value \in Values
    /\ r.op = "move" => page = "tickets" /\ r.before.known
    /\ r.op = "resolve" => r.value = r.item

RequestsFit == \A r \in net : RequestFits(r)

\* a request on its way is known by its number
OneNumber == \A r, s \in net : r.id = s.id => r = s

SentIds == {r.id : r \in {q \in net : q.state = "sent"}}

ResolveIds == {r.id : r \in {q \in net : q.op = "resolve"}}

\* each write, and each step the review queue takes by an answer, uses up a
\* request
WritesCounted == writes + Cardinality(SentIds) <= sent

IndexCounted == reviewIndex + Cardinality(ResolveIds) <= Cardinality(Items) + sent

-----------------------------------------------------------------------------
(* The query.                                                              *)

DueServed == due <= writes

\* a fetch that was read has seen every write that is due
ReadIsFresh == fetch.state = "read" => fetch.at >= due

\* a list that is behind is being fetched, or an answer is to come that makes it so
CatchesUp ==
    cache.known /\ ~stale /\ ~fetchFailed =>
        \/ cache.at >= due
        \/ fetch.state # "idle"
        \/ \E r \in net : r.op \in OnSettled

\* cards are dragged on the board only
DraggedOnBoard == dragged # 0 => page = "tickets"

\* the text of a correction is that of the item on the screen
CorrectionCurrent == correction \in {0, Current}

\* the inductive invariant of the lists
ListsInv == /\ QueryTyped /\ LocalTyped /\ FlagsTyped /\ CountsTyped
            /\ RequestsFit /\ OneNumber /\ WritesCounted /\ IndexCounted
            /\ DueServed /\ ReadIsFresh /\ CatchesUp
            /\ DraggedOnBoard /\ CorrectionCurrent

-----------------------------------------------------------------------------
(* Filters.                                                                *)

FiltersTyped ==
    /\ filters \in Filters /\ search \in BOOLEAN /\ pageNo \in Pages
    /\ url \in [a : BOOLEAN, b : BOOLEAN] /\ hydrated \in BOOLEAN /\ asking \in BOOLEAN
    /\ shown \in [known : BOOLEAN, total : 0..MaxRows,
                  wanted : [a : BOOLEAN, b : BOOLEAN, local : BOOLEAN, pageNo : Pages]]
    /\ offered \in Nat
    /\ coverage \in [open : BOOLEAN, query : {"none", "typed"}, results : {"none", "some"}]

\* the audit trail is on a page that an answer to its filters has had, and an answer it
\* shows is one of those
AuditAsked ==
    page = "audit" =>
        /\ pageNo <= offered
        /\ IF shown.known THEN TotalPages(shown.total) <= offered ELSE shown = Nothing
        /\ hydrated \/ pageNo = 1

\* the inductive invariant of the console
ConsoleInv == ListsInv /\ FiltersTyped /\ AuditAsked

-----------------------------------------------------------------------------
(* The actions, by what they leave alone.                                  *)

Asking == Refetch \/ ServerReads \/ FetchAnswered \/ FetchFails

\* only the page and the store
Looks == \/ \E i \in Items : HandleSelectRow(i) \/ OpenDialog(i) \/ HandleDragStart(i)
         \/ \E i \in Items \cup {0} : SetActiveTicket(i)
         \/ HandleSelectAll \/ ClearDocumentSelection \/ CloseDialog
         \/ HandleFileReady \/ ChooseDetails \/ CloseModal \/ SetUploadProgress
         \/ TypeCorrection

\* the cell, before it saves
Edits == StartEdit \/ TypeDraft \/ ClickAway \/ Refocus \/ PressEscape \/ ClickCancel

\* the index of the review queue
Browses == \/ GoNext \/ GoPrev \/ HandleSkip \/ \E index \in 0..2 : SelectItem(index)

Posts == \/ BulkDeprecate \/ HandleConfirm \/ HandleUpload \/ HandleApprove
         \/ \E i \in Items : Approve(i)

Commits == PressEnter \/ ClickSave \/ \E saved \in cell.blurred : BlurTimer(saved)

Drags == HandleDragEnd \/ \E column \in Columns : MoveTo(column)

Others == \E i \in Items : OtherWrites(i)

LEMMA Actions ==
    ListsNext => \/ Asking \/ ServerStep \/ Answered \/ Leave \/ Return \/ FilterRow \/ Others
                 \/ Looks \/ Edits \/ Browses \/ Posts \/ Commits \/ Drags
BY Zenon DEF ListsNext, Asking, Looks, Edits, Browses, Posts, Commits, Drags, Others

\* LooksAlone: what only looks leaves the server, the query and the requests alone.
LEMMA LooksAlone == Looks \/ Edits \/ Browses => UNCHANGED <<Outside, netVars>>
BY DEF Looks, Edits, Browses, HandleSelectRow, OpenDialog, HandleDragStart, SetActiveTicket,
   HandleSelectAll, ClearDocumentSelection, CloseDialog, HandleFileReady, ChooseDetails,
   CloseModal, SetUploadProgress, StartEdit, TypeDraft, ClickAway, Refocus, PressEscape,
   ClickCancel, CancelEdit, TypeCorrection, GoNext, GoPrev, HandleSkip, SelectItem,
   SetReviewQueueIndex, CellUnchanged

\* PageStays: a page is left and returned to, never replaced.
LEMMA PageStays == ListsNext => page' = page
<1> SUFFICES ASSUME ListsNext PROVE page' = page
  OBVIOUS
<1>1. CASE Looks \/ Edits \/ Browses
  BY <1>1, LooksAlone DEF Outside
<1>2. CASE Answered
  BY <1>2 DEF Answered, PlainAnswered, UploadAnswered, SaveAnswered, ResolveAnswered, Settled
<1>3. CASE Posts \/ Commits \/ Drags
  BY <1>3 DEF Posts, BulkDeprecate, HandleConfirm, HandleUpload, HandleApprove, Approve,
     Commits, PressEnter, ClickSave, BlurTimer, CellUnchanged, Drags, HandleDragEnd, MoveTo,
     Move, Outside
<1>4. CASE Asking \/ ServerStep \/ Leave \/ Return \/ FilterRow \/ Others
  BY <1>4 DEF Asking, Refetch, ServerReads, FetchAnswered, FetchFails, ServerStep, Serve, Lose,
     Leave, Return, FilterRow, Others, OtherWrites, Outside
<1> QED
  BY <1>1, <1>2, <1>3, <1>4, Actions

-----------------------------------------------------------------------------
(* Requests.                                                               *)

\* Fresh(r): a request that leaves in this step.
Fresh(r) ==
    /\ r \in Requests /\ r.id = sent + 1 /\ r.at = 0 /\ r.state = "sent"
    /\ r.op \in {"move", "config"} => r.value \in Values
    /\ r.op = "move" => page = "tickets" /\ r.before.known
    /\ r.op = "resolve" => r.value = r.item

LEMMA TypedFacts ==
    ASSUME ListsInv
    PROVE  /\ cache \in Caches /\ Rows \in RowSets /\ cell \in Cells
           /\ sent \in 0..MaxWrites /\ writes \in 0..MaxWrites /\ due \in 0..MaxWrites
           /\ dialog \in Items \cup {0} /\ dragged \in Items \cup {0}
           /\ activeTicket \in Items \cup {0} /\ correction \in {0, Current}
           /\ correction \in Items \cup {0} /\ reviewIndex \in Nat
<1>1. /\ cache \in Caches /\ cell \in Cells
      /\ sent \in 0..MaxWrites /\ writes \in 0..MaxWrites /\ due \in 0..MaxWrites
      /\ dialog \in Items \cup {0} /\ dragged \in Items \cup {0}
      /\ activeTicket \in Items \cup {0} /\ correction \in {0, Current}
      /\ correction \in Items \cup {0} /\ reviewIndex \in Nat
  BY Zenon DEF ListsInv, QueryTyped, LocalTyped, CountsTyped, CorrectionCurrent
<1> QED
  BY <1>1 DEF Caches, Rows

\* RequestMade: what the page puts together is a request with the next number.
LEMMA RequestMade ==
    ASSUME ListsInv, sent < MaxWrites, NEW op \in Calls, NEW item \in Items \cup {0},
           NEW value \in Values \cup Items \cup {0}
    PROVE  /\ Request(op, item, value) \in Requests
           /\ Request(op, item, value).id = sent + 1
           /\ Request(op, item, value).at = 0
           /\ Request(op, item, value).state = "sent"
           /\ Request(op, item, value).op = op
           /\ Request(op, item, value).item = item
           /\ Request(op, item, value).value = value
           /\ op = "move" => Request(op, item, value).before = cache
<1>1. sent + 1 \in 1..MaxWrites /\ 0 \in 0..MaxWrites
  BY TypedFacts, ListsAssumption
<1>2. Unknown \in Caches
  <2>1. InitialRows("none") \in RowSets
    BY DEF InitialRows, RowSets, Values
  <2> QED
    BY <1>1, <2>1 DEF Unknown, Caches
<1>3. (IF op = "move" THEN cache ELSE Unknown) \in Caches
  BY <1>2, TypedFacts
<1> QED
  BY <1>1, <1>3 DEF Request, Requests

\* Posted: what is posted fits.
LEMMA Posted ==
    ASSUME ListsInv, sent < MaxWrites, NEW op \in Calls \ {"move", "config", "resolve"},
           NEW item \in Items \cup {0}
    PROVE  Fresh(Request(op, item, "none"))
<1>1. "none" \in Values
  BY DEF Values
<1>2. op \in Calls /\ op # "move" /\ op # "config" /\ op # "resolve"
  OBVIOUS
<1>3. /\ Request(op, item, "none") \in Requests
      /\ Request(op, item, "none").id = sent + 1
      /\ Request(op, item, "none").at = 0
      /\ Request(op, item, "none").state = "sent"
      /\ Request(op, item, "none").op = op
  BY <1>1, <1>2, RequestMade
<1> QED
  BY <1>2, <1>3 DEF Fresh
\* Captures: what a save takes from the cell is typed.
LEMMA Captures == ListsInv => Captured \in Saves /\ \A saved \in cell.blurred : saved \in Saves
<1> SUFFICES ASSUME ListsInv
             PROVE  Captured \in Saves /\ \A saved \in cell.blurred : saved \in Saves
  OBVIOUS
<1>1. Rows[1] \in Values
  BY TypedFacts DEF RowSets, Items
<1>2. cell.draft \in Values /\ cell.blurred \subseteq Saves
  BY TypedFacts DEF Cells
<1> QED
  BY <1>1, <1>2 DEF Captured, Saves

\* CommitSends: a save that is sent fits.
LEMMA CommitSends ==
    ASSUME ListsInv, NEW c, NEW saved \in Saves, CommitSave(c, saved)
    PROVE  \/ UNCHANGED netVars
           \/ \E r : Fresh(r) /\ Send(r)
<1>1. CASE saved.draft = saved.value
  BY <1>1 DEF CommitSave
<1>2. CASE saved.draft # saved.value
  <2> DEFINE q == Request("config", 1, saved.draft)
             r == [q EXCEPT !.mount = saved.mount]
  <2>1. Send(r)
    BY <1>2 DEF CommitSave
  <2>2. saved.draft \in Values /\ saved.mount \in BOOLEAN
    BY DEF Saves
  <2>3. sent < MaxWrites
    BY <2>1 DEF Send
  <2>4. /\ q \in Requests /\ q.id = sent + 1 /\ q.at = 0 /\ q.state = "sent"
        /\ q.op = "config" /\ q.value = saved.draft
    <3>1. "config" \in Calls /\ 1 \in Items \cup {0} /\ saved.draft \in Values \cup Items \cup {0}
      BY <2>2 DEF Calls, Items
    <3> QED
      BY <2>3, <3>1, RequestMade
  <2> HIDE DEF q
  <2>5. /\ r \in Requests /\ r.id = q.id /\ r.at = q.at /\ r.state = q.state
        /\ r.op = q.op /\ r.value = q.value
    BY <2>2, <2>4 DEF Requests
  <2>6. Fresh(r)
    BY <2>2, <2>4, <2>5 DEF Fresh
  <2> QED
    BY <2>1, <2>6
<1> QED
  BY <1>1, <1>2

\* PostSends: what the buttons of a page send fits.
LEMMA PostSends == ListsInv /\ Posts => \E r : Fresh(r) /\ Send(r)
<1> SUFFICES ASSUME ListsInv, Posts PROVE \E r : Fresh(r) /\ Send(r)
  OBVIOUS
<1>o. /\ {"bulk", "deprecate", "reject", "upload", "approve"} \subseteq Calls \ {"move", "config", "resolve"}
      /\ 2 \in Items \cup {0}
  BY DEF Calls, Items
<1>s. ASSUME NEW op \in {"bulk", "deprecate", "reject", "upload", "approve"},
             NEW item \in Items \cup {0}, Send(Request(op, item, "none"))
      PROVE  \E r : Fresh(r) /\ Send(r)
  <2>1. sent < MaxWrites
    BY <1>s DEF Send
  <2> QED
    BY <2>1, <1>s, <1>o, Posted
<1>1. CASE BulkDeprecate \/ HandleUpload \/ \E i \in Items : Approve(i)
  BY <1>1, <1>s, <1>o DEF BulkDeprecate, HandleUpload, Approve
<1>2. CASE HandleConfirm
  <2>1. \E op \in {"deprecate", "reject"} : Send(Request(op, dialog, "none"))
    BY <1>2 DEF HandleConfirm
  <2> QED
    BY <2>1, <1>s, TypedFacts
<1>3. CASE HandleApprove
  <2>1. Send(Request("resolve", Current, correction)) /\ correction = Current /\ Current \in Items
    BY <1>3, TypedFacts DEF HandleApprove
  <2>2. sent < MaxWrites /\ "resolve" \in Calls
    BY <2>1 DEF Send, Calls
  <2> DEFINE r == Request("resolve", Current, correction)
  <2>3. /\ r \in Requests /\ r.id = sent + 1 /\ r.at = 0 /\ r.state = "sent"
        /\ r.op = "resolve" /\ r.item = Current /\ r.value = correction
    BY <2>1, <2>2, RequestMade
  <2> HIDE DEF r
  <2>4. Fresh(r)
    BY <2>1, <2>3 DEF Fresh
  <2> QED
    BY <2>1, <2>4 DEF r
<1> QED
  BY <1>1, <1>2, <1>3 DEF Posts

\* DragSends: a move knows the list it replaces.
LEMMA DragSends ==
    ListsInv /\ Drags =>
        \/ UNCHANGED <<Outside, netVars>>
        \/ /\ page = "tickets" /\ cache.known
           /\ \E i \in Items, column \in Columns : Move(i, column)
           /\ \E r : Fresh(r) /\ Send(r) /\ r.op = "move"
<1> SUFFICES ASSUME ListsInv, Drags, ~UNCHANGED <<Outside, netVars>>
             PROVE  /\ page = "tickets" /\ cache.known
                    /\ \E i \in Items, column \in Columns : Move(i, column)
                    /\ \E r : Fresh(r) /\ Send(r) /\ r.op = "move"
  OBVIOUS
<1>1. page = "tickets" /\ cache.known /\ \E i \in Items, column \in Columns : Move(i, column)
  <2>1. CASE HandleDragEnd
    <3>1. dragged # 0 /\ dragged \in Listed /\ \E column \in Columns : Move(dragged, column)
      BY <2>1 DEF HandleDragEnd, netVars
    <3> QED
      BY <3>1 DEF Listed, ListsInv, DraggedOnBoard
  <2>2. CASE \E column \in Columns : MoveTo(column)
    BY <2>2 DEF MoveTo, On, Listed
  <2> QED
    BY <2>1, <2>2 DEF Drags
<1>2. PICK i \in Items, column \in Columns : Move(i, column)
  BY <1>1
<1> DEFINE r == Request("move", i, column)
<1>3. Send(r) /\ sent < MaxWrites
  BY <1>2 DEF Move, Send
<1>4. "move" \in Calls /\ column \in Values
  BY DEF Calls, Values
<1>5. /\ r \in Requests /\ r.id = sent + 1 /\ r.at = 0 /\ r.state = "sent"
      /\ r.op = "move" /\ r.value = column /\ r.before = cache
  BY <1>3, <1>4, RequestMade
<1> HIDE DEF r
<1>6. Fresh(r)
  BY <1>1, <1>4, <1>5 DEF Fresh
<1> QED
  BY <1>1, <1>3, <1>5, <1>6

NetStays == UNCHANGED <<net, sent, due, writes>>

NetSends == (\E r : Fresh(r) /\ Send(r)) /\ UNCHANGED writes

\* the component of every request is gone
NetOrphaned == net' = {[r EXCEPT !.mount = FALSE] : r \in net} /\ UNCHANGED <<sent, due, writes>>

NetSettles == \E r \in net : r.state \in {"served", "failed"} /\ Settled(r)

\* NetMoves: what a step does to the requests.
LEMMA NetMoves == ListsInv /\ ListsNext => NetStays \/ NetSends \/ NetOrphaned \/ NetSettles \/ ServerStep
<1> SUFFICES ASSUME ListsInv, ListsNext
             PROVE  NetStays \/ NetSends \/ NetOrphaned \/ NetSettles \/ ServerStep
  OBVIOUS
<1>1. CASE Looks \/ Edits \/ Browses
  BY <1>1, LooksAlone DEF Outside, netVars, serverVars, NetStays
<1>2. CASE Answered
  BY <1>2 DEF Answered, Answers, PlainAnswered, UploadAnswered, SaveAnswered, ResolveAnswered,
     NetSettles
<1>3. CASE Posts
  <2>1. writes' = writes
    BY <1>3 DEF Posts, BulkDeprecate, HandleConfirm, HandleUpload, HandleApprove, Approve,
       Outside, serverVars
  <2> QED
    BY <1>3, <2>1, PostSends DEF NetSends
<1>4. CASE Drags
  <2>1. writes' = writes
    BY <1>4 DEF Drags, HandleDragEnd, MoveTo, Move, Outside, serverVars
  <2> QED
    BY <1>4, <2>1, DragSends DEF NetSends, NetStays, netVars
<1>5. CASE Commits
  <2>1. writes' = writes
    BY <1>5 DEF Commits, PressEnter, ClickSave, BlurTimer, CellUnchanged, Outside, serverVars
  <2>2. UNCHANGED netVars \/ \E c : \E saved \in Saves : CommitSave(c, saved)
    BY <1>5, Captures DEF Commits, PressEnter, ClickSave, BlurTimer
  <2> QED
    BY <2>1, <2>2, CommitSends DEF NetSends, NetStays, netVars
<1>6. CASE Asking \/ Return \/ Others
  BY <1>6 DEF Asking, Refetch, ServerReads, FetchAnswered, FetchFails, Return, Others,
     OtherWrites, netVars, serverVars, NetStays
<1>7. CASE Leave \/ FilterRow
  BY <1>7 DEF Leave, FilterRow, Outside, serverVars, NetOrphaned
<1> QED
  BY <1>1, <1>2, <1>3, <1>4, <1>5, <1>6, <1>7, Actions
-----------------------------------------------------------------------------
(* Counting requests.                                                      *)

\* Grows, Shrinks: a set that gains at most one element, or loses one.
LEMMA Grows ==
    ASSUME NEW S, IsFiniteSet(S), NEW x, NEW T, T \subseteq S \cup {x}
    PROVE  Cardinality(T) <= Cardinality(S) + 1 /\ Cardinality(S) \in Nat /\ Cardinality(T) \in Nat
<1>1. /\ IsFiniteSet(S \cup {x})
      /\ Cardinality(S \cup {x}) = Cardinality(S) \/ Cardinality(S \cup {x}) = Cardinality(S) + 1
  BY FS_AddElement
<1>2. IsFiniteSet(T) /\ Cardinality(T) <= Cardinality(S \cup {x})
  BY <1>1, FS_Subset
<1>3. Cardinality(S) \in Nat /\ Cardinality(T) \in Nat
  BY <1>2, FS_CardinalityType
<1> QED
  BY <1>1, <1>2, <1>3

LEMMA Shrinks ==
    ASSUME NEW S, IsFiniteSet(S), NEW x \in S, NEW T, T \subseteq S \ {x}
    PROVE  Cardinality(T) + 1 <= Cardinality(S) /\ Cardinality(S) \in Nat /\ Cardinality(T) \in Nat
<1>1. IsFiniteSet(S \ {x}) /\ Cardinality(S \ {x}) = Cardinality(S) - 1
  BY FS_RemoveElement
<1>2. IsFiniteSet(T) /\ Cardinality(T) <= Cardinality(S \ {x})
  BY <1>1, FS_Subset
<1>3. Cardinality(S) \in Nat /\ Cardinality(T) \in Nat
  BY <1>2, FS_CardinalityType
<1> QED
  BY <1>1, <1>2, <1>3

LEMMA Keeps ==
    ASSUME NEW S, IsFiniteSet(S), NEW T, T \subseteq S
    PROVE  Cardinality(T) <= Cardinality(S) /\ Cardinality(S) \in Nat /\ Cardinality(T) \in Nat
<1>1. IsFiniteSet(T) /\ Cardinality(T) <= Cardinality(S)
  BY FS_Subset
<1> QED
  BY <1>1, FS_CardinalityType

\* RequestFacts: the fields of a request.
LEMMA RequestFacts ==
    ASSUME ListsInv, NEW r \in net
    PROVE  /\ r \in Requests /\ RequestFits(r)
           /\ r.id \in 1..MaxWrites /\ r.at \in 0..MaxWrites /\ r.id <= sent /\ r.at <= writes
           /\ r.op \in Calls
<1>1. RequestFits(r)
  BY DEF ListsInv, RequestsFit
<1> QED
  BY <1>1 DEF RequestFits, Requests

LEMMA IdsFinite == ListsInv => IsFiniteSet(SentIds) /\ IsFiniteSet(ResolveIds)
<1> SUFFICES ASSUME ListsInv PROVE IsFiniteSet(SentIds) /\ IsFiniteSet(ResolveIds)
  OBVIOUS
<1>1. IsFiniteSet(1..MaxWrites)
  BY FS_Interval, ListsAssumption
<1>2. SentIds \subseteq 1..MaxWrites /\ ResolveIds \subseteq 1..MaxWrites
  BY RequestFacts DEF SentIds, ResolveIds
<1> QED
  BY <1>1, <1>2, FS_Subset

\* Copied(r, q): an answer or an orphan is the request but for what it tells.
Copied(r, q) ==
    /\ r.op = q.op /\ r.id = q.id /\ r.item = q.item /\ r.value = q.value
    /\ r.before = q.before

LEMMA Copies ==
    ASSUME NEW q \in Requests
    PROVE  /\ LET r == [q EXCEPT !.mount = FALSE]
              IN  r \in Requests /\ Copied(r, q) /\ r.state = q.state /\ r.at = q.at
           /\ LET r == [q EXCEPT !.state = "failed"]
              IN  r \in Requests /\ Copied(r, q) /\ r.state = "failed" /\ r.at = q.at
BY DEF Requests, Copied

\* ServeCounts: there is room for the write of a request that has not been served.
LEMMA ServeCounts ==
    ASSUME ListsInv, NEW q \in net, Serve(q)
    PROVE  /\ writes' = writes + 1 /\ writes' \in 0..MaxWrites /\ sent' = sent
           /\ writes + Cardinality(SentIds) <= sent /\ q.id \in SentIds
<1>1. writes' = writes + 1 /\ sent' = sent /\ q.state = "sent"
  BY DEF Serve
<1>2. q.id \in SentIds
  BY <1>1 DEF SentIds
<1>3. writes + Cardinality(SentIds) <= sent
  BY DEF ListsInv, WritesCounted
<1>4. Cardinality({}) + 1 <= Cardinality(SentIds) /\ Cardinality(SentIds) \in Nat
  BY <1>2, IdsFinite, Shrinks
<1>5. Cardinality({}) = 0
  BY FS_EmptySet
<1> QED
  BY <1>1, <1>2, <1>3, <1>4, <1>5, TypedFacts, ListsAssumption

\* Comes(r): how a request comes to be where it is after a step.
Comes(r) ==
    \/ r \in net
    \/ Fresh(r) /\ sent' = sent + 1
    \/ r \in Requests /\ \E q \in net : Copied(r, q) /\ (r.at = q.at \/ r.at = writes')

LEMMA RequestsCome == ListsInv /\ ListsNext => \A r \in net' : Comes(r)
<1> SUFFICES ASSUME ListsInv, ListsNext, NEW r \in net' PROVE Comes(r)
  OBVIOUS
<1>1. CASE NetStays \/ NetSettles
  BY <1>1 DEF NetStays, NetSettles, Settled, Comes
<1>2. CASE NetSends
  BY <1>2 DEF NetSends, Send, Comes
<1>3. CASE NetOrphaned
  <2>1. PICK q \in net : r = [q EXCEPT !.mount = FALSE]
    BY <1>3 DEF NetOrphaned
  <2>2. q \in Requests
    BY RequestFacts
  <2> QED
    BY <2>1, <2>2, Copies DEF Comes
<1>4. CASE \E q \in net : Lose(q)
  <2>1. PICK q \in net : Lose(q)
    BY <1>4
  <2>2. r \in net \/ r = [q EXCEPT !.state = "failed"]
    BY <2>1 DEF Lose
  <2>3. q \in Requests
    BY RequestFacts
  <2>4. CASE r = [q EXCEPT !.state = "failed"]
    <3>1. r \in Requests /\ Copied(r, q) /\ r.at = q.at
      BY <2>3, <2>4, Copies
    <3> QED
      BY <3>1 DEF Comes
  <2> QED
    BY <2>2, <2>4 DEF Comes
<1>5. CASE \E q \in net : Serve(q)
  <2>1. PICK q \in net : Serve(q)
    BY <1>5
  <2>2. r \in net \/ r = [q EXCEPT !.state = "served", !.at = writes']
    BY <2>1 DEF Serve
  <2>3. q \in Requests /\ writes' \in 0..MaxWrites
    BY <2>1, RequestFacts, ServeCounts
  <2>4. CASE r = [q EXCEPT !.state = "served", !.at = writes']
    <3>1. r \in Requests /\ Copied(r, q) /\ r.at = writes'
      BY <2>3, <2>4 DEF Requests, Copied
    <3> QED
      BY <3>1 DEF Comes
  <2> QED
    BY <2>2, <2>4 DEF Comes
<1> QED
  BY <1>1, <1>2, <1>3, <1>4, <1>5, NetMoves DEF ServerStep
\* CountsMove: the numbers of requests and of writes only grow.
LEMMA CountsMove ==
    ListsInv /\ ListsNext =>
        /\ sent' \in 0..MaxWrites /\ (sent' = sent \/ sent' = sent + 1)
        /\ writes' \in 0..MaxWrites /\ (writes' = writes \/ writes' = writes + 1)
<1> SUFFICES ASSUME ListsInv, ListsNext
             PROVE  /\ sent' \in 0..MaxWrites /\ (sent' = sent \/ sent' = sent + 1)
                    /\ writes' \in 0..MaxWrites /\ (writes' = writes \/ writes' = writes + 1)
  OBVIOUS
<1>1. CASE NetStays \/ NetOrphaned \/ NetSettles
  BY <1>1, TypedFacts DEF NetStays, NetOrphaned, NetSettles, Settled, serverVars
<1>2. CASE NetSends
  <2>1. sent' = sent + 1 /\ sent < MaxWrites /\ writes' = writes
    BY <1>2 DEF NetSends, Send
  <2> QED
    BY <2>1, TypedFacts, ListsAssumption
<1>3. CASE \E q \in net : Serve(q)
  BY <1>3, ServeCounts, TypedFacts
<1>4. CASE \E q \in net : Lose(q)
  BY <1>4, TypedFacts DEF Lose, serverVars
<1> QED
  BY <1>1, <1>2, <1>3, <1>4, NetMoves DEF ServerStep

\* StepRequests: the requests keep fitting.
LEMMA StepRequests == ListsInv /\ ListsNext => RequestsFit'
<1> SUFFICES ASSUME ListsInv, ListsNext, NEW r \in net' PROVE RequestFits(r)'
  BY DEF RequestsFit
<1>p. page' = page
  BY PageStays
<1>c. sent' >= sent /\ writes' >= writes /\ sent' \in Nat /\ writes' \in Nat
      /\ sent \in Nat /\ writes \in Nat
  BY CountsMove, TypedFacts, ListsAssumption
<1>1. CASE r \in net
  <2>1. RequestFits(r) /\ r.id \in Nat /\ r.at \in Nat /\ r.id <= sent /\ r.at <= writes
    BY <1>1, RequestFacts, ListsAssumption
  <2>2. r.id <= sent' /\ r.at <= writes'
    BY <1>c, <2>1
  <2> QED
    BY <1>p, <2>1, <2>2 DEF RequestFits
<1>2. CASE Fresh(r) /\ sent' = sent + 1
  <2>1. r.id <= sent' /\ r.at <= writes'
    BY <1>2, <1>c DEF Fresh
  <2> QED
    BY <1>2, <1>p, <2>1 DEF Fresh, RequestFits
<1>3. CASE r \in Requests /\ \E q \in net : Copied(r, q) /\ (r.at = q.at \/ r.at = writes')
  <2>1. PICK q \in net : Copied(r, q) /\ (r.at = q.at \/ r.at = writes')
    BY <1>3
  <2>2. RequestFits(q) /\ q.id \in Nat /\ q.at \in Nat /\ q.id <= sent /\ q.at <= writes
    BY RequestFacts, ListsAssumption
  <2>3. r.id <= sent' /\ r.at <= writes'
    BY <1>c, <2>1, <2>2 DEF Copied
  <2> QED
    BY <1>3, <1>p, <2>1, <2>2, <2>3 DEF RequestFits, Copied
<1> QED
  BY <1>1, <1>2, <1>3, RequestsCome DEF Comes
\* StepOneNumber: a request keeps its number and shares it with no other.
LEMMA StepOneNumber == ListsInv /\ ListsNext => OneNumber'
<1> SUFFICES ASSUME ListsInv, ListsNext, NEW r \in net', NEW s \in net', r.id = s.id
             PROVE  r = s
  BY DEF OneNumber
<1>o. \A p, q \in net : p.id = q.id => p = q
  BY DEF ListsInv, OneNumber
<1>1. CASE NetStays \/ NetSettles
  BY <1>1, <1>o DEF NetStays, NetSettles, Settled
<1>2. CASE NetSends
  <2>1. PICK f : Fresh(f) /\ Send(f)
    BY <1>2 DEF NetSends
  <2>2. net' = net \cup {f} /\ f.id = sent + 1
    BY <2>1 DEF Send, Fresh
  <2>3. \A q \in net : q.id # sent + 1
    <3> SUFFICES ASSUME NEW q \in net PROVE q.id # sent + 1
      OBVIOUS
    <3>1. q.id \in 1..MaxWrites /\ q.id <= sent /\ sent \in 0..MaxWrites
      BY RequestFacts, TypedFacts
    <3> QED
      BY <3>1, ListsAssumption
  <2> QED
    BY <2>2, <2>3, <1>o
<1>3. CASE NetOrphaned
  <2>1. PICK p \in net, q \in net : r = [p EXCEPT !.mount = FALSE] /\ s = [q EXCEPT !.mount = FALSE]
    BY <1>3 DEF NetOrphaned
  <2>2. r.id = p.id /\ s.id = q.id
    BY <2>1, RequestFacts, Copies DEF Copied
  <2> QED
    BY <2>1, <2>2, <1>o
<1>4. CASE ServerStep
  <2>1. PICK q \in net : Serve(q) \/ Lose(q)
    BY <1>4 DEF ServerStep
  <2>2. q \in Requests
    BY RequestFacts
  <2>3. \E a : net' = (net \ {q}) \cup {a} /\ a.id = q.id
    <3>1. [q EXCEPT !.state = "failed"].id = q.id
      BY <2>2 DEF Requests
    <3>2. [q EXCEPT !.state = "served", !.at = writes'].id = q.id
      BY <2>2 DEF Requests
    <3> QED
      BY <2>1, <3>1, <3>2 DEF Serve, Lose
  <2> QED
    BY <2>3, <1>o
<1> QED
  BY <1>1, <1>2, <1>3, <1>4, NetMoves

\* IdsMove: the numbers that are not served, and those of the resolutions, change
\* with the requests.
LEMMA IdsMove ==
    ASSUME ListsInv, ListsNext
    PROVE  /\ SentIds' \subseteq SentIds \/ (SentIds' \subseteq SentIds \cup {sent + 1} /\ sent' = sent + 1)
           /\ ResolveIds' \subseteq ResolveIds
              \/ (ResolveIds' \subseteq ResolveIds \cup {sent + 1} /\ sent' = sent + 1)
           /\ \A q \in net : Serve(q) => SentIds' \subseteq SentIds \ {q.id}
           /\ \A r \in net : Settled(r) => ResolveIds' \subseteq ResolveIds \ {r.id}
<1>o. \A p, q \in net : p.id = q.id => p = q
  BY DEF ListsInv, OneNumber
<1>1. ASSUME NEW r \in net', r \notin net,
             ~(r.id = sent + 1 /\ sent' = sent + 1)
      PROVE  \E q \in net : r.op = q.op /\ r.id = q.id /\ (r.state = "sent" => q.state = "sent")
  <2>1. CASE NetStays \/ NetSettles
    BY <1>1, <2>1 DEF NetStays, NetSettles, Settled
  <2>2. CASE NetSends
    BY <1>1, <2>2 DEF NetSends, Send, Fresh
  <2>3. CASE NetOrphaned
    <3>1. PICK q \in net : r = [q EXCEPT !.mount = FALSE]
      BY <2>3 DEF NetOrphaned
    <3> QED
      BY <3>1, RequestFacts, Copies DEF Copied
  <2>4. CASE ServerStep
    <3>1. PICK q \in net : Serve(q) \/ Lose(q)
      BY <2>4 DEF ServerStep
    <3>2. q \in Requests
      BY RequestFacts
    <3>3. r = [q EXCEPT !.state = "failed"] \/ r = [q EXCEPT !.state = "served", !.at = writes']
      BY <1>1, <3>1 DEF Serve, Lose
    <3>4. r.op = q.op /\ r.id = q.id /\ r.state # "sent"
      BY <3>2, <3>3 DEF Requests
    <3> QED
      BY <3>4
  <2> QED
    BY <2>1, <2>2, <2>3, <2>4, NetMoves
<1>2. SentIds' \subseteq SentIds \/ (SentIds' \subseteq SentIds \cup {sent + 1} /\ sent' = sent + 1)
  BY <1>1 DEF SentIds
<1>3. \/ ResolveIds' \subseteq ResolveIds
      \/ ResolveIds' \subseteq ResolveIds \cup {sent + 1} /\ sent' = sent + 1
  BY <1>1 DEF ResolveIds
<1>4. ASSUME NEW q \in net, Serve(q) PROVE SentIds' \subseteq SentIds \ {q.id}
  <2>1. q \in Requests
    BY RequestFacts
  <2>2. net' = (net \ {q}) \cup {[q EXCEPT !.state = "served", !.at = writes']}
    BY <1>4 DEF Serve
  <2>3. [q EXCEPT !.state = "served", !.at = writes'].state = "served"
    BY <2>1 DEF Requests
  <2>4. \A r \in net' : r.state = "sent" => r \in net /\ r # q
    BY <2>2, <2>3
  <2> QED
    BY <2>4, <1>o DEF SentIds
<1>5. ASSUME NEW r \in net, Settled(r) PROVE ResolveIds' \subseteq ResolveIds \ {r.id}
  <2>1. net' = net \ {r}
    BY <1>5 DEF Settled
  <2> QED
    BY <2>1, <1>o DEF ResolveIds
<1> QED
  BY <1>2, <1>3, <1>4, <1>5

\* StepWrites: a write uses up a request that was sent.
LEMMA StepWrites == ListsInv /\ ListsNext => WritesCounted'
<1> SUFFICES ASSUME ListsInv, ListsNext PROVE writes' + Cardinality(SentIds') <= sent'
  BY DEF WritesCounted
<1>w. /\ writes + Cardinality(SentIds) <= sent /\ writes \in Nat /\ sent \in Nat
      /\ writes' \in Nat /\ sent' \in Nat /\ (sent' = sent \/ sent' = sent + 1)
  BY TypedFacts, CountsMove, ListsAssumption DEF ListsInv, WritesCounted
<1>1. CASE \E q \in net : Serve(q)
  <2>1. PICK q \in net : Serve(q)
    BY <1>1
  <2>2. writes' = writes + 1 /\ sent' = sent /\ q.id \in SentIds
    BY <2>1, ServeCounts
  <2>3. SentIds' \subseteq SentIds \ {q.id}
    BY <2>1, IdsMove
  <2>4. /\ Cardinality(SentIds') + 1 <= Cardinality(SentIds)
        /\ Cardinality(SentIds) \in Nat /\ Cardinality(SentIds') \in Nat
    BY <2>2, <2>3, IdsFinite, Shrinks
  <2> QED
    BY <1>w, <2>2, <2>4
<1>2. CASE ~\E q \in net : Serve(q)
  <2>1. writes' = writes
    <3>1. NetStays \/ NetSends \/ NetOrphaned \/ NetSettles \/ \E q \in net : Lose(q)
      BY <1>2, NetMoves DEF ServerStep
    <3> QED
      BY <3>1 DEF NetStays, NetSends, NetOrphaned, NetSettles, Settled, Lose, serverVars
  <2>2. CASE SentIds' \subseteq SentIds
    <3>1. /\ Cardinality(SentIds') <= Cardinality(SentIds)
          /\ Cardinality(SentIds) \in Nat /\ Cardinality(SentIds') \in Nat
      BY <2>2, IdsFinite, Keeps
    <3> QED
      BY <1>w, <2>1, <3>1
  <2>3. CASE SentIds' \subseteq SentIds \cup {sent + 1} /\ sent' = sent + 1
    <3>1. /\ Cardinality(SentIds') <= Cardinality(SentIds) + 1
          /\ Cardinality(SentIds) \in Nat /\ Cardinality(SentIds') \in Nat
      BY <2>3, IdsFinite, Grows
    <3> QED
      BY <1>w, <2>1, <2>3, <3>1
  <2> QED
    BY <2>2, <2>3, IdsMove
<1> QED
  BY <1>1, <1>2
-----------------------------------------------------------------------------
(* The review queue.                                                       *)

LEMMA QueueBounded ==
    /\ Cardinality(Items) \in Nat /\ IsFiniteSet(Items)
    /\ \A rows : Cardinality(Pending(rows)) \in Nat /\ Cardinality(Pending(rows)) <= Cardinality(Items)
<1>1. IsFiniteSet(Items)
  <2>1. \A a, b \in Int : IsFiniteSet(a..b)
    BY FS_Interval
  <2>2. 1 \in Int /\ 3 \in Int
    OBVIOUS
  <2> QED
    BY <2>1, <2>2, Zenon DEF Items
<1>2. \A rows : Pending(rows) \subseteq Items
  BY DEF Pending
<1> QED
  BY <1>1, <1>2, Keeps, FS_CardinalityType

\* IndexMoves: the index is set within the queue, or taken on by an answer.
LEMMA IndexMoves ==
    ListsInv /\ ListsNext =>
        \/ reviewIndex' = reviewIndex
        \/ /\ Browses /\ reviewIndex' \in Nat
           /\ reviewIndex' <= reviewIndex \/ reviewIndex' <= Cardinality(Items)
        \/ \E r \in net : r.op = "resolve" /\ Settled(r) /\ reviewIndex' = reviewIndex + 1
<1> SUFFICES ASSUME ListsInv, ListsNext
             PROVE  \/ reviewIndex' = reviewIndex
                    \/ /\ Browses /\ reviewIndex' \in Nat
                       /\ reviewIndex' <= reviewIndex \/ reviewIndex' <= Cardinality(Items)
                    \/ \E r \in net : r.op = "resolve" /\ Settled(r) /\ reviewIndex' = reviewIndex + 1
  OBVIOUS
<1>n. reviewIndex \in Nat
  BY TypedFacts
<1>1. CASE Browses
  <2>1. LastIndex \in Nat /\ LastIndex <= Cardinality(Items)
    <3>1. Cardinality(Pending(Rows)) = 0 => Pending(Rows) = {}
      <4>1. IsFiniteSet(Pending(Rows))
        BY QueueBounded, FS_Subset DEF Pending
      <4> QED
        BY <4>1, FS_EmptySet
    <3> QED
      BY <3>1, QueueBounded DEF LastIndex
  <2>2. CASE GoNext
    <3>1. reviewIndex' = IF reviewIndex < LastIndex THEN reviewIndex + 1 ELSE LastIndex
      BY <2>2 DEF GoNext, SetReviewQueueIndex
    <3> QED
      BY <1>1, <1>n, <2>1, <3>1, QueueBounded
  <2>3. CASE GoPrev
    <3>1. reviewIndex' = reviewIndex - 1 /\ reviewIndex > 0
      BY <2>3 DEF GoPrev, SetReviewQueueIndex
    <3> QED
      BY <1>1, <1>n, <3>1
  <2>4. CASE HandleSkip
    <3>1. reviewIndex' = reviewIndex + 1 /\ reviewIndex < Cardinality(Items)
      BY <2>4 DEF HandleSkip, SetReviewQueueIndex
    <3> QED
      BY <1>1, <1>n, <3>1, QueueBounded
  <2>5. CASE \E index \in 0..2 : SelectItem(index)
    <3>1. PICK index \in 0..2 : reviewIndex' = index /\ index < Cardinality(Pending(Rows))
      BY <2>5 DEF SelectItem, SetReviewQueueIndex
    <3> QED
      BY <1>1, <3>1, QueueBounded
  <2> QED
    BY <1>1, <2>2, <2>3, <2>4, <2>5 DEF Browses
<1>2. CASE Answered
  <2>1. CASE \E r \in Answers({"resolve"}) : ResolveAnswered(r)
    BY <2>1 DEF Answers, ResolveAnswered
  <2>2. CASE ~\E r \in Answers({"resolve"}) : ResolveAnswered(r)
    BY <1>2, <2>2 DEF Answered, PlainAnswered, UploadAnswered, SaveAnswered, storeVars
  <2> QED
    BY <2>1, <2>2
<1>3. CASE Looks \/ Edits
  BY <1>3 DEF Looks, Edits, HandleSelectRow, OpenDialog, HandleDragStart, SetActiveTicket,
     HandleSelectAll, ClearDocumentSelection, CloseDialog, HandleFileReady, ChooseDetails,
     CloseModal, SetUploadProgress, StartEdit, TypeDraft, ClickAway, Refocus, PressEscape,
     ClickCancel, CancelEdit, TypeCorrection, CellUnchanged, storeVars
<1>4. CASE Posts \/ Commits \/ Drags
  BY <1>4 DEF Posts, BulkDeprecate, HandleConfirm, HandleUpload, HandleApprove, Approve,
     Commits, PressEnter, ClickSave, BlurTimer, CellUnchanged, Drags, HandleDragEnd, MoveTo,
     storeVars
<1>5. CASE Asking \/ ServerStep \/ Leave \/ Return \/ FilterRow \/ Others
  BY <1>5 DEF Asking, Refetch, ServerReads, FetchAnswered, FetchFails, ServerStep, Serve, Lose,
     Leave, Return, FilterRow, Others, OtherWrites, storeVars
<1> QED
  BY <1>1, <1>2, <1>3, <1>4, <1>5, Actions

\* StepIndex: an answer takes the index on and uses up a resolution.
LEMMA StepIndex == ListsInv /\ ListsNext => IndexCounted' /\ reviewIndex' \in Nat
<1> SUFFICES ASSUME ListsInv, ListsNext
             PROVE  reviewIndex' + Cardinality(ResolveIds') <= Cardinality(Items) + sent'
                    /\ reviewIndex' \in Nat
  BY DEF IndexCounted, Items
<1>w. /\ reviewIndex + Cardinality(ResolveIds) <= Cardinality(Items) + sent
      /\ reviewIndex \in Nat /\ sent \in Nat /\ Cardinality(Items) \in Nat
      /\ sent' \in Nat /\ (sent' = sent \/ sent' = sent + 1)
  BY TypedFacts, CountsMove, ListsAssumption, QueueBounded DEF ListsInv, IndexCounted
<1>1. CASE reviewIndex' = reviewIndex
  <2>1. CASE ResolveIds' \subseteq ResolveIds
    <3>1. /\ Cardinality(ResolveIds') <= Cardinality(ResolveIds)
          /\ Cardinality(ResolveIds) \in Nat /\ Cardinality(ResolveIds') \in Nat
      BY <2>1, IdsFinite, Keeps
    <3> QED
      BY <1>w, <1>1, <3>1
  <2>2. CASE ResolveIds' \subseteq ResolveIds \cup {sent + 1} /\ sent' = sent + 1
    <3>1. /\ Cardinality(ResolveIds') <= Cardinality(ResolveIds) + 1
          /\ Cardinality(ResolveIds) \in Nat /\ Cardinality(ResolveIds') \in Nat
      BY <2>2, IdsFinite, Grows
    <3> QED
      BY <1>w, <1>1, <2>2, <3>1
  <2> QED
    BY <2>1, <2>2, IdsMove
<1>2. CASE /\ Browses /\ reviewIndex' \in Nat
           /\ reviewIndex' <= reviewIndex \/ reviewIndex' <= Cardinality(Items)
  <2>1. ResolveIds' = ResolveIds /\ sent' = sent
    BY <1>2, LooksAlone DEF netVars, ResolveIds
  <2>2. Cardinality(ResolveIds) <= sent /\ Cardinality(ResolveIds) \in Nat
    <3>1. ASSUME NEW r \in net PROVE r.id \in 1..sent
      BY RequestFacts, <1>w, ListsAssumption
    <3>2. ResolveIds \subseteq 1..sent
      BY <3>1 DEF ResolveIds
    <3>3. IsFiniteSet(1..sent) /\ Cardinality(1..sent) = sent
      BY FS_Interval, <1>w
    <3> QED
      BY <3>2, <3>3, Keeps
  <2> QED
    BY <1>w, <1>2, <2>1, <2>2
<1>3. CASE \E r \in net : r.op = "resolve" /\ Settled(r) /\ reviewIndex' = reviewIndex + 1
  <2>1. PICK r \in net : r.op = "resolve" /\ Settled(r) /\ reviewIndex' = reviewIndex + 1
    BY <1>3
  <2>2. ResolveIds' \subseteq ResolveIds \ {r.id} /\ r.id \in ResolveIds /\ sent' = sent
    BY <2>1, IdsMove DEF ResolveIds, Settled
  <2>3. /\ Cardinality(ResolveIds') + 1 <= Cardinality(ResolveIds)
        /\ Cardinality(ResolveIds) \in Nat /\ Cardinality(ResolveIds') \in Nat
    BY <2>2, IdsFinite, Shrinks
  <2> QED
    BY <1>w, <2>1, <2>2, <2>3
<1> QED
  BY <1>1, <1>2, <1>3, IndexMoves
-----------------------------------------------------------------------------
(* The query.                                                              *)

QueryStays == UNCHANGED <<cache, fetch, stale, fetchFailed>>

\* QueryMoves: the steps that touch the cached list and its fetch.
LEMMA QueryMoves ==
    ListsInv /\ ListsNext =>
        \/ QueryStays \/ Asking \/ Return
        \/ \E r \in net : r.state \in {"served", "failed"} /\ Settled(r)
        \/ Drags /\ \E i \in Items, column \in Columns : Move(i, column)
<1> SUFFICES ASSUME ListsInv, ListsNext
             PROVE  \/ QueryStays \/ Asking \/ Return
                    \/ \E r \in net : r.state \in {"served", "failed"} /\ Settled(r)
                    \/ Drags /\ \E i \in Items, column \in Columns : Move(i, column)
  OBVIOUS
<1>1. CASE Looks \/ Edits \/ Browses
  BY <1>1, LooksAlone DEF Outside, queryVars, QueryStays
<1>2. CASE Answered
  BY <1>2 DEF Answered, Answers, PlainAnswered, UploadAnswered, SaveAnswered, ResolveAnswered
<1>3. CASE Posts \/ Commits
  BY <1>3 DEF Posts, BulkDeprecate, HandleConfirm, HandleUpload, HandleApprove, Approve,
     Commits, PressEnter, ClickSave, BlurTimer, CellUnchanged, Outside, queryVars, QueryStays
<1>4. CASE Drags
  BY <1>4, DragSends DEF Outside, queryVars, QueryStays
<1>5. CASE ServerStep \/ Leave \/ FilterRow \/ Others
  BY <1>5 DEF ServerStep, Serve, Lose, Leave, FilterRow, Others, OtherWrites, Outside, queryVars,
     QueryStays
<1>6. CASE Asking \/ Return
  BY <1>6
<1> QED
  BY <1>1, <1>2, <1>3, <1>4, <1>5, <1>6, Actions

LEMMA FetchesTyped == NoFetch \in Fetches /\ Asked \in Fetches /\ Unknown \in Caches
<1>1. InitialRows("none") \in RowSets
  BY DEF InitialRows, RowSets, Values
<1>2. 0 \in 0..MaxWrites
  BY ListsAssumption
<1>3. NoFetch \in Fetches /\ Unknown \in Caches
  BY <1>1, <1>2 DEF NoFetch, Fetches, Unknown, Caches
<1> QED
  BY <1>3 DEF Asked, Fetches

LEMMA FetchStatesOf == NoFetch.state = "idle" /\ Asked.state = "asked"
BY DEF NoFetch, Asked

\* SettledEffects: an answer that makes the list due makes it asked for.
LEMMA SettledEffects ==
    ASSUME ListsInv, NEW r \in net, Settled(r)
    PROVE  /\ fetch' \in {fetch, Asked}
           /\ cache' \in {cache, r.before} /\ (cache' # cache => r.op = "move")
           /\ due' \in {due, r.at} /\ (due' # due => fetch' = Asked)
           /\ r.op \in OnSettled =>
                 IF mounted THEN fetch' = Asked \/ (fetch' = fetch /\ fetch.state # "idle")
                            ELSE stale' = TRUE
           /\ fetch' = fetch \/ (fetch' = Asked /\ stale' = stale)
           /\ stale' = stale \/ stale' = TRUE
           /\ fetchFailed' = fetchFailed
<1>1. CASE Refetches(r)
  <2>1. Invalidated
    BY <1>1 DEF Settled
  <2> QED
    BY <1>1, <2>1 DEF Settled, Invalidated
<1>2. CASE ~Refetches(r)
  BY <1>2 DEF Settled, Refetches
<1> QED
  BY <1>1, <1>2

\* StepDue: what is due was written.
LEMMA StepDue == ListsInv /\ ListsNext => DueServed' /\ due' \in 0..MaxWrites
<1> SUFFICES ASSUME ListsInv, ListsNext PROVE due' <= writes' /\ due' \in 0..MaxWrites
  BY DEF DueServed
<1>w. /\ writes' >= writes /\ writes \in Nat /\ writes' \in Nat /\ due \in 0..MaxWrites
      /\ due \in Nat /\ due <= writes
  BY CountsMove, TypedFacts, ListsAssumption DEF ListsInv, DueServed
<1>1. CASE due' = due
  BY <1>1, <1>w
<1>2. CASE \E r \in net : Settled(r)
  <2>1. PICK r \in net : Settled(r)
    BY <1>2
  <2>2. due' \in {due, r.at} /\ r.at \in 0..MaxWrites /\ r.at <= writes
    BY <2>1, SettledEffects, RequestFacts
  <2> QED
    BY <1>w, <2>2, ListsAssumption
<1>3. due' = due \/ \E r \in net : Settled(r)
  BY NetMoves DEF NetStays, NetSends, Send, NetOrphaned, NetSettles, ServerStep, Serve, Lose
<1> QED
  BY <1>1, <1>2, <1>3

\* DueStays: only an answer makes anything due.
LEMMA DueStays ==
    ListsInv /\ ListsNext => due' = due \/ \E r \in net : r.state \in {"served", "failed"} /\ Settled(r)
BY NetMoves DEF NetStays, NetSends, Send, NetOrphaned, NetSettles, ServerStep, Serve, Lose

\* StepRead: a fetch that was read is dropped when something else becomes due.
LEMMA StepRead == ListsInv /\ ListsNext => ReadIsFresh'
<1> SUFFICES ASSUME ListsInv, ListsNext, fetch'.state = "read" PROVE fetch'.at >= due'
  BY DEF ReadIsFresh
<1>r. fetch.state = "read" => fetch.at >= due
  BY DEF ListsInv, ReadIsFresh
<1>1. CASE \E r \in net : r.state \in {"served", "failed"} /\ Settled(r)
  <2>1. PICK r \in net : Settled(r)
    BY <1>1
  <2>2. fetch' = fetch /\ due' = due
    BY <2>1, SettledEffects, FetchStatesOf
  <2> QED
    BY <1>r, <2>2
<1>2. CASE due' = due
  <2>1. CASE fetch' = fetch
    BY <1>2, <1>r, <2>1
  <2>2. CASE ServerReads
    <3>1. fetch'.at = writes
      BY <2>2 DEF ServerReads
    <3>2. due <= writes /\ due \in Nat /\ writes \in Nat
      BY TypedFacts, ListsAssumption DEF ListsInv, DueServed
    <3> QED
      BY <1>2, <3>1, <3>2
  <2>3. CASE fetch' \in {Asked, NoFetch}
    BY <2>3, FetchStatesOf
  <2>4. \/ fetch' = fetch \/ ServerReads \/ fetch' \in {Asked, NoFetch}
        \/ \E r \in net : r.state \in {"served", "failed"} /\ Settled(r)
    BY QueryMoves DEF QueryStays, Asking, Refetch, FetchAnswered, FetchFails, Return, Move
  <2> QED
    BY <1>1, <2>1, <2>2, <2>3, <2>4
<1> QED
  BY <1>1, <1>2, DueStays
\* OpsStay: a request that is not answered is still on its way.
LEMMA OpsStay ==
    ASSUME ListsInv, ListsNext, NEW q \in net
    PROVE  (\E s \in net' : s.op = q.op) \/ NetSettles
<1>1. CASE NetStays \/ NetSends
  BY <1>1 DEF NetStays, NetSends, Send
<1>2. CASE NetOrphaned
  <2>1. [q EXCEPT !.mount = FALSE] \in net'
    BY <1>2 DEF NetOrphaned
  <2> QED
    BY <2>1, RequestFacts, Copies DEF Copied
<1>3. CASE ServerStep
  <2>1. PICK p \in net : Serve(p) \/ Lose(p)
    BY <1>3 DEF ServerStep
  <2>2. p \in Requests
    BY RequestFacts
  <2>3. \E a : net' = (net \ {p}) \cup {a} /\ a.op = p.op
    <3>1. [p EXCEPT !.state = "failed"].op = p.op
      BY <2>2 DEF Requests
    <3>2. [p EXCEPT !.state = "served", !.at = writes'].op = p.op
      BY <2>2 DEF Requests
    <3> QED
      BY <2>1, <3>1, <3>2 DEF Serve, Lose
  <2> QED
    BY <2>3
<1> QED
  BY <1>1, <1>2, <1>3, NetMoves

\* StepCatches: a list that is behind is fetched, or will be.
LEMMA StepCatches == ListsInv /\ ListsNext => CatchesUp'
<1> SUFFICES ASSUME ListsInv, ListsNext, cache'.known, ~stale', ~fetchFailed'
             PROVE  \/ cache'.at >= due'
                    \/ fetch'.state # "idle"
                    \/ \E r \in net' : r.op \in OnSettled
  BY DEF CatchesUp, OnSettled
<1>c. cache.known /\ ~stale /\ ~fetchFailed =>
          \/ cache.at >= due
          \/ fetch.state # "idle"
          \/ \E r \in net : r.op \in OnSettled
  BY DEF ListsInv, CatchesUp
<1>a. CASE fetch' = Asked
  BY <1>a, FetchStatesOf
<1>1. CASE NetSettles /\ fetch' # Asked
  <2>1. PICK r \in net : Settled(r)
    BY <1>1 DEF NetSettles
  <2>2. fetch' = fetch /\ due' = due /\ ~stale /\ ~fetchFailed
    BY <1>1, <2>1, SettledEffects
  <2>3. CASE r.op \in OnSettled
    BY <1>1, <2>1, <2>2, <2>3, SettledEffects
  <2>4. CASE r.op \notin OnSettled
    <3>1. cache' = cache
      BY <2>1, <2>4, SettledEffects DEF OnSettled
    <3>2. net' = net \ {r}
      BY <2>1 DEF Settled
    <3> QED
      BY <1>c, <2>2, <2>4, <3>1, <3>2
  <2> QED
    BY <2>3, <2>4
<1>2. CASE ~NetSettles /\ fetch' # Asked
  <2>1. due' = due
    BY <1>2, DueStays DEF NetSettles
  <2>2. (\E r \in net : r.op \in OnSettled) => \E r \in net' : r.op \in OnSettled
    BY <1>2, OpsStay
  <2>3. CASE QueryStays
    BY <1>c, <2>1, <2>2, <2>3 DEF QueryStays
  <2>4. CASE Asking
    <3>1. CASE Refetch
      BY <1>2, <3>1 DEF Refetch
    <3>2. CASE ServerReads
      BY <3>2 DEF ServerReads
    <3>3. CASE FetchAnswered
      <4>1. cache'.at = fetch.at /\ fetch.state = "read"
        BY <3>3 DEF FetchAnswered
      <4> QED
        BY <2>1, <4>1 DEF ListsInv, ReadIsFresh
    <3>4. CASE FetchFails
      BY <3>4 DEF FetchFails
    <3> QED
      BY <2>4, <3>1, <3>2, <3>3, <3>4 DEF Asking
  <2>5. CASE Return
    <3>1. cache' = cache /\ fetch' = fetch /\ stale' = stale /\ fetchFailed' = fetchFailed
      BY <1>2, <2>5 DEF Return, Unknown
    <3> QED
      BY <1>c, <2>1, <2>2, <3>1
  <2>6. CASE \E i \in Items, column \in Columns : Move(i, column)
    <3>1. PICK i \in Items, column \in Columns : Send(Request("move", i, column))
      BY <2>6 DEF Move
    <3>2. Request("move", i, column) \in net' /\ Request("move", i, column).op \in OnSettled
      BY <3>1 DEF Send, Request, OnSettled
    <3> QED
      BY <3>2
  <2> QED
    BY <1>2, <2>3, <2>4, <2>5, <2>6, QueryMoves DEF NetSettles
<1> QED
  BY <1>a, <1>1, <1>2

\* StepTyped: the server, the query and the page keep their types.
LEMMA StepTyped == ListsInv /\ ListsNext => QueryTyped'
<1> SUFFICES ASSUME ListsInv, ListsNext PROVE QueryTyped'
  OBVIOUS
<1>t. /\ page \in ListPages \cup FilterPages /\ server \in RowSets
      /\ cache \in Caches /\ fetch \in Fetches
  BY DEF ListsInv, QueryTyped
<1>1. page' \in ListPages \cup FilterPages
  BY <1>t, PageStays
<1>2. server' \in RowSets
  <2>v. {"active", "failed", "resolved", "approved", "pending", "draft"} \subseteq Values
    BY DEF Values, Columns
  <2>1. CASE \E r \in net : Serve(r)
    <3>1. PICK r \in net : Serve(r)
      BY <2>1
    <3>2. PICK value \in IF r.op = "upload" THEN {"active", "failed"} ELSE {Effect(r)} :
              server' = [server EXCEPT ![r.item] = value]
      BY <3>1 DEF Serve
    <3>3. r.op \in Calls /\ r.op \notin Unserved /\ (r.op \in {"move", "config"} => r.value \in Values)
      BY <3>1, RequestFacts DEF Serve, RequestFits
    <3>4. value \in Values
      BY <2>v, <3>2, <3>3 DEF Effect, Calls, Unserved
    <3> QED
      BY <1>t, <3>2, <3>4 DEF RowSets
  <2>2. CASE Others
    BY <1>t, <2>v, <2>2 DEF Others, OtherWrites, RowSets
  <2>3. CASE server' = server
    BY <1>t, <2>3
  <2>4. server' = server \/ Others \/ \E r \in net : Serve(r)
    <3>1. CASE Looks \/ Edits \/ Browses
      BY <3>1, LooksAlone DEF Outside, serverVars
    <3>2. CASE Answered
      BY <3>2 DEF Answered, PlainAnswered, UploadAnswered, SaveAnswered, ResolveAnswered, Settled,
         serverVars
    <3>3. CASE Posts \/ Commits \/ Drags
      BY <3>3 DEF Posts, BulkDeprecate, HandleConfirm, HandleUpload, HandleApprove, Approve,
         Commits, PressEnter, ClickSave, BlurTimer, CellUnchanged, Drags, HandleDragEnd, MoveTo,
         Move, Outside, serverVars
    <3>4. CASE Asking \/ ServerStep \/ Leave \/ Return \/ FilterRow
      BY <3>4 DEF Asking, Refetch, ServerReads, FetchAnswered, FetchFails, ServerStep, Lose,
         Leave, Return, FilterRow, Outside, serverVars
    <3> QED
      BY <3>1, <3>2, <3>3, <3>4, Actions
  <2> QED
    BY <2>1, <2>2, <2>3, <2>4
<1>3. fetch' \in Fetches
  <2>1. CASE ServerReads
    <3>1. writes \in 0..MaxWrites
      BY TypedFacts
    <3> QED
      BY <2>1, <1>t, <3>1 DEF ServerReads, Fetches
  <2>2. CASE fetch' \in {fetch, Asked, NoFetch}
    BY <2>2, <1>t, FetchesTyped
  <2>3. fetch' \in {fetch, Asked, NoFetch} \/ ServerReads
    BY QueryMoves, SettledEffects
       DEF QueryStays, Asking, Refetch, FetchAnswered, FetchFails, Return, Move
  <2> QED
    BY <2>1, <2>2, <2>3
<1>4. cache' \in Caches
  <2>1. CASE FetchAnswered
    BY <2>1, <1>t DEF FetchAnswered, Fetches, Caches
  <2>2. CASE \E r \in net : Settled(r)
    <3>1. PICK r \in net : Settled(r)
      BY <2>2
    <3>2. r.before \in Caches /\ cache' \in {cache, r.before}
      BY <3>1, RequestFacts, SettledEffects DEF Requests
    <3> QED
      BY <1>t, <3>2
  <2>3. CASE \E i \in Items, column \in Columns : Move(i, column)
    <3>1. PICK i \in Items, column \in Columns : cache' = [cache EXCEPT !.rows[i] = column]
      BY <2>3 DEF Move
    <3>2. column \in Values
      BY DEF Values
    <3>3. [cache.rows EXCEPT ![i] = column] \in RowSets
      BY <1>t, <3>2 DEF Caches, RowSets
    <3> QED
      BY <1>t, <3>1, <3>3 DEF Caches
  <2>4. CASE cache' \in {cache, Unknown}
    BY <2>4, <1>t, FetchesTyped
  <2>5. \/ FetchAnswered \/ cache' \in {cache, Unknown} \/ \E r \in net : Settled(r)
        \/ \E i \in Items, column \in Columns : Move(i, column)
    BY QueryMoves DEF QueryStays, Asking, Refetch, ServerReads, FetchFails, Return
  <2> QED
    BY <2>1, <2>2, <2>3, <2>4, <2>5
<1> QED
  BY <1>1, <1>2, <1>3, <1>4 DEF QueryTyped
-----------------------------------------------------------------------------
(* The page.                                                               *)

\* DragMoves: a card is taken up on the board only.
LEMMA DragMoves ==
    ListsInv /\ ListsNext =>
        dragged' \in {0, dragged} \/ (page = "tickets" /\ dragged' \in Items)
<1> SUFFICES ASSUME ListsInv, ListsNext
             PROVE  dragged' \in {0, dragged} \/ (page = "tickets" /\ dragged' \in Items)
  OBVIOUS
<1>1. CASE Looks \/ Edits \/ Browses
  BY <1>1 DEF Looks, Edits, Browses, HandleSelectRow, OpenDialog, HandleDragStart,
     SetActiveTicket, HandleSelectAll, ClearDocumentSelection, CloseDialog, HandleFileReady,
     ChooseDetails, CloseModal, SetUploadProgress, StartEdit, TypeDraft, ClickAway, Refocus,
     PressEscape, ClickCancel, CancelEdit, TypeCorrection, GoNext, GoPrev, HandleSkip, SelectItem,
     SetReviewQueueIndex, CellUnchanged, localVars, On
<1>2. CASE Answered
  BY <1>2 DEF Answered, PlainAnswered, UploadAnswered, SaveAnswered, ResolveAnswered
<1>3. CASE Posts \/ Commits \/ Drags
  BY <1>3 DEF Posts, BulkDeprecate, HandleConfirm, HandleUpload, HandleApprove, Approve,
     Commits, PressEnter, ClickSave, BlurTimer, CellUnchanged, Drags, HandleDragEnd, MoveTo
<1>4. CASE Asking \/ ServerStep \/ Leave \/ Return \/ FilterRow \/ Others
  BY <1>4 DEF Asking, Refetch, ServerReads, FetchAnswered, FetchFails, ServerStep, Serve, Lose,
     Leave, Return, FilterRow, Others, OtherWrites, localVars
<1> QED
  BY <1>1, <1>2, <1>3, <1>4, Actions

\* StepDragged: no card is held on another page.
LEMMA StepDragged == ListsInv /\ ListsNext => DraggedOnBoard'
BY DragMoves, PageStays DEF ListsInv, DraggedOnBoard

StoreTyped ==
    /\ selected \subseteq Items /\ progress \in {"none", "sending"}
    /\ activeTicket \in Items \cup {0} /\ dialog \in Items \cup {0}
    /\ modal \in [open : BOOLEAN, filled : BOOLEAN]

\* StepStore: the store of the console and the dialogs keep their types.
LEMMA StepStore == ListsInv /\ ListsNext => StoreTyped'
<1> SUFFICES ASSUME ListsInv, ListsNext PROVE StoreTyped'
  OBVIOUS
<1>s. /\ selected \subseteq Items /\ progress \in {"none", "sending"}
      /\ activeTicket \in Items \cup {0} /\ dialog \in Items \cup {0}
      /\ modal \in [open : BOOLEAN, filled : BOOLEAN]
  BY DEF ListsInv, LocalTyped
<1>m. Modal \in [open : BOOLEAN, filled : BOOLEAN]
  BY DEF Modal
<1>l. Listed \subseteq Items
  BY DEF Listed
<1>1. CASE Looks
  <2>1. selected' \subseteq Items /\ progress' \in {"none", "sending"} /\ activeTicket' \in Items \cup {0}
    BY <1>1, <1>s, <1>l DEF Looks, HandleSelectRow, OpenDialog, HandleDragStart, SetActiveTicket,
       HandleSelectAll, ClearDocumentSelection, CloseDialog, HandleFileReady, ChooseDetails,
       CloseModal, SetUploadProgress, TypeCorrection, storeVars
  <2>2. dialog' \in Items \cup {0}
    BY <1>1, <1>s DEF Looks, HandleSelectRow, OpenDialog, HandleDragStart, SetActiveTicket,
       HandleSelectAll, ClearDocumentSelection, CloseDialog, HandleFileReady, ChooseDetails,
       CloseModal, SetUploadProgress, TypeCorrection, localVars
  <2>3. \/ modal' \in {modal, [modal EXCEPT !.open = TRUE], [modal EXCEPT !.open = FALSE],
                       [modal EXCEPT !.filled = TRUE]}
    BY <1>1 DEF Looks, HandleSelectRow, OpenDialog, HandleDragStart, SetActiveTicket,
       HandleSelectAll, ClearDocumentSelection, CloseDialog, HandleFileReady, ChooseDetails,
       CloseModal, SetUploadProgress, TypeCorrection, localVars
  <2> QED
    BY <1>s, <2>1, <2>2, <2>3 DEF StoreTyped
<1>2. CASE Edits \/ Browses
  BY <1>2, <1>s DEF Edits, Browses, StartEdit, TypeDraft, ClickAway, Refocus, PressEscape,
     ClickCancel, CancelEdit, GoNext, GoPrev, HandleSkip, SelectItem,
     SetReviewQueueIndex, CellUnchanged, storeVars, StoreTyped
<1>3. CASE Posts \/ Commits \/ Drags
  BY <1>3, <1>s DEF Posts, BulkDeprecate, HandleConfirm, HandleUpload, HandleApprove, Approve,
     Commits, PressEnter, ClickSave, BlurTimer, CellUnchanged, Drags, HandleDragEnd, MoveTo,
     storeVars, StoreTyped
<1>4. CASE Asking
  BY <1>4, <1>s DEF Asking, Refetch, ServerReads, FetchAnswered, FetchFails, storeVars, localVars,
     StoreTyped
<1>5. CASE Answered
  BY <1>5, <1>s, <1>m DEF Answered, PlainAnswered, UploadAnswered, SaveAnswered, ResolveAnswered,
     storeVars, StoreTyped
<1>6. CASE ServerStep \/ Leave \/ Return \/ FilterRow \/ Others
  BY <1>6, <1>s, <1>m DEF ServerStep, Serve, Lose, Leave, Return, FilterRow, Others, OtherWrites,
     storeVars, localVars, StoreTyped
<1> QED
  BY <1>1, <1>2, <1>3, <1>4, <1>5, <1>6, Actions

\* CellShapes: what an edit makes of a cell.
LEMMA CellShapes ==
    ASSUME NEW c \in Cells, NEW value \in Values
    PROVE  /\ [c EXCEPT !.editing = FALSE, !.focused = FALSE] \in Cells
           /\ [c EXCEPT !.editing = FALSE, !.focused = FALSE, !.saving = FALSE] \in Cells
           /\ [c EXCEPT !.saving = TRUE, !.focused = FALSE] \in Cells
           /\ [c EXCEPT !.editing = TRUE, !.focused = TRUE, !.draft = value] \in Cells
           /\ [c EXCEPT !.draft = value] \in Cells
           /\ [c EXCEPT !.focused = TRUE] \in Cells
BY DEF Cells

\* CellParts: a cell after a blur, after a click and after its row is gone.
LEMMA CellParts == ListsInv => Blurred \in Cells /\ Pressed \in Cells /\ Unmounted \in Cells
<1> SUFFICES ASSUME ListsInv PROVE Blurred \in Cells /\ Pressed \in Cells /\ Unmounted \in Cells
  OBVIOUS
<1>1. cell \in Cells /\ Captured \in Saves
  BY TypedFacts, Captures
<1>2. Blurred \in Cells
  <2>1. cell.blurred \cup {Captured} \in SUBSET Saves
    BY <1>1 DEF Cells
  <2> QED
    BY <1>1, <2>1 DEF Blurred, Cells
<1>3. Pressed \in Cells
  BY <1>1, <1>2 DEF Pressed
<1>4. Unmounted \in Cells
  <2>1. {[saved EXCEPT !.mount = FALSE] : saved \in Pressed.blurred} \in SUBSET Saves
    BY <1>3 DEF Cells, Saves
  <2>2. Cell \in Cells
    BY DEF Cell, Cells, Values
  <2> QED
    BY <2>1, <2>2 DEF Unmounted, Cells
<1> QED
  BY <1>2, <1>3, <1>4

\* CommitCell: a save leaves a cell.
LEMMA CommitCell ==
    ASSUME NEW c \in Cells, NEW saved, CommitSave(c, saved)
    PROVE  cell' \in Cells
<1>1. "v0" \in Values
  BY DEF Values
<1> QED
  BY <1>1, CellShapes DEF CommitSave

\* StepCell: the cell keeps its type.
LEMMA StepCell == ListsInv /\ ListsNext => cell' \in Cells /\ typed' \in 0..MaxDrafts
<1> SUFFICES ASSUME ListsInv, ListsNext PROVE cell' \in Cells /\ typed' \in 0..MaxDrafts
  OBVIOUS
<1>c. /\ cell \in Cells /\ Blurred \in Cells /\ Pressed \in Cells /\ Unmounted \in Cells
      /\ Rows[1] \in Values
  BY TypedFacts, CellParts DEF RowSets, Items
<1>t. typed \in 0..MaxDrafts /\ MaxDrafts \in 0..2
  BY ListsAssumption DEF ListsInv, LocalTyped
<1>1. CASE Edits
  <2>1. CASE TypeDraft
    <3>1. typed' = typed + 1 /\ typed < MaxDrafts /\ cell' = [cell EXCEPT !.draft = Drafts[typed' + 1]]
      BY <2>1 DEF TypeDraft
    <3>2. typed' \in 0..MaxDrafts /\ typed' + 1 \in {1, 2, 3}
      BY <1>t, <3>1
    <3>3. Drafts[typed' + 1] \in Values
      <4>1. Drafts[1] \in Values /\ Drafts[2] \in Values /\ Drafts[3] \in Values
        BY DEF Drafts, Values
      <4> QED
        BY <3>2, <4>1
    <3> QED
      BY <1>c, <3>1, <3>2, <3>3, CellShapes
  <2>2. CASE StartEdit
    BY <2>2, <1>c, <1>t, CellShapes DEF StartEdit
  <2>3. CASE ClickAway \/ Refocus \/ PressEscape \/ ClickCancel
    BY <2>3, <1>c, <1>t, CellShapes DEF ClickAway, Refocus, PressEscape, ClickCancel, CancelEdit
  <2> QED
    BY <1>1, <2>1, <2>2, <2>3 DEF Edits
<1>2. CASE Commits
  <2>1. typed' = typed
    BY <1>2 DEF Commits, PressEnter, ClickSave, BlurTimer
  <2>2. CASE PressEnter \/ ClickSave
    BY <2>2, <2>1, <1>c, <1>t, CommitCell DEF PressEnter, ClickSave
  <2>3. CASE \E saved \in cell.blurred : BlurTimer(saved)
    <3>1. PICK saved \in cell.blurred : BlurTimer(saved)
      BY <2>3
    <3> DEFINE rest == [cell EXCEPT !.blurred = @ \ {saved}]
    <3>2. rest \in Cells
      BY <1>c DEF Cells
    <3>3. cell' = rest \/ CommitSave(rest, saved)
      BY <3>1 DEF BlurTimer
    <3> HIDE DEF rest
    <3> QED
      BY <1>t, <2>1, <3>2, <3>3, CommitCell
  <2> QED
    BY <1>2, <2>2, <2>3 DEF Commits
<1>3. CASE Answered
  BY <1>3, <1>c, <1>t, CellShapes
     DEF Answered, PlainAnswered, UploadAnswered, SaveAnswered, ResolveAnswered
<1>4. CASE Leave \/ FilterRow
  BY <1>4, <1>c, <1>t DEF Leave, FilterRow
<1>5. CASE cell' = cell /\ typed' = typed
  BY <1>5, <1>c, <1>t
<1>6. CASE Looks \/ Browses
  BY <1>5, <1>6 DEF Looks, Browses, HandleSelectRow, OpenDialog, HandleDragStart, SetActiveTicket,
     HandleSelectAll, ClearDocumentSelection, CloseDialog, HandleFileReady, ChooseDetails,
     CloseModal, SetUploadProgress, TypeCorrection, GoNext, GoPrev, HandleSkip, SelectItem,
     SetReviewQueueIndex, localVars
<1>7. CASE Posts \/ Drags
  BY <1>5, <1>7 DEF Posts, BulkDeprecate, HandleConfirm, HandleUpload, HandleApprove, Approve,
     Drags, HandleDragEnd, MoveTo
<1>8. CASE Asking \/ ServerStep \/ Return \/ Others
  BY <1>5, <1>8 DEF Asking, Refetch, ServerReads, FetchAnswered, FetchFails, ServerStep, Serve,
     Lose, Return, Others, OtherWrites, localVars
<1> QED
  BY <1>1, <1>2, <1>3, <1>4, <1>6, <1>7, <1>8, Actions

\* StepFlags: the flags stay flags.
LEMMA StepFlags == ListsInv /\ ListsNext => FlagsTyped'
<1> SUFFICES ASSUME ListsInv, ListsNext PROVE FlagsTyped'
  OBVIOUS
<1>f. mounted \in BOOLEAN /\ filtered \in BOOLEAN
  BY DEF ListsInv, FlagsTyped
<1>1. CASE Looks \/ Edits \/ Browses
  <2>1. UNCHANGED <<mounted, filtered>>
    BY <1>1, LooksAlone DEF Looks, Edits, Browses, HandleSelectRow, OpenDialog, HandleDragStart,
       SetActiveTicket, HandleSelectAll, ClearDocumentSelection, CloseDialog, HandleFileReady,
       ChooseDetails, CloseModal, SetUploadProgress, StartEdit, TypeDraft, ClickAway, Refocus,
       PressEscape, ClickCancel, CancelEdit, TypeCorrection, GoNext, GoPrev, HandleSkip,
       SelectItem, SetReviewQueueIndex, CellUnchanged, localVars, Outside
  <2> QED
    BY <1>f, <2>1 DEF FlagsTyped
<1>2. CASE Answered
  BY <1>2, <1>f DEF Answered, PlainAnswered, UploadAnswered, SaveAnswered, ResolveAnswered,
     Settled, FlagsTyped
<1>3. CASE Posts \/ Commits \/ Drags
  BY <1>3, <1>f DEF Posts, BulkDeprecate, HandleConfirm, HandleUpload, HandleApprove, Approve,
     Commits, PressEnter, ClickSave, BlurTimer, CellUnchanged, Drags, HandleDragEnd, MoveTo,
     Move, Outside, FlagsTyped
<1>4. CASE Asking \/ ServerStep \/ Leave \/ Return \/ FilterRow \/ Others
  BY <1>4, <1>f DEF Asking, Refetch, ServerReads, FetchAnswered, FetchFails, ServerStep, Serve,
     Lose, Leave, Return, FilterRow, Others, OtherWrites, Outside, localVars, FlagsTyped
<1> QED
  BY <1>1, <1>2, <1>3, <1>4, Actions

-----------------------------------------------------------------------------
(* The correction.                                                         *)

\* ItemsListed: an index stands for an item of the queue, or for none.
LEMMA ItemsListed == \A rows, index : ItemAt(rows, index) \in Items \cup {0}
<1> SUFFICES ASSUME NEW rows, NEW index PROVE ItemAt(rows, index) \in Items \cup {0}
  OBVIOUS
<1> DEFINE P(i) == i \in Pending(rows) /\ IsAt(i, rows, index)
<1>1. CASE \E i \in Pending(rows) : IsAt(i, rows, index)
  <2>1. ItemAt(rows, index) \in Pending(rows)
    BY <1>1 DEF ItemAt
  <2> QED
    BY <2>1 DEF Pending
<1>2. CASE ~\E i \in Pending(rows) : IsAt(i, rows, index)
  BY <1>2 DEF ItemAt
<1> QED
  BY <1>1, <1>2

\* StepCorrection: a correction goes when another item comes on the screen.
LEMMA StepCorrection == ListsInv /\ ListsNext => CorrectionCurrent'
<1> SUFFICES ASSUME ListsInv, ListsNext PROVE correction' \in {0, Current'}
  BY DEF CorrectionCurrent
<1>c. correction \in {0, Current} /\ page' = page
  BY PageStays DEF ListsInv, CorrectionCurrent
<1>o. ~On("review") => Current = 0
  BY DEF Current
<1>1. CASE UNCHANGED <<mounted, cache, reviewIndex>> /\ correction' \in {correction, Current}
  BY <1>1, <1>c DEF Current, On, Rows
<1>2. CASE correction' = 0
  BY <1>2
<1>3. CASE Browses
  <2>1. /\ On("review") /\ UNCHANGED <<mounted, cache>>
        /\ correction' = Redrawn(Rows, reviewIndex')
    BY <1>3 DEF Browses, GoNext, GoPrev, HandleSkip, SelectItem, SetReviewQueueIndex, Outside,
       queryVars
  <2>2. Current' = ItemAt(Rows, reviewIndex')
    BY <2>1, <1>c DEF Current, On, Rows
  <2> QED
    BY <1>c, <2>1, <2>2 DEF Redrawn, On
<1>4. CASE FetchAnswered
  <2>1. /\ correction' = Redrawn(fetch.rows, reviewIndex)
        /\ UNCHANGED <<mounted, reviewIndex>>
        /\ cache'.rows = fetch.rows /\ cache'.known
    BY <1>4 DEF FetchAnswered, storeVars
  <2>2. CASE On("review") \/ (page = "review" /\ mounted)
    <3>1. Current' = ItemAt(fetch.rows, reviewIndex)
      BY <2>1, <2>2, <1>c DEF Current, On, Rows
    <3> QED
      BY <1>c, <2>1, <2>2, <3>1 DEF Redrawn, On
  <2>3. CASE ~On("review")
    BY <1>c, <1>o, <2>1, <2>3 DEF Redrawn
  <2> QED
    BY <2>2, <2>3
<1>5. CASE Answered
  <2>1. PICK r \in net : Settled(r) /\ \/ correction' = correction /\ reviewIndex' = reviewIndex
                                       \/ correction' = Redrawn(Rows, reviewIndex')
    BY <1>5 DEF Answered, Answers, PlainAnswered, UploadAnswered, SaveAnswered, ResolveAnswered,
       storeVars
  <2>2. CASE page = "review"
    <3>1. r.op # "move" /\ cache' = cache /\ mounted' = mounted
      <4>1. r.op # "move"
        BY <2>2, RequestFacts DEF RequestFits
      <4> QED
        BY <2>1, <4>1 DEF Settled
    <3>2. CASE correction' = correction /\ reviewIndex' = reviewIndex
      BY <1>1, <3>1, <3>2
    <3>3. CASE correction' = Redrawn(Rows, reviewIndex')
      <4>1. On("review") => Current' = ItemAt(Rows, reviewIndex')
        BY <3>1, <1>c DEF Current, On, Rows
      <4> QED
        BY <1>c, <1>o, <2>2, <3>3, <4>1 DEF Redrawn
    <3> QED
      BY <2>1, <3>2, <3>3
  <2>3. CASE page # "review"
    BY <1>c, <1>o, <2>1, <2>3 DEF Redrawn, On
  <2> QED
    BY <2>2, <2>3
<1>6. CASE Drags
  <2>1. correction' = correction /\ UNCHANGED <<mounted, reviewIndex>>
    BY <1>6 DEF Drags, HandleDragEnd, MoveTo, Move, Outside, storeVars
  <2>2. cache' = cache \/ page = "tickets"
    BY <1>6, DragSends DEF Outside, queryVars
  <2> QED
    BY <1>1, <1>c, <1>o, <2>1, <2>2 DEF On
<1>7. CASE Return
  <2>1. ~mounted /\ correction' = correction
    BY <1>7 DEF Return, localVars
  <2> QED
    BY <1>c, <1>o, <2>1 DEF On
<1>8. CASE Leave
  BY <1>2, <1>8 DEF Leave
<1>9. CASE Looks \/ Edits
  <2>1. UNCHANGED <<mounted, cache>>
    BY <1>9, LooksAlone DEF Outside, queryVars
  <2>2. reviewIndex' = reviewIndex /\ correction' \in {correction, Current}
    BY <1>9 DEF Looks, Edits, HandleSelectRow, OpenDialog, HandleDragStart,
       SetActiveTicket, HandleSelectAll, ClearDocumentSelection, CloseDialog, HandleFileReady,
       ChooseDetails, CloseModal, SetUploadProgress, StartEdit, TypeDraft, ClickAway, Refocus,
       PressEscape, ClickCancel, CancelEdit, TypeCorrection, CellUnchanged, localVars, storeVars
  <2> QED
    BY <1>1, <2>1, <2>2
<1>10. CASE Posts \/ Commits
  BY <1>1, <1>10 DEF Posts, BulkDeprecate, HandleConfirm, HandleUpload, HandleApprove, Approve,
     Commits, PressEnter, ClickSave, BlurTimer, CellUnchanged, Outside, queryVars, storeVars
<1>11. CASE Refetch \/ ServerReads \/ FetchFails \/ ServerStep \/ FilterRow \/ Others
  BY <1>1, <1>11 DEF Refetch, ServerReads, FetchFails, ServerStep, Serve, Lose,
     FilterRow, Others, OtherWrites, Outside, queryVars, storeVars, localVars
<1> QED
  BY <1>3, <1>4, <1>5, <1>6, <1>7, <1>8, <1>9, <1>10, <1>11, Actions DEF Asking

\* StepLocal: the state of the page keeps its types.
LEMMA StepLocal == ListsInv /\ ListsNext => LocalTyped'
<1> SUFFICES ASSUME ListsInv, ListsNext PROVE LocalTyped'
  OBVIOUS
<1>1. correction' \in Items \cup {0}
  <2>1. Current' \in Items \cup {0}
    BY ItemsListed DEF Current
  <2> QED
    BY <2>1, StepCorrection DEF CorrectionCurrent
<1>2. dragged' \in Items \cup {0}
  BY DragMoves, TypedFacts
<1> QED
  BY <1>1, <1>2, StepStore, StepCell DEF StoreTyped, LocalTyped
-----------------------------------------------------------------------------
(* The lists.                                                              *)

LEMMA InitLists == Init => ListsInv
<1> SUFFICES ASSUME Init PROVE ListsInv
  OBVIOUS
<1>i. page \in ListPages \cup FilterPages /\ ListsInit
  BY DEF Init
<1>0. 0 \in 0..MaxWrites /\ 0 \in 0..MaxDrafts
  BY ListsAssumption
<1>1. QueryTyped
  <2>1. InitialRows(page) \in RowSets
    BY DEF InitialRows, RowSets, Values, Columns
  <2> QED
    BY <1>i, <2>1, FetchesTyped DEF ListsInit, QueryTyped
<1>2. LocalTyped
  <2>1. Cell \in Cells /\ Modal \in [open : BOOLEAN, filled : BOOLEAN]
    BY DEF Cell, Cells, Values, Modal
  <2> QED
    BY <1>i, <1>0, <2>1 DEF ListsInit, LocalTyped
<1>3. FlagsTyped
  BY <1>i DEF ListsInit, FlagsTyped
<1>4. CountsTyped
  BY <1>i, <1>0 DEF ListsInit, CountsTyped
<1>5. RequestsFit /\ OneNumber
  BY <1>i DEF ListsInit, RequestsFit, OneNumber
<1>6. WritesCounted /\ IndexCounted
  <2>1. SentIds = {} /\ ResolveIds = {} /\ writes = 0 /\ reviewIndex = 0 /\ sent = 0
    BY <1>i DEF ListsInit, SentIds, ResolveIds
  <2>2. Cardinality({}) = 0
    BY FS_EmptySet
  <2> QED
    BY <2>1, <2>2, QueueBounded DEF WritesCounted, IndexCounted
<1>7. DueServed /\ ReadIsFresh /\ CatchesUp
  BY <1>i, FetchStatesOf DEF ListsInit, DueServed, ReadIsFresh, CatchesUp, Unknown
<1>8. DraggedOnBoard /\ CorrectionCurrent
  BY <1>i DEF ListsInit, DraggedOnBoard, CorrectionCurrent
<1> QED
  BY <1>1, <1>2, <1>3, <1>4, <1>5, <1>6, <1>7, <1>8 DEF ListsInv

LEMMA StepLists == ListsInv /\ ListsNext => ListsInv'
<1> SUFFICES ASSUME ListsInv, ListsNext PROVE ListsInv'
  OBVIOUS
<1>1. CountsTyped'
  BY CountsMove, StepDue, StepIndex DEF CountsTyped
<1>2. QueryTyped' /\ LocalTyped' /\ FlagsTyped'
  BY StepTyped, StepLocal, StepFlags
<1>3. RequestsFit' /\ OneNumber' /\ WritesCounted' /\ IndexCounted'
  BY StepRequests, StepOneNumber, StepWrites, StepIndex
<1>4. DueServed' /\ ReadIsFresh' /\ CatchesUp'
  BY StepDue, StepRead, StepCatches
<1>5. DraggedOnBoard' /\ CorrectionCurrent'
  BY StepDragged, StepCorrection
<1> QED
  BY <1>1, <1>2, <1>3, <1>4, <1>5 DEF ListsInv

\* ListsStay: the lists are as they were while the filters of another page change.
LEMMA ListsStay == ListsInv /\ UNCHANGED listVars => ListsInv'
<1> SUFFICES ASSUME ListsInv, UNCHANGED listVars PROVE ListsInv'
  OBVIOUS
<1>u. /\ UNCHANGED <<page, mounted, server, writes, cache, fetch, stale, fetchFailed, net, sent, due>>
      /\ UNCHANGED <<selected, reviewIndex, progress, activeTicket, correction, dragged, dialog,
                     modal, cell, filtered, typed>>
  BY DEF listVars, serverVars, queryVars, netVars, storeVars, localVars
<1>1. QueryTyped' /\ LocalTyped' /\ FlagsTyped' /\ CountsTyped'
  BY <1>u DEF ListsInv, QueryTyped, LocalTyped, FlagsTyped, CountsTyped
<1>2. RequestsFit' /\ OneNumber'
  BY <1>u DEF ListsInv, RequestsFit, RequestFits, OneNumber
<1>3. WritesCounted' /\ IndexCounted'
  BY <1>u DEF ListsInv, WritesCounted, IndexCounted, SentIds, ResolveIds, Items
<1>4. DueServed' /\ ReadIsFresh' /\ CatchesUp' /\ DraggedOnBoard'
  BY <1>u DEF ListsInv, DueServed, ReadIsFresh, CatchesUp, DraggedOnBoard
<1>5. CorrectionCurrent'
  BY <1>u DEF ListsInv, CorrectionCurrent, Current, On, Rows
<1> QED
  BY <1>1, <1>2, <1>3, <1>4, <1>5 DEF ListsInv

-----------------------------------------------------------------------------
(* The filters.                                                            *)

\* PagesCount: there is always a first page.
LEMMA PagesCount == \A total \in 0..MaxRows : TotalPages(total) \in Nat /\ TotalPages(total) >= 1
<1> SUFFICES ASSUME NEW total \in 0..MaxRows
             PROVE  TotalPages(total) \in Nat /\ TotalPages(total) >= 1
  OBVIOUS
<1>0. total \in Nat
  BY ConsoleAssumption
<1>1. CASE total <= RowsPerPage
  BY <1>1 DEF TotalPages
<1>2. CASE ~(total <= RowsPerPage)
  <2>1. RowsPerPage \in Nat /\ RowsPerPage > 0 /\ total - 1 \in Nat
    BY <1>0, <1>2, ConsoleAssumption
  <2>2. (total - 1) \div RowsPerPage \in Nat
    BY <2>1
  <2> QED
    BY <1>2, <2>2 DEF TotalPages
<1> QED
  BY <1>1, <1>2

Questions == [a : BOOLEAN, b : BOOLEAN, local : BOOLEAN, pageNo : Pages]

Replies == [known : BOOLEAN, total : 0..MaxRows, wanted : Questions]

\* WantedTyped: what the page wants.
LEMMA WantedTyped ==
    ASSUME NEW f \in Filters, NEW s \in BOOLEAN, NEW n \in Pages
    PROVE  Wanted(f, s, n) \in Questions
BY DEF Filters, Wanted, Questions

\* ConstantsTyped: no filters, no answer.
LEMMA ConstantsTyped ==
    /\ NoFilters \in Filters /\ Nothing \in Replies /\ Nothing.total = 0 /\ ~Nothing.known
    /\ Closed \in [open : BOOLEAN, query : {"none", "typed"}, results : {"none", "some"}]
    /\ 1 \in Pages /\ \A n \in Pages : n \in Nat /\ n >= 1
<1>1. NoFilters \in Filters
  BY DEF NoFilters, Filters
<1>2. FALSE \in BOOLEAN /\ 1 \in Pages /\ 0 \in 0..MaxRows
  BY ConsoleAssumption DEF Pages
<1>3. Wanted(NoFilters, FALSE, 1) \in Questions
  BY <1>1, <1>2, WantedTyped
<1>4. Nothing \in Replies
  BY <1>2, <1>3 DEF Nothing, Replies
<1>5. Nothing.total = 0 /\ ~Nothing.known
  BY DEF Nothing
<1>6. Closed \in [open : BOOLEAN, query : {"none", "typed"}, results : {"none", "some"}]
  BY DEF Closed
<1>7. \A n \in Pages : n \in Nat /\ n >= 1
  BY ConsoleAssumption DEF Pages
<1> QED
  BY <1>1, <1>2, <1>4, <1>5, <1>6, <1>7

\* SoughtTyped: the search of the server is a flag.
LEMMA SoughtTyped ==
    ASSUME FiltersTyped, NEW f \in Filters
    PROVE  Sought(f) \in BOOLEAN /\ Address(f) \in [a : BOOLEAN, b : BOOLEAN]
<1>1. search \in BOOLEAN /\ f.a \in BOOLEAN /\ f.b \in BOOLEAN
  BY DEF FiltersTyped, Filters
<1>2. Sought(f) \in BOOLEAN
  BY <1>1, Zenon DEF Sought
<1>3. (page # "gaps" /\ f.a) \in BOOLEAN
  OBVIOUS
<1> QED
  BY <1>1, <1>2, <1>3 DEF Address

AskedTyped ==
    /\ filters \in Filters /\ search \in BOOLEAN /\ pageNo \in Pages /\ asking \in BOOLEAN
    /\ shown \in Replies /\ offered \in Nat

\* AsksTyped: asking for something else keeps the types.
LEMMA AsksTyped ==
    ASSUME FiltersTyped, NEW f \in Filters, NEW s \in BOOLEAN, NEW n \in Pages, Asks(f, s, n)
    PROVE  AskedTyped'
<1>1. filters' = f /\ search' = s /\ pageNo' = n
  BY DEF Asks
<1>2. asking' \in {asking, TRUE} /\ shown' \in {shown, Nothing} /\ offered' \in {offered, 1}
  BY DEF Asks
<1>3. asking \in BOOLEAN /\ shown \in Replies /\ offered \in Nat
  BY DEF FiltersTyped, Replies, Questions
<1> QED
  BY <1>1, <1>2, <1>3, ConstantsTyped DEF AskedTyped

\* the network brings an answer, or none, or the page asks again
Replied == RefetchPage \/ PageFails \/ \E total \in 0..MaxRows : PageAnswered(total)

\* FiltersSteps: what a step asks for.
LEMMA FiltersSteps ==
    ASSUME FiltersTyped, FiltersNext
    PROVE  \/ UNCHANGED askVars
           \/ Replied
           \/ \E f \in Filters, s \in BOOLEAN, n \in Pages :
                 /\ Asks(f, s, n)
                 /\ page = "audit" =>
                       \/ n = 1
                       \/ ~hydrated /\ n = pageNo
                       \/ /\ f.b = filters.b /\ s = search
                          /\ n = pageNo \/ n \in 1..TotalPages(shown.total)
<1> DEFINE Fits(f, s, n) ==
             page = "audit" => \/ n = 1
                               \/ ~hydrated /\ n = pageNo
                               \/ /\ f.b = filters.b /\ s = search
                                  /\ n = pageNo \/ n \in 1..TotalPages(shown.total)
<1>t. /\ filters \in Filters /\ search \in BOOLEAN /\ pageNo \in Pages /\ 1 \in Pages
      /\ url.a \in BOOLEAN /\ url.b \in BOOLEAN
  BY ConstantsTyped DEF FiltersTyped
<1>f. /\ filters.a \in BOOLEAN /\ filters.b \in BOOLEAN /\ filters.local \in BOOLEAN
      /\ [filters EXCEPT !.a = ~@] \in Filters /\ [filters EXCEPT !.b = ~@] \in Filters
      /\ [filters EXCEPT !.local = ~@] \in Filters /\ [filters EXCEPT !.local = ~@].b = filters.b
      /\ [filters EXCEPT !.a = @ \/ url.a, !.b = @ \/ url.b] \in Filters
  BY <1>t DEF Filters
<1> SUFFICES ASSUME ~UNCHANGED askVars, ~Replied
             PROVE  \E f \in Filters, s \in BOOLEAN, n \in Pages : Asks(f, s, n) /\ Fits(f, s, n)
  OBVIOUS
<1>1. CASE Hydrate
  <2> DEFINE f == [filters EXCEPT !.a = @ \/ url.a, !.b = @ \/ url.b]
  <2>1. Asks(f, Sought(f), pageNo) /\ ~hydrated
    BY <1>1 DEF Hydrate
  <2>2. f \in Filters /\ Sought(f) \in BOOLEAN
    BY <1>f, SoughtTyped
  <2> HIDE DEF f
  <2> QED
    BY <1>t, <2>1, <2>2
<1>2. CASE \E f \in {g \in Filters : g.local = filters.local /\ g # filters} :
              SetAuditFilters(f) \/ SetGapsFilters(f)
  <2>1. PICK f \in Filters : Asks(f, Sought(f), 1)
    BY <1>2 DEF SetAuditFilters, SetGapsFilters
  <2> QED
    BY <1>t, <2>1, SoughtTyped
<1>3. CASE SetLocalFilter \/ SetIncludeArchived
  <2>1. Asks([filters EXCEPT !.local = ~@], search, pageNo)
    BY <1>3 DEF SetLocalFilter, SetIncludeArchived
  <2> QED
    BY <1>t, <1>f, <2>1
<1>4. CASE SetSearch \/ SetEntryFilter \/ ClearFilters \/ Debounced
  <2>1. page = "entries"
    BY <1>4 DEF SetSearch, SetEntryFilter, ClearFilters, Debounced
  <2>2. \E f \in Filters, s \in BOOLEAN, n \in Pages : Asks(f, s, n)
    <3>1. CASE SetSearch
      BY <1>t, <1>f, <3>1 DEF SetSearch
    <3>2. CASE SetEntryFilter
      BY <1>t, <1>f, <3>2 DEF SetEntryFilter
    <3>3. CASE ClearFilters
      BY <1>t, <3>3, ConstantsTyped DEF ClearFilters
    <3>4. CASE Debounced
      BY <1>t, <1>f, <3>4 DEF Debounced
    <3> QED
      BY <1>4, <3>1, <3>2, <3>3, <3>4
  <2> QED
    BY <2>1, <2>2
<1>5. CASE \E n \in Pages : OnPageChange(n)
  <2>1. PICK n \in Pages : /\ Asks(filters, search, n)
                           /\ page = "audit" => n \in 1..TotalPages(shown.total)
    BY <1>5 DEF OnPageChange
  <2>2. Fits(filters, search, n)
    BY <2>1
  <2> HIDE DEF Fits
  <2> QED
    BY <1>t, <2>1, <2>2
<1>6. CASE ToggleCoverage \/ TypeQuery \/ CoverageAnswered \/ OpenResult
  BY <1>6 DEF ToggleCoverage, TypeQuery, CoverageAnswered, OpenResult
<1> QED
  BY <1>1, <1>2, <1>3, <1>4, <1>5, <1>6 DEF FiltersNext, Replied

\* StepFilters: filters, answers and the address keep their types.
LEMMA StepFilters == FiltersTyped /\ FiltersNext => FiltersTyped'
<1> SUFFICES ASSUME FiltersTyped, FiltersNext PROVE FiltersTyped'
  OBVIOUS
<1>t. /\ filters \in Filters /\ search \in BOOLEAN /\ pageNo \in Pages /\ asking \in BOOLEAN
      /\ shown \in Replies /\ offered \in Nat
      /\ url \in [a : BOOLEAN, b : BOOLEAN] /\ hydrated \in BOOLEAN
      /\ coverage \in [open : BOOLEAN, query : {"none", "typed"}, results : {"none", "some"}]
  BY DEF FiltersTyped, Replies, Questions
<1>1. AskedTyped'
  <2>1. CASE UNCHANGED askVars
    BY <1>t, <2>1 DEF AskedTyped, askVars
  <2>2. CASE RefetchPage \/ PageFails
    BY <1>t, <2>2, ConstantsTyped DEF RefetchPage, PageFails, AskedTyped
  <2>4. CASE \E total \in 0..MaxRows : PageAnswered(total)
    <3>1. PICK total \in 0..MaxRows : PageAnswered(total)
      BY <2>4
    <3>2. [known |-> TRUE, wanted |-> Wanted(filters, search, pageNo), total |-> total] \in Replies
      BY <1>t, WantedTyped DEF Replies
    <3>3. TotalPages(total) \in Nat
      BY PagesCount
    <3> QED
      BY <1>t, <3>1, <3>2, <3>3 DEF PageAnswered, AskedTyped
  <2>3. CASE \E f \in Filters, s \in BOOLEAN, n \in Pages : Asks(f, s, n)
    BY <2>3, AsksTyped
  <2> QED
    BY <2>1, <2>2, <2>3, <2>4, FiltersSteps DEF Replied
<1>2. url' \in [a : BOOLEAN, b : BOOLEAN]
  <2>1. url' \in {url, [a |-> TRUE, b |-> FALSE]} \/ \E f \in Filters : url' = Address(f)
    <3>1. CASE \E f \in {g \in Filters : g.local = filters.local /\ g # filters} :
                  SetAuditFilters(f) \/ SetGapsFilters(f)
      BY <3>1 DEF SetAuditFilters, SetGapsFilters
    <3>2. CASE Hydrate \/ SetLocalFilter \/ SetIncludeArchived \/ Debounced
      BY <1>t, <3>2 DEF Hydrate, SetLocalFilter, SetIncludeArchived, Debounced
    <3>3. CASE SetSearch \/ SetEntryFilter \/ ClearFilters
      <4>1. /\ [filters EXCEPT !.a = ~@] \in Filters /\ [filters EXCEPT !.b = ~@] \in Filters
            /\ NoFilters \in Filters
        BY <1>t, ConstantsTyped DEF Filters
      <4> QED
        BY <3>3, <4>1 DEF SetSearch, SetEntryFilter, ClearFilters
    <3>4. CASE \/ \E n \in Pages : OnPageChange(n)
               \/ Replied \/ ToggleCoverage \/ TypeQuery \/ CoverageAnswered \/ OpenResult
      BY <3>4 DEF OnPageChange, Replied, RefetchPage, PageAnswered, PageFails, ToggleCoverage,
         TypeQuery, CoverageAnswered, OpenResult
    <3> QED
      BY <3>1, <3>2, <3>3, <3>4 DEF FiltersNext, Replied
  <2>2. [a |-> TRUE, b |-> FALSE] \in [a : BOOLEAN, b : BOOLEAN]
    OBVIOUS
  <2>3. \A f \in Filters : Address(f) \in [a : BOOLEAN, b : BOOLEAN]
    BY SoughtTyped
  <2> QED
    BY <1>t, <2>1, <2>2, <2>3, Zenon
<1>3. hydrated' \in BOOLEAN
  BY <1>t DEF FiltersNext, Hydrate, SetAuditFilters, SetGapsFilters, SetLocalFilter, SetSearch,
     SetEntryFilter, SetIncludeArchived, ClearFilters, Debounced, OnPageChange, RefetchPage,
     PageAnswered, PageFails, ToggleCoverage, TypeQuery, CoverageAnswered, OpenResult
<1>4. coverage' \in [open : BOOLEAN, query : {"none", "typed"}, results : {"none", "some"}]
  <2>1. CASE coverage' = coverage
    BY <1>t, <2>1
  <2>2. CASE ToggleCoverage
    BY <2>2, ConstantsTyped DEF ToggleCoverage
  <2>3. CASE TypeQuery \/ CoverageAnswered \/ OpenResult
    BY <1>t, <2>3 DEF TypeQuery, CoverageAnswered, OpenResult
  <2>4. coverage' = coverage \/ ToggleCoverage \/ TypeQuery \/ CoverageAnswered \/ OpenResult
    BY DEF FiltersNext, Hydrate, SetAuditFilters, SetGapsFilters, SetLocalFilter, SetSearch,
       SetEntryFilter, SetIncludeArchived, ClearFilters, Debounced, OnPageChange, RefetchPage,
       PageAnswered, PageFails
  <2> QED
    BY <2>1, <2>2, <2>3, <2>4
<1> QED
  BY <1>1, <1>2, <1>3, <1>4 DEF AskedTyped, Replies, Questions, FiltersTyped

\* HydratedStays: the effects of the mount run once.
LEMMA HydratedStays == FiltersNext /\ hydrated => hydrated'
BY DEF FiltersNext, Hydrate, SetAuditFilters, SetGapsFilters, SetLocalFilter, SetSearch,
   SetEntryFilter, SetIncludeArchived, ClearFilters, Debounced, OnPageChange, RefetchPage,
   PageAnswered, PageFails, ToggleCoverage, TypeQuery, CoverageAnswered, OpenResult

\* HydratedFirst: before them the page stays as it is.
LEMMA HydratedFirst == FiltersNext => hydrated' \/ pageNo' = pageNo \/ pageNo' = 1
BY DEF FiltersNext, Hydrate, Asks, SetAuditFilters, SetGapsFilters, SetLocalFilter, SetSearch,
   SetEntryFilter, SetIncludeArchived, ClearFilters, Debounced, OnPageChange, RefetchPage,
   PageAnswered, PageFails, ToggleCoverage, TypeQuery, CoverageAnswered, OpenResult, askVars,
   Change

\* SameQuestion: the pages of the audit trail differ by the badge and the range alone.
LEMMA SameQuestion ==
    ASSUME page = "audit", NEW f, NEW s, f.b = filters.b, s = search
    PROVE  Wanted(f, s, 1) = Wanted(filters, search, 1)
BY DEF Wanted

\* StepAudit: filters lead to a first page, the buttons to a page that was offered.
LEMMA StepAudit == FiltersTyped /\ AuditAsked /\ FiltersNext /\ page' = page => AuditAsked'
<1> SUFFICES ASSUME FiltersTyped, AuditAsked, FiltersNext, page' = page, page = "audit"
             PROVE  /\ pageNo' <= offered'
                    /\ IF shown'.known THEN TotalPages(shown'.total) <= offered'
                                      ELSE shown' = Nothing'
                    /\ hydrated' \/ pageNo' = 1
  BY DEF AuditAsked, TotalPages
<1>a. /\ pageNo <= offered
      /\ IF shown.known THEN TotalPages(shown.total) <= offered ELSE shown = Nothing
      /\ hydrated \/ pageNo = 1
  BY DEF AuditAsked
<1>n. Nothing' = Nothing
  BY DEF Nothing, Wanted
<1>p. /\ offered \in Nat /\ offered >= 1 /\ TotalPages(Nothing.total) = 1
      /\ TotalPages(shown.total) \in Nat
  <2>1. offered \in Nat /\ pageNo \in Nat /\ pageNo >= 1
    BY ConstantsTyped DEF FiltersTyped
  <2>2. TotalPages(0) = 1
    BY ConsoleAssumption DEF TotalPages
  <2>3. shown.total \in 0..MaxRows
    BY DEF FiltersTyped
  <2> QED
    BY <1>a, <2>1, <2>2, <2>3, ConstantsTyped, PagesCount
<1>h. hydrated' \/ pageNo' = 1
  BY <1>a, HydratedStays, HydratedFirst
<1>1. CASE UNCHANGED askVars
  BY <1>1, <1>a, <1>n, <1>h DEF askVars
<1>2. CASE RefetchPage \/ PageFails
  BY <1>2, <1>a, <1>n, <1>h DEF RefetchPage, PageFails
<1>3. CASE \E total \in 0..MaxRows : PageAnswered(total)
  <2>1. PICK total \in 0..MaxRows : PageAnswered(total)
    BY <1>3
  <2>2. TotalPages(total) \in Nat
    BY PagesCount
  <2>3. /\ pageNo' = pageNo /\ shown'.known /\ shown'.total = total
        /\ offered' = IF TotalPages(total) > offered THEN TotalPages(total) ELSE offered
    BY <2>1 DEF PageAnswered
  <2>4. offered' >= offered /\ offered' >= TotalPages(total) /\ offered' \in Nat
    BY <1>p, <2>2, <2>3
  <2>5. pageNo' <= offered'
    <3>1. pageNo \in Nat
      BY ConstantsTyped DEF FiltersTyped
    <3> QED
      BY <1>a, <1>p, <2>3, <2>4, <3>1
  <2> QED
    BY <1>h, <2>2, <2>3, <2>4, <2>5
<1>4. CASE \E f \in Filters, s \in BOOLEAN, n \in Pages :
              /\ Asks(f, s, n)
              /\ \/ n = 1
                 \/ ~hydrated /\ n = pageNo
                 \/ /\ f.b = filters.b /\ s = search
                    /\ n = pageNo \/ n \in 1..TotalPages(shown.total)
  <2>1. PICK f \in Filters, s \in BOOLEAN, n \in Pages :
              /\ Asks(f, s, n)
              /\ \/ n = 1
                 \/ ~hydrated /\ n = pageNo
                 \/ /\ f.b = filters.b /\ s = search
                    /\ n = pageNo \/ n \in 1..TotalPages(shown.total)
    BY <1>4
  <2>2. /\ pageNo' = n /\ offered' \in {offered, 1}
        /\ Wanted(f, s, 1) = Wanted(filters, search, 1) => offered' = offered
    BY <2>1 DEF Asks
  <2>3. n \in Nat /\ n >= 1
    BY ConstantsTyped
  <2>4. IF shown'.known THEN TotalPages(shown'.total) <= offered' ELSE shown' = Nothing
    <3>1. CASE Wanted(f, s, n) = Wanted(filters, search, pageNo)
      <4>1. f.b = filters.b /\ s = search /\ shown' = shown
        BY <2>1, <3>1 DEF Wanted, Asks
      <4> QED
        BY <1>a, <2>2, <4>1, SameQuestion
    <3>2. CASE Wanted(f, s, n) # Wanted(filters, search, pageNo)
      BY <2>1, <3>2, ConstantsTyped DEF Asks
    <3> QED
      BY <3>1, <3>2
  <2>5. n <= offered'
    <3>1. CASE n = 1 \/ (~hydrated /\ n = pageNo)
      BY <1>a, <1>p, <2>2, <3>1
    <3>2. CASE /\ f.b = filters.b /\ s = search
               /\ n = pageNo \/ n \in 1..TotalPages(shown.total)
      <4>1. offered' = offered
        BY <2>2, <3>2, SameQuestion
      <4>2. TotalPages(shown.total) <= offered
        BY <1>a, <1>p
      <4> QED
        BY <1>a, <1>p, <2>3, <3>2, <4>1, <4>2
    <3> QED
      BY <2>1, <3>1, <3>2, Zenon
  <2> QED
    BY <1>n, <1>h, <2>2, <2>4, <2>5
<1> QED
  BY <1>1, <1>2, <1>3, <1>4, FiltersSteps DEF Replied

\* FiltersStay: filters are as they were while a list of another page changes.
LEMMA FiltersStay == FiltersTyped /\ UNCHANGED filterVars => FiltersTyped'
BY DEF FiltersTyped, filterVars, askVars

-----------------------------------------------------------------------------
(* The console.                                                            *)

LEMMA ConsoleInit == Init => ConsoleInv
<1> SUFFICES ASSUME Init PROVE ConsoleInv
  OBVIOUS
<1>1. /\ search \in BOOLEAN /\ url \in [a : BOOLEAN, b : BOOLEAN] /\ filters \in Filters
      /\ asking \in BOOLEAN
  <2>1. CASE page \in FilterPages
    <3>1. FiltersInit
      BY <2>1 DEF Init
    <3>2. search \in BOOLEAN
      BY <3>1 DEF FiltersInit
    <3> QED
      BY <3>1, <3>2 DEF FiltersInit
  <2>2. CASE page \notin FilterPages
    <3>1. /\ url = [a |-> FALSE, b |-> FALSE] /\ filters = NoFilters /\ search = FALSE
          /\ asking = FALSE
      BY <2>2 DEF Init
    <3>2. [a |-> FALSE, b |-> FALSE] \in [a : BOOLEAN, b : BOOLEAN]
      OBVIOUS
    <3> QED
      BY <3>1, <3>2, ConstantsTyped
  <2> QED
    BY <2>1, <2>2
<1>2. /\ pageNo = 1 /\ hydrated = FALSE /\ shown = Nothing /\ coverage = Closed
      /\ offered = 1
  BY DEF Init, FiltersInit
<1>3. FiltersTyped
  BY <1>1, <1>2, ConstantsTyped DEF FiltersTyped, Replies, Questions
<1>4. AuditAsked
  BY <1>2, ConstantsTyped DEF AuditAsked
<1> QED
  BY <1>3, <1>4, InitLists DEF ConsoleInv

LEMMA ConsoleStep == ConsoleInv /\ [Next]_vars => ConsoleInv'
<1> SUFFICES ASSUME ConsoleInv, [Next]_vars PROVE ConsoleInv'
  OBVIOUS
<1>i. ListsInv /\ FiltersTyped /\ AuditAsked
  BY DEF ConsoleInv
<1>1. CASE page \in ListPages /\ ListsNext /\ UNCHANGED filterVars
  <2>1. AuditAsked'
    <3>1. page' # "audit"
      BY <1>1, PageStays DEF ListPages
    <3> QED
      BY <3>1 DEF AuditAsked
  <2> QED
    BY <1>i, <1>1, <2>1, StepLists, FiltersStay DEF ConsoleInv
<1>2. CASE FiltersNext /\ UNCHANGED listVars
  <2>1. page' = page
    BY <1>2 DEF listVars
  <2> QED
    BY <1>i, <1>2, <2>1, ListsStay, StepFilters, StepAudit DEF ConsoleInv
<1>3. CASE UNCHANGED vars
  <2>1. UNCHANGED listVars /\ UNCHANGED filterVars
    BY <1>3 DEF vars
  <2>2. AuditAsked'
    BY <1>i, <2>1 DEF AuditAsked, TotalPages, Wanted, Nothing, listVars, filterVars, askVars
  <2> QED
    BY <1>i, <2>1, <2>2, ListsStay, FiltersStay DEF ConsoleInv
<1> QED
  BY <1>1, <1>2, <1>3 DEF Next

LEMMA ConsoleTyped == ConsoleInv => ConsoleTypeOK
<1> SUFFICES ASSUME ConsoleInv PROVE ConsoleTypeOK
  OBVIOUS
<1>i. ListsInv /\ FiltersTyped
  BY DEF ConsoleInv
<1>1. /\ page \in ListPages \cup {"entries", "audit", "gaps"} /\ mounted \in BOOLEAN
      /\ server \in [Items -> Values] /\ writes \in 0..MaxWrites
      /\ cache \in [known : BOOLEAN, rows : [Items -> Values], at : 0..MaxWrites]
      /\ fetch \in [state : {"idle", "asked", "read"}, rows : [Items -> Values], at : 0..MaxWrites]
  BY <1>i DEF ListsInv, QueryTyped, FlagsTyped, CountsTyped, FilterPages, RowSets, Caches, Fetches
<1>2. /\ selected \subseteq Items /\ progress \in {"none", "sending"} /\ activeTicket \in Items \cup {0}
      /\ correction \in Items \cup {0} /\ dragged \in Items \cup {0}
      /\ dialog \in Items \cup {0} /\ filtered \in BOOLEAN /\ modal \in [open : BOOLEAN, filled : BOOLEAN]
  BY <1>i DEF ListsInv, LocalTyped, FlagsTyped
<1>3. reviewIndex \in 0..(Cardinality(Items) + MaxWrites)
  <2>1. /\ reviewIndex + Cardinality(ResolveIds) <= Cardinality(Items) + sent
        /\ reviewIndex \in Nat /\ sent \in 0..MaxWrites
    BY <1>i, TypedFacts DEF ListsInv, IndexCounted
  <2>2. Cardinality(ResolveIds) \in Nat
    BY <1>i, IdsFinite, FS_CardinalityType
  <2> QED
    BY <2>1, <2>2, QueueBounded, ListsAssumption
<1>4. \A r \in net : r.op \in Calls /\ r.id \in 1..sent
  <2> SUFFICES ASSUME NEW r \in net PROVE r.op \in Calls /\ r.id \in 1..sent
    OBVIOUS
  <2>1. r.op \in Calls /\ r.id \in 1..MaxWrites /\ r.id <= sent /\ sent \in 0..MaxWrites
    BY <1>i, RequestFacts, TypedFacts
  <2> QED
    BY <2>1, ListsAssumption
<1> QED
  BY <1>i, <1>1, <1>2, <1>3, <1>4 DEF FiltersTyped, ListsTypeOK, ConsoleTypeOK

\* ConsoleTypes: pages, requests, counts and filters stay in their ranges; in
\* particular the index of the review queue is not past the items and the
\* answers that took it on.
THEOREM ConsoleTypes == Spec => []ConsoleTypeOK
<1>1. Init => ConsoleInv
  BY ConsoleInit
<1>2. ConsoleInv /\ [Next]_vars => ConsoleInv'
  BY ConsoleStep
<1>3. ConsoleInv => ConsoleTypeOK
  BY ConsoleTyped
<1> QED
  BY <1>1, <1>2, <1>3, PTL DEF Spec

\* ListSafety: for any number of requests whose answers, losses and refetches
\* overlap, a list that is at rest shows every write answered on it, and a
\* correction is sent for the item it was typed for.
THEOREM ListSafety == Spec => [](AnsweredWritesShown /\ CorrectionFitsItem)
<1>1. Init => ConsoleInv
  BY ConsoleInit
<1>2. ConsoleInv /\ [Next]_vars => ConsoleInv'
  BY ConsoleStep
<1>3. ConsoleInv => AnsweredWritesShown /\ CorrectionFitsItem
  <2> SUFFICES ASSUME ConsoleInv PROVE AnsweredWritesShown /\ CorrectionFitsItem
    OBVIOUS
  <2>1. CatchesUp /\ RequestsFit
    BY DEF ConsoleInv, ListsInv
  <2>2. AnsweredWritesShown
    BY <2>1 DEF CatchesUp, AnsweredWritesShown
  <2>3. CorrectionFitsItem
    BY <2>1 DEF RequestsFit, RequestFits, CorrectionFitsItem
  <2> QED
    BY <2>2, <2>3
<1> QED
  BY <1>1, <1>2, <1>3, PTL DEF Spec

\* AuditSafety: for any size of a page and any number of rows that come or grow too old,
\* the audit trail is on a page that an answer to its present filters has had, whatever
\* filters change under an answer that is still awaited.
THEOREM AuditSafety == Spec => []AuditPageOffered
<1>1. Init => ConsoleInv
  BY ConsoleInit
<1>2. ConsoleInv /\ [Next]_vars => ConsoleInv'
  BY ConsoleStep
<1>3. ConsoleInv => AuditPageOffered
  BY DEF ConsoleInv, AuditAsked, AuditPageOffered
<1> QED
  BY <1>1, <1>2, <1>3, PTL DEF Spec
==============================================================================
