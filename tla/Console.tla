-------------------------------- MODULE Console --------------------------------
(***************************************************************************)
(* The admin console: the pages of AdminLists, and those that only look    *)
(* through a list of the server by filters, a page at a time: the Quick    *)
(* Entry list, the audit trail and the knowledge gaps.  One page is on the *)
(* screen.                                                                 *)
(*                                                                         *)
(* A filter is set or not: a is the search (entries, gaps) or the badge,   *)
(* b the module, type and status, or the range of days; local is what      *)
(* shows archived entries (entries), a type of request (audit) or a hidden *)
(* gap (gaps).                                                             *)
(***************************************************************************)
EXTENDS AdminLists

CONSTANTS
    RowsPerPage,
    MaxRows,            \* bounds: rows that a filter matches,
    MaxChanges          \* changes of filters and pages

ASSUME ConsoleAssumption == RowsPerPage \in Nat \ {0} /\ MaxRows \in Nat /\ MaxChanges \in Nat

FilterPages == {"entries", "audit", "gaps"}

Filters == [a : BOOLEAN, b : BOOLEAN, local : BOOLEAN]

NoFilters == [a |-> FALSE, b |-> FALSE, local |-> FALSE]

VARIABLES
    filters,            \* what the controls show
    search,             \* the search after its pause
    pageNo,
    url,                \* the filters in the address
    hydrated,           \* the effects of the mount have run
    shown,              \* the answer on the screen: what was asked, and the total
    asking,             \* a fetch of what the page wants is under way
    offered,            \* the most pages an answer to these filters has had
    coverage,           \* the search for existing knowledge
    changes

askVars == <<filters, search, pageNo, shown, asking, offered>>
filterVars == <<askVars, url, hydrated, coverage, changes>>
vars == <<listVars, filterVars>>

TotalPages(total) == IF total <= RowsPerPage THEN 1 ELSE ((total - 1) \div RowsPerPage) + 1

Pages == 1..(MaxRows + 1)

\* What the page asks for: what is filtered in the browser is not in it.
Wanted(f, s, n) ==
    [a |-> s, b |-> f.b, local |-> page = "entries" /\ f.local, pageNo |-> n]

Nothing == [known |-> FALSE, wanted |-> Wanted(NoFilters, FALSE, 1), total |-> 0]

HasRows(answer) == answer.total > RowsPerPage * (answer.wanted.pageNo - 1)

\* The audit trail does not show an answer for other filters, the Quick Entry
\* list shows the last one until the next is there.
Asks(f, s, n) ==
    /\ filters' = f /\ search' = s /\ pageNo' = n
    /\ IF Wanted(f, s, n) = Wanted(filters, search, pageNo) THEN UNCHANGED <<shown, asking>>
       ELSE /\ asking' = TRUE
            /\ shown' = IF page = "entries" THEN shown ELSE Nothing
    /\ offered' = IF Wanted(f, s, 1) = Wanted(filters, search, 1) THEN offered ELSE 1

\* The gaps are searched in the browser, and their search is not in the address.
Sought(f) == IF page = "entries" THEN search ELSE page = "audit" /\ f.a

Address(f) == [a |-> page # "gaps" /\ f.a, b |-> f.b]

Closed == [open |-> FALSE, query |-> "none", results |-> "none"]

\* The page is loaded with an address, or reached by a link that has none while
\* the store has filters of before.
FiltersInit ==
    /\ url \in [a : BOOLEAN, b : BOOLEAN] /\ (page = "gaps" => ~url.a)
    /\ filters \in Filters /\ filters.local = FALSE
    /\ search = (page # "gaps" /\ filters.a)
    /\ IF page = "entries" THEN filters.a = url.a /\ filters.b = url.b
       ELSE url = [a |-> FALSE, b |-> FALSE] \/ filters = NoFilters
    /\ pageNo = 1 /\ hydrated = FALSE
    /\ shown = Nothing /\ asking = TRUE /\ offered = 1 /\ coverage = Closed /\ changes = 0

\* The effects of the mount: what the address has is applied to the filters,
\* and if it has nothing the filters are written to it.
Hydrate ==
    /\ ~hydrated /\ hydrated' = TRUE
    /\ IF url.a \/ url.b
       THEN /\ UNCHANGED url
            /\ LET f == [filters EXCEPT !.a = @ \/ url.a, !.b = @ \/ url.b]
               IN  Asks(f, Sought(f), pageNo)
       ELSE url' = Address(filters) /\ UNCHANGED askVars
    /\ UNCHANGED <<coverage, changes>>

Change == hydrated /\ changes < MaxChanges /\ changes' = changes + 1

\* A mutant: the page number stays when a filter of the audit trail changes.
Mut_SetAuditFilters(f) ==
    /\ page = "audit" /\ Change
    /\ Asks(f, Sought(f), pageNo)
    /\ url' = Address(f) /\ UNCHANGED <<hydrated, coverage>>

\* The range and the badge of the audit trail go back to its first page.
SetAuditFilters(f) ==
    /\ page = "audit" /\ Change
    /\ Asks(f, Sought(f), 1)
    /\ url' = Address(f) /\ UNCHANGED <<hydrated, coverage>>

\* The range of the gaps is fetched, the search is done in the browser.
SetGapsFilters(f) ==
    /\ page = "gaps" /\ Change
    /\ Asks(f, Sought(f), 1)
    /\ url' = Address(f) /\ UNCHANGED <<hydrated, coverage>>

\* The type of request; a gap that is hidden.
SetLocalFilter ==
    /\ page \in {"audit", "gaps"} /\ Change
    /\ Asks([filters EXCEPT !.local = ~@], search, pageNo)
    /\ UNCHANGED <<url, hydrated, coverage>>

\* The search of the Quick Entry list waits for a pause, its other filters do
\* not.  The page number follows the filters, but not the box for archived
\* entries.
SetSearch ==
    /\ page = "entries" /\ Change
    /\ LET f == [filters EXCEPT !.a = ~@]
       IN  Asks(f, search, pageNo) /\ url' = Address(f)
    /\ UNCHANGED <<hydrated, coverage>>

SetEntryFilter ==
    /\ page = "entries" /\ Change
    /\ LET f == [filters EXCEPT !.b = ~@]
       IN  Asks(f, search, 1) /\ url' = Address(f)
    /\ UNCHANGED <<hydrated, coverage>>

SetIncludeArchived ==
    /\ page = "entries" /\ Change
    /\ Asks([filters EXCEPT !.local = ~@], search, pageNo)
    /\ UNCHANGED <<url, hydrated, coverage>>

ClearFilters ==
    /\ page = "entries" /\ Change
    /\ filters.local \/ search \/ filters.b
    /\ Asks(NoFilters, search, IF filters.b THEN 1 ELSE pageNo)
    /\ url' = Address(NoFilters) /\ UNCHANGED <<hydrated, coverage>>

Debounced ==
    /\ page = "entries" /\ hydrated /\ search # filters.a
    /\ Asks(filters, filters.a, 1)
    /\ UNCHANGED <<url, hydrated, coverage, changes>>

\* The audit trail has its buttons below the table, and no table when there is no row on
\* the page; the type of request may hide those there are.
TableShown == IF shown.known THEN HasRows(shown) ELSE asking

\* The buttons go by the total of the answer on the screen.
OnPageChange(n) ==
    /\ Change /\ n # pageNo
    /\ \/ page = "entries" /\ shown.known /\ TotalPages(shown.total) > 1
          /\ \/ n = pageNo + 1 /\ pageNo < TotalPages(shown.total)
             \/ n = pageNo - 1 /\ n > 0
       \/ page = "audit" /\ TableShown /\ n \in 1..TotalPages(shown.total)
    /\ Asks(filters, search, n)
    /\ UNCHANGED <<url, hydrated, coverage>>

\* The network is back, or a cached answer is too old.
RefetchPage ==
    /\ ~asking /\ asking' = TRUE
    /\ UNCHANGED <<filters, search, pageNo, shown, offered, url, hydrated, coverage, changes>>

\* The total is what the filters match at that moment: rows come, and those of a range
\* of days grow too old.
PageAnswered(total) ==
    /\ asking /\ asking' = FALSE
    /\ shown' = [known |-> TRUE, wanted |-> Wanted(filters, search, pageNo), total |-> total]
    /\ offered' = IF TotalPages(total) > offered THEN TotalPages(total) ELSE offered
    /\ UNCHANGED <<filters, search, pageNo, url, hydrated, coverage, changes>>

\* Without an answer the Quick Entry list shows an error in place of its rows, the others
\* the last answer to the same question.
PageFails ==
    /\ asking /\ asking' = FALSE
    /\ shown' = IF page = "entries" THEN Nothing ELSE shown
    /\ UNCHANGED <<filters, search, pageNo, offered, url, hydrated, coverage, changes>>

\* The search for existing knowledge: shown on request, asked after a pause.
ToggleCoverage ==
    /\ page = "entries" /\ Change
    /\ coverage' = IF coverage.open THEN Closed ELSE [Closed EXCEPT !.open = TRUE]
    /\ UNCHANGED <<askVars, url, hydrated>>

TypeQuery ==
    /\ coverage.open /\ Change
    /\ coverage' = [coverage EXCEPT !.query = "typed", !.results = "none"]
    /\ UNCHANGED <<askVars, url, hydrated>>

CoverageAnswered ==
    /\ coverage.query = "typed" /\ coverage.results = "none"
    /\ coverage' = [coverage EXCEPT !.query = "none", !.results = "some"]
    /\ UNCHANGED <<askVars, url, hydrated, changes>>

\* A result puts its search in the address only: the page is mounted already,
\* and its filters are as they were.
OpenResult ==
    /\ coverage.results = "some" /\ Change
    /\ coverage' = [coverage EXCEPT !.results = "none"]
    /\ url' = [a |-> TRUE, b |-> FALSE]
    /\ UNCHANGED <<askVars, hydrated>>

FiltersNext ==
    \/ Hydrate
    \/ \E f \in {g \in Filters : g.local = filters.local /\ g # filters} :
          SetAuditFilters(f) \/ SetGapsFilters(f)
    \/ SetLocalFilter \/ SetSearch \/ SetEntryFilter \/ SetIncludeArchived \/ ClearFilters
    \/ Debounced
    \/ \E n \in Pages : OnPageChange(n)
    \/ RefetchPage \/ (\E total \in 0..MaxRows : PageAnswered(total)) \/ PageFails
    \/ ToggleCoverage \/ TypeQuery \/ CoverageAnswered \/ OpenResult

-----------------------------------------------------------------------------
Init ==
    /\ page \in ListPages \cup FilterPages
    /\ ListsInit
    /\ IF page \in FilterPages THEN FiltersInit
       ELSE /\ url = [a |-> FALSE, b |-> FALSE] /\ filters = NoFilters /\ search = FALSE
            /\ pageNo = 1 /\ hydrated = FALSE /\ shown = Nothing /\ asking = FALSE /\ offered = 1
            /\ coverage = Closed /\ changes = 0

Next ==
    \/ page \in ListPages /\ ListsNext /\ UNCHANGED filterVars
    \/ page \in FilterPages /\ FiltersNext /\ UNCHANGED listVars

Spec == Init /\ [][Next]_vars

-----------------------------------------------------------------------------
ConsoleTypeOK ==
    /\ ListsTypeOK
    /\ filters \in Filters /\ search \in BOOLEAN /\ pageNo \in Pages
    /\ url \in [a : BOOLEAN, b : BOOLEAN] /\ hydrated \in BOOLEAN /\ asking \in BOOLEAN
    /\ shown \in [known : BOOLEAN, total : 0..MaxRows,
                  wanted : [a : BOOLEAN, b : BOOLEAN, local : BOOLEAN, pageNo : Pages]]
    /\ coverage \in [open : BOOLEAN, query : {"none", "typed"}, results : {"none", "some"}]

\* The audit trail is never on a page that no answer to its present filters has had,
\* whatever filters changed and whatever answer was still awaited; what it is on may be
\* gone since, for the range of days moves on (audit-trail/page.tsx).
AuditPageOffered == page = "audit" => pageNo <= offered
==============================================================================
