# A verification project for AEGIS

AEGIS is a help desk for SAP users: a FastAPI backend answers questions from a
knowledge base, an ARQ worker prepares that knowledge base, PostgreSQL, Redis,
Qdrant, OpenSearch and MinIO hold the state, and a Next.js frontend serves the
employees and the administrators. This directory holds TLA+
modules of the parts of it that are hard to test, TLC configurations that check
them on small instances, and proofs that TLAPS checks for every instance.

## Inventory

| component | state it keeps | operations | hard about it |
|---|---|---|---|
| Quick Entry admin API (`handlers/knowledge_entries_handler.py`) | rows of three tables (migration 007) | create, open, publish, save draft, restore, archive, confirm | several SQL statements per request and no transaction; optimistic locks; calls to two indexes that may fail half way |
| Quick Entry worker (`tasks/process_form_entry.py`, `tasks/retry_partial_indexing.py`) | chunks, points, documents, status and log of an entry | stages A1 to A13; retry of failed chunks | ten jobs at once, state read in A1 and used in A13, aborted jobs run again, retries bounded by a counter in a JSON column |
| Quick Entry review (`tasks/check_config_staleness.py`, `confirm_current`) | status, scores | nightly deduction, confirmation | crash between statements, repetition |
| Quick Entry screenshots (`knowledge_screenshots_handler.py`, `enrich_entry_screenshots.py`, `cleanup_eligible_screenshots.py`) | screenshot rows, MinIO objects, appended chunk text | upload, delete, retry, enrichment, clean-up | counts read before inserts, versions that move on, an append that is not idempotent |
| Circuit breaker (`infrastructure/circuit_breaker.py`) | state, window, counters | allow, success, failure | concurrent calls, late answers, a lazy transition |
| Inference gateway (`services/model_gateway.py`) | quotas in Redis, breakers | cascade over providers, streaming | check-then-act on quota and breaker, a budget over the whole walk |
| Employee chat (`useWebSocket.ts`, `chatStore.ts`, `chat_handler.py`) | messages and streaming state of a tab, sockets, one handler per connection, the Pub/Sub channel of a session | send, attach, retry, new and past sessions, authenticate, stream, validate | three awaits in a send, close events of old sockets, a relay that starts after the stream, several connections on one channel |
| Reasoning and sessions (`services/reasoning_service.py`, `services/session.py`) | session hash | prompt, generate, append | read-modify-write of the session |
| Account (`useAuth.ts`, `lib/auth.ts`, `proxy.ts`, `app/api/auth/*`) | three cookies per browser, refresh tokens that can be used once | sign in, refresh, expire, redirect, sign out | tabs that share the cookies, late answers, rotation |
| Quick Entry form content (`chunkAssembler.ts`, the three field components, `ScreenshotUploadZone.tsx`) | lists, boxes and screenshot zones of a form | add, remove, reorder, check, assemble | branches that nest, overflow and do not pair; sections that come and go |
| Quick Entry editor (`QuickEntryForm.tsx`, `useAutoSave.ts`, `ProcessingStatusDrawer.tsx`) | form state, dirty mark, cached entry | load, type, autosave, check, submit, watch | requests that overlap, locks taken from a cache |
| Admin console (the pages under `app/(admin)`, `mutations.ts`, `adminStore.ts`, `useURLStateSync.ts`) | cached lists, local state of a page, filters, address | move, approve, resolve, upload, edit a cell, filter, page | optimistic writes, fetches that are dropped, filters that change under an awaited answer |
| Application shell (both layouts, `CommandPalette.tsx`, `OnboardingModal.tsx`, `OfflineBanner.tsx`, `uiStore.ts`) | palette, shortcuts, walkthrough, theme, notices | navigate, choose, toggle, step | timers that outlive what started them, effects of a mount |
| Uploads and vision (`upload_handler.py`, `tasks/vision_task.py`) | temporary file, session fields | upload, analyse | the file is gone when the task runs again |
| Ingestion (`services/ingestion_pipeline.py`, `admin_handler.py`) | registry, points, documents, objects | replace, delete | delete-then-insert in three stores |
| Retrieval, query intelligence, validation | none | score, fuse, gate | numeric edges |
| Rate limiting (`middleware/rate_limiting.py`, `check_qe_rate_limit`) | sorted sets | admit | check-then-add |
| Other tasks, store clients, model services, dashboards | little or none | | mostly I/O |

The API and the worker share the tables and the indexes, and the API calls the
worker through the ARQ queue in Redis. The worker queues its own retries there.
Chat reads the indexes and filters by `is_current`. The frontend calls the API
through the routes of its Next.js server, which hold the cookies; the chat alone
speaks to the backend over a WebSocket. The modules meet at what one part sees of
another: `Chat` composes the page with the handler of the server, `Editor` and
`Console` have the server as the source of answers, the inference chain and the
indexes are behind an answer that comes or fails.

What makes each correct: an entry moves through its versions one by one and its
history keeps what was published; the chunks that employees can find are those
of the current version; every status that promises work has a job that does it;
a breaker opens and recovers; a cascade ends within its budget; an answer's
text is the final one of its question; a question ends; the cookies of a browser
name one account; what an administrator types is stored or marked as unsaved; a
list shows the writes it was told of; the form's parts are indexed once.

`PROJECT.json` lists the hazards of the modelled parts, each at its line, with the
properties that cover it or the reason why none does.

## Modules

`QuickEntryStore` holds what the actors share, for one entry: its row (`entry`),
the clients whose `updated_at` is still that of the row (`upToDate`), the
version table (`history`), the chunk table (`chunks`), the two indexes
(`qdrant`, `opensearch`) and the queue. No handler or task opens a transaction,
so each statement is a step. A point id is fresh in every run of the job; here
it is the pair of the run and the chunk. A call to an index that fails may have
taken effect (`After`).

`QuickEntryApi` has a record per concurrent request. Its `pc` names the
statement that comes next, so that any other statement may come in between:

| action | code |
|---|---|
| `CreateEntry`, `CreateHistory` | `create_entry`: the two INSERTs |
| `OpenEntry`, `SubmitEdit` | `get_entry`; `update_entry` up to the check of the version |
| `PublishHistory`, `PublishEntry`, `Enqueue` | the publish path of `update_entry`, shared by `RestoreVersion` |
| `SaveDraft` | the draft path: one conditional UPDATE |
| `ArchiveEntry` to `ArchiveStatus` | `archive_entry`: SELECT, SELECT of the current chunks, the calls per point, two UPDATEs |
| `AbandonRequest` | a crash or a failed statement between two of them |

`QuickEntryWorker` has a record per job slot, and one action per statement or
index call of `process_form_entry` (`LoadEntry` to `FinishEntry`) and of
`retry_partial_indexing` (`LoadRetry` to `RetryFinish`). `AbortJob` ends a job
anywhere; ARQ may run it again. A retry is deferred by at least 300 s and a job
lasts at most 180 s, so a retry never starts while the job that queued it is yet
to write its status (`DueRetries`).

`QuickEntry` composes both, adds the bounded faults, and states the properties.
`VersionedEntry` is what the API promises about the text of an entry: create,
save, publish, each in one step. `MCQuickEntry` adds the symmetry for TLC.
`QuickEntryProofs` holds the proofs.

Abstracted: a form is a member of a small set (its validation happened before);
text, embeddings and scores are reduced to the verdicts that branch (a stage
fails, a score is too low); the SELECTs at the start of a retry are one
snapshot; a client that is told 409 starts again. The entry is not a `config`,
so it has no review cycle, and it has no gap and no screenshots. Columns that
travel with the text (document id, module, author) are part of it.

`CircuitBreaker` has the methods of the class as operators on a record: none of
them awaits, so each is atomic on the event loop. Of the monotonic clock only
"the cooldown has passed" is kept. `InferenceChain` has the breakers, the quotas
in Redis and a record per request that walks the chain, a "call" (`walk_chain`)
or a "stream" (external mode of `generate_streaming`). An action is what runs
between two awaits:

| action | code |
|---|---|
| `StartWalk`, `SkipTier`, `Continue` | the loop over the tiers up to the await of the quota check: budget, attempts, breaker |
| `CheckQuota`, `CheckFails` | `_check_tier_quota`: header cache, sliding window (check and reserve in one script), neuron pool; open without Redis |
| `Dispatch`, `Token`, `Reply`, `CallFails` | the HTTP call, its tokens, its end or its exception with `record_failure` and the fallback |
| `RecordQuota`, `RecordFails`, `Succeed` | the quota bookkeeping of `_dispatch_tier_nonstreaming` and `_stream_tier`, then `record_success` |
| `Cancel` | `CancelledError` or a closed generator, which no `except Exception` sees |
| `CoolDown`, `ReadState` | the cooldown ends; the health endpoint reads every breaker, which makes an open one half-open |
| `ReservationExpires`, `HeaderExpires`, `PoolExpires`, `NewDay` | the TTLs, and Cloudflare's midnight |

Abstracted there: one answer of Cloudflare costs 1; a header says "left" or
"exhausted"; the time budget may run out at any later tier; a reservation
outlives its call (httpx gives up after 30 s of silence, the windows have 60 s and
a day); midnight falls when nothing is under way. A key of Cloudflare's pool that
no answer has renewed ends after 26 hours, which is taken as the end of the next
day (`NewDay`, `PoolExpires`). One process: the breakers of several workers do
not know each other. `MCInferenceChain` has the values for TLC,
`InferenceProofs` the proofs.

`ChatStore` is the Zustand store of a tab: messages, streaming state, session,
socket, screenshot, and the operations the callbacks use. `Chat` puts it together
with `useWebSocket.ts` and with `chat_handler.py`. A turn is one call of
`sendMessage`; the text of a message is the sequence of the fragments it was
built from, each named by its turn.

| action | code |
|---|---|
| `Compose`, `Suggestion`, `Retry`, `Regenerate`, `RelatedQuestion` | the components that call `sendMessage`, each with its own guard, and the code up to the first await |
| `Uploaded`, `SendRefused`, `Connect`, `Opened`, `ConnectTimeout` | `sendMessage` after the upload, the token and the connection |
| `CloseEvent`, `ConnectionLost`, `PongTimeout`, `PongMissing`, `ClientReceive` | `onclose`, the heartbeat, `handleIncomingMessage` |
| `Attach`, `RemoveScreenshot`, `NewSession`, `OpenSession` | screenshot, reset, past session |
| `Authenticate` to `SendResult` | the connection handler: authentication, one message at a time, cache, retrieval, generation, relay, validation |
| `HandlerFails` | an exception in the handler, which logs it and returns |

The generation is `NumTokens` tokens and an end; the inference chain and the
validation are behind them. A frame reaches a tab while its socket is open and
frames keep their order; a session has one channel, so every relay of it hears
every token. A handler that fails (`chat_handler.py:83`) sends no frame and leaves
the socket open: it is `Deaf`, and only the page ends it. Every 30 s the page
pings, the answer is missing, and after 10 s it closes the socket with a code that
`onclose` takes for a lost connection (`PongMissing`). The page has one pong timer for
all its sockets, so it may close another one first; there are finitely many, and
the deaf one is closed in the end. `Questions` is what the chat promises about a question, without its
sockets and callbacks: asked, perhaps given up, else handed to one connection,
taken when that connection answers no other, ended. `Stages` and `Holders` read
this off the sends, the outboxes and the handlers (`EachQuestionOnce`).
`ChatProofs` has the proofs.

`Account` is one browser: the cookies its tabs share, the routes that set them,
Keycloak as the routes see it, and per tab the
page, the role last read, the timer of a 401 and a refresh per component that
calls `useAuth`. The realm revokes a refresh token as it is used and allows no reuse
(`setup_keycloak.py:114`): a token that is presented again is refused and ends the
login it came from (`RefreshRefused`, `ended`), with every newer pair of it.
`RefreshFails` is a Keycloak that refuses for a reason of its own.
`RefreshGranted` and `RefreshAnswered` are apart, so that a sign-out, another
sign-in or another answer falls between, and so are the answer to the DELETE of a
sign-out and the departure of its page (`LogoutServed`, `LogoutLeaves`): a refresh of the same
page may still set the cookies between these two. `Unload` is
what a full page load does to the requests of the page it leaves: aborted, with
or without Keycloak having taken their tokens. An access token is named by the
refresh token it was issued with. The sign-outs
of several instances of one page are one. `MCAccount` adds the symmetry for TLC,
`AccountProofs` has the proofs.

`FormContent` has the pure part of a form as operators: `AssembleChunks` and its
three assemblers, `BatchSteps` and `SplitBranchGroup`, `ValidateBranchPairing`,
`LacksSpecificity`, `EstimateChunkCount`. Text is empty, vague, exact or NONE, and
its length one or two units. `FormFields` is a form under edit: every list
operation of the three field components, the boxes, the reference check with its
debounce, the screenshot zones per section with their uploads, deletion and
vision. A cause has an identity of its own, which the code does not keep, to tell
what a screenshot was uploaded for. `MCFormFields` says which parts are edited
together, `FormProofs` has the proofs, `Filters` the one filter of lists.

`Editor` is one page of the editor. What is edited has two parts, the text that the
automatic save watches and the review frequency of a configuration, which is sent with it and
not watched (`TypeText`, `SetReviewFrequency`). The module has `formState` and its transitions, the autosave
timer (`AutoSave`, `AutoSaved`), the duplicate check, the submission, the drawer and the
cached entry. A request carries the text and the locks of the moment it was made
and stays in `net` until it is served or refused and then answered; the entry on
the server, its job and another administrator are the environment. `Navigate` is
the replacement of the route after the first save: the component is a new one.
`EditorProofs` has the proofs.

`AdminLists` has the five pages that show a list and write to it: documents,
tickets, registry, configuration and review queue, on one cached query
(`Refetch`, `ServerReads`, `FetchAnswered`, `FetchFails`, `Invalidated`) and one kind of
request (`Serve`, `Lose`, `Settled`). Local state goes when the page is left, the
store and the requests do not (`Leave`, `Return`). `Console` adds the three pages
that only filter (entries, audit trail, gaps) with the address they keep in step,
and composes them; one page is on the screen. An answer to these three has whatever
total the server counts at that moment, since rows come and a range of days moves on
(`PageAnswered`); a page is fetched anew at any time (`RefetchPage`) and the fetch may
fail (`PageFails`). `offered` remembers the most pages that an answer to the present
filters has had. `ConsoleProofs` has the proofs.

`Shell` has what surrounds a page: both layouts with their effects on mount
(`Goto`, `Reload`, `Redirected`), the palette with its debounced search and its
delayed commands, shortcuts, walkthrough, theme, the banner about the connection
and the one about other tabs. `MCShell` has the sidebar for TLC, `ShellProofs` a
proof.

## Runs

Every run has `CHECK_DEADLOCK FALSE`: the bounds stop the system when the last
version is published, the last question asked, the last event used. `versions` and `chain` use
symmetry over requests, slots and forms, `jobs` over slots and forms,
`account` over tabs; runs with liveness use none.

| run | instance | checks |
|---|---|---|
| `versions` | 2 requests of every kind, 1 slot, 2 runs, 2 forms, 2 versions, 1 fault | `TypeOK`, `IndexedTextIsPublished`, `HistoryBacksEntry`, `OneWriterPerVersion`, `FiledTextIsFinal`, `ImplementsVersionedEntry` |
| `jobs` | 1 request (publish, restore), 2 slots, 2 runs, Qdrant may fail, no fault | `ProcessingHasJob`, `QdrantStatusTruthful`, `EveryPointHasRow`, `PartialIndexHasRetry` |
| `progress` | fair, 1 request (publish, restore, archive), 1 slot, both indexes may fail | `ProcessingEnds`, `RetriesEnd` |
| `chain` | 2 requests, 3 walks, 3 tiers (one of each quota), windows of 2, 1 fault, 1 midnight | `ChainTypeOK`, `BreakersSound`, `OneTierOutput`, `InFlightWithinCeiling` |
| `chat` | fair, 2 turns, 2 sockets, every gesture and outcome, 1 event (screenshot, session change, lost connection or failed handler) | `ChatTypeOK`, `BusyHasCause`, `AnswersStand`, `BusyEnds`, `EachQuestionOnce` |
| `account` | 2 tabs with a refresh each, an employee and an administrator, 2 token pairs, 1 lost answer or failure of Keycloak | `AccountTypeOK`, `OneAccount`, `RefreshTokenLive`, `SignOutStands` |
| `fields` | the three content types, 2 causes at a time and 3 in all, 4 steps, 2 rows, batches of 2, a branch limit of 3 units, 1 upload | `FieldsTypeOK`, `FlaggedIffUnpaired`, `BranchKeptWhole`, `PartsIndexedOnce` |
| `editor` | fair, new or stored entry, 2 contents, 3 versions and writes, 2 requests on their way, 1 spare fetch | `EditorTypeOK`, `UnsavedIsDirty`, `PublishesReplaceKnown`, `SubmissionEnds` |
| `console` | eight pages, 3 rows, 2 writes, 1 event from outside, 4 changes of filters, 1 row per page, 0 to 3 rows counted at each answer | `ConsoleTypeOK`, `AnsweredWritesShown`, `CorrectionFitsItem`, `AuditPageOffered` |
| `shell` | fair timers, both roles, 2 sidebar pages, 2 other tabs, 5 events | `ShellTypeOK`, `LightStands`, `NoticesEnd` |
| `active` | 1 publisher, 1 slot, no fault | violation of what the drawer says |
| `cached` | 1 turn, 1 socket, no event | violation of what the data contract says |

Bounds of Quick Entry. `MaxVersion` 2 is the first publication over a created
entry: two requests race for one version, and a job of version 1 races one of
version 2. `MaxRuns` bounds the runs that get past the status check; 2 let a run
overlap the next or its own retry. In `versions` a draft is saved
after a publication whose job has yet to start, and the row moves on under a job
that has read it. `NumChunks` is 1: the chunks of a form
matter to each other only in the proofs, which have any number. One fault reaches
each place where a crash can fall.

Bounds of the others. In `chain`, a window of 2 is the shortest in which counter, rate
and length differ; one tier has threshold 1; 3 walks let an answer arrive after
two others have opened and half-opened the breaker. In `chat`, two turns make a
second send overtake the first, two sockets let a close event of one meet the
other, and one token is enough for a relay to miss it. In `account`, two tabs can ask
with one token, and two pairs let one of them be refused, or let another person
sign in; both tabs can sign out and refresh in one execution. The theorems have any
number. In `fields`, four steps hold two branches
side by side, a nested one, an unpaired one and one that is split. With a limit of 3
units a branch of two steps fits or is exactly at the limit, one of three is split
by half, and in one of four the split falls before the step that would go over. In `editor`,
one content is typed beside the loaded one, by either administrator, before,
during or after a save of what was loaded; the third version is a publication
over another's. In `console`, two writes overlap and one may
fail, three rows let the queue shrink behind the index, and three pages of one
row, or of none, let a filter or the passing of time take away the page that is shown. In
`shell`, five events are a palette command, a change of portal, a toggle and two changes of the network or of
another tab in any order.

Fairness. The event loops of FastAPI and of the worker run every accepted
request and started job on to its end (weak fairness per actor), and ARQ starts
a job that is due when a slot is free (weak fairness of the start, not of which
slot). In `Chat` every send, socket and handler runs what it has queued: an upload and
a token request end because `fetch` fails or answers, a connection by
`onopen` or by the 8 s timeout, a relay after 5 s at the latest. A handler that fails need not, but the
keepalive of a page runs for as long as the page is open, so `PongMissing` is fair (for
some socket, not for each). In `Editor` a
request is served or fails and its answer arrives; the duplicate check ends. In
`Shell` the browser fires the timers of the two banners unless they are cleared. An
employee or an administrator owes nothing, and a fault need not happen. The leads-to properties of Quick Entry are checked without faults: after
a crash nothing in the code restarts an entry left in `processing`.

What the violations show (quoted in `PROJECT.json`):

- `active`: publish version 2 while the job of version 1 runs. Its last UPDATE
  names only the id, so it sets `active` on the row of version 2; the job of
  version 2 finds a status other than `processing` and skips. The drawer says the
  entry is active in the knowledge base; its version is not there.
- `cached`: on a cache hit the handler sends a token and `stream_complete` and
  returns. The page goes to `validating` and waits for a `validation_result` that
  never comes; the compose bar stays locked. `BusyEnds` and `BusyHasCause` name
  this case as their one exception and hold for all others.

Other disagreements met while modelling. They are visible in the modules, and no
run states them:

- `ArchiveEntry` and what follows: a call that fails to retire a point is logged
  and the point stays live, because the rows through which it could be found are
  retired (`knowledge_entries_handler.py:833`; `ArchiveConfirmModal.tsx:34` says
  that the content leaves the knowledge base).
- `RetireRows` and `InsertChunk`: the job of version 1 may insert after that of version 2 has
  retired what it saw; the chunks of both versions stay current
  (`process_form_entry.py:147`, IMPL_25:353).
- `Dispatch`: a breaker that opens during the await of the quota check does not
  stop the call (`model_gateway.py:293`; `circuit_breaker.py:8` promises none).
- `RecordQuota`: a streamed answer of Cloudflare is not counted against the pool
  (`model_gateway.py:257`). `NewDay`: a counter renewed for 26 hours by every answer
  adds up the days (`redis_client.py:397`).
- `ClickCancel`, `BlurTimer`: the click on Cancel blurs the input first, and 150 ms later
  the timer of that blur saves the draft that was given up (`InlineEditCell.tsx:105`).
- `StartBranch`: a `branch_start` inside a branch starts the buffer over and its
  steps are in no chunk, although the pairing check accepts the procedure;
  `PartsIndexedOnce` and `BranchKeptWhole` therefore speak of branches that do not nest.
- `Seed`: opening an entry marks the form as dirty, so it is saved without an edit;
  `AutoSaved` takes the timestamp of the refetched entry, so it replaces a draft of
  another administrator that the form never showed. `PublishesReplaceKnown` speaks
  of published versions only. `Submitted`: the drawer for conflicts is not reached,
  as the current entry is one level deeper in the body than it is looked for.
- `PressEscape`: the palette and the walkthrough do not hear Escape. `OpenResult`: a
  search result changes the address but not the filters of the mounted page.
- `CloseEvent`: `onclose` does not look which connection it is of. The close event of
  a connection that was given up earlier (after the 8 s timeout, say) marks the turn
  in progress on another one as interrupted and unlocks the bar, so that the next
  question runs beside it (`useWebSocket.ts:364`). `AnswersStand` speaks of chats
  without such an event, a parallel send, a change of session, a lost connection, a
  failed handler or a token before its relay (`undisturbed`). `BusyHasCause` holds with all of these.
- `HandlerFails`: the bar stays locked until the keepalive closes the connection, up to
  40 s later, and the page then speaks of a lost connection.
- `StartRefresh`, `RefreshRefused`: the employee pages mount `useAuth` three times, each
  with an interval of its own, and tabs add more. When two ask with the same token, Keycloak
  refuses the second and ends the login; the page is signed out although no token has
  expired, against `AEGIS Architecture.md:102`, and the pair that was granted may land in
  the cookies with its login ended. `RefreshTokenLive` therefore says of overlapping
  refreshes only that the cookies end up with the newest token, and that Keycloak honours
  it of those that never overlapped.
- `LogoutServed`, `RefreshAnswered`: a refresh that Keycloak has granted, in any tab, sets
  the cookies again after the DELETE, before the page has left or later, and the login
  page sends the visitor on into the account (`FRONTEND_02_ARCHITECTURE.md:544`: clear all
  auth cookies and redirect). `SignOutStands` speaks of a sign-out that met no refresh
  which Keycloak had granted or could still grant (`Reviving`).
- `SetReviewFrequency`: the payload holds the review frequency (`QuickEntryForm.tsx:148`),
  the dependencies of the automatic save leave it out (line 181), so that edit alone never
  makes the form dirty and no tick saves it (`AutoSaveIndicator.tsx:32` says it saves every
  30 s). `UnsavedIsDirty` speaks of the text.
- `PageAnswered`: when rows of the range have grown too old, the page that is fetched again
  can be behind the last one; the page number is not brought back, and the audit trail
  says that nothing was logged, with no button to return
  (`admin/audit-trail/page.tsx:237`). `AuditPageOffered` says that the page was offered once.

## Theorems

All constants are arbitrary within the named assumptions: any sets of requests,
forms and (finitely many) slots, any bounds.

Quick Entry (`QuickEntryProofs`):

- `Typing`: `Spec => [](TypeOK /\ BaseBounded)`. `TypeOK` alone is not inductive: a
  request about to write the entry could carry the last version as its base.
  `BaseBounded` excludes it. One step per action; lemmas for the few ways in which
  an action touches a record.
- `VersionSafety`: `HistoryBacksEntry` and `OneWriterPerVersion`. They are proved
  together. An INSERT that is not refused tells, by `HistoryBacksEntry`, that the
  version selected earlier is still the row's; `OneWriterPerVersion` says that it
  stays so until the UPDATE. `RequestsOnEntry` adds that an editor whose
  `updated_at` is fresh has the row's version, `OneCreator` that the first history
  row is written once, `JobsOnEntry` that a job cannot bring a row into existence.
- `StepsByOne`, `FiledIsFinal`: the action properties, from `VersionEffects`, which
  says that every step keeps, creates, saves or publishes. No run states the first: it
  also follows from the refinement.
- `Refinement`: `Spec => ImplementsVersionedEntry`, from the same lemma.
- `IndexedText`: a chunk that names a version holds the text that the history has
  for it. A chunk gets its text from a job (`ChunksAreFiled`), the job from the row
  when it starts (`JobsAreFiled`), and the row agrees with the history while it says
  `processing` (`RowIsFiled`); the last needs that no job waits before the version is
  filed (`WorkIsFiled`), and that the creator still has the row's text when the
  history is written after it (`CreatorHasText`).
- `PointSafety`: `QdrantStatusTruthful` and `EveryPointHasRow`. `PointInv` follows a
  point from the call that stores it to its row: a job that was told the point is
  stored finds it there when it inserts (`StoredBeforeInsert`), the point at hand is
  of the run the job has drawn (`JobsNumbered`), and a retry writes only points that
  have a row (`RetriesHaveRows`).
- `WorkSafety`: `ProcessingHasJob` and `PartialIndexHasRetry`. A queued retry could be
  the one some other job counts on, so `RetriesQueued` counts: there are at least as
  many retries in the queue as jobs that queued one and have yet to write the status
  it needs. A retry that starts meanwhile is excluded by `DueRetries`.

Inference (`InferenceProofs`), for any chain, thresholds and number of requests:

- `InferenceSafety`: `ChainTypeOK`, `BreakersSound` and `OneTierOutput`. `PushShifts`
  says what a bounded deque keeps; from it each method of a breaker keeps `Sound`,
  whatever the state in which an answer finds it (`SuccessKeeps`, `FailureKeeps`).
  `GoodWalks` adds to `OneTierOutput` that output exists only during and after a
  call, and that a stream has made less than two attempts before its next one.
- `CeilingHolds`: `InFlightWithinCeiling`. `Reservations` says what each call at a
  provider stands on: a reservation that is still in the window, or a check that
  failed open. One more call is one more of either (`CallingOneMore`,
  `CheckReserves`).

Chat (`ChatProofs`), for any number of turns, connections, tokens and events. Every
action has a lemma that says what it does to store, sends, sockets and handlers,
and the invariants are kept by cases over these effects.

- `BarSafety`: `ChatTypeOK` and `BusyHasCause`. `WaitInv` follows a send to the socket
  it waits for (`SendsFit`) and a message along its connection: what was sent is in
  the outbox or with the handler, which a connection has from its opening until the
  handler fails (`Served`), and the last frame of a connection whose handler has nothing
  else to do is one that unlocks the bar, unless the connection is deaf (`Unlocking`);
  both together are `Flow`.
- `AnswerSafety`: `AnswersStand`. While nothing has disturbed the chat, one connection
  at most carries anything, and none while a send is under way (`Alone`); what it
  carries is the newest turn, its final frame comes last, and once the answer has
  begun it is shown or a token of it is on its way (`Straight`). So the final text
  replaces the answer of its own question. These parts are true only of a chat that
  was not disturbed, which is why the invariant has them under `undisturbed`.
- `QuestionSafety`: `ChatSpec => EachQuestionOnce`, the refinement of `Questions`. A step
  leaves the questions alone, lets a send go on or fail, hands a question over, lets a
  handler begin one or end one (`Effects`). `OnePlace` says that a question has one
  place at most in all outboxes and handlers, and none unless it was sent; it is kept
  by these effects and makes each of them a step of `Questions` (`QuestionStep`).

Account (`AccountProofs`), for any number of tabs, `useAuth` instances, people and
token pairs:

- `AccountSafety`: `AccountTypeOK` and `OneAccount`. `OneAccount` alone is not
  inductive, since the owner of a token that was not issued could be anybody:
  `CookiesIssued` and `RefreshesIssued` say that every token in a cookie or in a
  request was issued, and `Grown` that issuing keeps the owners of the pairs
  before. Each group of variables has a lemma for the few ways a step treats it
  (`StepIssues`, `StepCookies`, `StepRefreshes`, `StepTabs`, ...).
- `RotationSafety`: `RefreshTokenLive` and `SignOutStands`. When two tabs ask with one
  token, one is refused and the other's pair is on its way; `SpentIsReplaced` says
  that a taken token stays in the cookies only while such a pair exists, and
  `GrantedFresh` that the pair is in nobody else's hands, so that it is not spent when
  it lands. Whether its login still stands is another matter: `Apart` says that
  refreshes which never overlapped ask with tokens that were not taken, and so end no
  login. `SignOutQuiet`: after a sign-out that met no refresh which could still set the
  cookies (`Reviving`), none is left and none can start.

Editor (`EditorProofs`), for any contents, versions, writes and requests:

- `EditorSafety`: `EditorTypeOK` and `UnsavedIsDirty`, which speaks of what the automatic save
  watches. A form that is not dirty has its text stored (`Stored`), or a save of this mount
  holds it (`SavedOrSaving`). To
  keep that, `RequestsFit` says of every request which mount sent it and with which
  lock, `NewForm` that the route is replaced once, `CapturedHere` that the submission
  that waits for the duplicate check is the form's own, `ArchivedKept` that an archived
  form is a stored one.
- `PublishSafety`: the action property `PublishesReplaceKnown`. A request that leaves
  carries a version the form was told (`VersionTold`, `RequestsFit`), and the server
  compares it with its own.

Console (`ConsoleProofs`), for three rows (`Items`, as in the run) and any number of
writes, events, changes of filters and rows per page:

- `ConsoleTypes`, `ListSafety`, `AuditSafety`: `ConsoleTypeOK`; `AnsweredWritesShown` and
  `CorrectionFitsItem`; `AuditPageOffered`. Every write has a number of its own
  (`OneNumber`, `WritesCounted`). A list that is fresh has read every answered write,
  or is about to be fetched again (`ReadIsFresh`, `CatchesUp`, `DueServed`). The text
  of a correction stays that of the item on the screen while the queue shrinks
  (`CorrectionCurrent`, `IndexCounted`). The page of the audit trail and the answer that
  its buttons are made from stay within what the present filters have been offered
  (`AuditAsked`), whatever each answer counts.

Form (`FormProofs`), for any causes, steps, rows and bounds:

- `FieldsTypes`: `FieldsTypeOK`, by `FieldsInv`, which adds what the types leave open: an
  identity that was given out is below the next one and belongs to one cause
  (`GoodCauses`), and what is on its way to the server is an upload. Lemmas say of each
  gesture on a list what it returns.
- `PairingSafety`: `FlaggedIffUnpaired`. The stack of `validateBranchPairing` is followed
  along the procedure: up to each step its height is the number of branch starts
  less that of branch ends, and there is an error once an end came without a start.
- `BranchSafety`, `PartsSafety`: `BranchKeptWhole` and `PartsIndexedOnce`. `BatchSteps` is
  a fold over the procedure, so the proofs carry an invariant of the walk: up to each
  step, either no branch is open (`Shut`) or the buffer holds the branch from its start
  (`Open`), and what was read is in the batches, once and in order (`AllPlaced`,
  `Covers`). The parts of a long branch are segments of it (`Slice`, `Segment`). The
  causes of a guide are sorted by a filter per priority (`UpTo`, `SortedByPriority`)
  and have a chunk each (`GuideChunks`).

Shell (`ShellProofs`):

- `LightTheme`: `LightStands` holds for any sidebar and any number of other tabs. It
  needs no invariant: each action is followed to what it writes to local storage.
- `ShellTypes`: `ShellTypeOK`. `ShellInv` adds the type of the command that is about to
  run. The list of remembered commands is filtered; `KeepSelects` says what a filter
  returns.

Form and Shell need facts about lists of any length, and the library's induction rules take
an operator, which the provers here cannot instantiate. `Climb` replaces them: a set
that has 0 and with each number below a bound the next one has all up to the bound.
It follows from the least member of the set of exceptions (`Least`), so the
induction is over sets, and each fold is unrolled as a function of the length.
`Filters` has the filter of both modules with a set instead of a predicate.

The assumptions on constants are that bounds are natural numbers, and not 0 where
the code has at least one (a version of an entry, a page of the sidebar); that a
call can succeed (`StoreAssumption`); that there are finitely many slots.

Model-checked only: liveness (`ProcessingEnds`, `RetriesEnd`, `BusyEnds`,
`SubmissionEnds`, `NoticesEnd`), which needs fairness and ENABLED, beyond TLAPS here.
Every invariant, action property and refinement of a passing run is a theorem.
`ActiveIsIndexed` and `TurnsEnd` are false, as the violations show.

## Not modelled

- The review cycle of config entries, `confirm_current`, the screenshots of the
  backend with their enrichment, import and listing: the modelled entry is not a
  config and has no screenshots; what the form does with them is in `FormFields`.
- Reasoning, sessions, uploads and the vision task beyond what the chat page sees
  of them; feedback, attribution and the answer a vision result refines.
- The session list and history: the frontend calls endpoints that the backend does not
  have, so the pages are always empty. Dashboards and charts show one query each.
- The filters of the documents page and the search of the registry are like those in
  `Console`; the rail of the sidebar and its widths are layout.
- Document ingestion, retrieval, query intelligence and validation: parsing, embedding
  and scoring with little state; adapters of providers, store clients, model
  services and configuration: wire formats and I/O.
- Rate limiting and governance filter one request at a time; the sorted sets of the
  limiter are touched by one script each.

Next, if the project goes on: the review cycle of config entries, beside the two
writers that `QuickEntryApi` has, and the answer that a vision result refines, which
`Questions` would have to tell from the first one.
