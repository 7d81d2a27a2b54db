# UndisputedWell: TLA+ specifications

UndisputedWell is a well-operations web application: a FastAPI backend over PostgreSQL, a React
single-page app that talks to it through REST and one server-sent event stream, and nginx in front
of both. These modules specify the parts of it whose correctness depends on the order in which things
happen: concurrent requests against shared tables, a stream that breaks and resumes, a client cache
that two sources write, forms filled from that cache over rows other users change, a login state kept in four
places, an answer that arrives in pieces.

`PROJECT.json` maps every definition that models code to the lines it models, and lists the runs, the
hazards, and for every property a mutation of the model that violates it.

- [Inventory](#inventory): the components, their state, how they interact, what is hard about them
- [Modules](#modules): which module models what, and how state and actions correspond to the code
- [Runs](#runs), [bounds](#bounds), [fairness](#fairness), [disagreements](#disagreements-between-code-and-documentation)
- [Proofs](#proofs), and [what is only model-checked](#what-is-only-model-checked)
- [What is not modelled](#what-is-not-modelled), [plan](#plan)

Running them:

    tlc -config AlertStream.cfg AlertStream.tla
    tlc -config Operations.cfg MCOperations.tla
    tlc -config FleetPages.cfg MCFleetPages.tla
    tlapm Operations_proofs.tla

and `tlapm` likewise for the other modules whose names end in `_proofs`.

## Inventory

### Components and their state

| component | code | state | operations |
|---|---|---|---|
| Operations service | `services/operations.py`, `api/operations.py`, `models/operation.py` | tables `sensor_readings`, `threshold_alerts`, `threshold_configs` | record a reading (and its alert), create / patch / delete a threshold config, acknowledge an alert, lists |
| Alert stream | `api/operations.py` 173-245, `nginx/nginx.conf`, `operations/useAlertStream.ts` | the generator's `last_id` and `polls_since_heartbeat`; the EventSource's last event id | poll every second, emit, heartbeat, resume, reconnect |
| Alerts panel | `pages/operations/AlertsPanel.tsx`, `api/operations.ts` | TanStack Query entries `["alerts", ...]`, the well in the URL | fetch, merge a streamed alert, invalidate, Dismiss |
| Fleet services | `services/rigs.py`, `services/wells.py` and their endpoints | tables `rigs`, `wells` | create, patch, delete, assign a well to a rig |
| Authentication | `services/auth.py`, `api/auth.py`, `models/session.py`; `auth/*`, `queryClient.ts` | table `sessions`, two cookies, the auth query, the snapshot in localStorage | login, logout, expiry, `GET /auth/me`, restore, reload |
| Assistant | `api/ai.py`, `api/ai.ts`, `assistant/useAiChat.ts` | the conversation, the parser's buffer, the response stream | ask, stream sources / tokens / done, fail |
| Request threads and connections | `db/session.py`, `api/deps.py` | Starlette's 40 worker threads, 5+10 pooled connections | check out, wait, check in |
| Predictions | `services/predictions.py`, `api/predictions.py`, `pages/predictions/*` | table `predictions`; selection, run and entries on the page | run a screening, store it, list, select from the history |
| Retrieval and synthesis | `rag/*` | none (a fixed corpus) | rank, choose sentences, compose |
| CSRF, roles | `core/csrf.py`, `core/permissions.py`, `auth/usePermission.ts`, `auth/RequirePermission.tsx` | none | compare header and cookie; look a role up |
| Fleet pages | `pages/rigs/*`, `pages/wells/*`, `api/rigs.ts`, `api/wells.ts` | query cache, form values, the page of the URL | search, follow links, create, edit, delete with confirmation |
| Threshold and reading forms | `pages/operations/{OperationsPage,ThresholdsPanel,ThresholdForm,RecordReadingForm,ReadingsHistory}.tsx`, `api/operations.ts` | query cache, an editor per row, form values | select a well, edit, add and delete thresholds, record readings |
| Dashboard | `pages/dashboard/*` | none of its own | read |
| Users, hashing, seeds; migrations; health; presentation; deployment | | | run once, by hand or at start, or stateless |

### How they interact

    browser                                      nginx        uvicorn, one process              PostgreSQL
    -------                                      -----        --------------------              ----------
    AlertsPanel --- REST list, acknowledge -------------> api/operations -> services ---> threshold_alerts
        ^                                                        |   (a thread and a session per request)
        +-- onmessage -- EventSource <-- SSE, idle timer <- event_generator -- SELECT id > last_id --^
    forms ------- POST readings, thresholds, rigs, wells --> services/{operations,rigs,wells} --> tables
    AuthContext --- /auth/me, login, logout (cookies) ------> services/auth -------------> sessions
    queryClient <-> localStorage (throttled snapshot)
    useAiChat <--- fetch stream, frames in chunks --- api/ai event_generator <- retrieval, synthesis

- Requests share nothing but the database. Endpoints are `def`, so each runs in a worker thread with a
  session of its own at PostgreSQL's default isolation, READ COMMITTED, with autoflush off. Between two
  statements of one request, any other request may commit.
- The event stream shares the table `threshold_alerts` with the operations service and nothing else.
  It reads through a new short session per poll.
- Wells are the hub: their deletion cascades to readings, alerts and configs. A rig's deletion sets its
  wells' `rig_id` to NULL, once in Python and once more in the database.
- The pages of a tab share one query cache: a list, the detail and the edit form of one row are three components
  over two entries, and an entry is filled, marked, fetched again and given up independently of who looks at it.
- On the client, REST responses and stream events write the same cache entries; mutations invalidate
  them; a throttled persister copies the cache to localStorage; a login or a logout changes the auth
  query while other fetches are in flight.

### What is hard, and what makes each component correct

- **Operations.** Check and write are separate statements. Correct: no row outlives its well; one config
  per well and metric; a reading and its alert stand and fall together; what a client was told agrees with
  the tables; a PATCH does not undo another; a deletion that waits for readings is answered.
- **Alert stream.** Ids are taken at INSERT and seen at COMMIT; frames in flight are lost with the
  connection; the proxy closes silent connections. Correct: in order, no duplicates, nothing uncommitted,
  no silence as long as the proxy's timeout, and what is owed arrives unless a reconnect is refused.
- **Alerts panel.** Two sources write one entry, responses are older than events, the operator switches
  wells meanwhile. Correct: nothing listed twice or under the wrong well, a dismissed alert stays away,
  a streamed alert that needs attention is listed, buttons are enabled again.
- **Fleet.** The same races over names (unique), rigs (foreign key) and rows (lost updates).
- **Fleet pages.** An edit form takes its values from a cache entry once; its row is changed and deleted by others
  meanwhile; Back and Forward change the page under a save. Correct: after a save no list or page shows the time
  before it, only typed fields change, an answer navigates only the page that asked, a rig
  is not said to be gone because of something else.
- **Threshold and reading forms.** Editors of several rows, saves that wait for the list to be fetched, a switch of
  wells in between. Correct: the panels show the well of the URL, an editor closes on what was saved, only typed
  bands change, every button works again.
- **Predictions.** The page selects a run when its answer arrives, wherever the operator is by then. Correct: the
  chart is of the well in the URL, a run that is selected is in the history beside it, "Running" ends.
- **Authentication.** Responses of requests sent before a login or logout arrive after it; a snapshot is
  written late and restored at the next load. Correct: nothing fetched before a logout survives it, a
  user is shown only when this page heard so from the server, a session that was logged out is never
  valid again, no redirect before the server was asked.
- **Assistant.** Chunks end anywhere; the stream breaks anywhere. Correct: an answer is complete or marked
  as failed, and the form is enabled again.

`PROJECT.json` lists 40 hazards at their lines, each with the properties that would catch it going wrong,
or with the reason why none does yet.

## Modules

    AlertLog  <--EXTENDS--  AlertStream  <--EXTENDS--  AlertsPanel        Fleet + MCFleet
       ^                                                   ^                ^ EXTENDS
       | INSTANCE ... WITH                                 | EXTENDS      Fleet_proofs
    Operations + MCOperations                        AlertsPanel_proofs
       ^ EXTENDS                                                          Auth  <--EXTENDS--  AuthAssistant_proofs
    Operations_proofs                                                     Assistant + MCAssistant <--EXTENDS---+

    QueryCache  <--EXTENDS--  FleetPages + MCFleetPages <------------ FleetPages_proofs -------+
       ^                      OperationsForms + MCOperationsForms <-- OperationsForms_proofs --+
       | EXTENDS              PredictionsPage <---------------------- PredictionsPage_proofs --+
    QueryCache_proofs  <------------------------------------------------------- EXTENDS -------+

`AlertLog` is the interface between the halves of the alert pipeline. `Operations` implements it (the
property `ImplementsAlertLog`, proved in `Operations_proofs`), `AlertStream` and `AlertsPanel` are built on it, and so
what they show holds over the detailed service as far as alerts are concerned. `AlertsPanel` in turn implements
`AlertStream` (`PanelImplementsStream`).

### AlertLog

The table `threshold_alerts` as its readers see it: `seq` is its id sequence, `pending` the rows inserted
by transactions that have not committed, `live` the committed rows, `acked` those acknowledged, `wellOf`
the well of each, `wells` the wells that exist. `Insert`, `Commit`, `Rollback`, `Acknowledge` and
`DeleteWell` are its steps. An id is taken when the INSERT runs and becomes visible when its transaction
commits, so ids become visible in any order and a rollback leaves a hole. An INSERT holds a lock on the
well's row, so a well with a pending alert is not deleted.
Properties: `IdsAreNeverReused`, `GoneOnlyWithWell`.

### AlertStream

The generator `event_generator` (`gen`, `cursor` = `last_id`, `batch` = the rest of `new_alerts`, `quiet` =
`polls_since_heartbeat`), the browser's EventSource (`sinceId`, `lastEventId`, `got`, `connects`, `closed`) and the
connection (`wire`, and `idle` as the proxy's timer). `Resume` is `_resolve_resume_point` and, without a resume point,
`max_alert_id`; `PollFindsAlerts` / `PollFindsNothing` are the poll with the heartbeat; `Emit` is one turn of the loop
that yields; `Drop` breaks the connection with everything in flight; `Connect` is the EventSource's own reconnect.
`Refuse` is a reconnect that is answered with something else than a stream: the 401 of `get_current_user` once the
session is over, nginx's 502 while the backend restarts. An EventSource closes for good on that (`closed`), and the
hook's `onerror` only sets a status, so nothing is delivered to this page any more. An attempt that gets no answer at
all is repeated by the browser and is no step. `base`, `joined` and `late` are histories the properties need: where
this stream started, where the client first joined, and which ids were committed behind the cursor. Comment frames
carry no id and reach no handler, so they only reset `idle`. Streams share nothing but the table, so one is modelled.

### AlertsPanel

One cache entry per well the operator may select and one for all wells: `cache` (items), `fetch` (a request
in flight, with what the server computed for it), `invalid`. `ListAlerts` is the server's side of the list
endpoint, `FetchSucceeds` / `FetchFails` the client's; `ReceiveAlert` is `onmessage` with `handleNewAlert`'s
merge; `Dismiss` to `DismissSettles` are the acknowledge mutation, whose `onSuccess` returns the refetch it
waits for. What TanStack Query does is modelled as external from how the code uses it: `setQueryData` makes
an entry count as fresh and leaves a fetch in flight alone, `invalidateQueries` cancels and restarts the
fetch of an entry that has data, a failed fetch keeps the data and marks it. `missed` and `mayReturn` record
the situations in which the code cannot keep an alert or lets a dismissed one come back; the two properties
`StreamedIsListed` and `DismissedStaysAway` say that there are no others.

### Operations

Each worker is a thread that serves one request at a time: `req[w]` is where it is and what it has loaded.
Every SELECT is a step; the INSERT / UPDATE / DELETE of a `commit()` is one step with the COMMIT, where no
other transaction can tell them apart. The exception is `create_reading`, whose two INSERTs (`InsertReading`)
take alert ids and a lock on the well before `CommitReading`, because the stream does see the difference.
The `refresh` after a commit is a step of its own: it raises if the row is gone by then, and the client is
told 500 of something that was applied. `Conflicts` is the unique constraint `uq_threshold_well_metric`, the
foreign keys are the `well \notin wells` tests, `Locked` is the row lock a deletion waits for, `Lose` is a
dying process or database connection. `EvaluateStatus` is `evaluate_status` with its inclusive, optional
bounds. `Answer` keeps the status code the client got, so that `AnswersMatchTables` can compare it.

### Fleet

Rigs and wells in the same style, with the columns that have no rule folded into `detail`. `Dirty` and
`Patched` are SQLAlchemy's unit of work: only columns set to another value than the loaded one are written.
`DeleteRig` is `db.delete(rig)`: the wells found by an earlier SELECT are set to NULL by their ids, then the
rig goes and ON DELETE SET NULL does the same for the wells on it by then; a well that vanished is a
StaleDataError and rolls all back. `NextCheck` skips the rig lookup when the joined load already has the rig.

### Auth

`sessions`, `expired`, `owner` and `cookie` are the server's and the browser's side; `me`, `ask`, `tried`
the auth query; `login`, `logout` the two mutations; `data`, `load` any other query; `pending`, `storage`
the persister's throttled snapshot and what is on disk. A request carries the cookie of the moment it is
sent; handling and the arrival of the headers are one step, the callback a later one. `IsLoading` and
`Redirects` are `AuthContext` and `ProtectedRoute`. `Reload` forgets what is in memory, `Restore` brings the
snapshot back.

### Assistant

`toSend`, `wire`, `buffer` are the events, the bytes under way (a data line or a line feed is one symbol) and
the parser's rest. `Read` takes a chunk of any length and applies every frame it completes: `Boundaries` is what
`indexOf` looks for, `TakeFrame` the body of the loop, `TakeFrames` the loop. `Break` may happen anywhere; `Catch`
and `Finish` end the `try`. The mutations act on the last message.

### QueryCache

What the documented options of TanStack Query do to one cache entry, from how the code uses them (external):
`Observed` (a component mounts), `Invalidated`, `Written`, `Received`, `Failed`. Three of its rules decide most of what
the three modules below find: an invalidated entry that nobody looks at is only marked; a fetch under way is cancelled
and restarted if the entry has data and left alone if it has none; a fetch that fails keeps the data. `overtaken` is
a history: the fetch an entry comes from was under way when the entry was invalidated, and was left alone, so it may be
older than the write that invalidated it.

### FleetPages

One tab of a user with one of three roles: `page` (the component on screen, its confirmation, its mutation and error),
`form` (`RigForm` or `WellForm`: the row it was mounted with, its values, which fields were typed in), `cache`, and
`calls`, the mutations under way. `Links` is what the NavBar and each page offer, `History` the places Back and
Forward and a typed URL lead to. `Show` renders: a form mounts when its row is there, keeps its fields as long as the
component does, which survives a change of the id in the URL (`moved` is the history of that case), and goes with its
data. `FirstPlaces` are the pages a tab may be loaded on. `Succeeds` is the hook's `onSuccess`, which invalidates all
entries of the kind, followed by that of `mutate`, which navigates and is skipped if the component is gone. `StatusOf`
and `Applied` are the endpoints in one step: the permission check, then the body, which is refused with 422 if
Pydantic cannot read it, then the row. Of what the forms let through only a spud date can be such (`Unreadable`):
`wellSchema` takes any text, and a date field gives years of five digits, which `schemas/wells.py` does not read; the
form shows that 422 as a rig that is gone. The fields can be typed in while a save is under way, as only the button is
disabled; what was sent is the call's own copy. `writes` and `told` count this tab's writes applied and heard of; an
entry carries the count of its fetch, so `ReadsItsWrites` compares numbers.

### OperationsForms

The operations page below its alerts: `rows` (an `EditableRow` per listed config: its editor, its update, its
deletion), `adding` (the panel's own form), `record` (`RecordReadingForm`), `well` (the URL), over `configs` and
`readings`. The threshold hooks return the promise of `invalidateQueries`, so a mutation stays pending until the fetch
it waits for ends (`awaits`) and only then closes its editor; the reading hook does not. `missed` says the fetch it
waited for failed, or was a first load that was under way and is not restarted: then the editor closes on what was
there before. A fetch that a later save cancels hands those who wait for it the promise of the next one (`HandedOn`,
`handed`); when that is cancelled too, they are done waiting and have `missed` it. `Number`, `toBand`, `numberField`
are the text fields' conversions, with the blank that becomes 0.

### PredictionsPage

`place` (the well in the URL, or the dashboard, which uses the list of all predictions), `selected`, `run` (the mutation's
pending state and error), `calls`. `selectWell` resets the selection; `NavBar` and `BackOrForward` change the well without
doing so; `Settle` selects the new prediction whatever the well is by then. `stray` is the history of these two cases.
A run waits for several fetches at once, each as a save of the forms does (`HandedOn`, with one `handed` per entry).
`create_prediction` keeps which inputs are refused, not what the curve says.

## Runs

| run | configuration | asks |
|---|---|---|
| `alert_stream` | two writers, two wells, three alerts, three connections | order, no duplicates, nothing uncommitted, gaps only from late commits, heartbeat in time, delivery unless a reconnect is refused |
| `stream_gap` | two writers, one connection | *refuted:* the stream has no gaps |
| `operations` | three threads record, acknowledge and delete the well | no orphans, alert per abnormal reading, answers match tables, implements `AlertLog` |
| `operations_configs` | two threads create, patch and delete configs beside a reading and the deletion of its well | one config per metric, status is the worst band, patches keep apart, everybody is answered |
| `alerts_panel` | two wells, the operator switches between one of them and all | nothing twice or under the wrong well, dismissed stays away, streamed is listed, Dismiss ends |
| `fleet` | a well is renamed, edited and moved between rigs that are created, renamed and deleted | unique names, no dangling rig, no lost update |
| `moved_well` | a well is moved while its old rig is deleted | *refuted:* only the rig's own wells are cleared |
| `auth` | two users, two logins, one reload | redirects, what a logout forgets, revoked sessions, the spinner ends |
| `assistant` | two questions, any chunks, any break | answers complete or failed, the form comes back |
| `fleet_pages` | a rig with a well, one of each that may be created, an admin or a viewer, another user, the tab loaded on the new-well form | own writes are read, pages show what their URL names, a rig said to be gone is gone or a date was unreadable, only typed fields change, only the page that asked is navigated |
| `operations_forms` | two wells, one config and one that may be created, another user | own writes are read, panels are of the well, an editor closes on what was saved, only typed bands change |
| `predictions_page` | two wells, two runs, a well that is deleted | own runs are read, the chart is of its well, a selected run is in the history, every run ends |

Each of these modules has more configurations, run by hand, with its type invariant and properties that are worth
checking but less worth watching; all pass:

| configuration | module | checks |
|---|---|---|
| `AlertStreamTypes.cfg` | AlertStream | `TypeOK`, `IdsAreNeverReused`, `GoneOnlyWithWell` (all three are proved) |
| `AlertsPanelConnections.cfg` | AlertsPanel | the panel's invariants and `DismissEnds` with two alerts and two connections: order, and an alert delivered again |
| `OperationsTypes.cfg`, `OperationsFormsEnd.cfg` | MCOperations, MCOperationsForms | types (proved); `SavesEnd` |
| `OperationsFormsCancelled.cfg` | MCOperationsForms | three saves, so that a fetch that is waited for is cancelled twice: `SavedIsShown`, `SavesEnd` |
| `PredictionsPageCancelled.cfg` | PredictionsPage | the same with three runs: `RunIsInHistory` |
| `FleetTypes.cfg`, `FleetPagesTypes.cfg` | MCFleet, MCFleetPages | types; `DeletedStaysDeleted`; with all three roles `RefusalsAreTrue` and `NeverBlank` (all proved) |
| `AuthTypes.cfg` | Auth | types, `UserIsNeverRemembered`, `ShowsTheOutcome` (all proved) |
| `AssistantTypes.cfg` | MCAssistant | types, `NoStreamLeftOpen` (both proved) |

These configurations end in a counterexample. Their properties state what a comment, a message on screen or a reader's
expectation says, and stay in the modules with that sentence:

| configuration | module | refuted |
|---|---|---|
| `ReconnectGap.cfg` | AlertStream | `ResumesWithoutGaps`: a reconnect before the first event loses nothing |
| `ReconnectRefused.cfg` | AlertStream | `ReconnectsByItself`: a stream that broke is open again at some time |
| `StatusRace.cfg` | MCOperations | `StatusReflectsThresholdsInEffect` |
| `AcknowledgedListed.cfg`, `StreamedLost.cfg` | AlertsPanel | a dismissed alert stays away; a streamed alert is listed |
| `NameRace.cfg` | MCFleet | a clash of names is told as 409 |
| `LogoutOverwritten.cfg`, `LoginOverwritten.cfg` | Auth | a logout, a login, shows at once and lasts |
| `EditJump.cfg` | MCFleetPages | `FormIsOfItsPage`, with Back from one edit page to another |
| `BlamedRig.cfg` | MCFleetPages | `RigIsBlamedRightly`: the rig of a 422 is gone |
| `BlankBand.cfg` | MCOperationsForms | `NumbersWereTyped` |
| `BlamedInput.cfg` | PredictionsPage | `InputIsBlamedRightly` |

### Bounds

- **AlertStream:** three alerts are enough for one id to be overtaken while another is delivered, two writers
  are the fewest for a late commit, and three connections give a resume without a first event, one with a
  Last-Event-ID, and one after that lost frames. `SinceIds = {2}` starts inside the range.
  `HeartbeatEvery` and `ProxyReadTimeout` keep the order that the code's 15 polls and nginx's hour have. The
  proofs remove these bounds for the safety properties.
- **Operations:** three threads are a reading, an acknowledgement and a deletion at once, or two readings and a
  deletion; requests of different wells or metrics share no row, so one of each is enough. Values 0, 1, 2 lie
  below, on and above the bounds of the bands, where inclusive bounds matter. With two configs and two
  threads a create meets a create, a patch a patch, a patch a deletion. Patches are one bound moved and one
  cleared.
- **AlertsPanel:** each of its properties is about one alert and the entries that may hold it, so one alert is enough;
  two wells of which one is viewed give it entries it does and does not belong in. `AlertsPanelConnections.cfg` has
  the second alert and the second connection, for order and for what is delivered again.
- **Fleet:** two names and two rigs are the fewest for a clash and for a move; two threads because every race
  here is of two requests over one row.
- **Auth:** two users and two sessions let one replace the other; one reload separates two lives of the page.
- **FleetPages:** two visits and two saves are the fewest for a save whose answer comes on another page, and for a
  delete beside an edit; one event is a lost request, a failed fetch or another user's write. Two names make a clash;
  a list with and without a search shows which rows a filter lists. Both wells' edit pages are
  in the history, so Back can jump from one to the other, which `moved` records and `ShowsWhatItsUrlNames` excepts.
- **OperationsForms:** one metric, because two configs of a well share no row and no field; two bands, so that one may
  change without the other; two saves, so that one save waits for the fetch that another cancels
  (`OperationsFormsCancelled.cfg` has the third, which cancels again).
- **PredictionsPage:** two wells to switch between, two runs so that one answer meets the other's fetch
  (`PredictionsPageCancelled.cfg` has a third), one place that Back leads to.
- **Assistant:** a one-word and a three-word answer, with every cut into chunks.

Ids are bounded by `MaxAlert`, `MaxReading`, `MaxConfig`, `MaxRig`, `MaxWell`, `MaxSession`, connections by
`MaxConnects`, page loads by `MaxReload`, uncommitted alerts by `MaxInFlight`, each in the guard of the
action that counts. Workers are symmetric where a run has only safety properties and the refinement.
The pages count visits, inputs, picks, saves, runs and events in `count`.
Deadlock is checked everywhere but in `assistant`, which stops when both questions are asked, in `alert_stream` and
`stream_gap`, which rest when the EventSource is closed and the writers have no ids left, and in `fleet_pages`,
`operations_forms` and `predictions_page`, where the operator has nothing left to do when the counters are used up. In
`alert_stream` the last connection does not break (`Drop` leaves room for a reconnect), as an EventSource
has no last one.

### Fairness

| module | assumed | why |
|---|---|---|
| AlertStream | WF `Serve`, `Receive`, `Connect \/ Refuse` | the event loop resumes the generator after every sleep; TCP delivers unless the connection breaks; an EventSource tries again by itself until it is answered. That the answer is a stream is not assumed. Writers owe nothing. |
| Operations | WF `Step(w)` | a thread that runs makes progress; nobody has to send requests. A deletion waits on row locks, which the holders' own steps release. |
| AlertsPanel | WF `ListAlerts`, WF of the acknowledge request's outcomes, SF `FetchSucceeds`, SF `DismissSettles` | requests get an answer or fail. Strong, because an invalidation cancels and restarts a fetch: the operator does not for ever record readings faster than a list returns; and a mutation settles in the turn of the event loop in which the refetch it awaits does. |
| Auth | WF `Restore`, WF of the outcomes of `/auth/me`, WF of those of logout | reading localStorage ends, requests are answered or fail |
| OperationsForms, PredictionsPage | WF `Network` | the server evaluates what it receives and the browser calls back; what is lost or fails is an answer too (`LoseCall`, `FailGet`). Nothing is assumed of the operator or of other users. |
| FleetPages | none | its properties are about what a step may do |
| Assistant | WF `Yield \/ EndResponse`, WF `Read \/ Finish \/ Catch` | the server runs, the event loop reads. `Break` is never owed. |

### Disagreements between code and documentation

- **The stream can skip an alert** (`stream_gap`). `api/operations.py:188-190` says it "resumes without gaps or
  duplicates". The poll asks for ids above the last one sent; a transaction that took a lower id and commits
  after that poll is never streamed. There are no duplicates (`InOrderNoDuplicates`), and late commits are the
  only gaps within a stream (`GapsAreLateCommits`, proved). The panel finds the alert at its next fetch.
- **A reconnect before the first event starts over** (`ReconnectGap.cfg`). Comment frames have no id, so such a
  reconnect has no Last-Event-ID and takes a new "now"; alerts committed in between are not streamed.
- **A refused reconnect ends the stream** (`ReconnectRefused.cfg`). `useAlertStream.ts:6-8` leaves reconnecting to the
  EventSource ("handled natively by EventSource"), which repeats an attempt that fails but closes for good on one that is
  answered with 401 or 502. The page keeps saying that the stream has an error until it is left or loaded again;
  `EventuallyDelivered` names this case.
- **A moved well loses its rig** (`moved_well`). `services/rigs.py:74` clears wells by id, as loaded; one that
  was moved to another rig meanwhile is cleared too, which `knowledge_base.py:29-30` does not promise.
- **A logout can be undone on screen** (`LogoutOverwritten.cfg`). `useLogoutMutation.ts:12-13` sets the auth query
  synchronously, but a `GET /auth/me` answered before and received after puts the user back until the next
  fetch. The session itself stays revoked (`LoggedOutForGood`).
- **An edit form keeps the last row's values** (`EditJump.cfg`). `WellEditPage` renders `WellForm` without a key, and the
  router keeps the component when only the id in the URL changes: Back from the edit page of one well to that of
  another whose row is cached shows the first one's fields, and saving writes them to the second.
- **A date is a rig that is gone** (`BlamedRig.cfg`). `WellForm.tsx:10-12` knows one 422, an "invalid rig_id", and
  `WellForm.tsx:70-71` shows each as "That rig no longer exists." A date field takes a year of five digits, `wellSchema`
  takes any text (`WellForm.tsx:21`), and `schemas/wells.py:12,20` refuses what is no date with 422, whatever the rig.
  `RefusalsAreTrue` is what is left: the rig is gone, or the date was such a one.
- **A blank is a number** (`BlankBand.cfg`). `ThresholdForm.tsx:23` refuses what is not a number, but `Number(" ")` is 0:
  a field holding a blank sets a band of 0.
- **A deleted well is a wrong input** (`BlamedInput.cfg`). `PredictionForm.tsx:60` explains every 422 as an input outside
  its range; the server also answers 422 when the well is gone.
- The further configurations: a reading evaluated against a config that was replaced before it committed
  (`models/operation.py:19-21`); a 500 where two creates race, not the 409 or 422 of
  `WellForm.tsx:10-12`; a dismissed alert listed again by a later stream event (`AlertsPanel.tsx:17`); a
  streamed alert overwritten by an older response (`AlertsPanel.tsx:18-20`); a login undone as a logout is.

## Proofs

Seven modules hold the theorems, and an eighth, `QueryCache_proofs`, lemmas that three of them share. Each follows
one pattern: an invariant that is inductive, one lemma per action that keeps it, and the property read off it.

### Alert stream

The first half of `AlertsPanel_proofs` is about `AlertLog` and `AlertStream`, for any set of wells, any number of
alerts, writers, connections, any `since_id` and any heartbeat interval. They rest on two assumptions, which the
modules state and every run evaluates: `AlertLogAssumption` (the bounds are natural numbers) and `StreamAssumption`
(`since_id` is a natural number, "none" is not, the heartbeat comes at least every poll and before the proxy's
timeout).

| theorem | establishes |
|---|---|
| `LogTypeCorrect` | the types of the table, and that pending and committed rows are disjoint |
| `LogIdsAreNeverReused` | an id names one alert of one well for ever |
| `LogOnlyWellsTakeAlertsAway` | acknowledging is final, and an alert goes only with its well |
| `StreamKeepsLog` | every behaviour of the stream is one of `AlertLog`: streams only read |
| `StreamTypeCorrect` | the types of the whole stream |
| `DeliveryInOrder` | `InOrderNoDuplicates`: ids reach a client in increasing order, none twice, over any number of reconnects |
| `DeliveredWereCommitted` | `OnlyCommittedAlerts`: nothing uncommitted reaches a client |
| `OnlyLateCommitsAreMissed` | `GapsAreLateCommits`: what is missing below the last event was committed after the stream had passed its id |
| `HeartbeatBeatsProxy` | `NeverIdleTooLong`: the stream is never silent for the proxy's timeout |

The argument. None of the first three properties is inductive, for each speaks of `got` and says nothing of what is
still to be delivered.

- `OrderInv` strengthens `InOrderNoDuplicates` to the whole pipeline: what was handed over, then what is on the wire,
  then the rest of the batch increases: `lastEventId` separates the first from the second, the cursor the second from
  the third. A broken connection forgets the wire and the batch, and `ResumePoint` is `lastEventId`, below everything
  a later poll returns.
- `SentInv` says of the wire and of the batch what `OnlyCommittedAlerts` says of `got`: a row a poll returned was
  committed then, and only its well's deletion takes it away.
- `GapInv` says that every committed id above `base` is delivered or late up to `lastEventId`, on the wire or late
  from there to the cursor, and in the batch or late from there to any id of the batch. A poll establishes this for
  everything above the cursor; `CommitAlert` keeps it, because an id that becomes visible at or below `Passed` is late
  by definition; `Drop` keeps it because it moves the claim back to `lastEventId`.
- `IdleInv` ties the proxy's timer to the generator's counter: while it polls, `idle <= quiet`, and `quiet` stays
  below `HeartbeatEvery`. What the counter does not count (a poll that finds alerts) is followed by a write.

`LowestIsLeast` and `HighestIsGreatest` say of `CHOOSE` over finite sets of ids what the steps need. Each inductive
step is a lemma with one step per action.

### Operations service

`Operations_proofs` is about any wells, metrics, values, bands and patches, any finite number of workers and any
number of rows. `OperationsAssumption` is all it rests on: bands and patches give numbers or None to fields, None is
neither a number nor a band, values and bounds are natural numbers, workers are finitely many (Starlette has 40
threads).

| theorem | establishes |
|---|---|
| `OperationsNoOrphans` | `NoOrphans`: no reading, alert or config outlives its well |
| `OperationsOneConfigPerMetric` | `OneConfigPerMetric` |
| `OperationsPatchTouchesOnlyItsFields` | `PatchTouchesOnlyItsFields`: no lost update of a threshold |
| `OperationsAlertPerAbnormalReading` | `AlertPerAbnormalReading`: readings and alerts stand and fall together |
| `OperationsAnswersMatchTables` | `AnswersMatchTables`: what clients were told agrees with the tables |
| `OperationsImplementsAlertLog` | `ImplementsAlertLog`: the service is a correct implementation of `AlertLog` |
| `OperationsTypeCorrect` | the types of the tables, the sequences and every request |
| `OperationsStatusIsWorstBand` | `StatusIsWorstBand`, for every config that creations and patches lead to |

- `OpsInv` is the inductive invariant. Its heart is `HeldOK`: between the INSERTs and the COMMIT of `create_reading`
  the transaction's lock keeps its well, and its ids are nobody else's. `NoOrphans` is not inductive without it, for
  the commit does not look at the well again. `SeqsOK` has the room left for ids: the sequence is below its bound by
  as many as there are readings that may still take one, so that the ids of `Operations` stay within those of
  `AlertLog`.
- The refinement maps the open inserts to `pending`, the rows to `live`. `OpsNextLog` has a lemma per kind of step:
  `InsertIsInsert`, `CommitIsCommit`, `LoseIsRollback`, `UpdateIsAcknowledge`, `DeleteIsDelete`, and every other step
  leaves the table alone (`MoveStutters`). With `StreamKeepsLog` this is the chain from the service to the client:
  what the stream shows of a committed alert, it shows of a stored reading that left its range.
- `Paired` is `AlertPerAbnormalReading` as a relation of two sets. A commit adds to both or to none, an
  acknowledgement is a bijection on the alerts (`AcknowledgedIsBijection`), a deletion takes all of one well.
- `ToldInv` says of each answer what the tables hold for as long as nothing but a deletion may change it. `Frame` is
  what a step of somebody else leaves alone for an answer to stay true, `Distinct` that two answers speak of two rows.
- `TypesInv` follows rows and requests: a row is written from the locals of a request, and a request's locals from its
  body and the rows it loaded. `ConfigBudget` does for the ids of configs what `SeqsOK` does for those of readings.
  `StatusIsWorstBand` needs of a config that it has a band with numbers or None for bounds, also after any patches.

### Fleet

`Fleet_proofs` is about any number of workers, names, rigs and wells, from `FleetAssumption`: "no rig" is not an id, a
PATCH names columns. The types also need `FleetTypesAssumption`: threads are finitely many, and a PATCH gives ids or
NULL to `rig_id` and names to `name`.

| theorem | establishes |
|---|---|
| `FleetNamesAreUnique` | `NamesAreUnique`, although the check and the write are different statements |
| `FleetNoDanglingRig` | `NoDanglingRig`, although the rig is checked in one statement and referenced in another |
| `FleetDeletedStaysDeleted` | `DeletedStaysDeleted`: a row whose deletion was answered 204 never comes back |
| `FleetTypeCorrect` | the types of the two tables and of their sequences |
| `FleetChangesWereAskedFor` | `ChangesWereAskedFor`: no lost update, and a well loses its rig only to a deletion that found it there |

- `FleetInv` adds to the two constraints that ids come from the sequences, that an id has one row, and what a request
  holds: a PATCH one of the bodies, a deletion the id of a row that existed, which is why no later row can have it.
- `ChangesWereAskedFor` needs that an id has one row in the invariant: otherwise a row before a step and another after
  it could share an id, and a difference between them would be nobody's change.
- `TypesInv` follows the values of rows through the requests that create and patch them, and counts the requests that
  may still take an id (`IdsAreLeft`), so that none runs out.

### Alerts panel

The second half of `AlertsPanel_proofs` is about any wells, any of them viewed, any number of alerts and connections.
It rests on the stream's two assumptions and `PanelAssumption`: the viewed wells are wells and "all wells" is not one.

| theorem | establishes |
|---|---|
| `PanelImplementsStream` | every behaviour of the panel is one of `AlertStream`: the stream's theorems hold under the page |
| `PanelTypeCorrect` | the types of entries, fetches and the acknowledge mutation |
| `PanelListsNoAlertTwice` | `NoAlertTwice`, although responses and events both bring an alert |
| `PanelListsItsWell` | `OnlyItsWell`, whichever well is selected while responses and events are on their way |
| `PanelDismissalsHold` | `DismissedStaysAway`, but in the situations that `mayReturn` records |
| `PanelListsWhatWasStreamed` | `StreamedIsListed`, but in the situations that `missed` records |

- `StreamFacts` is what the panel needs of the stream: its types, `OrderInv`, `SentInv`, and that a pending alert's
  well is there. An id that is about to be delivered was not delivered before, because of `OrderInv`.
- `PanelTypeInv` has that a list is injective. A response is (`ResponseLists`, about `SetToSeq`), and a merge puts in
  front only what is not listed (`PrependLists`).
- `WellInv` extends `OnlyItsWell` to the responses under way. It is kept because an id never changes its well
  (`WellsAreKept`).
- `DismissedInv` says of entries (`ListedInv`), of responses under way (`ReturnInv`) and of alerts acknowledged before
  they were delivered (`EarlyInv`) that an acknowledged alert is excused, or its acknowledgement not yet heard of.
- `StreamedInv` says that an entry and the response that will replace it both have what is owed to them: what was
  delivered, is live, not acknowledged, and of the entry's well. Only a delivery adds to what is owed.

### Authentication

The first half of `AuthAssistant_proofs` is about any set of users and any number of logins and page loads, from
`AuthAssumption`: "not known yet" and "nobody" are two different things and neither is a user.

| theorem | establishes |
|---|---|
| `AuthTypeCorrect` | the types of the server's tables, the browser and the page |
| `AuthLoggedOutForGood` | `LoggedOutForGood`: no request on its way and no later login revives a session that was logged out |
| `AuthRedirectsOnlyWhenAnswered` | `RedirectsOnlyWhenAnswered`: no protected page sends a user away before its first request for who the user is was answered or failed |
| `AuthUserIsNeverRemembered` | `UserIsNeverRemembered`: no snapshot makes the page believe in a user |
| `AuthLogoutForgets` | `LogoutForgets`: nothing fetched before a logout is in the cache, on its way, or on disk after it |
| `AuthShowsTheOutcome` | `ShowsTheOutcome`: unless a fetch crossed it, a logout shows until somebody logs in and a login while its session lasts |

- `AuthInv` counts: the logouts that the page has completed or is about to are at most as many as the sessions that
  ended, each logout ending one of its own. This bounds `epoch` for the types.
- `Believes` is the invariant of the two properties about the page: as long as it knows nothing and no fetch has
  ended, one is under way, and a user it shows was named by a response. A snapshot has no user to restore
  (`NobodyIsPersisted`).
- `OfThisEpoch` extends `LogoutForgets` to the fetch under way, which a logout must have cancelled too.
- `OutcomeInv` has what the page can still be told. `OneAtATime`: of a login and a logout one at most is under way, and
  the browser has the cookies of a response before the page acts on it. `LoggedOut`: after a logout there is no cookie
  to ask with, so the answer is "nobody". `LoggedIn`: after a login what is asked carries the cookie of its session.

### Assistant

The second half of `AuthAssistant_proofs` is about any questions and answers of any length (`AssistantAssumption`: an
answer has at least one word). The names of `ChatSpec` and its parts keep them apart from those of `Auth`.

| theorem | establishes |
|---|---|
| `AssistantTypeCorrect` | `ChatTypeOK`: the form is disabled as long as a response is open |
| `AssistantShowsTheAnswer` | `ShowsTheAnswer`: however the bytes are cut, the words of the answer in order, and all of them in the end |
| `AssistantLeavesNoStreamOpen` | `NoStreamLeftOpen`: no message waits for a response that is over |

- `Symbol` and `Text` give the bytes of an answer in closed form: the text after position a, of length n. `TextsJoin`
  and `TextIsCut` are what appending a chunk and slicing do to it.
- `Position` is the invariant of an open response: k events were told, j symbols of the next frame are in the buffer, the
  wire has the rest up to the s-th event, and the generator has yet to send what follows.
- `FramesAreTaken` says what the parser's loop makes of a buffer that holds any number of frames and a part of one. Its
  rounds are defined by recursion on their number; since the induction theorems cannot be used here, the closed
  form is compared with the recursion at the least round where they differ (`SetsHaveALeast`).
- `Tells`: a message is what some number of events makes of it, or an error. A message without error that is not
  streaming was told "done", the last event, so it was told all.

### Query cache

`QueryCache_proofs` says of one entry of the cache what every operation keeps of it, for any data. `UpToDate(e, T,
active)` is that an entry at rest shows the `T` writes this tab was told of, or is marked for the next use, or was
overtaken by a write during its first fetch, and that the response on its way will leave it so. `Kept`, `Took` and
`Brought` are the three things a step does to an entry: no new data, the response becomes the data, the server answers
(`OperationsKeep`, `ReceivedTakes`, `AnswerBrings`). A page's `ReadsItsWrites` follows from the former, what its
entries hold from the latter.

### Threshold and reading forms

`OperationsForms_proofs` is about any wells, configs, bands and texts, any number of selections, saves and other
users' writes. `OperationsFormsAssumption`: the ids are positive, finitely many, and the first rows took the first of
them; NULL is neither a number, a well nor a query key, "no data" is not an answer. `TextAssumption`: digits are
written differently from each other and from the empty text, a blank and a word.

| theorem | establishes |
|---|---|
| `OperationsFormsTypeCorrect` | `TypeOK`: ids are given out once, the tab never knows of writes it did not do |
| `OperationsFormsReadTheirWrites` | `ReadsItsWrites`: an entry at rest shows the saves this tab was told of |
| `OperationsFormsShowTheirWell` | `ShowsItsWell`: rows that can be edited and readings on screen are of the well in the URL |
| `OperationsFormsSavesAreShown` | `SavedIsShown`: an editor is busy until the panel lists what it saved |
| `OperationsFormsKeepUntypedBands` | `OnlyTypedBandsChange`: a save changes no band that was not typed in |

- `IInv` has, besides types, `DataInv`: what an entry shows or is about to show lists configs of its own well whose
  ids were given out, and a response of readings is a suffix of the well's readings. Tables only grow in the sense of
  `ServerGrows` (a config never moves to another well, readings are prepended), so an old response stays one.
- `Untouched` says of every open editor that what was not typed in is the text of the band it was filled from;
  `BandsAreConvertedBack` that this text is converted back to the band. The server then writes what was sent.
- `ReadsInv` is `UpToDate` for every entry, with the writes of the entry's own table.
- `WaitInv` is about a save that waits for its refetch: the response that it will take was computed after the save,
  and once it waits no longer the entry has such data. `StepOfCalls` says that a step does one of four things to each
  request. A fetch that is cancelled by another save's invalidation is started again and waited for (`HandedSteps`);
  what fails, or is cancelled a second time, is recorded in `missed`.

### Predictions page

`PredictionsPage_proofs` is about any wells, any number of runs, selections and page changes.
`PredictionsPageAssumption`: the names of other places are no wells, NULL is neither a number nor a place, ids are 1,
2, 3 and so on, "no data" is not an answer.

| theorem | establishes |
|---|---|
| `PredictionsPageTypeCorrect` | `TypeOK`, with predictions of wells that are there and ids that were given out |
| `PredictionsReadTheirWrites` | `ReadsItsWrites`: lists and predictions at rest show the runs this tab knows of |
| `PredictionsChartTheirWell` | `ChartIsOfItsWell`: the chart is of the well in the URL, but in the situations `stray` records |
| `PredictionsListTheirRun` | `RunIsInHistory`: the run that the page selects when it is done is in the history beside it |

- `TypeInv` counts: an id is left for each run under way (`IdsAreLeft`), so storing never passes the bound.
- `WellInv` says of each id that one well is its well everywhere: in the table, in every response, in the run that got
  it and in the URL beside it. Ids are not reused, so an id that has been given to nobody may be of any well
  (`NextIsOfAny`).
- `WaitInv` is as in the forms above, for each of the entries a run waits for.

### Fleet pages

`FleetPages_proofs` is about any finite number of rig and well ids, any names, searches and roles, any pages visited,
saves, refetches and writes of other users. It rests on four assumptions:

- `FleetPagesAssumption`: the ids of each kind are 1, 2, 3 and so on (the sequences of the tables); "no row" is neither a
  number nor a search; the empty search and the default status `"active"` exist; roles are those of
  `core/permissions.py`.
- `FirstRowsAssumption`: the rows the model starts with have the columns' types, obey the foreign key and took the first
  ids.
- `DataAssumption`: "no data yet" is not a response, and `String(id)` writes different ids differently and none as the
  empty text, which is the value of the option "no rig".
- `PlacesAssumption`: the tab's history has URLs of these pages.

| theorem | establishes |
|---|---|
| `FleetPagesTypeCorrect` | `TypeOK`: rows refer to rigs whose ids were given out, the tab never knows of writes it did not do |
| `FleetPagesReadTheirWrites` | `ReadsItsWrites`: an entry at rest shows the saves and deletions this tab was told of |
| `FleetPagesNeverBlank` | `NeverBlank`: a page shows its data, that it is loading, or that loading failed |
| `FleetPagesShowTheirUrl` | `ShowsWhatItsUrlNames`: a list shows only rows with the name its URL searches for, and an edit form its own row |
| `FleetPagesRefusalsAreTrue` | `RefusalsAreTrue`: "that rig no longer exists" is said of a rig that does not, or after sending a date the server cannot read, and the pages let nobody ask for what the server forbids |
| `FleetPagesKeepUntypedFields` | `OnlyTypedFieldsChange`: a save changes no field of the row that was not typed in |
| `FleetPagesNavigateTheirOwn` | `OnlyItsPageNavigates`: an answer takes the operator away only from the page that asked for it |

- `IInv` has, besides types, `DataInv`: what an entry shows, or the response that is on its way to it, was true of its key
  when the server computed it, and still says something true: `Grows` has that ids are not given out again, and that a
  rig which is gone (`Gone`) stays so. This is what makes a message true that is shown long after its answer.
- `CallsInv` is about each request under way: its row has types of the table, the permission it needs is one the
  operator has (the pages that send it asked for it when they mounted, and roles do not change), and a 422 it was
  answered with is about a rig that is gone or the date it sent.
- `FormInv` says of what was not typed in that the form holds the text of the row it was mounted with;
  `RowsAreConvertedBack` that `toInput` converts this text back to the row. It needs of `String` only what
  `DataAssumption` says. The row in the form may be of another page (`EditJump.cfg`); `OnlyTypedFieldsChange` is therefore
  about forms whose row is the one that is saved.
- `IdsAreLeft` counts the creations under way, so that the ids never run out.
- `EntriesInv` is `UpToDate` for every entry, with the writes of the entry's own kind, and that an entry in use has
  data, a fetch under way or an error: a page asks for what it uses when it mounts (`ShowIsSound`), and what is
  invalidated under it is asked for again.

### What is only model-checked

- Liveness (`EventuallyDelivered`, `EveryRequestIsAnswered`, `DismissEnds`, `LoadingEnds`, `AnswersEnd`, `RunsEnd`,
  `SavesEnd`) and everything that needs ENABLED: out of the prover's reach.
- `FormIsOfItsPage` of `FleetPages`, which `EditJump.cfg` refutes, as are the other properties of the table of
  counterexamples above.

Every invariant and every action property of a run that passes is a theorem.

## What is not modelled

- **Request threads and connections, retrieval and synthesis, CSRF with several tabs:** planned, see below.
- **The screening itself** (`services/predictions.py`): powers and exponentials of real numbers. `PredictionsPage` has what
  the form and the server accept and store, not what a curve says; that 25 samples may step over a peak is listed as a
  hazard.
- **Dashboard and the list endpoints:** they change nothing. Of the dashboard, the list of all predictions is an entry of
  `PredictionsPage`. Sorting is left out; a search stands for the filters, as each is a part of the query key.
- **The cache's limits:** entries are not garbage collected, fetches not paused offline. The age after which an entry is
  stale is `Refetch` at any moment.
- **Users, hashing, seeds, migrations, health, settings:** no endpoint changes a user; scripts and DDL run before
  the server does. The constraints the DDL creates act in `Operations` and `Fleet`.
- **Floating point:** values and bounds are small naturals in `Operations`. A NaN reading, which compares false
  with every bound and is recorded as normal, is not modelled.
- **Several operators and several tabs:** one panel and one tab are modelled. What others acknowledge is seen at
  the next fetch.

## Plan

Done: `AlertLog`, `AlertStream`, `AlertsPanel`, `Operations`, `Fleet`, `Auth`, `QueryCache`, `OperationsForms`,
`PredictionsPage`, `FleetPages`, `Assistant` and the proofs about them.

Next modules, in order of what they add:

1. `RequestPool`: worker threads and pooled connections. A request's session keeps its connection while its next
   dependency waits for a thread; can 40 threads that wait for 15 connections, held by requests that wait for a
   thread, wait for ever, or only until the pool's timeout?
2. `Tabs`: several tabs with one cookie jar and one localStorage key, the CSRF header read when a request is
   built, composed with `Auth`.
3. `Screening`: `services/predictions.py` with tabulated exponents: where a curve sampled at 25 pressures and the
   continuous one disagree, and the order of the risk bands.
4. `Synthesis`: thresholds, choice and order of sentences and sources over given scores.
5. Extensions: a value without an order in `Operations`; the list endpoints' order and limits; the wells'
   deletion that cascades from `Fleet` to `Operations` as one composition.

Next theorems: those of the modules above, and of `Auth` with several tabs, where what a logout forgets is no longer
one page's business.
