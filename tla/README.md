# TLA+ models of the sentinels configuration console

The repository holds one program: `src/static/js/sys.js`, 1126 lines. It is
the browser-side controller of an industrial data-acquisition console. Its
parts share the global state in lines 1-8 (`currentPage`, `pageSize`,
`totalPoints`, `currentDeviceId`) and the DOM. The backend REST API is not in
the repository. Where a model needs it, it is modelled from `spec.md`
section 6.

## Inventory of the system

| Part | Code | State | Operations | Interacts with |
|---|---|---|---|---|
| Tab controller | 19-36 | active tab | tab click, which runs loadDevices / loadPoints / fetchDeviceData | every view |
| Modal manager | 39-105 | display of 4 modals | open buttons, closeModals, backdrop click | all CRUD handlers |
| Device view | 166-261, 554-619, 672-777 | device table, device-select, device modal | loadDevices, updateDeviceSelect, saveDevice, editDevice, deleteDevice, toggleDeviceStatus | PointView (device filter), rule view (device id) |
| Point view | 123-126, 263-402, 621-670, 712-800 | currentPage.points, totalPoints, point table, pager, point modal | loadPoints, renderPointsTable, updatePointsPagination, search, page buttons, savePoint, editPoint, deletePoint | device-select, notifications |
| Pagination engine | 354-402 | none (pure) | totalPages, the button window, prev/next | point view |
| Collection rules | 68-80, 405-552 | rule list modal, rule edit modal, rule table | loadCollectionRules, editCollectionRule, saveCollectionRule, deleteCollectionRule | device-select, modal manager |
| User actions | 128-135, 802-875 | a transient file input | executeUserAction: pause, flush and clear POSTs, import through a file picker, template download, unknown title | notifications |
| Notifications | 883-930 | notification container | showNotification, and a 3 s timer that removes it | every handler |
| Monitor poller | 141-163, 934-1126 | stats, device table, alarm modal | fetchDeviceData, updateStats, renderDeviceTable, showAlarmDetails, renderAlarmTable | tab controller |

Every handler is an `async` function or a promise chain. It does some work,
awaits a `fetch`, and continues when the fetch settles. The code never
sequences, cancels or tags its requests. The behaviours that make the program
hard are these:

- **Reordered responses.** Responses resume in arrival order, and the last to
  arrive wins.
- **Stale closures.** The pager buttons are closures over the live
  `currentPage.points`. The pager on screen shows the page it was rendered
  for.
- **Failures.** A failure is only a notification. Nothing is rolled back or
  reloaded.
- **Lost responses.** A mutation can take effect on the backend while its
  response is lost.
- **Overlapping modals.** Modals can be opened by late responses.

## Modules

- **`Pagination.tla`** holds the arithmetic of `updatePointsPagination`:
  - `TotalPages`: `Math.ceil`, written with integer division.
  - `StartPage`, `EndPage`, `PageButtons`: the loop `for (i = startPage; i <= endPage; i++)`.
  - `HasPrev`, `HasNext`.

  These are pure operators.

- **`MCPagination.tla`** is a harness. Its state is one input, (total,
  current page), and any step may jump to any other input. This makes every
  input of a bound a reachable state. Its property, `WindowSound`, says the
  buttons are real pages, at most five, and include the current page when
  it is real.

- **`PointView.tla`** is the core. It models the point-configuration tab:
  - **State.** Its variables are the code's state:
    - `curPage` and `totalPoints` are the globals.
    - `tbody` is what the table shows: blank, the spinner, or the rows of a page with the count they came with.
    - `pager` is the `(currentPage, totalPages)` the pager was last rendered from.
    - `pointModal` and `formId` are the modal and its hidden id field.
    - `notices` is the notification container.
  - **Requests.** Each fetch is a record in the set `reqs`, and goes through
    three steps:
    1. The handler up to its `await` sends it. The handlers are `ActivatePointTab`, `Search`, `PrevPage`, `NextPage`, `GotoPage`, `EditPoint`, `DeletePoint` and `SubmitPoint`.
    2. `Serve`, the backend, answers it. The answer is success, plain failure, or a mutation that took effect with its response lost.
    3. `Deliver` runs the continuation the code has for that outcome: `LoadPointsOk`, `LoadPointsFail`, `EditPointOk`, `SavePointOk`, `DeletePointOk` or `MutationFail`.

    Because `reqs` is a set, answers and continuations happen in any order.
  - **Whole handlers.** Each continuation includes what the code does after
    it. `SavePointOk` and `DeletePointOk` call `loadPoints()` again, and this
    shows the spinner and sends a new list request in the same step.
  - **Modal backdrop.** The modal is a full-window backdrop, so the page's
    controls are guarded by `PageUsable`. Only the modal's own controls stay
    usable.
  - **History variable.** `lastLoad` records the outcome of the latest list
    response.
  - **Abstraction.** Point records are abstracted to ids. The device and mark
    filters are not modelled yet.

- **`MCPointView.tla`** instantiates PointView for TLC.

- **`DeviceView.tla`** models the device-configuration tab in the same way.
  - **State:** `devTable` (spinner or the rendered device ids), `checked` (each row's status switch), `options` and `sel` (the options and value of `device-select`), `deviceModal` and `formDev`, and the backend's devices `stored` and their `status`.
  - **Actions:** `LoadDevices` (the DOMContentLoaded load and the tab click), `SelectDevice`, `AddDevice`, `EditDevice`, `DeleteDevice`, `ToggleDevice`, `CloseDeviceModal`, `SubmitDevice`.
  - **Continuations:** `LoadDevicesOk` renders the table and runs `updateDeviceSelect`, which rebuilds the options and restores the never-assigned `currentDeviceId`, so `sel` becomes blank. `SaveDeviceOk` and `DeleteDeviceOk` reload. `ToggleOk` only notifies.
  - **Toggling:** the switch flips in the browser before `toggleDeviceStatus` sends its PUT, so `ToggleDevice` flips `checked` and sends in one step.
  - **History:** `chosen` records the operator's last selection.
  - **Init:** `DOMContentLoaded` has already called `loadDevices`, so the list request is in flight.
- **`RuleView.tla`** models the rule list dialog, the rule edit dialog and the four rule handlers.
  - `listModal` and `editModal` are the two dialogs' displays. `fromList` records whether the list was shown when the editor opened.
  - `CloseRuleModals` is `closeModals`, which hides both dialogs.
  - `SaveRuleOk` hides the editor, shows the list and reloads, as lines 520-524 do.
- **`RuleModalLifecycle.tla`** is the abstract specification of spec section 4.3 for the two rule dialogs.
  - States are Closed, List and Edit, with Edit *stacked* when it was opened from the list.
  - Closing a stacked editor returns to the list.
  - `RuleView` states the refinement as `Lifecycle == INSTANCE RuleModalLifecycle WITH am <- ..., stacked <- editModal /\ fromList`. The mapping: the editor if it is shown, else the list if it is shown, else Closed. `RuleModalsFollowLifecycle == Lifecycle!Spec` is checked as a PROPERTY.
- **`MonitorView.tla`** models the system-monitor tab.
  - **State:** `refreshing` is the refresh button's `loading` class. `monTable` is the spinner row, the rendered rows (the ids with alarms) or the error row. `alarmModal`, `nameDev`, `overlay` and `shownAlarms` are the alarm overlay: the device it names, which of loading / table / error it shows, and whose alarms its table holds.
  - **Actions:** `FetchDeviceData`, `ShowAlarmDetails(d)` (a click on a badge) and `CloseAlarmModal`. The continuations are `SnapshotOk`, `SnapshotFail`, `AlarmsOk` and `AlarmsFail`.
  - `overlay` is one value where the code keeps three display flags (`modalLoading`, `alarmTable`, `modalError`). A late failure after a success could show the table and the error together in the code, which the model cannot show. No property depends on the difference.
- **`UserActions.tla`** models `executeUserAction`.
  - `ClickCard(c)` takes the branch of the switch that the card's title reaches.
  - The file picker has its own steps: `PickFile` uploads, and `CancelPicker` covers a dismissed picker or the `if (!file) return`.
  - Each sent request ends in a success or error notice, carrying the number of the action it reports.
  - `reported` records the requests whose outcome was notified.
- **`OutcomeLog.tla`** is the abstract promise of `spec.md` section 7 for
  these actions. Actions are numbers, each `pending` (issued, outcome not
  yet reported) or `done`. `Begin(i)` issues a number never issued before,
  and `Finish(i)` reports a pending one. UserActions instantiates it as
  `Outcomes`, with `pending <- {r.rid : r \in reqs}` and `done <- reported`.
  Its property `ReportsFollowOutcomeLog == Outcomes!Spec` says three things
  about each system action or upload: it is sent under a fresh number, its
  outcome is notified exactly once after it was sent, and it is never
  resent.

All view modules share one scheme for the backend, each limited to its own
endpoints:

- The backend is modelled from `spec.md`, section 6.
- A mutation can take effect while its response is lost.
- Any request can fail.

`PROJECT.json` maps each definition to the lines it translates.

## Runs

| Run | Checks | Result |
|---|---|---|
| `pagination` | `WindowSound`: page size 3, totals 0..25, current page -1..11 | pass, 338 states |
| `pointview` | `TypeOK`, `PagerTracksCurPage`, and `SpinnerResolves` under `FairSpec`: page size 1, ids 1..3, 3 requests | pass, about 324 000 states |
| `pointview_page_request_valid` | `PageRequestValid` | violation: after Next, Search resets the page to 1 under a pager still showing page 2, and Prev asks for page 0 |
| `pointview_placeholder` | `PlaceholderOnlyWhenEmpty` | violation: Next twice on one pager reaches page 3 of 2, and 暂无点位数据 is shown while points exist |
| `pointview_shown_page` | `ShownPageIsCurrent` | violation: two loads answered out of order show one page's rows under a pager highlighting another |
| `deviceview` | `TypeOK`, `DeviceSpinnerResolves` under `FairSpec`: one device, 3 requests | pass, about 63 000 states |
| `deviceview_selection` | `SelectionOnlyByOperator` | violation: the operator selects device 1 while the initial list load is in flight; its response resets device-select |
| `ruleview` | `TypeOK`: rules 1..2, 4 requests | pass, about 2 000 000 states |
| `ruleview_lifecycle` | `RuleModalsFollowLifecycle` | violation: open the list, add, cancel; the list closes too (the abstract spec returns to List) |
| `monitor` | `MonitorSettles` under `FairSpec`: devices 1..2, 4 requests | pass, about 11 700 states |
| `monitor_alarms` | `AlarmsMatchName` | violation: open device 1's alarms, close, open device 2's; device 1's response fills the overlay under device 2's name |
| `useractions` | `EveryRequestReported` and the refinement `ReportsFollowOutcomeLog` under `FairSpec`: all six switch cases, 3 actions | pass, about 22 000 states |

The violation runs are the findings in `PROJECT.json`. `PageRequestValid`,
`PlaceholderOnlyWhenEmpty` and `SelectionOnlyByOperator` are code bugs. The
other violations are places where the code departs from what `spec.md`
states.

The model also shows these departures from `spec.md`. Each is one or two
steps deep and visible in a single action, so no run checks it:

| Where | What the code does | Action |
|---|---|---|
| line 373 | near the last page the window holds fewer than `min(5, totalPages)` buttons; page 4 of 4 shows 2, 3, 4 | `PageButtons` |
| line 296 | a failed list leaves 加载中... instead of the previous rows | `LoadPointsFail` |
| line 570 | a failed toggle leaves the switch showing a status the backend does not hold | `ToggleDevice`, `MutationFail` |
| line 78 | add-rule-btn shows the editor over the still-displayed list | `AddRule` |
| line 523 | a save's success re-opens the list even after the operator closed it | `SaveRuleOk` |
| lines 1114, 1125 | of two overlapping refreshes, the first to settle removes the loading class while the other is still out, and a late catch writes the error row over fresh rows | `SnapshotOk`, `SnapshotFail` |

**Properties that hold.**

- **`PagerTracksCurPage`** says that once every list has resumed and the last
  one succeeded, the pager highlights the live page. It holds for any order
  of responses, because each page change sends a load and every load draws
  the pager from the global.
- **`MonitorSettles`** says the refresh button's loading class, the spinner
  row and the alarm overlay's loading state are each eventually cleared. It
  holds under any overlap of refreshes and drill-downs, because both ends of
  each promise chain clear what the chain set, and every click that opens
  the overlay sends the fetch that resolves it.
- **`SpinnerResolves`, `DeviceSpinnerResolves`** hold because every path that
  shows the spinner (`showLoading`, inside `loadPoints` / `loadDevices`) sends
  the fetch whose continuation replaces it.
- **`EveryRequestReported`** holds because every path out of
  `executeUserAction`'s fetches, the catch included, notifies, and every
  notice's timer removes it.

**Bounds.** A page size of 1 and three ids give totals 0..3 and up to four
pages, which is enough for:

- the pager's prev/next to appear and disappear;
- the last page to empty after a delete;
- a create to take the last free id.

Three requests allow:

- two list loads in flight with a third action after them, which reorders responses;
- a save and its reload;
- a double click on a stale pager.

Four are needed for the page-0 trace. It is used only by that violation run,
because the pass run at four has 11 million states.

The other views use the bounds below.

- **Devices (one in the pass run, two in the selection run):** with one device a create can still take the free id, a delete empties the table, and a toggle can race a reload; two devices gave 900 000 states, too many for the time limit of a run, and the temporal property is about the spinner, not about which row is shown.
- **Rules (two):** a create can take a free id, and a delete leaves another row in place.
- **DeviceView, 3 requests:** a toggle can race a list load.
- **RuleView, 4 requests:** open, add, submit and the reload that follows.
- **MonitorView, 4 requests in the pass run:** two overlapping refreshes plus two alarm fetches, so the last chain to settle can be a failing refresh that follows a successful one. The alarm violation run uses 5.

**Mutants.** Each property of a passing run has a mutant of the code that
breaks it:

| Mutant | Bug it models | Property it breaks |
|---|---|---|
| `MutPageButtonsOpenLoop` | `i < endPage` | `WindowSound` |
| `MutLoadPointsOkRequestPage` | the pager drawn for the requested page | `PagerTracksCurPage` |
| `MutLoadPointsFailErrorRow` | an error row in the catch, as `fetchDeviceData` has | `TypeOK` |
| `MutReloadNoFetch` (PointView) | the reload shows the spinner but never fetches | `SpinnerResolves` |
| `MutReloadNoFetch` (DeviceView) | the same, for `loadDevices` | `DeviceSpinnerResolves` |
| `MutLoadDevicesFailErrorRow` | an untyped error row in the catch of `loadDevices` | `TypeOK` |
| `MutEditRuleOkWrongId` | the rule id filled from the wrong field | `TypeOK` |
| `MutSnapshotFailKeepsLoading` | the catch forgets `classList.remove('loading')` | `MonitorSettles` |
| `MutDeliverImportFailSilent` | the upload's catch swallows the error | `EveryRequestReported` |
| `MutDeliverRetryOnFail` | the catch reports the failure and then resends the request | `ReportsFollowOutcomeLog` |

**Fairness.** `FairSpec` in PointView, DeviceView, MonitorView and UserActions adds weak
fairness of `ServeRid(i)` and `DeliverRid(i)` for every request id `i`.
Together these say:

- every fetch settles: the backend answers, or the browser fails a dead connection;
- the event loop runs the continuation of every settled fetch.

Fairness is per request id, so no request is starved by the others. The id
range is `1..2*MaxRequests` in PointView and DeviceView, because every request the operator
sends can trigger one reload. UserActions also makes the notification timer
fair: `setTimeout` always fires. The operator's actions get no fairness,
because the operator may stop at any point.

Some runs check deadlock and some do not:

- **The monitor, rule and user-action runs** set `CHECK_DEADLOCK FALSE`. Once the request bound is spent, everything has settled and the dialogs are closed, the console only waits for input. That is the end of a bounded operator, not a deadlock.
- **The point and device runs** check deadlock. Those views always have an enabled action: the point dialog can be opened and closed, and a device can be selected.

## Proofs

TLAPS proves the following for every value of the constants. The assumptions
are:

- `PageSize \in Nat \ {0}`;
- `MaxIds \in Nat`, `MaxDevices \in Nat`, `MaxRules \in Nat` and `MaxRequests \in Nat`;
- `Cards \subseteq AllCases`.

- **`PaginationLemmas`:**
  - `TotalPagesBounds`: the integer ceiling is a natural number, covers the total, is tight, and is at most the total.
  - `WindowFacts`: the window is a subset of `1..tp`, has at most five elements, and contains a real current page. The cardinality comes from `FS_Interval`.
- **`PaginationProofs.WindowAlwaysSound`:** `Spec => []WindowSound` of the harness, from the type lemma `TypeCorrect` and the
  lemmas above.
- **`PointViewProofs.TypeCorrect`:** `Spec => []TypeOK`.
  - TypeOK is inductive only because it includes `ArgsTyped(reqs)`: every
    get or delete in flight names a real id, and every save names one or is
    blank. Without it, `EditPointOk` could set `formId` outside `Ids`.
  - The proof has one step per action, and rests on lemmas about `Send`,
    `Reply`, `Apply`, `Answer` and the reload.
- **`PointViewProofs.PagerTracksCurPageHolds`:** `Spec => []PagerTracksCurPage`.
  The property is inductive by itself (lemma `TrackingStep`), for these
  reasons:
  - every step that changes `curPage` also sends a list request;
  - the reload after a save or delete sends one too;
  - a list request retires only through `LoadPointsOk`, which redraws the pager from `curPage`, or through `LoadPointsFail`, which sets `lastLoad` to "failed";
  - every other step keeps the list requests in flight. `Serve` keeps an answer's `op`.
- **`MonitorViewProofs.TypeCorrect`:** `Spec => []TypeOK`, with `TypeStep`
  as the step lemma. No run checks this TypeOK: no plausible change to the
  monitor's code would break it.

- **`DeviceViewProofs.TypeCorrect`** and **`RuleViewProofs.TypeCorrect`:**
  `Spec => []TypeOK` for each view. Each TypeOK is inductive by itself.
  - Each proof has a step per action. It rests on lemmas about a new
    request (`NewReqType`, `SendType`), the backend's answer and store
    update (`AnswerType`, `ApplyType`, `ServeType`), and the continuations
    (`DeliverType`).
  - `ApplyType` carries the backend side. A create takes a free id, and an
    update or delete names a stored one, so the store only ever holds ids
    it may assign.
  - A list answer's snapshot is therefore typed, and `LoadDevicesOk` and
    `LoadRulesOk` keep the table, the switches and the select typed.
- **`UserActionsProofs.ReportsFollowOutcomeLogHolds`:**
  `Spec => ReportsFollowOutcomeLog`, that is `Spec => Outcomes!Spec`.
  - **Inductive invariant.** `IInv` conjoins TypeOK,
    `nextRid <= MaxRequests + 1`, `RidsIssued` and `RidsUnique`.
    `RidsIssued` says every request in flight carries an issued number not
    yet reported. `RidsUnique` says no two requests in flight share a
    number. TLC checked `IInv` as an invariant of the `useractions` bounds
    before it was proved.
  - **Initial states.** `Init` maps to `Outcomes!Init`.
  - **Steps.** Every step maps to a step of OutcomeLog or to a stutter
    (lemma `Step`).
    - A send is `Begin(nextRid)` (lemma `SendStep`). The number is fresh
      because everything in flight or reported is below `nextRid`.
    - A delivery is `Finish(r.rid)` (lemma `DeliverStep`). The number
      leaves the in-flight set because of `RidsUnique`.
    - The backend's answer keeps the number (lemma `ServeStep`).
    - Every other step touches neither set (lemma `QuietStep`).
- **`UserActionsProofs.TypeCorrect`:** TypeOK of UserActions is not
  inductive by itself. A delivery adds the request's number to `reported`,
  and TypeOK does not say that number was issued. It follows from `IInv`.

These are checked by TLC only:

- **Liveness:** `SpinnerResolves`, `DeviceSpinnerResolves`, `MonitorSettles` and `EveryRequestReported`. TLAPS does not handle liveness or `ENABLED`.
- **The refinement check** of `RuleView` against `RuleModalLifecycle`. It is violated, so there is nothing to prove.

## Not modelled, and the plan

- **The HTML templates and CSS** change no state, so they are not modelled.
  The card titles and the device-select element come from the template; they
  are abstracted to model values.
- **The backend** is modelled only as far as each view's endpoints need.
- **Presentation is left out:** `updateStats` counters, column contents, the
  device status label text and notification wording.
- **The views are separate modules.** A dialog's backdrop covers the controls
  that open the other views' dialogs, so their dialogs never coexist. Two
  links between the views are not modelled:
  - the device filter that `loadCollectionRules` and `saveCollectionRule` read from `device-select`;
  - the filters `loadPoints` reads.

  The plan:
  1. A `Console` module that composes DeviceView's `sel` with RuleView's list
     query, so that `SelectionOnlyByOperator` shows its effect on the rules
     shown.
  2. Properties for the hazards still without one:
     - a late edit response turning a create form into an update (line 748);
     - a double submission (line 647);
     - the lost-response case of a save (line 661).
  3. An abstract "paged list" specification that PointView refines by
     mapping away the requests in flight.
