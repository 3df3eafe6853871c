# Formal model of the OKSE administration console

This directory holds TLA+ specifications of the browser side of the OKSE
admin console, with TLC models and TLAPS proofs. The code is four jQuery
modules:

- `src/broker/src/main/resources/static/js/main.js` (`Main`)
- `src/broker/src/main/resources/static/js/logs.js` (`Logs`)
- `src/src/main/resources/static/js/topics.js` (`Topics`)
- `src/src/main/resources/static/js/config.js` (`Config`)

The backend REST API is not in this repository. Where a model needs it, the
backend is modelled from `spec.md`.

## 1. The system

### Components

| Component | Code | State | Operations that change state |
|---|---|---|---|
| Transport | `Main.ajax`, `setupAjax`, `error` (main.js 49-131) | none of its own; requests in flight | send a request; run its success or error callback |
| Poll scheduler | `clickInterval`, `setIntervalForTab`, `clearIntervalForTab`, the poll armed by `Main.init` (main.js 37, 83-89, 200-202, 261-267) | the one interval handle | clear, send, re-arm; interval fires |
| Tab router | nav-tab click handler (main.js 213-259) | the pane shown | clamp the interval, choose url and renderer, clear and re-arm |
| Log filter | `Logs` (logs.js) | `logLevel`, `logID`, `logLength`, `url`, the refresh toggle's `active` class | level click, file change, length keyup, refresh toggle, render a log response, bind buttons from the log/levels and log/files responses |
| Protocol power button | `bindButtons`, `refresh`, `updateProtocolPowerButton` (main.js 91-185) | `cachedProtocolPowerStatus` | click (with or without the confirm dialog), POST, cache write by the poll response |
| Topics view | `Topics` (topics.js) | topic panels, delete handlers | refresh, delete a topic, delete a subscriber, delete all |
| Config view | `Config` (config.js) | none | none on this page: `Config.init` is never reached (below) |

### How they interact

Everything runs on the page's single event-loop thread, so each handler is
one atomic step. The steps come from three sources, which interleave:

- the user's clicks and keystrokes;
- the firing of the armed interval;
- the delivery of responses, in any order.

Requests that are in flight are never cancelled. Restarting the poll
only replaces the interval. A response sent for an earlier view can therefore
arrive after the view has changed. Every response for the log is drawn by
`Logs.refresh`, and every main/get/all response overwrites
`cachedProtocolPowerStatus`.

The page's ready handler (main.js 276-286) calls `Main.init()` and then
`Topics.init()`. This topics.js defines only `error` and `refresh`, so that
call throws a TypeError and the handler stops: `Subscribers.init()` and
`Config.init()` never run. The Config buttons are therefore never bound.
The Topics buttons are bound only by `Topics.refresh`, through `bindButtons`.

## 2. Modules

### `PollScheduler.tla`: poll scheduler, tab router, log filter and transport

**State.** It has these variables:

- `timers`: the armed intervals, as records `[id, req, delay]`;
- `clickInterval`;
- `pane`;
- the four `Logs` variables;
- `refreshActive`: the toggle's `active` class;
- `levelsBound` and `filesBound`: whether the level buttons and the file
  select exist with their handlers;
- `interval`: the value of the interval field;
- `inflight`: the settings objects of the requests sent;
- `logView`: the url whose lines `#log-data` shows.

**Data.** A url is a record of what the properties distinguish: the level,
file and length of a log url, or the path of a fixed endpoint. A request is
the pair (url, success callback) that `Main.ajax` receives. `NaN` is a model
value. `ToMs` and `Clamp` model `val() * 1000` and
`x < 500 ? 500 : x` with NaN comparisons false.

**Actions.** There is one action per handler:

- `ClickTab`;
- `ClickLevel`, `ChangeFile`, `KeyupLength`: each updates the filter and
  `url`, then calls `SetIntervalForTab`;
- `StartRefresh` and `StopRefresh`;
- `EditInterval`: the user's input;
- `IntervalFires`;
- `Receive` and `Fail`.

`Receive` runs the success callback of the request it delivers:

- `RenderLog` for `Logs.refresh`;
- `BindLevelButtons` for the log/levels request;
- `BindFileSelect` for the log/files request.

**Init.** `Init` is the page after `$(document).ready`:

- the main poll is armed every 2 s, with no immediate request;
- log/levels and log/files are in flight;
- the refresh toggle's class is either value, since the template chooses it.

**Abstraction.** Identical requests in flight are merged into one set element.
No property counts duplicate responses.

### `ProtocolPower.tla`: the power button against the backend

**State.** It has these variables:

- `power`: the backend's state;
- `cachedProtocolPowerStatus`: `Undefined` until the first response;
- `pane`: only whether the main pane is shown;
- `gets`: main/get/all requests in flight, `Unserved` or the response the
  backend produced;
- `posts`: the number of power POSTs in flight, split by whether the user
  confirmed.

**Actions.**

- `Tick`: the 2 s poll fires.
- `SwitchTab`: the tab click. Going to main sends one immediate request.
- `ServeGet` and `ServePost`: the backend. These are modelled from the spec,
  because the backend is not in `src/`.
- `Refresh`: main.js 183.
- `GetFails` and `PostFails`.
- `ClickPower(confirmed)`: the click handler. The dialog is shown exactly
  when the cache is `true`. A cancelled dialog sends nothing and is a stutter.

**Abstraction of the poll.** The poll is abstracted to "the main pane is
shown". `PollScheduler`'s `PollsCurrentView` justifies this: it is checked and
proved, and it says the armed interval polls exactly the visible pane's
endpoint.

### `ViewAdapters.tla`: the Topics view and its commands

**State.** It has these variables:

- `panels`: the `.panel` elements in `#topics-column`. Each panel is a record of:
  - an element identity `el`;
  - its id `key`, the lower-cased topic name;
  - its subscriber rows `subs`;
  - `since`: the `bindButtons` count when its tbody was last written.
- `binds`: the number of `bindButtons` calls so far.
- `lastClick`: the request the latest click handed to `Main.ajax`, and how many
  handlers sent it.

The number of click handlers on a panel's buttons is `binds - since`, because
jQuery's `.on` adds one handler to every matching element on each call. The
static `#delete-all-topics` button has `binds` handlers.

**Actions.**

- `Refresh(n, S)` is `Topics.refresh` for a response naming topic `n` with
  rows `S`. It looks up `'#' + key` in the whole page. The lookup has four
  outcomes, each a disjunct:
  - `FoundPanel`: the panel of that key, whose tbody is rewritten;
  - `FoundColumn`: `#topics-column` or an element containing it
    (`ColumnIds`, e.g. the `topics` pane). Every panel's tbody is rewritten;
  - `FoundElsewhere`: another template element (`PageIds`) or a subscriber's
    Delete link (`<a id=i>`, `RowIds`). No panel changes and none is created;
  - `NotFound`: a name that is no valid id selector, or an id nothing has.
    A new panel is appended (`NewPanel`).

  Then it calls `bindButtons`. Which of several elements with one id comes
  first in the document is left open, because Delete links keep their ids
  after rows are deleted.
- `ClickDeleteTopic` and `ClickDeleteSubscriber` are the two buttons inside a
  panel.
- `ClickDeleteAllTopics` is the global delete button.
- A click does something only when its element has a handler, that is after
  some `Topics.refresh` has bound it.

**The transport.** `Ajax` is what `Main.ajax(settings)` reads from its
argument, `settings.url` and `settings.type`. A positional string argument has
neither property, so its request is `GET /api/undefined`.

**Abstraction.** Topic responses arrive at any time, on time or late. The
backend's topic store is not modelled, because no command reaches it.

### `SinglePoller.tla`: the abstract polling contract

`SinglePoller` states spec 4.2 and 5 abstractly. At most one definition is
`active`.

- `Start(d)` replaces it and sends `d` at once.
- `Stop` leaves nothing polled.
- `Tick` sends the active definition.
- `Settle` handles a response.
- Requests are never cancelled.

`PollScheduler` instantiates it as `Poller`, mapping `active` to `PolledDef`,
the request of the armed interval. `PollerSpec == Poller!Spec` is checked by
TLC and proved by TLAPS.

### `TopicView.tla`: the abstract Topics contract

`TopicView` states spec 4.4 abstractly. Its one variable, `view`, is a
function from the keys shown to their rows. Its steps are:

- `Apply(k, S)` creates the entry of `k` or replaces its rows;
- `Remove(k)` drops one entry;
- `RemoveRow(k, s)` drops one row of one entry;
- `Clear` drops every entry.

No step touches an entry it is not about. `ViewAdapters` instantiates it as
`View`, mapping `view` to `Shown`: each panel id maps to the rows of the panel
with that id (`PanelOf`). `TopicViewSpec == View!Spec`.

The mapping cannot see duplicates: when a second panel is appended for a key,
`PanelOf` picks one of the two, and the step looks like an upsert or a
stutter. Duplicates are `PanelPerKey`'s job. Both properties are checked on the
same run.

### MC modules

`MCPollScheduler`, `MCProtocolPower` and `MCViewAdapters` hold the model values and the finite
sets for the constants. They also hold a symmetry set over the
timer handles. That symmetry is sound because no property and no action
distinguishes two handles except by equality.

## 3. Runs

| Run | cfg | Result | What it shows |
|---|---|---|---|
| `scheduler_safety` | `PollScheduler.cfg` | pass | `TypeOK`, `SingleTimer`, `PollsCurrentView` and `PollStopsOnlyOnRequest` hold in every interleaving of tab clicks, filter changes, refresh toggles, firings and out-of-order or failed responses. The last one says only the Stop refresh button ever leaves no interval armed: a failed request is retried only by the next firing. The run reaches about 133k distinct states. |
| `log_liveness` | `LogLiveness.cfg` | pass | `LogViewSettles`: once the log pane stays polled with one filter, the log view eventually shows that filter's lines for good. Stale responses in flight may overwrite it, but only finitely often. |
| `poll_refinement` | `PollRefinement.cfg` | pass | `PollerSpec`: every step of the page's polling is a step of the single-poller contract, or a stutter. The run reaches about 265k distinct states. |
| `topics_safety` | `ViewAdapters.cfg` | pass | `PanelPerKey` and `TopicViewSpec`. The names are valid selectors and none is an ancestor of the panels: "News" and "news" (which share a key), "main" (the main pane's id) and "0" (a Delete link's id). Responses and delete clicks never give two panels for one key. Every step is a `TopicView` step on the entries shown, or leaves them unchanged. |
| `power_status` | `ProtocolPower.cfg` | pass | `StatusConverges`: once the user stops toggling on the main pane, the cached status eventually equals the servers' state for good. |
| `refresh_button` | `RefreshButton.cfg` | violation | `RefreshButtonTruthful` fails. Clicking the log tab (or changing a filter after "Stop refresh") polls the log while the toggle offers "Start refresh". |
| `interval_floor` | `IntervalFloor.cfg` | violation | `IntervalFloor` fails. The interval field is empty (0) or non-numeric (NaN). NaN passes the tab click's clamp (main.js 217) and runs as 0 ms. `setIntervalForTab` (main.js 88), used by every log control, never clamps, so 0 arms a 0 ms poll. |
| `shutdown_confirmed` | `ShutdownConfirmed.cfg` | violation | `ShutdownConfirmed` fails. See below. |
| `unsafe_topic_name` | `UnsafeTopicName.cfg` | violation | `PanelPerKey` fails. `$('#a.b')` never finds the panel of topic "a.b", so each response appends another panel. |
| `duplicate_commands` | `DuplicateCommands.cfg` | violation | `OneRequestPerClick` fails. After two topic responses, one "Delete all" click sends its command twice, because `bindButtons` stacks handlers (topics.js 118). |
| `commands_sent_as_get` | `CommandsArePosts.cfg` | violation | `CommandsArePosts` fails. After a topic response has bound the buttons, the positional `Main.ajax` calls (topics.js 85, 92, 99) send `GET /api/undefined`. |
| `topic_named_like_column` | `TopicNamedLikeColumn.cfg` | violation | `TopicViewSpec` fails. With panels for "news" and "sport", a response for a topic named "topics" finds the pane holding `#topics-column` (topics.js 113), creates no panel, and `updatePanel` writes its subscribers into both other panels (topics.js 116). |

`shutdown_confirmed` fails after these steps:

1. The page loads with the servers running.
2. The user clicks the power button before the first poll response. The
   cache is still `undefined`, so no dialog is shown.
3. The POST stops the servers.

The same path opens after any toggle whose new status has not yet been
polled, for example a double click.

`PROJECT.json` lists these violations as findings. Each property of a
passing run has a mutant in `PROJECT.json`. A mutant is a plausible slip in
the code that the property catches:

| Mutant | Property it breaks |
|---|---|
| `setIntervalForTab` without its `clearInterval` | `SingleTimer` |
| a level click that re-arms before `updateUrl` | `PollsCurrentView` and `LogViewSettles` |
| an error handler that clears the interval after a failure | `PollStopsOnlyOnRequest` |
| a renderer that draws every response | `TypeOK` |
| a `refresh` that drops the cache write | `StatusConverges` |
| a tab click that arms the interval without the immediate request | `PollerSpec` only; the invariants still hold |
| `Topics.refresh` without the existence check | `PanelPerKey` |
| `updatePanel` applied to every tbody of the column, not the one found by id | `TopicViewSpec` only; `PanelPerKey` still holds |

### Bounds

**PollScheduler** uses these values:

- three tabs: `main`, `topics` and `log`;
- two levels and two files;
- one length, 250, plus the initial url without a length;
- interval inputs `{0, 1}`; the interval-floor run uses `{0, NaN}`;
- two timer handles.

Two handles are the least that lets a missing clear show up as two
intervals. Two values of each filter are the least that lets a stale
response differ from the current one. The interval inputs cover both sides
of the 500 ms floor.

**The liveness run** uses:

- the tabs `main` and `log`;
- one file;
- no symmetry, because TLC does not combine symmetry with liveness.

**The refinement run** uses the same instance as `scheduler_safety`, without
symmetry.

**ViewAdapters** uses these values:

- topics "News", "news", "main" and "0"; the unsafe-name run uses "news" and
  "a.b"; the column run uses "news", "sport" and "topics";
- page ids "main", "topics" and "topics-column", the last two containing the
  column; Delete-link ids "0" and "1";
- two subscribers;
- at most 3 refreshes.

Two refreshes are needed before a click runs two handlers, and a third lets a
panel be rewritten after one of its rows was deleted. The column run needs
three: two panels, then the response that rewrites both.

**ProtocolPower** uses `MaxPosts = 2`, so two POSTs can be in flight and a
double click happens.

### Fairness

**PollScheduler.**

- Weak fairness on the interval firing. The browser keeps firing an armed
  interval.
- Strong fairness on the delivery of each request. The backend may fail a
  request, but the poll re-sends it on every firing, so a backend that is up
  answers one of them.

**ProtocolPower.**

- Weak fairness on `Tick`.
- Strong fairness on `ServeGet` and on `Refresh(r)`. `ServeGet` needs strong
  fairness because a pending request can fail before it is served.

The user is never assumed to act.

## 4. Proofs (TLAPS)

### `PollSchedulerProofs.tla`

These theorems are proved for every value of the constants, under the
module's `ASSUME`s:

- `PollingInvariant`: `Spec => [](TypeOK /\ SingleTimer /\ PollsCurrentView)`;
- `TypeCorrect`;
- `NoLeakedInterval`;
- `PollNeverDropped`: `Spec => []PollStopsOnlyOnRequest`. This invariant is
  inductive on its own (lemma `NextStopsOnlyOnRequest`). Every handler other
  than Stop refresh either arms an interval (lemma `ArmLeavesOne`) or leaves
  the intervals, the pane and the toggle alone.

The three invariants are inductive together:

- `SingleTimer` alone is not inductive. A restart removes the timer whose id
  is `clickInterval` (lemma `ClearAll`) and needs `TypeOK` for the record
  shape.
- `PollsCurrentView` needs `SingleTimer`. Only then does re-arming one timer
  with the new settings (lemma `RestartArmsOne`) leave no timer with old
  settings.

The step proof has one step per action. It rests on these lemmas:

- `TabSettingsType`;
- `LogRequestsCarryLogUrls`;
- `DelaysType`;
- `RestartKeepsTimerInv`.

### `ProtocolPowerProofs.tla`

`PowerTypeCorrect` proves `Spec => []TypeOK` for every positive `MaxPosts`. It
uses the lemma `CounterUpdate` for the `EXCEPT` updates of the counters.

### `PollSchedulerRefinement.tla`

`Refinement` proves `Spec => PollerSpec` in the standard form:

- `InitRefines`: `Init` maps to `Poller!Init`.
- `StepRefines`: under `Inv`, every step maps to a `Poller!Next` step or
  leaves `<<PolledDef, inflight>>` unchanged.

The argument has one step per action:

- the restarts are `Start` (lemma `RestartIsStart`);
- `StopRefresh` is `Stop`;
- a firing is `Tick`;
- responses and failures are `Settle`;
- `EditInterval` stutters.

`PolledDef` chooses "the" armed interval, so the mapping is only meaningful
under `SingleTimer`. This is why the step proof takes `PollingInvariant`'s
`Inv` as its hypothesis. The proof also relies on `NoPollAssumption`, which
says the "nothing polled" value is no request.

### `ViewAdaptersProofs.tla`

`PanelsIdempotent` proves `Spec => []PanelPerKey` under the hypothesis that
every lower-cased topic name is a valid id selector. `AdaptersTypeCorrect`
proves type correctness.

The inductive invariant is `TypeOK /\ SinceBound /\ PanelPerKey`.
`SinceBound` says that no panel's buttons are newer than the last
`bindButtons`. Without it, a click's handler count `binds - since` could not be
shown to be a natural number.

`TopicsRefinement` proves `Spec => TopicViewSpec` under two hypotheses:
every key is a valid id selector, and no key is in `ColumnIds`. The second is
needed: the run `topic_named_like_column` shows that a key in `ColumnIds`
breaks the contract. A key that is another element's id (`FoundElsewhere`)
is allowed. Its responses change nothing, a `TopicView` stutter.
The proof has the standard form:

- `InitRefinesView`: the empty column maps to the empty view.
- `StepRefinesView`: under `Inv`, each action maps to one `TopicView` action:
  - a response that finds its panel or finds nothing is `Apply` of its key;
  - a response that finds another element stutters;
  - a response that finds the column cannot happen under the hypothesis;
  - the two delete buttons are `Remove` and `RemoveRow`;
  - "Delete all" is `Clear`.

The argument rests on a characterisation of the mapping: when no two panels
share a key, `ShownOf(P)` is the function from each panel's key to its rows
(`ShownOfChar`, `ShownOfAt`).

- `Upserted(P, P2, k, S)` says `P2` is `P` with the panel of `k` holding `S`.
  Three lemmas give the domain, the new entry and the unchanged entries of
  `ShownOf(P2)`: `UpsertDomain`, `UpsertAt`, `UpsertElsewhere`.
- `ShownOfDrop` does the same for a removed panel.

`PanelPerKey`, proved above, is what makes `PanelOf` pick the panel a step
changed. That is why the refinement needs the selector-safe hypothesis as a
proof hypothesis, although TLC finds no violation of `TopicViewSpec` with an
unsafe name.

The three upsert facts are separate lemmas rather than one conjunction. The
provers instantiate a single-fact lemma at once. From an instance of the
conjunction they could not extract one conjunct within their time limits.

### What stays with TLC

The following are only model-checked, because TLAPS cannot handle them here:

- Liveness under fairness: `LogViewSettles` and `StatusConverges`. These
  need ENABLED and fairness reasoning.
- Induction over data, and RECURSIVE operators. The current modules do not use
  any.

## 5. Not modelled, and the plan

- **Main pane rendering** (`refreshRuntimeStatistics`, `refreshProtocolsTable`,
  `displayMessage`) is left out. It only writes text, and no property
  distinguishes it.
- **`statusErrorMap`** is left out. It only chooses a log line.
- **`Stats` and `Subscribers`** are referenced by the tab switch, but their
  code is not in this repository.
- **The backend's topic store** is left out. It is not in this repository,
  and with the positional `Main.ajax` calls no delete command reaches it. A
  delete-all racing a late topic response is therefore listed as a hazard with
  no property.
- **The Config view** is left out. `Config.init`, which binds the encoding
  and mapping buttons, is never reached on this page (see section 1).
  `Config.refresh` and `Config.error` only write to the console.
- **A tab outside the switch.** The default branch of the tab switch
  (main.js 250-252) is in the model, in `TabSettings`. No run asks about it,
  because the tab list is in the page template, not in this repository, and
  the code itself says such a tab should not happen.
- **The composition of `ViewAdapters` with `PollScheduler`** is not modelled.
  `Topics.refresh` is the success callback of the topics poll, and the module
  lets topic responses arrive at any time. That over-approximates the
  responses, on time and stale, that the scheduler can deliver.
- **The log/levels and log/files failure path** is in the model: a failure
  leaves the controls unbound forever. It has no property, because the code
  promises no retry.
