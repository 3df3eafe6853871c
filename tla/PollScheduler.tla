--------------------------- MODULE PollScheduler ---------------------------
(***************************************************************************)
(* The tab-scoped polling engine of the administration console:           *)
(* Main.init, the nav-tab click handler and setIntervalForTab of main.js,  *)
(* and the log filter controls of logs.js that restart the poll.           *)
(*                                                                         *)
(* The page runs on one event-loop thread, so every handler is one atomic  *)
(* step.  What interleaves is the user's events, the firing of the armed   *)
(* interval and the arrival of responses, which the browser delivers in    *)
(* any order: a request is a member of `inflight` from the call of         *)
(* Main.ajax until its success or error callback runs.                     *)
(***************************************************************************)
EXTENDS Naturals, FiniteSets

CONSTANTS
    Tabs,            \* hrefs of the nav-tab links the page contains
    LogLevels,       \* levels the backend returns from log/levels
    LogFiles,        \* option values of the log-file select (from log/files)
    LogLengths,      \* values the user can type into #log-length
    IntervalInputs,  \* values of #settings-update-interval, in seconds
    NaN,             \* the JavaScript NaN (Number of a non-numeric text)
    NoLength,        \* the length parameter absent from the initial log url
    NoLog,           \* #log-data before any log response is rendered
    TimerIds,        \* handles setInterval can return
    NoPoll           \* no interval is armed

KnownTabs == {"main", "topics", "statistics", "log", "config", "subscribers"}

ASSUME TabsAssumption == "main" \in Tabs /\ "log" \in Tabs
ASSUME LevelsAssumption == "DEBUG" \in LogLevels
ASSUME FilesAssumption == 0 \in LogFiles
ASSUME LengthsAssumption == 250 \in LogLengths /\ LogLengths \subseteq Nat
ASSUME IntervalAssumption == IntervalInputs \subseteq (Nat \cup {NaN}) /\ NaN \notin Nat
ASSUME TimerIdsAssumption == TimerIds # {}

VARIABLES
    timers,          \* intervals armed with setInterval: [id, req, delay]
    clickInterval,   \* Main's clickInterval: the handle clearInterval gets
    pane,            \* the tab pane currently shown
    logLevel,        \* Logs' logLevel
    logID,           \* Logs' logID
    logLength,       \* Logs' logLength
    url,             \* Logs' url, as last built by updateUrl
    refreshActive,   \* #logs-button-refresh has class "active"
    levelsBound,     \* the log-level buttons exist with click handlers
    filesBound,      \* the log-file select has its change handler
    interval,        \* value of #settings-update-interval
    inflight,        \* requests sent whose callback has not run yet
    logView          \* the log url whose lines #log-data shows

vars == <<timers, clickInterval, pane, logLevel, logID, logLength, url,
          refreshActive, levelsBound, filesBound, interval, inflight, logView>>

logVars == <<logLevel, logID, logLength, url>>

-----------------------------------------------------------------------------
(* Request definitions: the settings object handed to Main.ajax.           *)

\* updateUrl: "log?logLevel=" + logLevel + "&logID=" + logID + "&length=" + logLength
LogUrl(level, file, length) == [level |-> level, file |-> file, length |-> length]

\* the initial value of url, which carries no length parameter
InitialUrl == LogUrl("DEBUG", 0, NoLength)

LogUrls == {InitialUrl} \cup {LogUrl(l, f, n) : l \in LogLevels, f \in LogFiles, n \in LogLengths}

\* the settings the log controls pass to setIntervalForTab
LogSettings(u) == [url |-> u, success |-> "Logs.refresh"]

\* url (a path without query) and success callback of each case of the tab switch other than "log"
FixedEndpoint == [main |-> [path |-> "main/get/all"], topics |-> [path |-> "topic/get/all"],
                  statistics |-> [path |-> "statistics/get/all"],
                  config |-> [path |-> "config/get/all"],
                  subscribers |-> [path |-> "subscriber/get/all"]]

Renderer == [main |-> "Main.refresh", topics |-> "Topics.refresh",
             statistics |-> "Stats.refresh", log |-> "Logs.refresh",
             config |-> "Config.refresh", subscribers |-> "Subscribers.refresh"]

\* ajaxSettings of the click handler for tab t, given Logs.url() = u; an
\* unknown tab keeps url = clickedElement and no success callback
TabSettings(t, u) ==
    IF t = "log" THEN LogSettings(u)
    ELSE IF t \in DOMAIN FixedEndpoint
         THEN [url |-> FixedEndpoint[t], success |-> Renderer[t]]
         ELSE [url |-> [path |-> t], success |-> "none"]

LevelsRequest == [url |-> [path |-> "log/levels"], success |-> "Logs.levels"]
FilesRequest == [url |-> [path |-> "log/files"], success |-> "Logs.files"]

Requests == {TabSettings(t, u) : t \in Tabs, u \in LogUrls} \cup {LevelsRequest, FilesRequest}

ASSUME NoPollAssumption == NoPoll \notin Requests

-----------------------------------------------------------------------------
(* Interval arithmetic.                                                    *)

\* $('#settings-update-interval').val() * 1000
ToMs(v) == IF v = NaN THEN NaN ELSE v * 1000

\* updateInterval < 500 ? 500 : updateInterval  (NaN < 500 is false)
Clamp(ms) == IF ms # NaN /\ ms < 500 THEN 500 ELSE ms

Delays == {2000} \cup {ToMs(v) : v \in IntervalInputs} \cup {Clamp(ToMs(v)) : v \in IntervalInputs}

-----------------------------------------------------------------------------
(* The timer and transport primitives.                                     *)

Ids(S) == {tm.id : tm \in S}

\* clearInterval(h): the intervals that survive
Clear(h) == {tm \in timers : tm.id # h}

\* clickInterval = setInterval(function () { ajax(s) }, d), with the armed
\* intervals `live` before the call; the browser returns a fresh handle
Arm(live, s, d) ==
    \E h \in TimerIds \ Ids(live) :
        /\ timers' = live \cup {[id |-> h, req |-> s, delay |-> d]}
        /\ clickInterval' = h

\* Main.ajax(s): one request is sent
Send(s) == inflight' = inflight \cup {s}

-----------------------------------------------------------------------------
(* Mutants: plausible slips in the code, used to show the properties bite. *)

\* setIntervalForTab without its leading clearInterval
SetIntervalForTabNoClear(s) ==
    /\ Send(s)
    /\ Arm(timers, s, ToMs(interval))

\* a log level click that restarts the poll before calling updateUrl
ClickLevelStaleUrl(l) ==
    /\ levelsBound /\ pane = "log"
    /\ logLevel' = l
    /\ url' = LogUrl(l, logID, logLength)
    /\ Send(LogSettings(url))
    /\ Arm(Clear(clickInterval), LogSettings(url), ToMs(interval))
    /\ UNCHANGED <<logID, logLength, pane, refreshActive, levelsBound,
                   filesBound, interval, logView>>

\* a tab click that arms the interval without the immediate ajax call
ClickTabNoImmediate(t) ==
    /\ pane' = t
    /\ Arm(Clear(clickInterval), TabSettings(t, url), Clamp(ToMs(interval)))
    /\ UNCHANGED <<logVars, refreshActive, levelsBound, filesBound, interval,
                   inflight, logView>>

\* the log renderer applied to every response, whatever its request
RenderLogAny(r) == logView' = r.url

\* an error handler that gives up polling after a failed request
FailStopsPoll(r) ==
    /\ r \in inflight
    /\ inflight' = inflight \ {r}
    /\ timers' = Clear(clickInterval)
    /\ UNCHANGED <<clickInterval, pane, logVars, refreshActive,
                   levelsBound, filesBound, interval, logView>>

-----------------------------------------------------------------------------
(* Main.init with Logs.init, run once from $(document).ready: the main     *)
(* poll is armed every 2 s without an immediate request, and the log       *)
(* levels and log files are requested.  The landing pane is "main"; the    *)
(* template sets the initial class of the refresh button.                  *)
Init ==
    /\ pane = "main"
    /\ \E h \in TimerIds :
          /\ timers = {[id |-> h, req |-> TabSettings("main", InitialUrl), delay |-> 2000]}
          /\ clickInterval = h
    /\ logLevel = "DEBUG"
    /\ logID = 0
    /\ logLength = 250
    /\ url = InitialUrl
    /\ refreshActive \in BOOLEAN
    /\ levelsBound = FALSE
    /\ filesBound = FALSE
    /\ interval \in IntervalInputs
    /\ inflight = {LevelsRequest, FilesRequest}
    /\ logView = NoLog

\* setIntervalForTab(settings): clear, one immediate request, re-arm with
\* the raw interval field (no 500 ms floor here)
SetIntervalForTab(s) ==
    /\ Send(s)
    /\ Arm(Clear(clickInterval), s, ToMs(interval))

\* the nav-tab click handler; Bootstrap shows pane t on the same click
ClickTab(t) ==
    /\ pane' = t
    /\ Send(TabSettings(t, url))
    /\ Arm(Clear(clickInterval), TabSettings(t, url), Clamp(ToMs(interval)))
    /\ UNCHANGED <<logVars, refreshActive, levelsBound, filesBound, interval, logView>>

\* a click on the log-level button of level l
ClickLevel(l) ==
    /\ levelsBound /\ pane = "log"
    /\ logLevel' = l
    /\ url' = LogUrl(l, logID, logLength)
    /\ SetIntervalForTab(LogSettings(url'))
    /\ UNCHANGED <<logID, logLength, pane, refreshActive, levelsBound,
                   filesBound, interval, logView>>

\* a change of the log-file select to option f
ChangeFile(f) ==
    /\ filesBound /\ pane = "log" /\ f # logID
    /\ logID' = f
    /\ url' = LogUrl(logLevel, f, logLength)
    /\ SetIntervalForTab(LogSettings(url'))
    /\ UNCHANGED <<logLevel, logLength, pane, refreshActive, levelsBound,
                   filesBound, interval, logView>>

\* a keyup in #log-length whose value is then n (any key, changed or not)
KeyupLength(n) ==
    /\ pane = "log"
    /\ logLength' = n
    /\ url' = LogUrl(logLevel, logID, n)
    /\ SetIntervalForTab(LogSettings(url'))
    /\ UNCHANGED <<logLevel, logID, pane, refreshActive, levelsBound,
                   filesBound, interval, logView>>

\* #logs-button-refresh clicked while not active: "Stop refresh"
StartRefresh ==
    /\ pane = "log" /\ ~refreshActive
    /\ refreshActive' = TRUE
    /\ SetIntervalForTab(LogSettings(url))
    /\ UNCHANGED <<logVars, pane, levelsBound, filesBound, interval, logView>>

\* #logs-button-refresh clicked while active: "Start refresh"
StopRefresh ==
    /\ pane = "log" /\ refreshActive
    /\ refreshActive' = FALSE
    /\ timers' = Clear(clickInterval)
    /\ UNCHANGED <<clickInterval, logVars, pane, levelsBound, filesBound,
                   interval, inflight, logView>>

\* the user edits #settings-update-interval (read at the next restart)
EditInterval(v) ==
    /\ interval' = v
    /\ UNCHANGED <<timers, clickInterval, pane, logVars, refreshActive,
                   levelsBound, filesBound, inflight, logView>>

\* an armed interval fires and re-sends its settings object
IntervalFires(tm) ==
    /\ tm \in timers
    /\ Send(tm.req)
    /\ UNCHANGED <<timers, clickInterval, pane, logVars, refreshActive,
                   levelsBound, filesBound, interval, logView>>

\* Logs.refresh: #log-data shows the lines of the response
RenderLog(r) == logView' = IF r.success = "Logs.refresh" THEN r.url ELSE logView

\* success of log/levels: the level buttons are created and bound
BindLevelButtons(r) == levelsBound' = (levelsBound \/ r.success = "Logs.levels")

\* success of log/files: the file options are created and the select bound
BindFileSelect(r) == filesBound' = (filesBound \/ r.success = "Logs.files")

\* a 2xx response: the request's success callback runs
Receive(r) ==
    /\ r \in inflight
    /\ inflight' = inflight \ {r}
    /\ RenderLog(r)
    /\ BindLevelButtons(r)
    /\ BindFileSelect(r)
    /\ UNCHANGED <<timers, clickInterval, pane, logVars, refreshActive, interval>>

\* a failed request: the global error handler only reports it
Fail(r) ==
    /\ r \in inflight
    /\ inflight' = inflight \ {r}
    /\ UNCHANGED <<timers, clickInterval, pane, logVars, refreshActive,
                   levelsBound, filesBound, interval, logView>>

Next ==
    \/ \E t \in Tabs : ClickTab(t)
    \/ \E l \in LogLevels : ClickLevel(l)
    \/ \E f \in LogFiles : ChangeFile(f)
    \/ \E n \in LogLengths : KeyupLength(n)
    \/ StartRefresh
    \/ StopRefresh
    \/ \E v \in IntervalInputs : EditInterval(v)
    \/ \E tm \in timers : IntervalFires(tm)
    \/ \E r \in inflight : Receive(r)
    \/ \E r \in inflight : Fail(r)

Spec == Init /\ [][Next]_vars

(* The browser fires an armed interval and the backend eventually answers *)
(* a request it is sent again and again; the user is under no obligation. *)
FairSpec ==
    /\ Spec
    /\ WF_vars(\E tm \in timers : IntervalFires(tm))
    /\ \A r \in Requests : SF_vars(Receive(r))

-----------------------------------------------------------------------------
(* Properties.                                                             *)

TypeOK ==
    /\ timers \subseteq [id : TimerIds, req : Requests, delay : Delays]
    /\ clickInterval \in TimerIds
    /\ pane \in Tabs
    /\ logLevel \in LogLevels
    /\ logID \in LogFiles
    /\ logLength \in LogLengths
    /\ url \in LogUrls
    /\ refreshActive \in BOOLEAN
    /\ levelsBound \in BOOLEAN
    /\ filesBound \in BOOLEAN
    /\ interval \in IntervalInputs
    /\ inflight \subseteq Requests
    /\ logView \in LogUrls \cup {NoLog}

(* At most one interval is armed, and it is the one clickInterval holds,  *)
(* so the next clearInterval(clickInterval) silences the page: no         *)
(* sequence of tab clicks, filter changes and refresh toggles leaks a     *)
(* second poller.                                                         *)
SingleTimer == \A a, b \in timers : a = b /\ a.id = clickInterval

(* The armed interval re-sends exactly the request the visible pane would *)
(* issue now: the endpoint of the tab shown, and for the log the url      *)
(* built from the current level, file and length.                         *)
PollsCurrentView == \A tm \in timers : tm.req = TabSettings(pane, url)

LogPolled == \E tm \in timers : tm.req.success = "Logs.refresh"

(* The page always has an interval armed, except on the log pane after  *)
(* the user pressed Stop refresh: a failed or timed-out request (the     *)
(* error handler of main.js 121-131) is retried only by the next firing, *)
(* so no failure, and no handler other than the toggle, may disarm it.   *)
PollStopsOnlyOnRequest == timers = {} => (pane = "log" /\ ~refreshActive)

(* Once the log pane stays shown and polled with filter u, #log-data     *)
(* eventually shows the lines for u for good: responses for earlier       *)
(* filters still in flight may overwrite it for a while, but they are    *)
(* finitely many, and every later render is for u.                      *)
LogViewSettles ==
    \A u \in LogUrls :
        <>[](pane = "log" /\ url = u /\ LogPolled) => <>[](logView = u)

(* Spec 4.3: the refresh button says "Stop refresh" (class active) exactly *)
(* when the log pane is being refreshed.                                  *)
RefreshButtonTruthful == pane = "log" => (refreshActive <=> LogPolled)

\* the delay setInterval uses: NaN and negative delays become 0
EffectiveDelay(d) == IF d = NaN THEN 0 ELSE d

(* Spec 4.2 and 6: the poll period is never below the 500 ms floor.       *)
IntervalFloor == \A tm \in timers : EffectiveDelay(tm.delay) >= 500

-----------------------------------------------------------------------------
(* Refinement of SinglePoller: the definition polled is the request of the *)
(* armed interval.                                                         *)

\* the settings object the armed interval re-sends, if any
PolledDef == IF timers = {} THEN NoPoll ELSE (CHOOSE tm \in timers : TRUE).req

Poller == INSTANCE SinglePoller WITH Defs <- Requests, active <- PolledDef

(* The scheduler implements the single-poller contract of spec 4.2 and 5: *)
(* every tab click, log filter change and refresh toggle replaces the one *)
(* poll and sends its request at once, and every other request main.js   *)
(* sends is a tick of the definition polled at that moment.               *)
PollerSpec == Poller!Spec

=============================================================================
