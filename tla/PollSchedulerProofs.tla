------------------------ MODULE PollSchedulerProofs ------------------------
(***************************************************************************)
(* Proofs about PollScheduler for every value of the constants.           *)
(*                                                                         *)
(* SingleTimer and PollsCurrentView are not inductive each on its own: a  *)
(* restart clears only the interval clickInterval names, so its          *)
(* preservation needs SingleTimer in the pre-state, and the new request    *)
(* is in Requests only by TypeOK.  Their conjunction with TypeOK is        *)
(* inductive.                                                             *)
(***************************************************************************)
EXTENDS PollScheduler, TLAPS

Inv == TypeOK /\ SingleTimer /\ PollsCurrentView

-----------------------------------------------------------------------------
(* Lemmas about the request and timer helpers.                            *)

\* Every tab's settings object, for a log url the model can build, is a request.
LEMMA TabSettingsType ==
    ASSUME NEW t \in Tabs, NEW u \in LogUrls
    PROVE  TabSettings(t, u) \in Requests
BY DEF Requests

\* A log request carries a log url; no other case of the switch uses Logs.refresh.
LEMMA LogRequestsCarryLogUrls ==
    ASSUME NEW r \in Requests, r.success = "Logs.refresh"
    PROVE  r.url \in LogUrls
<1>1. CASE r \in {LevelsRequest, FilesRequest}
  BY <1>1 DEF LevelsRequest, FilesRequest
<1>2. CASE \E t \in Tabs, u \in LogUrls : r = TabSettings(t, u)
  <2>1. PICK t \in Tabs, u \in LogUrls : r = TabSettings(t, u)
    BY <1>2
  <2>2. CASE t = "log"
    BY <2>1, <2>2 DEF TabSettings, LogSettings
  <2>3. CASE t # "log" /\ t \in DOMAIN FixedEndpoint
    BY <2>1, <2>3 DEF TabSettings, FixedEndpoint, Renderer
  <2>4. CASE t # "log" /\ t \notin DOMAIN FixedEndpoint
    BY <2>1, <2>4 DEF TabSettings
  <2>5. QED
    BY <2>2, <2>3, <2>4
<1>3. QED
  BY <1>1, <1>2 DEF Requests

\* The delays of both restart paths are delays of the model.
LEMMA DelaysType ==
    ASSUME NEW v \in IntervalInputs
    PROVE  /\ ToMs(v) \in Delays
           /\ Clamp(ToMs(v)) \in Delays
BY DEF Delays

\* Under SingleTimer, clearing clickInterval silences every interval.
LEMMA ClearAll ==
    ASSUME SingleTimer
    PROVE  Clear(clickInterval) = {}
BY DEF SingleTimer, Clear

\* A restart of the poll leaves exactly the new interval, named by clickInterval.
LEMMA RestartArmsOne ==
    ASSUME SingleTimer, NEW s, NEW d, Arm(Clear(clickInterval), s, d)
    PROVE  /\ clickInterval' \in TimerIds
           /\ timers' = {[id |-> clickInterval', req |-> s, delay |-> d]}
BY ClearAll DEF Arm, Ids

\* A restart that arms the request of the pane shown afterwards keeps the
\* timer part of the invariant.
LEMMA RestartKeepsTimerInv ==
    ASSUME SingleTimer, NEW s \in Requests, NEW d \in Delays,
           Arm(Clear(clickInterval), s, d),
           s = TabSettings(pane', url')
    PROVE  /\ timers' \subseteq [id : TimerIds, req : Requests, delay : Delays]
           /\ clickInterval' \in TimerIds
           /\ SingleTimer'
           /\ PollsCurrentView'
<1>1. /\ clickInterval' \in TimerIds
      /\ timers' = {[id |-> clickInterval', req |-> s, delay |-> d]}
  BY RestartArmsOne
<1>2. QED
  BY <1>1 DEF SingleTimer, PollsCurrentView

-----------------------------------------------------------------------------
(* The invariant.                                                         *)

LEMMA InitInv == Init => Inv
<1> SUFFICES ASSUME Init PROVE Inv
  OBVIOUS
<1>1. TabSettings("main", InitialUrl) \in Requests
  <2>1. InitialUrl \in LogUrls
    BY DEF LogUrls
  <2>2. QED
    BY <2>1, TabSettingsType, TabsAssumption
<1>2. 2000 \in Delays
  BY DEF Delays
<1>3. TypeOK
  <2>1. InitialUrl \in LogUrls
    BY DEF LogUrls
  <2>2. PICK h \in TimerIds :
          /\ timers = {[id |-> h, req |-> TabSettings("main", InitialUrl), delay |-> 2000]}
          /\ clickInterval = h
    BY DEF Init
  <2>3. timers \subseteq [id : TimerIds, req : Requests, delay : Delays]
    BY <1>1, <1>2, <2>2
  <2>4. {LevelsRequest, FilesRequest} \subseteq Requests
    BY DEF Requests
  <2>5. /\ pane = "main"
        /\ logLevel = "DEBUG"
        /\ logID = 0
        /\ logLength = 250
        /\ url = InitialUrl
        /\ refreshActive \in BOOLEAN
        /\ levelsBound = FALSE
        /\ filesBound = FALSE
        /\ interval \in IntervalInputs
        /\ inflight = {LevelsRequest, FilesRequest}
        /\ logView = NoLog
    BY DEF Init
  <2>6. QED
    BY <2>1, <2>2, <2>3, <2>4, <2>5, LevelsAssumption, FilesAssumption,
       LengthsAssumption, TabsAssumption, Zenon DEF TypeOK
<1>4. SingleTimer /\ PollsCurrentView
  BY DEF Init, SingleTimer, PollsCurrentView
<1>5. QED
  BY <1>3, <1>4 DEF Inv

LEMMA NextInv == Inv /\ [Next]_vars => Inv'
<1> SUFFICES ASSUME Inv, [Next]_vars PROVE Inv'
  OBVIOUS
<1>0. /\ TypeOK
      /\ SingleTimer
      /\ PollsCurrentView
  BY DEF Inv
<1> USE DEF Inv
\* the log settings for a url of the model is a request of the log pane
<1>L. ASSUME NEW u \in LogUrls
      PROVE  /\ LogSettings(u) \in Requests
             /\ LogSettings(u) = TabSettings("log", u)
  BY TabSettingsType, TabsAssumption, Zenon DEF TabSettings
<1>1. ASSUME NEW t \in Tabs, ClickTab(t) PROVE Inv'
  <2>1. TabSettings(t, url) \in Requests
    BY <1>0, TabSettingsType DEF TypeOK
  <2>2. Clamp(ToMs(interval)) \in Delays
    BY <1>0, DelaysType DEF TypeOK
  <2>3. TabSettings(t, url) = TabSettings(pane', url')
    BY <1>1 DEF ClickTab, logVars
  <2>4. /\ timers' \subseteq [id : TimerIds, req : Requests, delay : Delays]
        /\ clickInterval' \in TimerIds
        /\ SingleTimer'
        /\ PollsCurrentView'
    BY <1>0, <1>1, <2>1, <2>2, <2>3, RestartKeepsTimerInv DEF ClickTab
  <2>5. inflight' \subseteq Requests
    BY <1>0, <1>1, <2>1 DEF ClickTab, Send, TypeOK
  <2>6. QED
    BY <1>0, <1>1, <2>4, <2>5 DEF ClickTab, TypeOK, logVars
<1>2. ASSUME NEW l \in LogLevels, ClickLevel(l) PROVE Inv'
  <2>1. url' \in LogUrls
    BY <1>0, <1>2 DEF ClickLevel, TypeOK, LogUrls
  <2>2. ToMs(interval) \in Delays
    BY <1>0, DelaysType DEF TypeOK
  <2>3. LogSettings(url') = TabSettings(pane', url')
    BY <1>2, <1>L, <2>1 DEF ClickLevel
  <2>4. /\ timers' \subseteq [id : TimerIds, req : Requests, delay : Delays]
        /\ clickInterval' \in TimerIds
        /\ SingleTimer'
        /\ PollsCurrentView'
    BY <1>0, <1>2, <1>L, <2>1, <2>2, <2>3, RestartKeepsTimerInv
       DEF ClickLevel, SetIntervalForTab
  <2>5. inflight' \subseteq Requests
    BY <1>0, <1>2, <1>L, <2>1 DEF ClickLevel, SetIntervalForTab, Send, TypeOK
  <2>6. QED
    BY <1>0, <1>2, <2>1, <2>4, <2>5 DEF ClickLevel, TypeOK
<1>3. ASSUME NEW f \in LogFiles, ChangeFile(f) PROVE Inv'
  <2>1. url' \in LogUrls
    BY <1>0, <1>3 DEF ChangeFile, TypeOK, LogUrls
  <2>2. ToMs(interval) \in Delays
    BY <1>0, DelaysType DEF TypeOK
  <2>3. LogSettings(url') = TabSettings(pane', url')
    BY <1>3, <1>L, <2>1 DEF ChangeFile
  <2>4. /\ timers' \subseteq [id : TimerIds, req : Requests, delay : Delays]
        /\ clickInterval' \in TimerIds
        /\ SingleTimer'
        /\ PollsCurrentView'
    BY <1>0, <1>3, <1>L, <2>1, <2>2, <2>3, RestartKeepsTimerInv
       DEF ChangeFile, SetIntervalForTab
  <2>5. inflight' \subseteq Requests
    BY <1>0, <1>3, <1>L, <2>1 DEF ChangeFile, SetIntervalForTab, Send, TypeOK
  <2>6. QED
    BY <1>0, <1>3, <2>1, <2>4, <2>5 DEF ChangeFile, TypeOK
<1>4. ASSUME NEW n \in LogLengths, KeyupLength(n) PROVE Inv'
  <2>1. url' \in LogUrls
    BY <1>0, <1>4 DEF KeyupLength, TypeOK, LogUrls
  <2>2. ToMs(interval) \in Delays
    BY <1>0, DelaysType DEF TypeOK
  <2>3. LogSettings(url') = TabSettings(pane', url')
    BY <1>4, <1>L, <2>1 DEF KeyupLength
  <2>4. /\ timers' \subseteq [id : TimerIds, req : Requests, delay : Delays]
        /\ clickInterval' \in TimerIds
        /\ SingleTimer'
        /\ PollsCurrentView'
    BY <1>0, <1>4, <1>L, <2>1, <2>2, <2>3, RestartKeepsTimerInv
       DEF KeyupLength, SetIntervalForTab
  <2>5. inflight' \subseteq Requests
    BY <1>0, <1>4, <1>L, <2>1 DEF KeyupLength, SetIntervalForTab, Send, TypeOK
  <2>6. QED
    BY <1>0, <1>4, <2>1, <2>4, <2>5 DEF KeyupLength, TypeOK
<1>5. ASSUME StartRefresh PROVE Inv'
  <2>1. url \in LogUrls
    BY <1>0 DEF TypeOK
  <2>2. ToMs(interval) \in Delays
    BY <1>0, DelaysType DEF TypeOK
  <2>3. LogSettings(url) = TabSettings(pane', url')
    BY <1>5, <1>L, <2>1 DEF StartRefresh, logVars
  <2>4. /\ timers' \subseteq [id : TimerIds, req : Requests, delay : Delays]
        /\ clickInterval' \in TimerIds
        /\ SingleTimer'
        /\ PollsCurrentView'
    BY <1>0, <1>5, <1>L, <2>1, <2>2, <2>3, RestartKeepsTimerInv
       DEF StartRefresh, SetIntervalForTab
  <2>5. inflight' \subseteq Requests
    BY <1>0, <1>5, <1>L, <2>1 DEF StartRefresh, SetIntervalForTab, Send, TypeOK
  <2>6. QED
    BY <1>0, <1>5, <2>4, <2>5 DEF StartRefresh, TypeOK, logVars
<1>6. ASSUME StopRefresh PROVE Inv'
  <2>1. timers' = {}
    BY <1>0, <1>6, ClearAll DEF StopRefresh
  <2>2. QED
    BY <1>0, <1>6, <2>1, Zenon DEF StopRefresh, TypeOK, SingleTimer, PollsCurrentView, logVars
<1>7. ASSUME NEW v \in IntervalInputs, EditInterval(v) PROVE Inv'
  BY <1>0, <1>7 DEF EditInterval, TypeOK, SingleTimer, PollsCurrentView, logVars
<1>8. ASSUME NEW tm \in timers, IntervalFires(tm) PROVE Inv'
  <2>1. tm.req \in Requests
    BY <1>0 DEF TypeOK
  <2>2. QED
    BY <1>0, <1>8, <2>1 DEF IntervalFires, Send, TypeOK, SingleTimer,
       PollsCurrentView, logVars
<1>9. ASSUME NEW r \in inflight, Receive(r) PROVE Inv'
  <2>1. r \in Requests
    BY <1>0 DEF TypeOK
  <2>2. logView' \in LogUrls \cup {NoLog}
    <3>1. CASE r.success = "Logs.refresh"
      BY <1>9, <2>1, <3>1, LogRequestsCarryLogUrls DEF Receive, RenderLog
    <3>2. CASE r.success # "Logs.refresh"
      BY <1>0, <1>9, <3>2 DEF Receive, RenderLog, TypeOK
    <3>3. QED
      BY <3>1, <3>2
  <2>3. QED
    BY <1>0, <1>9, <2>2 DEF Receive, BindLevelButtons, BindFileSelect, TypeOK,
       SingleTimer, PollsCurrentView, logVars
<1>10. ASSUME NEW r \in inflight, Fail(r) PROVE Inv'
  BY <1>0, <1>10 DEF Fail, TypeOK, SingleTimer, PollsCurrentView, logVars
<1>11. CASE UNCHANGED vars
  BY <1>0, <1>11 DEF vars, TypeOK, SingleTimer, PollsCurrentView
<1>12. QED
  BY <1>1, <1>2, <1>3, <1>4, <1>5, <1>6, <1>7, <1>8, <1>9, <1>10, <1>11 DEF Next

(* The page never runs two polling intervals, and the one it runs fetches  *)
(* what the visible pane shows under the current log filter: SingleTimer,  *)
(* PollsCurrentView and TypeOK hold in every reachable state.             *)
THEOREM PollingInvariant == Spec => [](TypeOK /\ SingleTimer /\ PollsCurrentView)
BY InitInv, NextInv, PTL DEF Spec, Inv

(* Type correctness of the scheduler state.                               *)
THEOREM TypeCorrect == Spec => []TypeOK
BY PollingInvariant, PTL

(* No tab click, filter change or refresh toggle leaves a second interval  *)
(* armed, for any number of tabs, levels, files and handles.              *)
THEOREM NoLeakedInterval == Spec => []SingleTimer
BY PollingInvariant, PTL

-----------------------------------------------------------------------------
(* The poll is dropped only by the refresh toggle.  This invariant is      *)
(* inductive on its own: every handler but Stop refresh either arms an     *)
(* interval or leaves the intervals, the pane and the toggle alone.        *)

\* setInterval always leaves an armed interval behind
LEMMA ArmLeavesOne ==
    ASSUME NEW live, NEW s, NEW d, Arm(live, s, d)
    PROVE  timers' # {}
BY Zenon DEF Arm

LEMMA NextStopsOnlyOnRequest ==
    PollStopsOnlyOnRequest /\ [Next]_vars => PollStopsOnlyOnRequest'
<1> SUFFICES ASSUME PollStopsOnlyOnRequest, [Next]_vars PROVE PollStopsOnlyOnRequest'
  OBVIOUS
\* the handlers that restart the poll
<1>1. ASSUME \/ \E t \in Tabs : ClickTab(t)
             \/ \E l \in LogLevels : ClickLevel(l)
             \/ \E f \in LogFiles : ChangeFile(f)
             \/ \E n \in LogLengths : KeyupLength(n)
             \/ StartRefresh
      PROVE  PollStopsOnlyOnRequest'
  <2>1. \E live, s, d : Arm(live, s, d)
    BY <1>1, Zenon DEF ClickTab, ClickLevel, ChangeFile, KeyupLength, StartRefresh,
       SetIntervalForTab
  <2>2. QED
    BY <2>1, ArmLeavesOne DEF PollStopsOnlyOnRequest
<1>2. CASE StopRefresh
  BY <1>2 DEF StopRefresh, PollStopsOnlyOnRequest
\* the steps that leave the intervals, the pane and the toggle alone
<1>3. ASSUME \/ \E v \in IntervalInputs : EditInterval(v)
             \/ \E tm \in timers : IntervalFires(tm)
             \/ \E r \in inflight : Receive(r)
             \/ \E r \in inflight : Fail(r)
             \/ UNCHANGED vars
      PROVE  PollStopsOnlyOnRequest'
  <2>1. UNCHANGED <<timers, pane, refreshActive>>
    BY <1>3 DEF EditInterval, IntervalFires, Receive, Fail, vars
  <2>2. QED
    BY <2>1 DEF PollStopsOnlyOnRequest
<1>4. QED
  BY <1>1, <1>2, <1>3 DEF Next

(* Spec 4.2: no failed or timed-out request, and no handler other than     *)
(* the log's Stop refresh button, ever leaves the page without an armed    *)
(* poll, for every set of tabs, filters, interval values and handles.      *)
THEOREM PollNeverDropped == Spec => []PollStopsOnlyOnRequest
<1>1. Init => PollStopsOnlyOnRequest
  <2> SUFFICES ASSUME Init PROVE timers # {}
    BY DEF PollStopsOnlyOnRequest
  <2>1. PICK h \in TimerIds :
          timers = {[id |-> h, req |-> TabSettings("main", InitialUrl), delay |-> 2000]}
    BY DEF Init
  <2>2. [id |-> h, req |-> TabSettings("main", InitialUrl), delay |-> 2000] \in timers
    BY <2>1
  <2>3. QED
    BY <2>2
<1>2. QED
  BY <1>1, NextStopsOnlyOnRequest, PTL DEF Spec

=============================================================================
