--------------------- MODULE PollSchedulerRefinement ---------------------
(***************************************************************************)
(* Proof that PollScheduler implements SinglePoller under the mapping      *)
(* active <- PolledDef.  The mapping takes the request of "the" armed      *)
(* interval, so it is meaningful only because SingleTimer holds: every    *)
(* step is simulated under the invariant Inv of PollSchedulerProofs.     *)
(***************************************************************************)
EXTENDS PollSchedulerProofs

\* the abstract variables
abs == <<PolledDef, inflight>>

\* choosing from a singleton
LEMMA ChooseOne ==
    ASSUME NEW S, NEW x, S = {x}
    PROVE  (CHOOSE y \in S : TRUE) = x
OBVIOUS

\* the definition polled when exactly one interval is armed
LEMMA PolledOfOne ==
    ASSUME NEW tm, timers = {tm}
    PROVE  PolledDef = tm.req
<1>1. (CHOOSE y \in timers : TRUE) = tm
  BY ChooseOne
<1>2. QED
  BY <1>1 DEF PolledDef

\* a step that leaves the intervals alone leaves the definition polled alone
LEMMA PolledUnchanged ==
    ASSUME timers' = timers
    PROVE  PolledDef' = PolledDef
BY DEF PolledDef

\* a restart makes its settings object the definition polled
LEMMA PolledAfterRestart ==
    ASSUME SingleTimer, NEW s, NEW d, Arm(Clear(clickInterval), s, d)
    PROVE  PolledDef' = s
<1> DEFINE new == [id |-> clickInterval', req |-> s, delay |-> d]
<1>1. timers' = {new}
  BY RestartArmsOne
<1>2. (CHOOSE y \in timers' : TRUE) = new
  BY <1>1, ChooseOne
<1>3. QED
  BY <1>1, <1>2 DEF PolledDef

\* a restart with settings s and one immediate ajax(s) is a Start of the contract
LEMMA RestartIsStart ==
    ASSUME SingleTimer, NEW s \in Requests, NEW d,
           Arm(Clear(clickInterval), s, d), Send(s)
    PROVE  Poller!Start(s)
BY PolledAfterRestart DEF Send, Poller!Start

LEMMA InitRefines == Init => Poller!Init
<1> SUFFICES ASSUME Init PROVE Poller!Init
  OBVIOUS
<1>1. PICK h \in TimerIds :
        timers = {[id |-> h, req |-> TabSettings("main", InitialUrl), delay |-> 2000]}
  BY DEF Init
<1>2. PolledDef = TabSettings("main", InitialUrl)
  <2> DEFINE main == [id |-> h, req |-> TabSettings("main", InitialUrl), delay |-> 2000]
  <2>1. timers = {main}
    BY <1>1
  <2>2. (CHOOSE y \in timers : TRUE) = main
    BY <2>1, ChooseOne
  <2>3. QED
    BY <2>1, <2>2 DEF PolledDef
<1>3. InitialUrl \in LogUrls
  BY DEF LogUrls
<1>4. TabSettings("main", InitialUrl) \in Requests
  BY <1>3, TabsAssumption, TabSettingsType
<1>5. inflight = {LevelsRequest, FilesRequest}
  BY DEF Init
<1>6. QED
  BY <1>2, <1>4, <1>5 DEF Poller!Init, Requests

LEMMA StepRefines == Inv /\ [Next]_vars => [Poller!Next]_abs
<1> SUFFICES ASSUME Inv, [Next]_vars PROVE [Poller!Next]_abs
  OBVIOUS
<1>0. TypeOK /\ SingleTimer
  BY DEF Inv
\* a restart from a log control is a Start of the new log settings
<1>L. ASSUME NEW u \in LogUrls, SetIntervalForTab(LogSettings(u))
      PROVE  Poller!Next
  <2>1. LogSettings(u) \in Requests
    BY TabSettingsType, TabsAssumption, Zenon DEF TabSettings
  <2>2. Poller!Start(LogSettings(u))
    BY <1>0, <1>L, <2>1, RestartIsStart DEF SetIntervalForTab
  <2>3. QED
    BY <2>1, <2>2 DEF Poller!Next
<1>1. ASSUME NEW t \in Tabs, ClickTab(t) PROVE Poller!Next
  <2>1. TabSettings(t, url) \in Requests
    BY <1>0, TabSettingsType DEF TypeOK
  <2>2. Poller!Start(TabSettings(t, url))
    BY <1>0, <1>1, <2>1, RestartIsStart DEF ClickTab
  <2>3. QED
    BY <2>1, <2>2 DEF Poller!Next
<1>2. ASSUME NEW l \in LogLevels, ClickLevel(l) PROVE Poller!Next
  <2>1. url' \in LogUrls
    BY <1>0, <1>2 DEF ClickLevel, TypeOK, LogUrls
  <2>2. QED
    BY <1>2, <2>1, <1>L DEF ClickLevel
<1>3. ASSUME NEW f \in LogFiles, ChangeFile(f) PROVE Poller!Next
  <2>1. url' \in LogUrls
    BY <1>0, <1>3 DEF ChangeFile, TypeOK, LogUrls
  <2>2. QED
    BY <1>3, <2>1, <1>L DEF ChangeFile
<1>4. ASSUME NEW n \in LogLengths, KeyupLength(n) PROVE Poller!Next
  <2>1. url' \in LogUrls
    BY <1>0, <1>4 DEF KeyupLength, TypeOK, LogUrls
  <2>2. QED
    BY <1>4, <2>1, <1>L DEF KeyupLength
<1>5. ASSUME StartRefresh PROVE Poller!Next
  <2>1. url \in LogUrls
    BY <1>0 DEF TypeOK
  <2>2. QED
    BY <1>5, <2>1, <1>L DEF StartRefresh
<1>6. ASSUME StopRefresh PROVE Poller!Next
  <2>1. timers' = {}
    BY <1>0, <1>6, ClearAll DEF StopRefresh
  <2>2. PolledDef' = NoPoll
    BY <2>1 DEF PolledDef
  <2>3. Poller!Stop
    BY <1>6, <2>2 DEF StopRefresh, Poller!Stop
  <2>4. QED
    BY <2>3 DEF Poller!Next
<1>7. ASSUME NEW v \in IntervalInputs, EditInterval(v) PROVE UNCHANGED abs
  BY <1>7, PolledUnchanged DEF EditInterval, abs
<1>8. ASSUME NEW tm \in timers, IntervalFires(tm) PROVE Poller!Next
  <2>1. timers = {tm}
    BY <1>0 DEF SingleTimer
  <2>2. PolledDef = tm.req /\ PolledDef' = PolledDef
    BY <1>8, <2>1, PolledOfOne, PolledUnchanged DEF IntervalFires
  <2>3. tm.req \in Requests
    BY <1>0 DEF TypeOK
  <2>4. PolledDef # NoPoll
    BY <2>2, <2>3, NoPollAssumption
  <2>5. Poller!Tick
    BY <1>8, <2>2, <2>4 DEF IntervalFires, Send, Poller!Tick
  <2>6. QED
    BY <2>5 DEF Poller!Next
<1>9. ASSUME NEW r \in inflight, Receive(r) PROVE Poller!Next
  <2>1. Poller!Settle(r)
    BY <1>9, PolledUnchanged DEF Receive, Poller!Settle
  <2>2. QED
    BY <2>1 DEF Poller!Next
<1>10. ASSUME NEW r \in inflight, Fail(r) PROVE Poller!Next
  <2>1. Poller!Settle(r)
    BY <1>10, PolledUnchanged DEF Fail, Poller!Settle
  <2>2. QED
    BY <2>1 DEF Poller!Next
<1>11. CASE UNCHANGED vars
  BY <1>11, PolledUnchanged DEF vars, abs
<1>12. QED
  BY <1>1, <1>2, <1>3, <1>4, <1>5, <1>6, <1>7, <1>8, <1>9, <1>10, <1>11 DEF Next, abs

(* Spec 4.2 and 5: the page's polling implements the single-poller        *)
(* contract: each tab click, log filter change and refresh toggle        *)
(* replaces the one poll and sends its request at once, a stop leaves     *)
(* nothing polled, and every other request is a tick of the current poll *)
(* or a response being handled.                                           *)
THEOREM Refinement == Spec => PollerSpec
<1>1. Spec => []Inv
  BY PollingInvariant DEF Inv
<1>2. QED
  BY <1>1, InitRefines, StepRefines, PTL DEF Spec, PollerSpec, Poller!Spec, abs

=============================================================================
