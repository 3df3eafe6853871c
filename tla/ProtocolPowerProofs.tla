----------------------- MODULE ProtocolPowerProofs -----------------------
(* Type correctness of the protocol-power model, for every MaxPosts.       *)
EXTENDS ProtocolPower, TLAPS

\* Overwriting one POST counter with a value in range keeps the counters typed.
LEMMA CounterUpdate ==
    ASSUME NEW f \in [BOOLEAN -> 0..MaxPosts], NEW c \in BOOLEAN, NEW v \in 0..MaxPosts
    PROVE  [f EXCEPT ![c] = v] \in [BOOLEAN -> 0..MaxPosts]
OBVIOUS

LEMMA InitTypeOK == Init => TypeOK
<1> SUFFICES ASSUME Init PROVE TypeOK
  OBVIOUS
<1>1. [c \in BOOLEAN |-> 0] \in [BOOLEAN -> 0..MaxPosts]
  BY MaxPostsAssumption
<1>2. /\ power \in BOOLEAN
      /\ cachedProtocolPowerStatus = Undefined
      /\ pane = "main"
      /\ gets = {}
      /\ posts = [c \in BOOLEAN |-> 0]
  BY DEF Init
<1>3. QED
  BY <1>1, <1>2 DEF TypeOK, Panes

LEMMA NextTypeOK == TypeOK /\ [Next]_vars => TypeOK'
<1> SUFFICES ASSUME TypeOK, [Next]_vars PROVE TypeOK'
  OBVIOUS
<1>1. CASE Tick
  BY <1>1 DEF Tick, TypeOK
<1>2. ASSUME NEW p \in Panes, SwitchTab(p) PROVE TypeOK'
  BY <1>2 DEF SwitchTab, TypeOK
<1>3. CASE ServeGet
  BY <1>3 DEF ServeGet, TypeOK, Responses
<1>4. ASSUME NEW r \in Responses, Refresh(r) PROVE TypeOK'
  BY <1>4 DEF Refresh, TypeOK, Responses
<1>5. ASSUME NEW x \in gets, GetFails(x) PROVE TypeOK'
  BY <1>5 DEF GetFails, TypeOK
<1>6. ASSUME NEW c \in BOOLEAN, ClickPower(c) PROVE TypeOK'
  <2>0. /\ posts[c] \in 0..MaxPosts
        /\ posts[c] < MaxPosts
    BY <1>6, Zenon DEF ClickPower, TypeOK
  <2>1. posts[c] + 1 \in 0..MaxPosts
    BY <2>0, MaxPostsAssumption
  <2>2. posts' = [posts EXCEPT ![c] = posts[c] + 1]
    BY <1>6 DEF ClickPower
  <2>3. posts' \in [BOOLEAN -> 0..MaxPosts]
    BY <2>1, <2>2, CounterUpdate DEF TypeOK
  <2>4. QED
    BY <1>6, <2>3 DEF ClickPower, TypeOK
<1>7. ASSUME NEW c \in BOOLEAN, ServePost(c) PROVE TypeOK'
  <2>0. /\ posts[c] \in 0..MaxPosts
        /\ posts[c] > 0
    BY <1>7 DEF ServePost, TypeOK
  <2>1. posts[c] - 1 \in 0..MaxPosts
    BY <2>0, MaxPostsAssumption
  <2>2. posts' = [posts EXCEPT ![c] = posts[c] - 1]
    BY <1>7 DEF ServePost
  <2>3. posts' \in [BOOLEAN -> 0..MaxPosts]
    BY <2>1, <2>2, CounterUpdate DEF TypeOK
  <2>4. QED
    BY <1>7, <2>3 DEF ServePost, TypeOK
<1>8. ASSUME NEW c \in BOOLEAN, PostFails(c) PROVE TypeOK'
  <2>0. /\ posts[c] \in 0..MaxPosts
        /\ posts[c] > 0
    BY <1>8 DEF PostFails, TypeOK
  <2>1. posts[c] - 1 \in 0..MaxPosts
    BY <2>0, MaxPostsAssumption
  <2>2. posts' = [posts EXCEPT ![c] = posts[c] - 1]
    BY <1>8 DEF PostFails
  <2>3. posts' \in [BOOLEAN -> 0..MaxPosts]
    BY <2>1, <2>2, CounterUpdate DEF TypeOK
  <2>4. QED
    BY <1>8, <2>3 DEF PostFails, TypeOK
<1>9. CASE UNCHANGED vars
  BY <1>9 DEF vars, TypeOK
<1>10. QED
  BY <1>1, <1>2, <1>3, <1>4, <1>5, <1>6, <1>7, <1>8, <1>9 DEF Next

(* The button's cache only ever holds undefined or a protocolPower value   *)
(* the backend reported, and the POST counters stay within their bound.    *)
THEOREM PowerTypeCorrect == Spec => []TypeOK
BY InitTypeOK, NextTypeOK, PTL DEF Spec

=============================================================================
