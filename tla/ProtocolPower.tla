--------------------------- MODULE ProtocolPower ---------------------------
(***************************************************************************)
(* The protocol-power button of the main pane (main.js) against the       *)
(* backend it drives.  The button decides from cachedProtocolPowerStatus   *)
(* whether to ask "Are you sure you want to shut down the protocol         *)
(* servers?" before it POSTs main/protocols/power, and that cache is only  *)
(* written by the main pane's poll response.                               *)
(*                                                                         *)
(* The backend serves each request at some moment between send and        *)
(* response, and the browser delivers the responses in any order.  The    *)
(* armed interval is abstracted to whether the main pane is shown: by      *)
(* PollScheduler's PollsCurrentView the interval then polls main/get/all.  *)
(***************************************************************************)
EXTENDS Naturals

CONSTANTS
    Undefined,   \* the value of an unassigned JavaScript variable
    Unserved,    \* a main/get/all request the backend has not handled yet
    MaxPosts     \* bound on the power POSTs in flight of each kind

ASSUME MaxPostsAssumption == MaxPosts \in Nat \ {0}
ASSUME ValuesAssumption == Undefined \notin BOOLEAN

VARIABLES
    power,                      \* backend: the protocol servers are running
    cachedProtocolPowerStatus,  \* main.js: last protocolPower seen
    pane,                       \* "main" or "other": the pane shown
    gets,                       \* main/get/all in flight: Unserved or the response
    posts                       \* power POSTs in flight, by whether confirmed

vars == <<power, cachedProtocolPowerStatus, pane, gets, posts>>

Panes == {"main", "other"}

\* the part of a main/get/all response this module reads
Responses == [protocolPower : BOOLEAN]

-----------------------------------------------------------------------------
(* Mutant of refresh.                                                      *)

\* the assignment to cachedProtocolPowerStatus is lost
RefreshNoCache(r) ==
    /\ r \in gets \cap Responses
    /\ gets' = gets \ {r}
    /\ UNCHANGED <<power, cachedProtocolPowerStatus, pane, posts>>

-----------------------------------------------------------------------------

\* Main.init: the 2 s main poll is armed without an immediate request and
\* the button is bound; the protocol servers are up or down at page load.
Init ==
    /\ power \in BOOLEAN
    /\ cachedProtocolPowerStatus = Undefined
    /\ pane = "main"
    /\ gets = {}
    /\ posts = [c \in BOOLEAN |-> 0]

\* the main poll fires: ajax({url: 'main/get/all', success: refresh})
Tick ==
    /\ pane = "main"
    /\ gets' = gets \cup {Unserved}
    /\ UNCHANGED <<power, cachedProtocolPowerStatus, pane, posts>>

\* a nav-tab click: the main tab restarts the main poll with one immediate
\* request, any other tab replaces it
SwitchTab(p) ==
    /\ pane' = p
    /\ gets' = IF p = "main" THEN gets \cup {Unserved} ELSE gets
    /\ UNCHANGED <<power, cachedProtocolPowerStatus, posts>>

\* backend: main/get/all reports protocolPower as it is now
ServeGet ==
    /\ Unserved \in gets
    /\ gets' = (gets \ {Unserved}) \cup {[protocolPower |-> power]}
    /\ UNCHANGED <<power, cachedProtocolPowerStatus, pane, posts>>

\* refresh(response): cachedProtocolPowerStatus = response.protocolPower,
\* then updateProtocolPowerButton relabels the button from it
Refresh(r) ==
    /\ r \in gets \cap Responses
    /\ gets' = gets \ {r}
    /\ cachedProtocolPowerStatus' = r.protocolPower
    /\ UNCHANGED <<power, pane, posts>>

\* the main poll's request fails: the global error handler only logs
GetFails(x) ==
    /\ x \in gets
    /\ gets' = gets \ {x}
    /\ UNCHANGED <<power, cachedProtocolPowerStatus, pane, posts>>

\* #protocol-power-button clicked: if the cache says running the user is
\* asked and may cancel (no request) or confirm; otherwise the POST goes
\* out at once
ClickPower(confirmed) ==
    /\ pane = "main"
    /\ confirmed = (cachedProtocolPowerStatus = TRUE)
    /\ posts[confirmed] < MaxPosts
    /\ posts' = [posts EXCEPT ![confirmed] = @ + 1]
    /\ UNCHANGED <<power, cachedProtocolPowerStatus, pane, gets>>

\* backend: main/protocols/power toggles the protocol servers
ServePost(c) ==
    /\ posts[c] > 0
    /\ posts' = [posts EXCEPT ![c] = @ - 1]
    /\ power' = ~power
    /\ UNCHANGED <<cachedProtocolPowerStatus, pane, gets>>

\* the power POST fails: displayMessage and the error handler, no toggle
PostFails(c) ==
    /\ posts[c] > 0
    /\ posts' = [posts EXCEPT ![c] = @ - 1]
    /\ UNCHANGED <<power, cachedProtocolPowerStatus, pane, gets>>

Next ==
    \/ Tick
    \/ \E p \in Panes : SwitchTab(p)
    \/ ServeGet
    \/ \E r \in Responses : Refresh(r)
    \/ \E x \in gets : GetFails(x)
    \/ \E c \in BOOLEAN : ClickPower(c)
    \/ \E c \in BOOLEAN : ServePost(c)
    \/ \E c \in BOOLEAN : PostFails(c)

Spec == Init /\ [][Next]_vars

(* The interval keeps firing while the main pane is shown; the backend    *)
(* does not fail every one of the requests the poll repeats, and a        *)
(* response it keeps producing is eventually delivered; the user owes     *)
(* nothing.                                                               *)
FairSpec ==
    /\ Spec
    /\ WF_vars(Tick)
    /\ SF_vars(ServeGet)
    /\ \A r \in Responses : SF_vars(Refresh(r))

-----------------------------------------------------------------------------
(* Properties.                                                             *)

TypeOK ==
    /\ power \in BOOLEAN
    /\ cachedProtocolPowerStatus \in BOOLEAN \cup {Undefined}
    /\ pane \in Panes
    /\ gets \subseteq Responses \cup {Unserved}
    /\ posts \in [BOOLEAN -> 0..MaxPosts]

NoPendingPosts == posts[TRUE] = 0 /\ posts[FALSE] = 0

(* Once the user leaves the button alone on the main pane, the button     *)
(* eventually shows the servers' real state for good, although responses  *)
(* served before the last toggle may still arrive and relabel it wrongly. *)
StatusConverges ==
    <>[](pane = "main" /\ NoPendingPosts) => <>[](cachedProtocolPowerStatus = power)

(* The shutdown prompt of bindButtons: the running protocol servers are   *)
(* only ever stopped by a POST the user confirmed in the dialog.          *)
ShutdownConfirmed ==
    [][power /\ ~power' => posts'[TRUE] = posts[TRUE] - 1]_vars

=============================================================================
