--------------------------- MODULE SinglePoller ---------------------------
(***************************************************************************)
(* What the page's polling engine promises (spec 4.2, 5): one request      *)
(* definition at most is being polled; starting a poll replaces it and    *)
(* sends it once at once; stopping leaves nothing polled; every other     *)
(* request sent is a tick of the definition polled now; requests settle   *)
(* in any order and are never cancelled.                                  *)
(***************************************************************************)
CONSTANTS
    Defs,     \* request definitions
    NoPoll    \* nothing is being polled

VARIABLES
    active,   \* the definition polled, or NoPoll
    inflight  \* definitions sent whose response has not been handled

Init ==
    /\ active \in Defs \cup {NoPoll}
    /\ inflight \subseteq Defs

\* start(def): replace the poll and send def immediately
Start(d) ==
    /\ active' = d
    /\ inflight' = inflight \cup {d}

\* stop(): cancel the timer, never the requests in flight
Stop ==
    /\ active' = NoPoll
    /\ UNCHANGED inflight

\* the timer of the poll fires
Tick ==
    /\ active # NoPoll
    /\ inflight' = inflight \cup {active}
    /\ UNCHANGED active

\* a response or failure is handled
Settle(r) ==
    /\ r \in inflight
    /\ inflight' = inflight \ {r}
    /\ UNCHANGED active

Next ==
    \/ \E d \in Defs : Start(d)
    \/ Stop
    \/ Tick
    \/ \E r \in inflight : Settle(r)

Spec == Init /\ [][Next]_<<active, inflight>>

=============================================================================
