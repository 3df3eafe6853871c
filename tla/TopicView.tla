---------------------------- MODULE TopicView ----------------------------
(***************************************************************************)
(* What the Topics view adapter promises (spec 4.4, 8): the topics column *)
(* shows at most one entry per normalised topic name.  Applying a topic   *)
(* payload creates that entry once and afterwards only replaces its rows  *)
(* in place; the delete commands remove one entry, one row of one entry,  *)
(* or every entry.  No step touches an entry it is not about.             *)
(***************************************************************************)
CONSTANTS
    Keys,   \* normalised topic names
    Rows    \* subscriber rows an entry can list

VARIABLE
    view    \* the entries shown: a function from the keys shown to their rows

\* view with entry k set to rows S, created if it is not shown
Upsert(k, S) ==
    [x \in DOMAIN view \cup {k} |-> IF x = k THEN S ELSE view[x]]

\* view without entry k
Drop(k) ==
    [x \in DOMAIN view \ {k} |-> view[x]]

Init == view = [x \in {} |-> {}]

\* a topic payload for k with rows S is applied
Apply(k, S) ==
    view' = Upsert(k, S)

\* the entry of k is removed
Remove(k) ==
    /\ k \in DOMAIN view
    /\ view' = Drop(k)

\* row s of entry k is removed
RemoveRow(k, s) ==
    /\ k \in DOMAIN view
    /\ s \in view[k]
    /\ view' = Upsert(k, view[k] \ {s})

\* every entry is removed
Clear ==
    view' = [x \in {} |-> {}]

Next ==
    \/ \E k \in Keys, S \in SUBSET Rows : Apply(k, S)
    \/ \E k \in DOMAIN view : Remove(k)
    \/ \E k \in DOMAIN view, s \in Rows : RemoveRow(k, s)
    \/ Clear

Spec == Init /\ [][Next]_view

=============================================================================
