------------------------ MODULE ViewAdaptersProofs ------------------------
(***************************************************************************)
(* Proofs about the Topics panels.  When every lower-cased topic name is  *)
(* a valid id selector, Topics.refresh always finds the panel it created, *)
(* so no interleaving of poll responses and delete clicks ever shows two  *)
(* panels for one topic key.                                               *)
(***************************************************************************)
EXTENDS ViewAdapters, TLAPS

\* no panel's buttons were bound before its tbody was written
SinceBound == \A p \in panels : p.since <= binds

Inv == TypeOK /\ SinceBound /\ PanelPerKey

\* a positional call of Main.ajax is a GET of /api/undefined
LEMMA PositionalIsUndefinedGet ==
    ASSUME NEW path
    PROVE  Positional(path) = [url |-> "undefined", type |-> "GET"]
<1>1. DOMAIN [string |-> path] = {"string"}
  OBVIOUS
<1>2. "url" \notin {"string"} /\ "type" \notin {"string"}
  OBVIOUS
<1>3. QED
  BY <1>1, <1>2 DEF Positional, Ajax

LEMMA PositionalType ==
    ASSUME NEW path
    PROVE  Positional(path) \in Requests
<1>1. "undefined" \in Urls /\ "GET" \in {"GET", "POST"}
  BY DEF Urls
<1>2. QED
  BY <1>1, PositionalIsUndefinedGet DEF Requests

LEMMA InitInv == Init => Inv
BY RefreshAssumption DEF Init, Inv, TypeOK, SinceBound, PanelPerKey

\* a step keeps the types and the handler counts; no assumption on the names is needed
LEMMA NextTypeOK == TypeOK /\ SinceBound /\ [Next]_vars => TypeOK' /\ SinceBound'
<1> SUFFICES ASSUME TypeOK, SinceBound, [Next]_vars PROVE TypeOK' /\ SinceBound'
  OBVIOUS
<1> USE RefreshAssumption
<1>0. \A p \in panels : Handlers(p) \in Nat
  BY DEF TypeOK, SinceBound, Panel, Handlers
<1>1. ASSUME NEW n \in TopicNames, NEW S \in SUBSET Subscribers, Refresh(n, S)
      PROVE  TypeOK' /\ SinceBound'
  <2> DEFINE k == Lower[n]
  <2>1. /\ binds \in 0..(MaxRefreshes - 1)
        /\ binds' = binds + 1
        /\ lastClick' = lastClick
        /\ k \in Keys
    BY <1>1 DEF Refresh, TypeOK, Keys
  <2>2. NewPanel(k, S) \in Panel
    BY <2>1 DEF Panel, NewPanel
  <2>3. \A p \in panels : Rewritten(p, S) \in Panel /\ Rewritten(p, S).since = binds
    BY <2>1 DEF TypeOK, Panel, Rewritten
  <2>4. \A p \in panels : p \in Panel /\ p.since <= binds
    BY DEF TypeOK, SinceBound
  <2>6. panels' \subseteq Panel /\ \A p \in panels' : p.since <= binds
    <3>1. CASE \E p \in panels : FoundPanel(k, p) /\ panels' = (panels \ {p}) \cup {Rewritten(p, S)}
      BY <3>1, <2>1, <2>3, <2>4
    <3>2. CASE FoundColumn(k) /\ panels' = {Rewritten(q, S) : q \in panels}
      BY <3>2, <2>1, <2>3
    <3>3. CASE FoundElsewhere(k) /\ UNCHANGED panels
      BY <3>3, <2>4
    <3>4. CASE NotFound(k) /\ panels' = panels \cup {NewPanel(k, S)}
      BY <3>4, <2>1, <2>2, <2>4 DEF NewPanel
    <3>5. QED
      BY <1>1, <3>1, <3>2, <3>3, <3>4 DEF Refresh
  <2>7. binds' \in 0..MaxRefreshes /\ \A p \in panels' : p.since <= binds'
    BY <2>1, <2>6 DEF Panel
  <2>8. lastClick' \in {None} \cup [req : Requests, copies : Nat]
    BY <2>1 DEF TypeOK
  <2>5. QED
    BY <2>6, <2>7, <2>8 DEF TypeOK, SinceBound
<1>2. ASSUME NEW p \in panels, ClickDeleteTopic(p) PROVE TypeOK' /\ SinceBound'
  BY <1>0, <1>2, PositionalType DEF ClickDeleteTopic, Clicked, TypeOK, SinceBound
<1>3. ASSUME NEW p \in panels, NEW s \in Subscribers, ClickDeleteSubscriber(p, s)
      PROVE  TypeOK' /\ SinceBound'
  <2>1. WithoutRow(p, s) \in Panel /\ WithoutRow(p, s).since = p.since
    BY DEF TypeOK, Panel, WithoutRow
  <2>2. QED
    BY <1>0, <1>3, <2>1, PositionalType DEF ClickDeleteSubscriber, Clicked, TypeOK, SinceBound
<1>4. CASE ClickDeleteAllTopics
  BY <1>4, PositionalType DEF ClickDeleteAllTopics, Clicked, TypeOK, SinceBound
<1>6. CASE UNCHANGED vars
  BY <1>6 DEF vars, TypeOK, SinceBound
<1>7. QED
  BY <1>1, <1>2, <1>3, <1>4, <1>6 DEF Next

\* with selector-safe keys a step keeps one panel per key
LEMMA NextPanelPerKey ==
    ASSUME Keys \subseteq SelectorSafe
    PROVE  Inv /\ [Next]_vars => PanelPerKey'
<1> SUFFICES ASSUME Inv, [Next]_vars PROVE PanelPerKey'
  OBVIOUS
<1>1. ASSUME NEW n \in TopicNames, NEW S \in SUBSET Subscribers, Refresh(n, S)
      PROVE  PanelPerKey'
  <2> DEFINE k == Lower[n]
  <2>1. k \in SelectorSafe
    BY DEF Keys
  <2>2. CASE \E p \in panels : FoundPanel(k, p) /\ panels' = (panels \ {p}) \cup {Rewritten(p, S)}
    <3>1. PICK p \in panels :
            /\ p.key = k
            /\ panels' = (panels \ {p}) \cup {Rewritten(p, S)}
      BY <2>2 DEF FoundPanel
    <3>2. \A q \in panels \ {p} : q.key # k
      BY <3>1 DEF Inv, PanelPerKey
    <3>3. Rewritten(p, S).key = k
      BY <3>1 DEF Rewritten
    <3>4. QED
      BY <3>1, <3>2, <3>3 DEF Inv, PanelPerKey
  <2>3. CASE FoundColumn(k) /\ panels' = {Rewritten(q, S) : q \in panels}
    <3>1. \A q \in panels : Rewritten(q, S).key = q.key
      BY DEF Rewritten
    <3>2. \A q1, q2 \in panels : q1.key = q2.key => Rewritten(q1, S) = Rewritten(q2, S)
      BY DEF Inv, PanelPerKey
    <3>3. QED
      BY <2>3, <3>1, <3>2 DEF PanelPerKey
  <2>4. CASE FoundElsewhere(k) /\ UNCHANGED panels
    BY <2>4 DEF Inv, PanelPerKey
  <2>5. CASE NotFound(k) /\ panels' = panels \cup {NewPanel(k, S)}
    <3>1. \A p \in panels : p.key # k
      BY <2>1, <2>5 DEF NotFound
    <3>2. NewPanel(k, S).key = k
      BY DEF NewPanel
    <3>3. QED
      BY <2>5, <3>1, <3>2 DEF Inv, PanelPerKey
  <2>6. QED
    BY <1>1, <2>2, <2>3, <2>4, <2>5 DEF Refresh
<1>2. ASSUME NEW p \in panels, ClickDeleteTopic(p) PROVE PanelPerKey'
  BY <1>2 DEF ClickDeleteTopic, Inv, PanelPerKey
<1>3. ASSUME NEW p \in panels, NEW s \in Subscribers, ClickDeleteSubscriber(p, s)
      PROVE  PanelPerKey'
  <2>1. WithoutRow(p, s).key = p.key
    BY DEF WithoutRow
  <2>2. \A q \in panels \ {p} : q.key # p.key
    BY DEF Inv, PanelPerKey
  <2>3. panels' = (panels \ {p}) \cup {WithoutRow(p, s)}
    BY <1>3 DEF ClickDeleteSubscriber
  <2>4. ASSUME NEW q1 \in panels', NEW q2 \in panels', q1.key = q2.key PROVE q1 = q2
    <3>1. CASE q1 = WithoutRow(p, s) /\ q2 = WithoutRow(p, s)
      BY <3>1
    <3>2. CASE q1 = WithoutRow(p, s) /\ q2 # WithoutRow(p, s)
      BY <3>2, <2>1, <2>2, <2>3, <2>4
    <3>3. CASE q1 # WithoutRow(p, s) /\ q2 = WithoutRow(p, s)
      BY <3>3, <2>1, <2>2, <2>3, <2>4
    <3>4. CASE q1 # WithoutRow(p, s) /\ q2 # WithoutRow(p, s)
      BY <3>4, <2>3, <2>4 DEF Inv, PanelPerKey
    <3>5. QED
      BY <3>1, <3>2, <3>3, <3>4
  <2>5. QED
    BY <2>4 DEF PanelPerKey
<1>4. CASE ClickDeleteAllTopics
  BY <1>4 DEF ClickDeleteAllTopics, PanelPerKey
<1>6. CASE UNCHANGED vars
  BY <1>6 DEF vars, Inv, PanelPerKey
<1>7. QED
  BY <1>1, <1>2, <1>3, <1>4, <1>6 DEF Next

-----------------------------------------------------------------------------
(* The refinement of TopicView.                                            *)

\* the entries a set of panels shows, as Shown computes them
ShownOf(P) == [k \in {p.key : p \in P} |-> (CHOOSE q \in P : q.key = k).subs]

\* no two panels of P share a key
UniqueKeys(P) == \A p, q \in P : p.key = q.key => p = q

LEMMA ShownIsShownOf == Shown = ShownOf(panels) /\ Shown' = ShownOf(panels')
BY DEF Shown, ShownOf, PanelOf

\* with unique keys, the entries shown are the function from each panel's key to its rows
LEMMA ShownOfChar ==
    ASSUME NEW P, NEW f, UniqueKeys(P),
           f = [x \in DOMAIN f |-> f[x]],
           DOMAIN f = {p.key : p \in P},
           \A p \in P : f[p.key] = p.subs
    PROVE  ShownOf(P) = f
<1>1. ASSUME NEW k \in DOMAIN f PROVE (CHOOSE q \in P : q.key = k).subs = f[k]
  <2>1. PICK p \in P : p.key = k
    OBVIOUS
  <2>2. (CHOOSE q \in P : q.key = k) = p
    BY <2>1 DEF UniqueKeys
  <2>3. QED
    BY <2>1, <2>2
<1>2. QED
  BY <1>1 DEF ShownOf

\* the entry of a panel, with unique keys
LEMMA ShownOfAt ==
    ASSUME NEW P, UniqueKeys(P), NEW p \in P
    PROVE  /\ DOMAIN ShownOf(P) = {q.key : q \in P}
           /\ ShownOf(P)[p.key] = p.subs
<1>1. (CHOOSE q \in P : q.key = p.key) = p
  BY DEF UniqueKeys
<1>2. QED
  BY <1>1 DEF ShownOf

\* panels P2 are panels P with the one of key0 set to rows0, or added with them
Upserted(P, P2, key0, rows0) ==
    /\ UniqueKeys(P) /\ UniqueKeys(P2)
    /\ {q.key : q \in P2} = {q.key : q \in P} \cup {key0}
    /\ \A q \in P2 : q.key = key0 => q.subs = rows0
    /\ \A q \in P2 : q.key # key0 => q \in P

LEMMA UpsertDomain ==
    ASSUME NEW P, NEW P2, NEW key0, NEW rows0, Upserted(P, P2, key0, rows0)
    PROVE  DOMAIN ShownOf(P2) = DOMAIN ShownOf(P) \cup {key0}
BY DEF Upserted, ShownOf

LEMMA UpsertAt ==
    ASSUME NEW P, NEW P2, NEW key0, NEW rows0, Upserted(P, P2, key0, rows0)
    PROVE  ShownOf(P2)[key0] = rows0
<1>1. PICK q \in P2 : q.key = key0
  BY DEF Upserted
<1>2. QED
  BY <1>1, ShownOfAt, Zenon DEF Upserted

LEMMA UpsertElsewhere ==
    ASSUME NEW P, NEW P2, NEW key0, NEW rows0, Upserted(P, P2, key0, rows0)
    PROVE  \A x \in DOMAIN ShownOf(P) \ {key0} : ShownOf(P2)[x] = ShownOf(P)[x]
<1> SUFFICES ASSUME NEW x \in DOMAIN ShownOf(P) \ {key0} PROVE ShownOf(P2)[x] = ShownOf(P)[x]
  OBVIOUS
<1>1. PICK q \in P2 : q.key = x
  BY DEF Upserted, ShownOf
<1>2. q \in P /\ UniqueKeys(P) /\ UniqueKeys(P2)
  BY <1>1 DEF Upserted
<1>3. QED
  BY <1>1, <1>2, ShownOfAt, Zenon

\* ShownOf always builds a function
LEMMA ShownOfIsFunction ==
    ASSUME NEW P
    PROVE  ShownOf(P) = [x \in DOMAIN ShownOf(P) |-> ShownOf(P)[x]]
BY DEF ShownOf

\* removing panel p of P drops the entry of its key
LEMMA ShownOfDrop ==
    ASSUME NEW P, UniqueKeys(P), NEW p \in P
    PROVE  ShownOf(P \ {p}) = [x \in DOMAIN ShownOf(P) \ {p.key} |-> ShownOf(P)[x]]
<1> DEFINE f == [x \in DOMAIN ShownOf(P) \ {p.key} |-> ShownOf(P)[x]]
<1>1. DOMAIN ShownOf(P) = {q.key : q \in P}
  BY DEF ShownOf
<1>2. \A q \in P \ {p} : q.key # p.key
  BY DEF UniqueKeys
<1>3. DOMAIN f = {q.key : q \in P \ {p}}
  BY <1>1, <1>2
<1>4. UniqueKeys(P \ {p})
  BY DEF UniqueKeys
<1>5. \A q \in P \ {p} : f[q.key] = q.subs
  BY <1>1, <1>2, ShownOfAt, Zenon
<1>6. QED
  BY <1>3, <1>4, <1>5, ShownOfChar

(* Spec 4.4: when every lower-cased topic name is a valid id selector,    *)
(* Topics.refresh never appends a second panel for a topic, whatever the  *)
(* order of poll responses and delete clicks.                             *)
THEOREM PanelsIdempotent ==
    ASSUME Keys \subseteq SelectorSafe
    PROVE  Spec => []PanelPerKey
<1>1. Init => Inv
  BY InitInv
<1>2. Inv /\ [Next]_vars => Inv'
  BY NextTypeOK, NextPanelPerKey DEF Inv
<1>3. Inv => PanelPerKey
  BY DEF Inv
<1>4. QED
  BY <1>1, <1>2, <1>3, PTL DEF Spec

(* Topics and Config state keeps its types in every reachable state.      *)
THEOREM AdaptersTypeCorrect == Spec => []TypeOK
<1>1. Init => TypeOK /\ SinceBound
  BY InitInv DEF Inv
<1>2. QED
  BY <1>1, NextTypeOK, PTL DEF Spec

\* the empty column shows no entries
LEMMA InitRefinesView == Init => View!Init
<1> SUFFICES ASSUME Init PROVE Shown = [x \in {} |-> {}]
  BY DEF View!Init
<1>1. UniqueKeys(panels) /\ {q.key : q \in panels} = {}
  BY DEF Init, UniqueKeys
<1>2. /\ [x \in {} |-> {}] = [y \in DOMAIN [x \in {} |-> {}] |-> [x \in {} |-> {}][y]]
      /\ DOMAIN [x \in {} |-> {}] = {q.key : q \in panels}
  BY <1>1
<1>3. ShownOf(panels) = [x \in {} |-> {}]
  BY <1>1, <1>2, ShownOfChar, Zenon
<1>4. QED
  BY <1>3, ShownIsShownOf

\* with selector-safe keys that name no ancestor of the panels, every step
\* of the adapter is a TopicView step on the entries shown, or leaves them
LEMMA StepRefinesView ==
    ASSUME Keys \subseteq SelectorSafe, Keys \cap ColumnIds = {}
    PROVE  Inv /\ [Next]_vars => [View!Next]_Shown
<1> SUFFICES ASSUME Inv, [Next]_vars PROVE [View!Next]_Shown
  OBVIOUS
<1>0. /\ UniqueKeys(panels) /\ UniqueKeys(panels')
      /\ Shown = ShownOf(panels) /\ Shown' = ShownOf(panels')
      /\ panels \subseteq Panel
  BY NextPanelPerKey, ShownIsShownOf DEF Inv, PanelPerKey, UniqueKeys, TypeOK
<1>1. ASSUME NEW n \in TopicNames, NEW S \in SUBSET Subscribers, Refresh(n, S)
      PROVE  [View!Next]_Shown
  <2> DEFINE k == Lower[n]
  <2>1. k \in Keys /\ k \in SelectorSafe /\ k \notin ColumnIds
    BY DEF Keys
  <2>7. CASE FoundElsewhere(k) /\ UNCHANGED panels
    BY <2>7, <1>0
  <2>8. CASE FoundColumn(k) /\ panels' = {Rewritten(q, S) : q \in panels}
    BY <2>8, <2>1 DEF FoundColumn
  <2>2. ASSUME \/ \E p \in panels : FoundPanel(k, p) /\ panels' = (panels \ {p}) \cup {Rewritten(p, S)}
               \/ NotFound(k) /\ panels' = panels \cup {NewPanel(k, S)}
        PROVE  /\ {q.key : q \in panels'} = {q.key : q \in panels} \cup {k}
               /\ \A q \in panels' : q.key = k => q.subs = S
               /\ \A q \in panels' : q.key # k => q \in panels
    <3>1. CASE \E p \in panels : FoundPanel(k, p) /\ panels' = (panels \ {p}) \cup {Rewritten(p, S)}
      <4>1. PICK p \in panels : p.key = k /\ panels' = (panels \ {p}) \cup {Rewritten(p, S)}
        BY <3>1 DEF FoundPanel
      <4>2. Rewritten(p, S).key = k /\ Rewritten(p, S).subs = S
        BY <4>1 DEF Rewritten
      <4>3. \A q \in panels \ {p} : q.key # k
        BY <1>0, <4>1 DEF UniqueKeys
      <4>4. QED
        BY <4>1, <4>2, <4>3
    <3>2. CASE NotFound(k) /\ panels' = panels \cup {NewPanel(k, S)}
      <4>0. \A p \in panels : p.key # k
        BY <3>2, <2>1 DEF NotFound
      <4>1. panels' = panels \cup {NewPanel(k, S)} /\ NewPanel(k, S).key = k
            /\ NewPanel(k, S).subs = S
        BY <3>2 DEF NewPanel
      <4>2. {q.key : q \in panels'} = {q.key : q \in panels} \cup {k}
        BY <4>1, Zenon
      <4>3. \A q \in panels' : q.key = k => q.subs = S
        BY <4>0, <4>1
      <4>4. \A q \in panels' : q.key # k => q \in panels
        BY <4>1
      <4>5. QED
        BY <4>2, <4>3, <4>4
    <3>3. QED
      BY <2>2, <3>1, <3>2
  <2>9. CASE \/ \E p \in panels : FoundPanel(k, p) /\ panels' = (panels \ {p}) \cup {Rewritten(p, S)}
             \/ NotFound(k) /\ panels' = panels \cup {NewPanel(k, S)}
    <3>3. Upserted(panels, panels', k, S)
      BY <1>0, <2>2, <2>9 DEF Upserted
    <3>6. /\ DOMAIN ShownOf(panels') = DOMAIN ShownOf(panels) \cup {k}
          /\ ShownOf(panels')[k] = S
          /\ \A x \in DOMAIN ShownOf(panels) \ {k} : ShownOf(panels')[x] = ShownOf(panels)[x]
      <4>1. DOMAIN ShownOf(panels') = DOMAIN ShownOf(panels) \cup {k}
        BY <3>3, UpsertDomain, Zenon
      <4>2. ShownOf(panels')[k] = S
        BY <3>3, UpsertAt
      <4>3. \A x \in DOMAIN ShownOf(panels) \ {k} : ShownOf(panels')[x] = ShownOf(panels)[x]
        BY <3>3, UpsertElsewhere
      <4>4. QED
        BY <4>1, <4>2, <4>3
    <3>5. View!Apply(k, S)
      BY <1>0, <3>6, ShownOfIsFunction DEF View!Apply, View!Upsert
    <3>4. QED
      BY <2>1, <3>5 DEF View!Next
  <2>10. QED
    BY <1>1, <2>7, <2>8, <2>9 DEF Refresh
<1>2. ASSUME NEW p \in panels, ClickDeleteTopic(p) PROVE View!Next
  <2>1. panels' = panels \ {p}
    BY <1>2 DEF ClickDeleteTopic
  <2>2. p.key \in DOMAIN Shown
    BY <1>0, ShownOfAt, Zenon
  <2>3. View!Remove(p.key)
    BY <1>0, <2>1, <2>2, ShownOfDrop DEF View!Remove, View!Drop
  <2>4. QED
    BY <2>2, <2>3 DEF View!Next
<1>3. ASSUME NEW p \in panels, NEW s \in Subscribers, ClickDeleteSubscriber(p, s)
      PROVE  View!Next
  <2> DEFINE k == p.key
  <2>1. panels' = (panels \ {p}) \cup {WithoutRow(p, s)} /\ s \in p.subs
    BY <1>3 DEF ClickDeleteSubscriber
  <2>2. WithoutRow(p, s).key = k /\ WithoutRow(p, s).subs = p.subs \ {s}
    BY DEF WithoutRow
  <2>3. \A q \in panels \ {p} : q.key # k
    BY <1>0 DEF UniqueKeys
  <2>4. k \in DOMAIN Shown /\ Shown[k] = p.subs
    BY <1>0, ShownOfAt, Zenon
  <2>5. Shown' = [x \in DOMAIN Shown \cup {k} |-> IF x = k THEN Shown[k] \ {s} ELSE Shown[x]]
    <3>1. {q.key : q \in panels'} = {q.key : q \in panels} \cup {k}
      BY <2>1, <2>2
    <3>2. \A q \in panels' : q.key = k => q.subs = Shown[k] \ {s}
      BY <2>1, <2>2, <2>3, <2>4
    <3>3. \A q \in panels' : q.key # k => q \in panels
      BY <2>1, <2>2
    <3>4. Upserted(panels, panels', k, Shown[k] \ {s})
      BY <1>0, <3>1, <3>2, <3>3 DEF Upserted
    <3>6. /\ DOMAIN ShownOf(panels') = DOMAIN ShownOf(panels) \cup {k}
          /\ ShownOf(panels')[k] = Shown[k] \ {s}
          /\ \A x \in DOMAIN ShownOf(panels) \ {k} : ShownOf(panels')[x] = ShownOf(panels)[x]
      <4>1. DOMAIN ShownOf(panels') = DOMAIN ShownOf(panels) \cup {k}
        BY <3>4, UpsertDomain, Zenon
      <4>2. ShownOf(panels')[k] = Shown[k] \ {s}
        BY <3>4, UpsertAt
      <4>3. \A x \in DOMAIN ShownOf(panels) \ {k} : ShownOf(panels')[x] = ShownOf(panels)[x]
        BY <3>4, UpsertElsewhere
      <4>4. QED
        BY <4>1, <4>2, <4>3
    <3>5. QED
      BY <1>0, <3>6, ShownOfIsFunction
  <2>6. View!RemoveRow(k, s)
    BY <2>1, <2>4, <2>5 DEF View!RemoveRow, View!Upsert
  <2>7. QED
    BY <2>4, <2>6 DEF View!Next
<1>4. CASE ClickDeleteAllTopics
  <2>1. panels' = {}
    BY <1>4 DEF ClickDeleteAllTopics
  <2>2. /\ UniqueKeys({})
        /\ [x \in {} |-> {}] = [y \in DOMAIN [x \in {} |-> {}] |-> [x \in {} |-> {}][y]]
        /\ DOMAIN [x \in {} |-> {}] = {q.key : q \in {}}
    BY DEF UniqueKeys
  <2>3. ShownOf({}) = [x \in {} |-> {}]
    BY <2>2, ShownOfChar, Zenon
  <2>4. Shown' = [x \in {} |-> {}]
    BY <1>0, <2>1, <2>3
  <2>5. QED
    BY <2>4 DEF View!Next, View!Clear
<1>6. CASE UNCHANGED vars
  BY <1>6, <1>0 DEF vars
<1>7. QED
  BY <1>1, <1>2, <1>3, <1>4, <1>6 DEF Next

(* Spec 4.4: when every lower-cased topic name is a valid id selector    *)
(* and none is the id of #topics-column or of an element containing it,   *)
(* the Topics adapter implements TopicView: each topic response creates   *)
(* its panel once and then only replaces that panel's rows (or, when the  *)
(* name is the id of another element of the page, changes nothing), and   *)
(* each delete click removes exactly the panel, the row or the panels it  *)
(* is about, whatever the interleaving of responses and clicks.  The run  *)
(* topic_named_like_column shows the second condition cannot be dropped.  *)
THEOREM TopicsRefinement ==
    ASSUME Keys \subseteq SelectorSafe, Keys \cap ColumnIds = {}
    PROVE  Spec => TopicViewSpec
<1>1. Init => Inv
  BY InitInv
<1>2. Inv /\ [Next]_vars => Inv'
  BY NextTypeOK, NextPanelPerKey DEF Inv
<1>3. Inv /\ [Next]_vars => [View!Next]_Shown
  BY StepRefinesView
<1>4. QED
  BY <1>1, <1>2, <1>3, InitRefinesView, PTL DEF Spec, TopicViewSpec, View!Spec

=============================================================================
