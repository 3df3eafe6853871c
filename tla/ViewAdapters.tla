--------------------------- MODULE ViewAdapters ---------------------------
(***************************************************************************)
(* The Topics view adapter (topics.js), which keeps one panel per topic   *)
(* and binds the delete buttons, with what Main.ajax makes of the         *)
(* requests the buttons pass it.  Config's buttons are never bound on     *)
(* this page: the ready handler of main.js throws at Topics.init(), which *)
(* topics.js does not define, before it reaches Config.init().            *)
(*                                                                         *)
(* Topics.refresh is the success callback of the topics poll and runs     *)
(* whenever a topic/get/all response arrives, on time or late, so         *)
(* responses and the user's clicks interleave freely.  A response is one  *)
(* topic with the subscriber rows the backend reports at that moment.     *)
(* jQuery's .on('click') adds a handler to every element matching the     *)
(* selector when it runs, and a click runs every handler its element has; *)
(* a click on an element with no handler does nothing.                    *)
(*                                                                         *)
(* $('#' + name) searches the whole page by id: besides the panels it can *)
(* find an element of the page template, or a subscriber's Delete link    *)
(* (<a id=i>, i its index in the response).  Which of several elements    *)
(* with one id comes first in the document is left open.                  *)
(***************************************************************************)
EXTENDS Naturals

CONSTANTS
    TopicNames,     \* topicName values the backend can report
    Subscribers,    \* subscriber rows a topic can list
    Lower,          \* String.prototype.toLowerCase on TopicNames
    SelectorSafe,   \* lower-cased names that $('#' + name) finds by id
    PageIds,        \* ids of the page template's elements
    ColumnIds,      \* those of #topics-column and the elements containing it
    RowIds,         \* ids a subscriber's Delete link can have: "0", "1", ...
    MaxRefreshes,   \* bound on the Topics.refresh calls of a behaviour
    None            \* no click yet

ASSUME RefreshAssumption == MaxRefreshes \in Nat
ASSUME LowerAssumption == Lower \in [TopicNames -> STRING]
ASSUME PageAssumption == ColumnIds \subseteq PageIds

VARIABLES
    panels,     \* the .panel elements in #topics-column
    binds,      \* bindButtons calls so far (one per Topics.refresh)
    lastClick   \* what the latest button click handed to the transport

vars == <<panels, binds, lastClick>>

\* panel ids (the lower-cased topic names)
Keys == {Lower[n] : n \in TopicNames}

(* A panel: `el` tells elements apart (the refresh that created it), `key` *)
(* is its id, `subs` its rows, `since` the binds count when its tbody,     *)
(* which holds every delete button of the panel, was last written.         *)
Panel == [el : 0..MaxRefreshes, key : Keys, subs : SUBSET Subscribers,
          since : 0..MaxRefreshes]

\* panel p after its tbody is written anew with rows S: new, unbound buttons
Rewritten(p, S) == [el |-> p.el, key |-> p.key, subs |-> S, since |-> binds]

\* panel p without the row of subscriber s: its other buttons are untouched
WithoutRow(p, s) == [el |-> p.el, key |-> p.key, subs |-> p.subs \ {s}, since |-> p.since]

\* click handlers on the panel's buttons: one per bindButtons since its tbody was written
Handlers(p) == binds - p.since

\* createPanel(response): a panel with id k and rows S, appended to #topics-column
NewPanel(k, S) == [el |-> binds, key |-> k, subs |-> S, since |-> binds]

(* What $('#' + k) finds.  A name with a selector character finds no     *)
(* element by id; a template id always finds its element; a panel id     *)
(* finds its panel, unless a Delete link with that id comes first.        *)

\* the panel p
FoundPanel(k, p) == k \in SelectorSafe \ PageIds /\ p.key = k

\* #topics-column or an element containing it
FoundColumn(k) == k \in SelectorSafe \cap ColumnIds

\* another template element, or a subscriber's Delete link
FoundElsewhere(k) ==
    /\ k \in SelectorSafe
    /\ \/ k \in PageIds \ ColumnIds
       \/ k \in RowIds /\ \E q \in panels : q.subs # {}

\* nothing (a Delete link with a row id may be gone with its row)
NotFound(k) ==
    \/ k \notin SelectorSafe
    \/ k \notin PageIds /\ \A p \in panels : p.key # k

-----------------------------------------------------------------------------
(* The transport: Main.ajax(settings) reads settings.url and settings.type. *)
(* A JavaScript value is a record of its properties, a string argument     *)
(* [string |-> s] having neither url nor type.                             *)

\* BASE_URL + settings.url, and settings.type with jQuery's default GET
Ajax(settings) ==
    [url  |-> IF "url" \in DOMAIN settings THEN settings.url ELSE "undefined",
     type |-> IF "type" \in DOMAIN settings THEN settings.type ELSE "GET"]

\* Main.ajax("...", undefined, undefined, "POST"): only the first argument is read
Positional(path) == Ajax([string |-> path])

\* the click ran n handlers, each sending request r
Clicked(r, n) == lastClick' = [req |-> r, copies |-> n]

-----------------------------------------------------------------------------
(* Mutant of Topics.refresh.                                               *)

\* createPanel without the existence check
RefreshAlwaysCreate(n, S) ==
    /\ binds < MaxRefreshes
    /\ panels' = panels \cup {NewPanel(Lower[n], S)}
    /\ binds' = binds + 1
    /\ UNCHANGED lastClick

\* updatePanel on every tbody of the column instead of the one found by id
RefreshEveryBody(n, S) ==
    LET k == Lower[n] IN
    /\ binds < MaxRefreshes
    /\ \/ (\E p \in panels : FoundPanel(k, p)) /\ panels' = {Rewritten(q, S) : q \in panels}
       \/ FoundColumn(k) /\ panels' = {Rewritten(q, S) : q \in panels}
       \/ FoundElsewhere(k) /\ UNCHANGED panels
       \/ NotFound(k) /\ panels' = panels \cup {NewPanel(k, S)}
    /\ binds' = binds + 1
    /\ UNCHANGED lastClick

-----------------------------------------------------------------------------

\* $(document).ready: the topics column is empty and no button is bound
Init ==
    /\ panels = {}
    /\ binds = 0
    /\ lastClick = None

\* Topics.refresh(response): look '#' + the lower-cased name up; create a
\* panel if nothing is found, else rewrite every tbody under what was
\* found; then bindButtons
Refresh(n, S) ==
    LET k == Lower[n] IN
    /\ binds < MaxRefreshes
    /\ \/ \E p \in panels : FoundPanel(k, p) /\ panels' = (panels \ {p}) \cup {Rewritten(p, S)}
       \/ FoundColumn(k) /\ panels' = {Rewritten(q, S) : q \in panels}
       \/ FoundElsewhere(k) /\ UNCHANGED panels
       \/ NotFound(k) /\ panels' = panels \cup {NewPanel(k, S)}
    /\ binds' = binds + 1
    /\ UNCHANGED lastClick

\* a panel's "Delete all" button: the topic delete command, then the panel is removed
ClickDeleteTopic(p) ==
    /\ p \in panels /\ Handlers(p) > 0
    /\ Clicked(Positional("topics/delete/testTopic"), Handlers(p))
    /\ panels' = panels \ {p}
    /\ UNCHANGED binds

\* a row's "Delete" button: the subscriber delete command, then the row is removed
ClickDeleteSubscriber(p, s) ==
    /\ p \in panels /\ s \in p.subs /\ Handlers(p) > 0
    /\ Clicked(Positional("topics/delete/subscriber/subTest"), Handlers(p))
    /\ panels' = (panels \ {p}) \cup {WithoutRow(p, s)}
    /\ UNCHANGED binds

\* #delete-all-topics, a static element bound by every bindButtons
ClickDeleteAllTopics ==
    /\ binds > 0
    /\ Clicked(Positional("topics/delete/all"), binds)
    /\ panels' = {}
    /\ UNCHANGED binds

Next ==
    \/ \E n \in TopicNames, S \in SUBSET Subscribers : Refresh(n, S)
    \/ \E p \in panels : ClickDeleteTopic(p)
    \/ \E p \in panels, s \in Subscribers : ClickDeleteSubscriber(p, s)
    \/ ClickDeleteAllTopics

Spec == Init /\ [][Next]_vars

-----------------------------------------------------------------------------
(* The topics column as the entries it shows: the rows of the panel found  *)
(* for each key.  TopicView states what the adapter promises of them.     *)

\* the panel with id k
PanelOf(k) == CHOOSE p \in panels : p.key = k

\* the entries shown, keyed by panel id
Shown == [k \in {p.key : p \in panels} |-> PanelOf(k).subs]

View == INSTANCE TopicView WITH Rows <- Subscribers, view <- Shown

(* Spec 4.4: every topic response creates the panel of its topic once and *)
(* afterwards only replaces its rows in place, and every delete click     *)
(* removes exactly the panel, the row or the panels it is about: each     *)
(* step of Topics.refresh and of the delete handlers is a step of         *)
(* TopicView on the entries shown, or leaves them unchanged.              *)
TopicViewSpec == View!Spec

-----------------------------------------------------------------------------
(* Properties.                                                             *)

\* what BASE_URL is followed by in a request a button can cause
Urls == {"undefined", "topics/delete/testTopic", "topics/delete/subscriber/subTest",
         "topics/delete/all"}

Requests == [url : Urls, type : {"GET", "POST"}]

TypeOK ==
    /\ panels \subseteq Panel
    /\ binds \in 0..MaxRefreshes
    /\ lastClick \in {None} \cup [req : Requests, copies : Nat]

(* Spec 4.4 and 8: applying topic payloads, the same one again included,  *)
(* leaves at most one panel per normalised topic name; Topics.refresh     *)
(* must find the panel it created on every later response.                *)
PanelPerKey == \A p, q \in panels : p.key = q.key => p = q

(* One click on a delete button issues one command: bindButtons *)
(* runs on every poll response, and the comment at topics.js 82 says the  *)
(* buttons must be unbound between bindings.                              *)
OneRequestPerClick == lastClick # None => lastClick.copies <= 1

(* Spec 6: the delete buttons call POST command endpoints.               *)
CommandsArePosts == lastClick # None => lastClick.req.type = "POST"

=============================================================================
