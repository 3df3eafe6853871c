--------------------------- MODULE MCViewAdapters ---------------------------
EXTENDS ViewAdapters, TLC

\* two topics that differ only in case, a topic named like a template
\* element outside the column, and one named like a subscriber's Delete link
MCTopicNames == {"News", "news", "main", "0"}
\* adds a name that is no valid id selector: '#a.b' means id a, class b
MCTopicNamesUnsafe == {"news", "a.b"}
\* adds a topic named like the tab pane that holds #topics-column
MCTopicNamesColumn == {"news", "sport", "topics"}
\* toLowerCase on the names of the run
MCLower == [n \in TopicNames |-> IF n = "News" THEN "news" ELSE n]
MCSelectorSafe == {"news", "sport", "main", "0", "topics", "topics-column"}
\* the template ids main.js and topics.js use: the main and topics panes
\* (the nav-tab hrefs) and the column the panels are appended to
MCPageIds == {"main", "topics", "topics-column"}
MCColumnIds == {"topics", "topics-column"}
MCRowIds == {"0", "1"}
MCSubscribers == {"s1", "s2"}
MCMaxRefreshes == 3
=============================================================================
