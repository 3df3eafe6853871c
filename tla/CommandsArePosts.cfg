CONSTANTS
    TopicNames <- MCTopicNames
    Subscribers <- MCSubscribers
    Lower <- MCLower
    SelectorSafe <- MCSelectorSafe
    PageIds <- MCPageIds
    ColumnIds <- MCColumnIds
    RowIds <- MCRowIds
    MaxRefreshes <- MCMaxRefreshes
    None = None
SPECIFICATION Spec
INVARIANT CommandsArePosts
