CONSTANTS
    TopicNames <- MCTopicNamesColumn
    Subscribers <- MCSubscribers
    Lower <- MCLower
    SelectorSafe <- MCSelectorSafe
    PageIds <- MCPageIds
    ColumnIds <- MCColumnIds
    RowIds <- MCRowIds
    MaxRefreshes <- MCMaxRefreshes
    None = None
SPECIFICATION Spec
PROPERTY TopicViewSpec
