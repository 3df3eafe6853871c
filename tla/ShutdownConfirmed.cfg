CONSTANTS
    Undefined = Undefined
    Unserved = Unserved
    MaxPosts <- MCMaxPosts
SPECIFICATION Spec
PROPERTY ShutdownConfirmed
