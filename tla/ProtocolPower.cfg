CONSTANTS
    Undefined = Undefined
    Unserved = Unserved
    MaxPosts <- MCMaxPosts
SPECIFICATION FairSpec
PROPERTY StatusConverges
