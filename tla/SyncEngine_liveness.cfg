\* A download and the deletion of a local copy, with a crash.
CONSTANTS
    a1 = a1
    a2 = a2
    a3 = a3
    p = p
    px = px
    q = q
    root = root
    actions = actions
    transfers = transfers
    Tags <- MCTags
    Root = root
    Prefix <- MCPrefix
    Actions = {a1, a2}
    ClassOf <- MCDownloadLocal
    TagsOf <- MCFolderTwice
    CategoriesOf <- MCCategoriesOf
    Categories <- MCCategories
    Budget <- MCNoBudget
    MaximumSyncLanes = 0
    MaxAttempts = 2
    MaxCrashes = 1
    MaxOffline = 0
SPECIFICATION FairSpec
CHECK_DEADLOCK FALSE
PROPERTIES
    EventuallyFinished
    LanesRemoved
