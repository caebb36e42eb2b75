\* Transfers compete for one slot and one lane, and the connection is lost.
CONSTANTS
    a1 = a1
    a2 = a2
    a3 = a3
    p = p
    px = px
    q = q
    root = root
    actions = actions
    transfers = transfers
    Tags <- MCTags
    Root = root
    Prefix <- MCPrefix
    Actions = {a1, a2, a3}
    ClassOf <- MCFolderUploads
    TagsOf <- MCApart
    CategoriesOf <- MCCategoriesOf
    Categories <- MCCategories
    Budget <- MCOneTransfer
    MaximumSyncLanes = 1
    MaxAttempts = 1
    MaxCrashes = 0
    MaxOffline = 1
SPECIFICATION FairSpec
CHECK_DEADLOCK FALSE
PROPERTIES EventuallyFinished SentWithinBudget
