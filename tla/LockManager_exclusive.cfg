SPECIFICATION Spec
CONSTANTS
    app = app
    ext = ext
    None = None
    Processes = {app, ext}
    NumRequests = 3
    OwnerOf <- MCOwner
    Try = {3}
    Expiry = 4
    RenewBelow = 3
    KeepAlive = 2
    Budgets <- MCBudgets
INVARIANTS TypeOK Exclusive
PROPERTIES EventuallyServed ImplementsService
