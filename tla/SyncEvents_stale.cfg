\* Two processes: the cached queue of one of them is stale.
CONSTANTS
    e1 = e1
    e2 = e2
    e3 = e3
    r1 = r1
    r2 = r2
    app = app
    ext = ext
    None = None
    Processes = {app, ext}
    Records = {r1, r2}
    Events = {e1, e2}
    RecordOf <- MCRecordOfTwo
    Owner <- MCOwnerTwo
    UsedLimit = 3
    MaxCrashes = 0
SPECIFICATION Spec
CHECK_DEADLOCK FALSE
INVARIANTS
    NoEventHandledTwice
