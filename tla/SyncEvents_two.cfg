\* Two processes that share the journal and a record with two events, one crash.
CONSTANTS
    e1 = e1
    e2 = e2
    e3 = e3
    r1 = r1
    r2 = r2
    app = app
    ext = ext
    None = None
    Processes = {app, ext}
    Records = {r1}
    Events = {e1, e2}
    RecordOf <- MCRecordOfOne
    Owner <- MCOwnerSmall
    UsedLimit = 3
    MaxCrashes = 1
SPECIFICATION FairSpec
CHECK_DEADLOCK FALSE
INVARIANTS
    NoEventLost
PROPERTIES
    EventuallyHandled
