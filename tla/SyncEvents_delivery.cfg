\* One process, two records, three events, two crashes.
CONSTANTS
    e1 = e1
    e2 = e2
    e3 = e3
    r1 = r1
    r2 = r2
    app = app
    ext = ext
    None = None
    Processes = {app}
    Records = {r1, r2}
    Events = {e1, e2, e3}
    RecordOf <- MCRecordOf
    Owner <- MCOwnerOne
    UsedLimit = 3
    MaxCrashes = 2
SPECIFICATION Spec
CHECK_DEADLOCK FALSE
INVARIANTS
    TypeOK
    NoEventLost
PROPERTIES
    DeliverySpec
