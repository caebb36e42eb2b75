\* One file: a merge put off meets another read of the cache.
SPECIFICATION Spec
CONSTANTS
    app = app
    ext = ext
    x = x
    y = y
    None = None
    Processes = {app, ext}
    Scanners = {app}
    Files = {x}
    Slots = 2
    Initially = {x}
    Budget <- MCBudgetRinse
PROPERTIES PutOffsEnd
CHECK_DEADLOCK FALSE
