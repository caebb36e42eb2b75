\* Two files, one of them new or changed, an action of either process, a failure.
SPECIFICATION Spec
CONSTANTS
    app = app
    ext = ext
    x = x
    y = y
    None = None
    Processes = {app, ext}
    Scanners = {app}
    Files = {x, y}
    Slots = 2
    Initially = {x}
    Budget <- MCBudget
INVARIANTS TypeOK PendingKept QueryShowsCache
PROPERTIES CatchesUp
CHECK_DEADLOCK FALSE
