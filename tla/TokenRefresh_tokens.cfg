SPECIFICATION Spec
CONSTANTS
    app = app
    ext = ext
    None = None
    Processes = {app, ext}
    MaxToken = 3
INVARIANTS TypeOK RefusedOnlyIfDisturbed TokenKept
PROPERTIES EveryRefreshEnds
