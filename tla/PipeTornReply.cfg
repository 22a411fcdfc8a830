\* A job without cycle_count is fetched through the pipe: nobody crashes, yet
\* the call never returns.
CONSTANTS
    Clients = {a}
    NoClient = nobody
    MaxJobs = 1
    Shapes = {"plain"}
    Plain = "plain"
    CanCrash = {}
SPECIFICATION Spec
PROPERTIES ConnectedCallsReturn
CHECK_DEADLOCK FALSE
