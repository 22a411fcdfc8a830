\* Two terminals share the one instance of the pipe; one of them, and the service, may crash.
CONSTANTS
    Clients = {a, b}
    NoClient = nobody
    MaxJobs = 1
    Shapes = {"cycles"}
    Plain = "plain"
    CanCrash = {a, "service"}
SPECIFICATION Spec
PROPERTIES ConnectedCallsReturn ServiceIsReachableAgain
