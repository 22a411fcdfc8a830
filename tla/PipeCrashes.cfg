\* One terminal and the service, either of which may crash at any step.
CONSTANTS
    Clients = {a}
    NoClient = nobody
    MaxJobs = 2
    Shapes = {"plain", "cycles"}
    Plain = "plain"
    CanCrash = {a, "service"}
SPECIFICATION Spec
INVARIANTS StreamInSync MetadataFits AnswersAreRead
