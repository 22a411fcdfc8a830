\* The hub over several starts, with jobs that fail, on an engine in a service
\* that may die.
CONSTANTS
    MaxJobs = 3
    JobsFail = TRUE
    Remote = TRUE
SPECIFICATION Spec
INVARIANTS HubKnowsItsJobs
PROPERTIES ReadyIsPublished
