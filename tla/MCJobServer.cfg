SPECIFICATION Spec
CONSTANTS
    MAX_JOBS = 1
    Kind = {"LM", "SYNTH"}
    Polls = 1
    Submits = 3
    NoJob = NoJob
INVARIANTS
    JobsAreAccountedFor
PROPERTIES
    ShutdownIsOrderly
    ImplementsJobTable
CHECK_DEADLOCK FALSE
